--------------------------- MODULE Recommendations ---------------------------
(***************************************************************************)
(* What the API makes of the policy engine's findings: one recommendation  *)
(* per vendor (api/lib/autopilot.ts) and the privacy controls a visitor is *)
(* offered (api/lib/rights.ts).                                            *)
(*                                                                         *)
(* A technology is [vendor, category, confidence], a vendor its detector   *)
(* id.  Reasons and evidence are wording and left out.                     *)
(***************************************************************************)
EXTENDS PolicyEngine

(* CATEGORY_MAP.  Any other category is unclassified. *)
Gated == {"analytics", "advertising", "marketing", "social", "personalisation"}
Essential == {"consent_management", "security", "cdn"}
Classified == Gated \cup Essential

PurposeOf(category) ==
    CASE category = "social" -> "social_media"
      [] category \in Essential -> "essential"
      [] category \in Gated \ {"social"} -> category
      [] OTHER -> NoValue

WebsiteOperatorRoles == {"determines_purpose", "service_operator"}

(* Neither caller asserts a condition, knows an age or asks for models. *)
WebsiteContext(jurisdictions, contexts, asOf) ==
    [jurisdictions |-> jurisdictions, actors |-> WebsiteOperatorRoles, asOf |-> asOf,
     purposes |-> {}, dataCategories |-> {}, contexts |-> contexts,
     asserted |-> {}, subjectIsChild |-> NoValue, includeDerived |-> FALSE]

-----------------------------------------------------------------------------
(* The finding for every vendor alike.  A regime that requires consent     *)
(* settles it, whatever the others leave open; "not_required" is never     *)
(* found.                                                                  *)
ConsentRequirement(decision) ==
    IF \E o \in decision.obligations : o[1] = "REQUIRE_CONSENT" THEN "required"
    ELSE IF decision.open \cap {"conditional_consent", "conditional_exemption"} # {}
    THEN "conditional" ELSE "unknown"

(* Mutant: what was not found is taken as not required. *)
ActionForUnknown(requirement, gated) ==
    IF ~gated \/ requirement = "unknown" THEN "allow"
    ELSE IF requirement = "required" THEN "block" ELSE "review"

ActionFor(requirement, gated) ==
    IF ~gated \/ requirement = "not_required" THEN "allow"
    ELSE IF requirement = "required" THEN "block" ELSE "review"

ConfidenceIn(technology, requirement) ==
    IF technology.category \notin Classified THEN "low"
    ELSE IF requirement = "required" /\ technology.confidence = "high" THEN "high"
    ELSE IF technology.confidence = "low" \/ requirement = "unknown" THEN "low" ELSE "medium"

BuildOne(technology, observed, override, requirement) ==
    LET category == technology.category
        overridden == override # {}
        chosen == CHOOSE o \in override : TRUE
    IN [vendor |-> technology.vendor,
        action |-> IF overridden THEN chosen.action
                   ELSE IF category \in Classified
                   THEN ActionFor(requirement, category \in Gated) ELSE "review",
        purpose |-> IF overridden THEN chosen.purpose ELSE PurposeOf(category),
        confidence |-> IF overridden THEN "high" ELSE ConfidenceIn(technology, requirement),
        requirement |-> requirement,
        overridden |-> overridden, observed |-> observed]

(* Mutant: only what the scan saw is listed. *)
UnseenForgotten(overrides, technologies) == {}

(* Overrides of vendors the latest scan did not see are carried forward. *)
Unseen(overrides, technologies) ==
    {[vendor |-> o.vendor, category |-> "unclassified", confidence |-> "low"] :
        o \in {o \in overrides : \A t \in technologies : t.vendor # o.vendor}}

PolicyUnder(decision, technologies, overrides, declared) ==
    LET Line(t, observed) == BuildOne(t, observed, {o \in overrides : o.vendor = t.vendor},
                                      ConsentRequirement(decision))
        lines == {Line(t, TRUE) : t \in technologies}
                 \cup {Line(t, FALSE) : t \in Unseen(overrides, technologies)}
    IN [recommendations |-> lines, open |-> decision.open,
        undeclared |-> {r.purpose : r \in lines} \ (declared \cup {NoValue})]

GeneratePolicy(jurisdictions, rules, technologies, overrides, declared, asOf) ==
    PolicyUnder(Evaluate(WebsiteContext(jurisdictions,
                           {"cookies", "terminal_equipment", "tracking"}, asOf), rules),
                technologies, overrides, declared)

-----------------------------------------------------------------------------
(* availableRights: TOPIC_INDICATES and ALWAYS. *)
Indicates(topic) ==
    CASE topic = "rights" -> {"access", "correction", "deletion", "export", "objection",
                              "restriction", "appeal"}
      [] topic = "withdrawal" -> {"withdraw"}
      [] topic \in {"sale_and_sharing", "opt_out_signals"} -> {"opt_out_sale", "opt_out_sharing"}
      [] topic = "non_discrimination" -> {"non_discrimination"}
      [] topic \in {"accountability", "enforcement"} -> {"complaint"}
      [] OTHER -> {}

Always == {"review", "withdraw"}

(* Mutant: a rule that records an absence counts as well. *)
IndicatingAny(context, rules) == SelectRules(context, rules)

(* "evidence against offering the control" is no indication of it *)
Indicating(context, rules) == {rule \in SelectRules(context, rules) : rule.applies}

AvailableRights(jurisdictions, rules, asOf) ==
    LET context == WebsiteContext(jurisdictions, {}, asOf)
        indicated == UNION {Indicates(rule.topic) : rule \in Indicating(context, rules)}
    IN [indicated |-> indicated \ Always, always |-> Always,
        open |-> Evaluate(context, rules).open]
=============================================================================
