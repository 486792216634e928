---------------------------- MODULE PolicyEngine ----------------------------
(***************************************************************************)
(* The policy engine (policy/): observations resolve to jurisdictions      *)
(* (resolve.ts), jurisdictions and the activity select rules of the matrix *)
(* (rules.ts), and the rules selected give obligations, permissions and    *)
(* open questions, from which one verdict is taken (evaluate.ts,           *)
(* disposition.ts).                                                        *)
(*                                                                         *)
(* All of it is pure.  Rules are a set, the engine sorts them by id;       *)
(* citations, explanations and the versions of the rule sets are left out. *)
(***************************************************************************)
EXTENDS Integers, Sequences, FiniteSets

CONSTANT NoValue   \* a field the record or the context leaves open

(* VERDICT_SEVERITY, from the most restrictive. *)
Severity == <<"BLOCK", "REVIEW", "REQUIRE_CONSENT", "REQUIRE_OPT_OUT",
              "REQUIRE_USER_ACTION", "REQUIRE_NOTICE", "ALLOW">>
Verdict == {Severity[i] : i \in DOMAIN Severity}
Rank(v) == CHOOSE i \in DOMAIN Severity : Severity[i] = v

MostRestrictive(verdicts) ==
    CHOOSE v \in verdicts : \A w \in verdicts : Rank(v) <= Rank(w)

(* TOPIC_DISPOSITION: what a rule of a topic does, and the verdict of one  *)
(* that does something.  Topics that only scope, inform or bind the        *)
(* organisation do nothing.                                                *)
Disposition(topic) ==
    CASE topic \in {"consent", "tracking_and_storage", "direct_marketing"} ->
           [does |-> "gate", verdict |-> "REQUIRE_CONSENT"]
      [] topic = "sale_and_sharing" -> [does |-> "gate", verdict |-> "REQUIRE_OPT_OUT"]
      [] topic = "opt_out_signals" -> [does |-> "obligation", verdict |-> "REQUIRE_OPT_OUT"]
      [] topic \in {"withdrawal", "rights", "non_discrimination"} ->
           [does |-> "obligation", verdict |-> "REQUIRE_USER_ACTION"]
      [] topic = "notice" -> [does |-> "obligation", verdict |-> "REQUIRE_NOTICE"]
      [] topic \in {"lawful_basis", "sensitive_data", "children",
                    "international_transfer", "automated_decision_making"} ->
           [does |-> "conditional", verdict |-> "REVIEW"]
      [] OTHER -> [does |-> "nothing", verdict |-> NoValue]

-----------------------------------------------------------------------------
(* selectRules.  A rule is dropped only on recorded evidence: one that     *)
(* records no actors binds everyone, and an open context narrows nothing.  *)
InForce(rule, asOf) ==
    /\ rule.from # NoValue => asOf >= rule.from
    /\ rule.to # NoValue => asOf <= rule.to

Reaches(recorded, asked) == asked = {} \/ recorded = {} \/ recorded \cap asked # {}

Binds(rule, actors) == rule.actors = {} \/ rule.actors \cap actors # {}

SelectRules(context, rules) ==
    {rule \in rules :
       /\ rule.regions \cap context.jurisdictions # {}
       /\ Binds(rule, context.actors)
       /\ rule.derived => context.includeDerived
       /\ InForce(rule, context.asOf)
       /\ Reaches(rule.purposes, context.purposes)
       /\ Reaches(rule.dataCategories, context.dataCategories)
       /\ Reaches(rule.contexts, context.contexts)}

-----------------------------------------------------------------------------
(* contribute: what one rule adds.  Its own fields come before its topic,  *)
(* and its children's conditions before its consent field.                 *)
Nothing == [obliges |-> {}, permits |-> FALSE, asks |-> {}]
Asks(reason) == [Nothing EXCEPT !.asks = {reason}]
Obliges(verdicts, unmet) ==
    [Nothing EXCEPT !.obliges = verdicts,
                    !.asks = IF unmet = {} THEN {} ELSE {"unevaluated_conditions"}]
And(c, d) == [obliges |-> c.obliges \cup d.obliges, permits |-> c.permits \/ d.permits,
              asks |-> c.asks \cup d.asks]

Conditions(field) == IF field = NoValue THEN {} ELSE field.conditions
Requires(rule, answer) == rule.consent # NoValue /\ rule.consent.required = answer

OfChildren(rule, context) ==
    LET unmet == (Conditions(rule.children) \cup Conditions(rule.consent)) \ context.asserted
        withdrawal == IF rule.consent # NoValue /\ rule.consent.withdrawal
                      THEN {"REQUIRE_USER_ACTION"} ELSE {}
    IN IF context.subjectIsChild = FALSE THEN Nothing
       ELSE IF Requires(rule, "true")
       THEN And(Obliges({"REQUIRE_CONSENT"} \cup withdrawal, unmet), Asks("children"))
       ELSE Asks("children")

Exempts(rule, context) ==
    IF rule.consent.conditions \subseteq context.asserted
    THEN [Nothing EXCEPT !.permits = TRUE]
    ELSE Asks("conditional_exemption")

OfConsent(rule, context) ==
    LET needsWithdrawal == \/ rule.consent.withdrawal
                           \/ Disposition(rule.topic).verdict = "REQUIRE_USER_ACTION"
    IN IF Requires(rule, "true")
       THEN Obliges({"REQUIRE_CONSENT"} \cup
                      (IF needsWithdrawal THEN {"REQUIRE_USER_ACTION"} ELSE {}),
                    rule.consent.conditions \ context.asserted)
       ELSE IF Requires(rule, "conditional") THEN Asks("conditional_consent")
       ELSE Exempts(rule, context)

OfTopic(rule) ==
    LET d == Disposition(rule.topic)
    IN IF d.does \in {"gate", "obligation"} THEN Obliges({d.verdict}, {})
       ELSE IF d.does = "conditional" THEN Asks("unevaluated_conditions") ELSE Nothing

(* consent.required = false says something of a gate and of nothing else. *)
ConsentDecides(rule) ==
    /\ rule.consent # NoValue
    /\ Requires(rule, "false") => Disposition(rule.topic).does = "gate"

Effect(rule, context) ==
    IF rule.children # NoValue THEN OfChildren(rule, context)
    ELSE IF ConsentDecides(rule) THEN OfConsent(rule, context)
    ELSE IF rule.optOut # NoValue
    THEN Obliges({"REQUIRE_OPT_OUT"}, rule.optOut.conditions \ context.asserted)
    ELSE OfTopic(rule)

Contribute(rule, context) ==
    IF ~rule.applies THEN Nothing
    ELSE IF rule.topic = NoValue THEN Asks("unclassified_topic")
    ELSE IF rule.derived THEN And(Asks("derived_authority"), Effect(rule, context))
    ELSE Effect(rule, context)

-----------------------------------------------------------------------------
(* evaluate: the most restrictive of the obligations, REVIEW if anything   *)
(* is open, and ALLOW only where a rule positively permits.                *)
Review(reason) == [outcome |-> "REVIEW", obligations |-> {}, open |-> {reason}, regimes |-> {}]

(* Mutant: silence permits. *)
OutcomeOfSilence(obliges, asks, permitted) ==
    MostRestrictive(obliges \cup {"ALLOW"} \cup (IF asks # {} THEN {"REVIEW"} ELSE {}))

Outcome(obliges, asks, permitted) ==
    LET v == MostRestrictive(obliges \cup {"ALLOW"} \cup
                             (IF asks # {} THEN {"REVIEW"} ELSE {}))
    IN IF v = "ALLOW" /\ ~permitted THEN "REVIEW" ELSE v

(* What the selected rules come to, of giving each one's contribution. *)
Conclude(selected, of) ==
    LET obliges == UNION {of[rule].obliges : rule \in selected}
        asks == UNION {of[rule].asks : rule \in selected}
        outcome == Outcome(obliges, asks, \E rule \in selected : of[rule].permits)
    IN [outcome |-> outcome,
        obligations |-> UNION {{<<v, rule.id>> : v \in of[rule].obliges} : rule \in selected},
        open |-> IF outcome = "REVIEW" /\ asks = {} THEN {"nothing_addressed"} ELSE asks,
        regimes |-> {rule.regime : rule \in selected}]

Evaluate(context, rules) ==
    LET selected == SelectRules(context, rules)
    IN IF context.jurisdictions = {} THEN Review("no_jurisdiction_given")
       ELSE IF selected = {} THEN Review("no_requirements_for_context")
       ELSE Conclude(selected, [rule \in selected |-> Contribute(rule, context)])

-----------------------------------------------------------------------------
(* resolveJurisdictions.  A region is a code, or what normaliseRegion and  *)
(* looksLikeIpAddress refuse; Regions maps codes to jurisdictions.         *)
Confidence == <<"high", "medium", "low">>
Strongest(cs) == Confidence[CHOOSE i \in DOMAIN Confidence :
                              /\ Confidence[i] \in cs
                              /\ \A j \in DOMAIN Confidence : Confidence[j] \in cs => i <= j]

SourceConfidence(source) ==
    CASE source = "ip_geolocation" -> "medium"
      [] source = "request_context" -> "low"
      [] OTHER -> "high"

JurisdictionsForRegion(region, regions) ==
    IF region \in DOMAIN regions THEN regions[region] ELSE {}

ConfidenceOf(signal) ==
    IF signal.confidence = NoValue THEN SourceConfidence(signal.source) ELSE signal.confidence

(* regimesFor: a regime is derived only if every rule of it that reaches   *)
(* the jurisdictions is.                                                   *)
RegimesFor(jurisdictions, rules) ==
    LET inScope == {rule \in rules : rule.regions \cap jurisdictions # {}}
        stated == {rule.regime : rule \in {r \in inScope : ~r.derived}}
    IN [regimes |-> stated, derivedRegimes |-> {rule.regime : rule \in inScope} \ stated]

(* Mutant: signals of high confidence leave the others out. *)
JurisdictionsOfBest(signals, asserted, regions) ==
    asserted \cup UNION {JurisdictionsForRegion(s.region, regions) :
                           s \in {s \in signals : \A t \in signals : ConfidenceOf(s) = "high"
                                                     \/ ConfidenceOf(t) # "high"}}

(* The union of what every signal maps to and what the operator asserts. *)
Jurisdictions(signals, asserted, regions) ==
    asserted \cup UNION {JurisdictionsForRegion(s.region, regions) : s \in signals}

ResolveJurisdictions(signals, asserted, regions, rules) ==
    LET jurisdictions == Jurisdictions(signals, asserted, regions)
        Behind(j) == {ConfidenceOf(s) :
                        s \in {s \in signals : j \in JurisdictionsForRegion(s.region, regions)}}
                     \cup (IF j \in asserted THEN {"high"} ELSE {})
        scope == RegimesFor(jurisdictions, rules)
    IN [jurisdictions |-> jurisdictions,
        confidence |-> [j \in jurisdictions |-> Strongest(Behind(j))],
        regimes |-> scope.regimes,
        derivedRegimes |-> scope.derivedRegimes,
        conflicting |-> Cardinality({JurisdictionsForRegion(s.region, regions) :
                                       s \in signals} \ {{}}) > 1]

(* resolveContext: what is unresolved reaches the evaluator unresolved. *)
ResolveContext(signals, asserted, activity, regions, rules) ==
    LET resolution == ResolveJurisdictions(signals, asserted, regions, rules)
    IN [resolution |-> resolution,
        decision |-> Evaluate([activity EXCEPT !.jurisdictions = resolution.jurisdictions], rules)]
=============================================================================
