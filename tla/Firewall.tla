------------------------------ MODULE Firewall ------------------------------
(***************************************************************************)
(* The enforcement decision and what surrounds it: the rules derived from  *)
(* an approved policy (api/lib/consent-config.ts), the decision both the   *)
(* browser and the server take with them (shared/consent-firewall.ts) and  *)
(* the server's outbound guard (api/lib/firewall.ts).                      *)
(*                                                                         *)
(* A host is the sequence of its labels, so that "ads.example.com" ends    *)
(* with "example.com" as sequences do; what is not an http(s) URL has no   *)
(* host.  Reasons, severities and evidence are wording and left out.       *)
(***************************************************************************)
EXTENDS Integers, Sequences, SequencesExt, FiniteSets

CONSTANT NoValue   \* null: no host, no purpose, no rule

Action == {"allow", "require_consent", "block", "ignore", "review"}

(* A suffix of whole labels: "example.com" matches "ads.example.com". *)
HostMatches(host, pattern) == pattern # << >> /\ IsSuffix(pattern, host)

NoDecision == [decision |-> "allow", userState |-> "n/a", rule |-> NoValue]

UserState(purpose, granted, decided) ==
    IF purpose \in granted THEN "granted"
    ELSE IF purpose \in decided THEN "denied_or_withdrawn" ELSE "undecided"

(* First match wins.  A consent gate with no purpose is never satisfied. *)
MatchingRule(host, rules) ==
    LET i == SelectInSeq(rules, LAMBDA r : HostMatches(host, r.host))
    IN IF i = 0 THEN NoValue ELSE rules[i]

Satisfies(rule, granted, decided) ==
    \/ rule.action = "allow"
    \/ rule.action = "require_consent" /\ rule.purpose \in granted

Judge(host, rules, unknownHost, granted, decided) ==
    LET rule == MatchingRule(host, rules)
    IN IF host = NoValue THEN NoDecision
       ELSE IF rule = NoValue THEN [NoDecision EXCEPT !.decision = unknownHost]
       ELSE [decision |-> IF Satisfies(rule, granted, decided) THEN "allow" ELSE "block",
             userState |-> IF rule.action = "require_consent"
                           THEN UserState(rule.purpose, granted, decided) ELSE "n/a",
             rule |-> rule]

(* evaluateFirewall: the decision classified.  effect is what happens to   *)
(* the request; a gate whose principal cannot be read is unsatisfied.      *)
Redacted(redactions) == IF redactions THEN "REDACT" ELSE "ALLOW"

(* Mutant: a gate is judged by the base decision alone. *)
GateOpenForAnyone(base, principalKnown) == base.decision = "allow"

GateOpen(base, principalKnown) == base.decision = "allow" /\ principalKnown

EvaluateFirewall(host, rules, unknownHost, granted, decided, redactions, principalKnown) ==
    LET base == Judge(host, rules, unknownHost, granted, decided)
        verdict == IF host = NoValue THEN "ALLOW"
                   ELSE IF base.rule # NoValue /\ base.rule.action = "require_consent"
                   THEN IF GateOpen(base, principalKnown) THEN Redacted(redactions)
                        ELSE "REQUIRE_CONSENT"
                   ELSE IF base.decision = "block" THEN "BLOCK"
                   ELSE IF base.rule = NoValue THEN "REVIEW" ELSE Redacted(redactions)
    IN [decision |-> verdict, rule |-> base.rule, userState |-> base.userState,
        effect |-> IF verdict = "REQUIRE_CONSENT" THEN "block" ELSE base.decision]

(* guardOutboundRequest: what of the request may be sent.  redaction: no   *)
(* rules, rules that do not validate, a payload redaction could not walk,  *)
(* or one it redacted (some of it, or nothing).  A request that may go but *)
(* could not be walked is blocked after all.                               *)
Redaction == {"none", "rejected", "refused", "applied", "nothing"}

Sent(effect, redaction) ==
    IF effect = "block" \/ redaction \in {"rejected", "refused"} THEN "nothing"
    ELSE IF redaction = "none" THEN "request" ELSE "redacted"

GuardOutboundRequest(host, rules, granted, decided, redaction, principalKnown) ==
    LET judged == EvaluateFirewall(host, rules, "allow", granted, decided,
                                   redaction = "applied", principalKnown)
    IN IF redaction = "rejected" \/ (redaction = "refused" /\ judged.effect = "allow")
       THEN [effect |-> "block", decision |-> "BLOCK", send |-> "nothing"]
       ELSE [effect |-> judged.effect, decision |-> judged.decision,
             send |-> Sent(judged.effect, redaction)]

-----------------------------------------------------------------------------
(* The approved recommendations, as rules and as a vendor list. *)

Enforced == {"allow", "require_consent", "block"}

(* enforcementFrom: one rule per host of each enforced vendor, in the      *)
(* order of their hosts; alphabet lists hosts in that order.  Vendors of   *)
(* the same host keep the order of the recommendations.                    *)
EnforcementFrom(recommendations, hostsForVendor, alphabet) ==
    LET RulesOf(r, host) == IF r.action \in Enforced /\ host \in hostsForVendor[r.vendor]
                            THEN <<[host |-> host, vendor |-> r.vendor, purpose |-> r.purpose,
                                    action |-> r.action]>>
                            ELSE << >>
        At(host) == FlattenSeq([i \in DOMAIN recommendations |->
                                  RulesOf(recommendations[i], host)])
    IN FlattenSeq([i \in DOMAIN alphabet |-> At(alphabet[i])])

Listed(r) == r.purpose # NoValue /\ r.action # "ignore"

(* vendorsByPurposeFrom: what the preference centre lists. *)
VendorsByPurpose(recommendations) ==
    LET listed == {r \in ToSet(recommendations) : Listed(r)}
    IN [p \in {r.purpose : r \in listed} |-> {r.vendor : r \in {q \in listed : q.purpose = p}}]
=============================================================================
