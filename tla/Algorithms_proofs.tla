--------------------- MODULE Algorithms_proofs ---------------------
(***************************************************************************)
(* What the policy engine and the advice taken from it promise for every   *)
(* matrix of rules, every caller, every observation of where a visitor is  *)
(* and every vendor and override; what the verification of stored          *)
(* decisions tells, whatever releases wrote them under whatever keys; that *)
(* nothing leaves the site for a host that is not allowed, nor out of a    *)
(* field that is declared; how many requests a key gets through; and that  *)
(* the order of arms, of robots.txt and of two scans decides nothing.      *)
(***************************************************************************)
EXTENDS Algorithms, TLAPS, FiniteSetTheorems, SequenceTheorems, NaturalsInduction,
        WellFoundedInduction

(***************************************************************************)
(* The severities are an order, and the most restrictive verdict the least *)
(* of a set in it.                                                         *)
(***************************************************************************)
LEMMA Ranks ==
    /\ Verdict = {"BLOCK", "REVIEW", "REQUIRE_CONSENT", "REQUIRE_OPT_OUT",
                  "REQUIRE_USER_ACTION", "REQUIRE_NOTICE", "ALLOW"}
    /\ Rank("BLOCK") = 1 /\ Rank("REVIEW") = 2 /\ Rank("REQUIRE_CONSENT") = 3
    /\ Rank("REQUIRE_OPT_OUT") = 4 /\ Rank("REQUIRE_USER_ACTION") = 5
    /\ Rank("REQUIRE_NOTICE") = 6 /\ Rank("ALLOW") = 7
<1>1. DOMAIN Severity = 1..7
  BY DEF Severity
<1>2. /\ Severity[1] = "BLOCK" /\ Severity[2] = "REVIEW" /\ Severity[3] = "REQUIRE_CONSENT"
      /\ Severity[4] = "REQUIRE_OPT_OUT" /\ Severity[5] = "REQUIRE_USER_ACTION"
      /\ Severity[6] = "REQUIRE_NOTICE" /\ Severity[7] = "ALLOW"
  BY DEF Severity
<1>3. \A i \in 1..7 : i = 1 \/ i = 2 \/ i = 3 \/ i = 4 \/ i = 5 \/ i = 6 \/ i = 7
  OBVIOUS
<1>4. Verdict = {"BLOCK", "REVIEW", "REQUIRE_CONSENT", "REQUIRE_OPT_OUT",
                 "REQUIRE_USER_ACTION", "REQUIRE_NOTICE", "ALLOW"}
  BY <1>1, <1>2, <1>3 DEF Verdict
<1>5. \A i, j \in 1..7 : Severity[i] = Severity[j] => i = j
  BY <1>2, <1>3
<1>6. \A i \in 1..7 : Rank(Severity[i]) = i
  BY <1>1, <1>5 DEF Rank
<1>. QED  BY <1>2, <1>4, <1>6

LEMMA RankIsAnOrder ==
    /\ \A v \in Verdict : Rank(v) \in 1..7
    /\ \A v, w \in Verdict : Rank(v) = Rank(w) => v = w
BY Ranks

LEMMA TheMostRestrictive ==
    ASSUME NEW S \in SUBSET Verdict, S # {}
    PROVE  /\ MostRestrictive(S) \in S
           /\ \A w \in S : Rank(MostRestrictive(S)) <= Rank(w)
<1>1. \E v \in S : \A w \in S : Rank(v) <= Rank(w)
  <2>1. CASE "BLOCK" \in S
    BY <2>1, Ranks
  <2>2. CASE "BLOCK" \notin S /\ "REVIEW" \in S
    BY <2>2, Ranks
  <2>3. CASE "BLOCK" \notin S /\ "REVIEW" \notin S /\ "REQUIRE_CONSENT" \in S
    BY <2>3, Ranks
  <2>4. CASE S \cap {"BLOCK", "REVIEW", "REQUIRE_CONSENT"} = {} /\ "REQUIRE_OPT_OUT" \in S
    BY <2>4, Ranks
  <2>5. CASE /\ S \cap {"BLOCK", "REVIEW", "REQUIRE_CONSENT", "REQUIRE_OPT_OUT"} = {}
             /\ "REQUIRE_USER_ACTION" \in S
    BY <2>5, Ranks
  <2>6. CASE S \subseteq {"REQUIRE_NOTICE", "ALLOW"} /\ "REQUIRE_NOTICE" \in S
    BY <2>6, Ranks
  <2>7. CASE S = {"ALLOW"}
    BY <2>7, Ranks
  <2>. QED  BY <2>1, <2>2, <2>3, <2>4, <2>5, <2>6, <2>7, Ranks
<1>2. PICK v \in S : \A w \in S : Rank(v) <= Rank(w)
  BY <1>1
<1>. QED  BY <1>2 DEF MostRestrictive

\* The verdict of a larger set is no looser.
LEMMA MoreIsStricter ==
    ASSUME NEW S \in SUBSET Verdict, S # {}, NEW T \in SUBSET Verdict, S \subseteq T
    PROVE  Rank(MostRestrictive(T)) <= Rank(MostRestrictive(S))
BY TheMostRestrictive

(***************************************************************************)
(* What one rule contributes.  Only what permits matters of its other      *)
(* fields; the context decides by what it asserts and whose age it knows.  *)
(***************************************************************************)
Reason == {"unclassified_topic", "derived_authority", "children", "conditional_exemption",
           "conditional_consent", "unevaluated_conditions"}

Obligation == {"REQUIRE_CONSENT", "REQUIRE_OPT_OUT", "REQUIRE_USER_ACTION", "REQUIRE_NOTICE"}

\* Alone among the rules, it lets the caller go ahead: it exempts a gate from
\* consent on conditions all of which the caller asserts.
ExemptsGate(rule, context) ==
    /\ rule.applies /\ rule.children = NoValue
    /\ rule.consent # NoValue /\ rule.consent.required = "false"
    /\ rule.consent.conditions \subseteq context.asserted
    /\ Disposition(rule.topic).does = "gate"

LEMMA DispositionTyped ==
    ASSUME NEW topic
    PROVE  Disposition(topic).does \in {"gate", "obligation"}
              => Disposition(topic).verdict \in Obligation
BY DEF Disposition, Obligation

\* c contributes obligations, and permits only if allowed is true.
Contributes(c, allowed) ==
    c \in [obliges : SUBSET Obligation, permits : {FALSE, allowed}, asks : SUBSET Reason]

LEMMA NothingContributes ==
    ASSUME NEW allowed \in BOOLEAN
    PROVE  /\ Contributes(Nothing, allowed)
           /\ \A reason \in Reason : Contributes(Asks(reason), allowed)
<1>1. Contributes(Nothing, allowed)
  BY DEF Contributes, Nothing
<1>2. ASSUME NEW reason \in Reason
      PROVE  Contributes(Asks(reason), allowed)
  <2>1. {reason} \in SUBSET Reason
    OBVIOUS
  <2>. QED  BY <1>1, <2>1 DEF Contributes, Asks
<1>. QED  BY <1>1, <1>2

LEMMA ObligesContributes ==
    ASSUME NEW allowed \in BOOLEAN, NEW verdicts \in SUBSET Obligation, NEW unmet
    PROVE  Contributes(Obliges(verdicts, unmet), allowed)
<1>. DEFINE asks == IF unmet = {} THEN {} ELSE {"unevaluated_conditions"}
<1>1. asks \in SUBSET Reason
  BY DEF Reason
<1>2. Obliges(verdicts, unmet) = [Nothing EXCEPT !.obliges = verdicts, !.asks = asks]
  BY DEF Obliges
<1>. HIDE DEF asks
<1>3. Contributes(Nothing, allowed)
  BY NothingContributes
<1>. QED  BY <1>1, <1>2, <1>3 DEF Contributes

LEMMA AndContributes ==
    ASSUME NEW allowed \in BOOLEAN, NEW c, NEW d,
           Contributes(c, allowed), Contributes(d, allowed)
    PROVE  Contributes(And(c, d), allowed)
BY DEF Contributes, And

LEMMA EffectContributes ==
    ASSUME NEW rule, NEW context, Recorded(rule), rule.applies
    PROVE  Contributes(Effect(rule, context), ExemptsGate(rule, context))
<1>. DEFINE allowed == ExemptsGate(rule, context)
<1>1. allowed \in BOOLEAN
  BY DEF ExemptsGate
<1>2. CASE rule.children # NoValue
  <2>. DEFINE unmet == (Conditions(rule.children) \cup Conditions(rule.consent))
                       \ context.asserted
              withdrawal == IF rule.consent # NoValue /\ rule.consent.withdrawal
                            THEN {"REQUIRE_USER_ACTION"} ELSE {}
  <2>1. {"REQUIRE_CONSENT"} \cup withdrawal \in SUBSET Obligation
    BY DEF Obligation
  <2>2. Contributes(Obliges({"REQUIRE_CONSENT"} \cup withdrawal, unmet), allowed)
    BY <1>1, <2>1, ObligesContributes
  <2>3. Contributes(Asks("children"), allowed) /\ Contributes(Nothing, allowed)
    BY <1>1, NothingContributes DEF Reason
  <2>4. Contributes(And(Obliges({"REQUIRE_CONSENT"} \cup withdrawal, unmet), Asks("children")),
                    allowed)
    BY <1>1, <2>2, <2>3, AndContributes
  <2>5. Effect(rule, context)
          \in {Nothing, Asks("children"),
               And(Obliges({"REQUIRE_CONSENT"} \cup withdrawal, unmet), Asks("children"))}
    BY <1>2 DEF Effect, OfChildren
  <2>. QED  BY <2>3, <2>4, <2>5
<1>3. CASE rule.children = NoValue /\ ConsentDecides(rule)
  <2>. DEFINE obliged == {"REQUIRE_CONSENT"} \cup
                         (IF \/ rule.consent.withdrawal
                             \/ Disposition(rule.topic).verdict = "REQUIRE_USER_ACTION"
                          THEN {"REQUIRE_USER_ACTION"} ELSE {})
  <2>1. Effect(rule, context) = OfConsent(rule, context)
    BY <1>3 DEF Effect
  <2>2. CASE Requires(rule, "true")
    <3>1. obliged \in SUBSET Obligation
      BY DEF Obligation
    <3>2. OfConsent(rule, context)
            = Obliges(obliged, rule.consent.conditions \ context.asserted)
      BY <2>2 DEF OfConsent
    <3>. QED  BY <1>1, <2>1, <3>1, <3>2, ObligesContributes
  <2>3. CASE ~Requires(rule, "true") /\ Requires(rule, "conditional")
    BY <1>1, <2>1, <2>3, NothingContributes DEF OfConsent, Reason
  <2>4. CASE ~Requires(rule, "true") /\ ~Requires(rule, "conditional")
    <3>1. OfConsent(rule, context) = Exempts(rule, context)
      BY <2>4 DEF OfConsent
    <3>2. CASE rule.consent.conditions \subseteq context.asserted
      <4>1. rule.consent # NoValue /\ rule.consent.required = "false"
        BY <1>3, <2>4 DEF ConsentDecides, Requires, Recorded, ConsentField
      <4>2. Disposition(rule.topic).does = "gate"
        BY <1>3, <4>1 DEF ConsentDecides, Requires
      <4>3. allowed
        BY <1>3, <3>2, <4>1, <4>2 DEF ExemptsGate
      <4>4. Exempts(rule, context) = [Nothing EXCEPT !.permits = TRUE]
        BY <3>2 DEF Exempts
      <4>. QED  BY <2>1, <3>1, <4>3, <4>4 DEF Contributes, Nothing
    <3>3. CASE ~(rule.consent.conditions \subseteq context.asserted)
      BY <1>1, <2>1, <3>1, <3>3, NothingContributes DEF Exempts, Reason
    <3>. QED  BY <3>2, <3>3
  <2>. QED  BY <2>2, <2>3, <2>4
<1>4. CASE rule.children = NoValue /\ ~ConsentDecides(rule) /\ rule.optOut # NoValue
  <2>1. {"REQUIRE_OPT_OUT"} \in SUBSET Obligation
    BY DEF Obligation
  <2>. QED  BY <1>1, <1>4, <2>1, ObligesContributes DEF Effect
<1>5. CASE rule.children = NoValue /\ ~ConsentDecides(rule) /\ rule.optOut = NoValue
  <2>. DEFINE d == Disposition(rule.topic)
  <2>1. d.does \in {"gate", "obligation"} => {d.verdict} \in SUBSET Obligation
    BY DispositionTyped
  <2>2. Effect(rule, context) = OfTopic(rule)
    BY <1>5 DEF Effect
  <2>. HIDE DEF d
  <2>3. OfTopic(rule) = IF d.does \in {"gate", "obligation"} THEN Obliges({d.verdict}, {})
                        ELSE IF d.does = "conditional" THEN Asks("unevaluated_conditions")
                        ELSE Nothing
    BY DEF OfTopic, d
  <2>. QED  BY <1>1, <2>1, <2>2, <2>3, NothingContributes, ObligesContributes DEF Reason
<1>. QED  BY <1>2, <1>3, <1>4, <1>5

LEMMA RuleContributes ==
    ASSUME NEW rule, NEW context, Recorded(rule)
    PROVE  Contributes(Contribute(rule, context), ExemptsGate(rule, context))
<1>1. ExemptsGate(rule, context) \in BOOLEAN
  BY DEF ExemptsGate
<1>2. CASE ~rule.applies \/ rule.topic = NoValue
  BY <1>1, <1>2, NothingContributes DEF Contribute, Reason
<1>3. CASE rule.applies /\ rule.topic # NoValue
  <2>1. Contributes(Effect(rule, context), ExemptsGate(rule, context))
    BY <1>3, EffectContributes
  <2>2. Contributes(And(Asks("derived_authority"), Effect(rule, context)),
                    ExemptsGate(rule, context))
    BY <1>1, <2>1, NothingContributes, AndContributes DEF Reason
  <2>. QED  BY <1>3, <2>1, <2>2 DEF Contribute
<1>. QED  BY <1>2, <1>3 DEF Recorded

-----------------------------------------------------------------------------
(***************************************************************************)
(* What the rules selected come to.                                        *)
(***************************************************************************)
Matrix(rules) == \A rule \in rules : Recorded(rule)

Given(selected, context) == [rule \in selected |-> Contribute(rule, context)]

Obliged(selected, context) == UNION {Contribute(rule, context).obliges : rule \in selected}
Asked(selected, context) == UNION {Contribute(rule, context).asks : rule \in selected}
Permitted(selected, context) == \E rule \in selected : Contribute(rule, context).permits

\* What the verdict is the most restrictive of.
Weighed(obliges, asks) ==
    obliges \cup {"ALLOW"} \cup (IF asks # {} THEN {"REVIEW"} ELSE {})

LEMMA WhatIsConcluded ==
    ASSUME NEW selected, NEW context
    PROVE  LET d == Conclude(selected, Given(selected, context))
               asks == Asked(selected, context)
           IN /\ d.outcome = Outcome(Obliged(selected, context), asks,
                                     Permitted(selected, context))
              /\ d.obligations = UNION {{<<v, rule.id>> : v \in Contribute(rule, context).obliges} :
                                         rule \in selected}
              /\ d.open = IF d.outcome = "REVIEW" /\ asks = {} THEN {"nothing_addressed"}
                          ELSE asks
              /\ d.regimes = {rule.regime : rule \in selected}
<1>. DEFINE of == Given(selected, context)
<1>1. \A rule \in selected : of[rule] = Contribute(rule, context)
  BY DEF Given
<1>. HIDE DEF of
<1>2. UNION {of[rule].obliges : rule \in selected} = Obliged(selected, context)
  BY <1>1 DEF Obliged
<1>3. UNION {of[rule].asks : rule \in selected} = Asked(selected, context)
  BY <1>1 DEF Asked
<1>4. (\E rule \in selected : of[rule].permits) = Permitted(selected, context)
  BY <1>1 DEF Permitted
<1>5. UNION {{<<v, rule.id>> : v \in of[rule].obliges} : rule \in selected}
        = UNION {{<<v, rule.id>> : v \in Contribute(rule, context).obliges} : rule \in selected}
  BY <1>1
<1>6. LET outcome == Outcome(Obliged(selected, context), Asked(selected, context),
                             Permitted(selected, context))
      IN Conclude(selected, of) =
           [outcome |-> outcome,
            obligations |-> UNION {{<<v, rule.id>> : v \in of[rule].obliges} : rule \in selected},
            open |-> IF outcome = "REVIEW" /\ Asked(selected, context) = {}
                     THEN {"nothing_addressed"} ELSE Asked(selected, context),
            regimes |-> {rule.regime : rule \in selected}]
  BY <1>2, <1>3, <1>4 DEF Conclude
<1>. QED  BY <1>5, <1>6 DEF of

LEMMA ObligedAreObligations ==
    ASSUME NEW selected, NEW context, Matrix(selected)
    PROVE  /\ Obliged(selected, context) \subseteq Obligation
           /\ \A rule \in selected :
                Contribute(rule, context).permits => ExemptsGate(rule, context)
<1>1. ASSUME NEW rule \in selected
      PROVE  /\ Contribute(rule, context).obliges \subseteq Obligation
             /\ Contribute(rule, context).permits \in {FALSE, ExemptsGate(rule, context)}
  <2>1. Contributes(Contribute(rule, context), ExemptsGate(rule, context))
    BY RuleContributes DEF Matrix
  <2>. QED  BY <2>1 DEF Contributes
<1>. QED  BY <1>1 DEF Obliged

LEMMA WeighedAreVerdicts ==
    ASSUME NEW obliges \in SUBSET Obligation, NEW asks
    PROVE  Weighed(obliges, asks) \in SUBSET Verdict /\ Weighed(obliges, asks) # {}
BY Ranks DEF Weighed, Obligation

\* The least restrictive verdict is taken of nothing else.
LEMMA NothingElseAllows ==
    ASSUME NEW obliges \in SUBSET Obligation, NEW asks, NEW permitted \in BOOLEAN
    PROVE  /\ Outcome(obliges, asks, permitted) = "ALLOW"
                => obliges = {} /\ asks = {} /\ permitted
           /\ Outcome(obliges, asks, permitted)
                \in {MostRestrictive(Weighed(obliges, asks)), "REVIEW"}
           /\ Outcome(obliges, asks, permitted) # MostRestrictive(Weighed(obliges, asks))
                => /\ MostRestrictive(Weighed(obliges, asks)) = "ALLOW" /\ ~permitted
                   /\ obliges = {} /\ asks = {}
<1>. DEFINE S == Weighed(obliges, asks)
            v == MostRestrictive(S)
<1>1. v \in S /\ (\A w \in S : Rank(v) <= Rank(w)) /\ S \subseteq Verdict
  BY WeighedAreVerdicts, TheMostRestrictive
<1>2. v = "ALLOW" => S = {"ALLOW"}
  <2>1. \A w \in Verdict : Rank("ALLOW") <= Rank(w) => w = "ALLOW"
    BY Ranks
  <2>. QED  BY <1>1, <2>1
<1>3. S = {"ALLOW"} => obliges = {} /\ asks = {}
  BY DEF Weighed, Obligation
<1>4. Outcome(obliges, asks, permitted)
        = IF v = "ALLOW" /\ ~permitted THEN "REVIEW" ELSE v
  BY DEF Outcome, Weighed
<1>. QED  BY <1>2, <1>3, <1>4

-----------------------------------------------------------------------------
(***************************************************************************)
(* evaluate, of a context and of the signals it is resolved from.          *)
(***************************************************************************)
\* An answer of a matrix that says nothing about what it was asked.
Unanswered(context, rules) == context.jurisdictions = {} \/ SelectRules(context, rules) = {}

LEMMA EvaluatedIsConcluded ==
    ASSUME NEW context, NEW rules
    PROVE  /\ Unanswered(context, rules) =>
                /\ Silent(Evaluate(context, rules))
                /\ Evaluate(context, rules).obligations = {}
                /\ Evaluate(context, rules).outcome # "ALLOW"
           /\ ~Unanswered(context, rules) =>
                Evaluate(context, rules) = Conclude(SelectRules(context, rules),
                                             Given(SelectRules(context, rules), context))
           /\ SelectRules(context, rules) \subseteq rules
<1>1. CASE Unanswered(context, rules)
  <2>1. Evaluate(context, rules)
          \in {Review("no_jurisdiction_given"), Review("no_requirements_for_context")}
    BY <1>1 DEF Evaluate, Unanswered
  <2>2. \A reason : /\ Review(reason).outcome = "REVIEW" /\ Review(reason).open = {reason}
                    /\ Review(reason).obligations = {}
    BY DEF Review
  <2>. QED  BY <1>1, <2>1, <2>2 DEF Silent, SelectRules
<1>2. CASE ~Unanswered(context, rules)
  BY <1>2 DEF Evaluate, Unanswered, Given, SelectRules
<1>. QED  BY <1>1, <1>2

LEMMA EvaluatedAllows ==
    ASSUME NEW context, NEW rules, Matrix(rules), Evaluate(context, rules).outcome = "ALLOW"
    PROVE  /\ Evaluate(context, rules).open = {} /\ Evaluate(context, rules).obligations = {}
           /\ \E rule \in SelectRules(context, rules) : ExemptsGate(rule, context)
           /\ Evaluate(context, rules).regimes
                = {rule.regime : rule \in SelectRules(context, rules)}
<1>. DEFINE selected == SelectRules(context, rules)
            d == Conclude(selected, Given(selected, context))
<1>1. Evaluate(context, rules) = d /\ selected \subseteq rules
  BY EvaluatedIsConcluded
<1>2. Matrix(selected)
  BY <1>1 DEF Matrix
<1>. HIDE DEF selected, d
<1>3. /\ Obliged(selected, context) \in SUBSET Obligation
      /\ \A rule \in selected : Contribute(rule, context).permits => ExemptsGate(rule, context)
  BY <1>2, ObligedAreObligations
<1>4. /\ d.outcome = Outcome(Obliged(selected, context), Asked(selected, context),
                             Permitted(selected, context))
      /\ d.obligations = UNION {{<<v, rule.id>> : v \in Contribute(rule, context).obliges} :
                                 rule \in selected}
      /\ d.open = IF d.outcome = "REVIEW" /\ Asked(selected, context) = {}
                  THEN {"nothing_addressed"} ELSE Asked(selected, context)
      /\ d.regimes = {rule.regime : rule \in selected}
  BY WhatIsConcluded DEF d
<1>5. Permitted(selected, context) \in BOOLEAN
  BY DEF Permitted
<1>6. /\ Obliged(selected, context) = {} /\ Asked(selected, context) = {}
      /\ Permitted(selected, context)
  BY <1>1, <1>3, <1>4, <1>5, NothingElseAllows
<1>7. \A rule \in selected : Contribute(rule, context).obliges = {}
  BY <1>6 DEF Obliged
<1>8. d.obligations = {}
  BY <1>4, <1>7
<1>9. \E rule \in selected : ExemptsGate(rule, context)
  BY <1>3, <1>6 DEF Permitted
<1>. QED  BY <1>1, <1>4, <1>6, <1>8, <1>9 DEF selected

\* Two contexts that differ in where the visitor may be, and in nothing else.
Wider(narrow, wide) ==
    /\ narrow.jurisdictions \subseteq wide.jurisdictions
    /\ wide.actors = narrow.actors /\ wide.asOf = narrow.asOf
    /\ wide.purposes = narrow.purposes /\ wide.dataCategories = narrow.dataCategories
    /\ wide.contexts = narrow.contexts /\ wide.asserted = narrow.asserted
    /\ wide.subjectIsChild = narrow.subjectIsChild
    /\ wide.includeDerived = narrow.includeDerived

LEMMA WiderSelectsMore ==
    ASSUME NEW narrow, NEW wide, Wider(narrow, wide), NEW rules
    PROVE  SelectRules(narrow, rules) \subseteq SelectRules(wide, rules)
<1>1. \A rule \in rules : rule.regions \cap narrow.jurisdictions # {}
                            => rule.regions \cap wide.jurisdictions # {}
  BY DEF Wider
<1>. QED  BY <1>1 DEF SelectRules, Wider

LEMMA WiderGivesTheSame ==
    ASSUME NEW narrow, NEW wide, Wider(narrow, wide), NEW rule
    PROVE  Contribute(rule, wide) = Contribute(rule, narrow)
BY DEF Wider, Contribute, Effect, OfChildren, OfConsent, Exempts

LEMMA WiderEvaluation ==
    ASSUME NEW narrow, NEW wide, Wider(narrow, wide), NEW rules, Matrix(rules)
    PROVE  /\ \/ Silent(Evaluate(narrow, rules))
              \/ Rank(Evaluate(wide, rules).outcome) <= Rank(Evaluate(narrow, rules).outcome)
           /\ Evaluate(narrow, rules).obligations \subseteq Evaluate(wide, rules).obligations
<1>1. CASE Unanswered(narrow, rules)
  BY <1>1, EvaluatedIsConcluded
<1>2. CASE ~Unanswered(narrow, rules)
  <2>. DEFINE few == SelectRules(narrow, rules)
              many == SelectRules(wide, rules)
              n == Conclude(few, Given(few, narrow))
              w == Conclude(many, Given(many, wide))
  <2>1. few \subseteq many /\ many \subseteq rules /\ ~Unanswered(wide, rules)
    BY <1>2, WiderSelectsMore, EvaluatedIsConcluded DEF Unanswered, Wider
  <2>2. Evaluate(narrow, rules) = n /\ Evaluate(wide, rules) = w
    BY <1>2, <2>1, EvaluatedIsConcluded
  <2>3. Matrix(few) /\ Matrix(many)
    BY <2>1 DEF Matrix
  <2>4. \A rule : Contribute(rule, wide) = Contribute(rule, narrow)
    BY WiderGivesTheSame
  <2>. HIDE DEF few, many, n, w
  <2>5. /\ Obliged(few, narrow) \subseteq Obliged(many, wide)
        /\ Asked(few, narrow) \subseteq Asked(many, wide)
    BY <2>1, <2>4 DEF Obliged, Asked
  <2>6. /\ n.outcome = Outcome(Obliged(few, narrow), Asked(few, narrow), Permitted(few, narrow))
        /\ n.obligations = UNION {{<<v, rule.id>> : v \in Contribute(rule, narrow).obliges} :
                                   rule \in few}
        /\ n.open = IF n.outcome = "REVIEW" /\ Asked(few, narrow) = {}
                    THEN {"nothing_addressed"} ELSE Asked(few, narrow)
    BY WhatIsConcluded DEF n
  <2>7. /\ w.outcome = Outcome(Obliged(many, wide), Asked(many, wide), Permitted(many, wide))
        /\ w.obligations = UNION {{<<v, rule.id>> : v \in Contribute(rule, wide).obliges} :
                                   rule \in many}
    BY WhatIsConcluded DEF w
  <2>8. n.obligations \subseteq w.obligations
    BY <2>1, <2>4, <2>6, <2>7
  <2>9. /\ Obliged(few, narrow) \in SUBSET Obligation
        /\ Obliged(many, wide) \in SUBSET Obligation
    BY <2>3, ObligedAreObligations
  <2>10. Permitted(few, narrow) \in BOOLEAN /\ Permitted(many, wide) \in BOOLEAN
    BY DEF Permitted
  <2>. DEFINE S == Weighed(Obliged(few, narrow), Asked(few, narrow))
              T == Weighed(Obliged(many, wide), Asked(many, wide))
  <2>11. S \subseteq T
    BY <2>5 DEF Weighed
  <2>12. /\ S \in SUBSET Verdict /\ S # {} /\ T \in SUBSET Verdict /\ T # {}
    BY <2>9, WeighedAreVerdicts
  <2>. HIDE DEF S, T
  <2>13. Rank(MostRestrictive(T)) <= Rank(MostRestrictive(S))
    BY <2>11, <2>12, MoreIsStricter
  <2>14. CASE n.outcome # MostRestrictive(S)
    <3>1. Asked(few, narrow) = {} /\ n.outcome = "REVIEW"
      BY <2>6, <2>9, <2>10, <2>14, NothingElseAllows DEF S
    <3>2. n.open = {"nothing_addressed"}
      BY <2>6, <3>1
    <3>. QED  BY <2>2, <2>8, <3>1, <3>2 DEF Silent
  <2>15. CASE n.outcome = MostRestrictive(S) /\ w.outcome = MostRestrictive(T)
    BY <2>2, <2>8, <2>13, <2>15
  <2>16. CASE n.outcome = MostRestrictive(S) /\ w.outcome # MostRestrictive(T)
    <3>1. w.outcome = "REVIEW" /\ MostRestrictive(T) = "ALLOW"
      BY <2>7, <2>9, <2>10, <2>16, NothingElseAllows DEF T
    <3>2. MostRestrictive(S) \in Verdict
      BY <2>12, TheMostRestrictive
    <3>3. Rank(MostRestrictive(S)) \in 1..7 /\ 7 <= Rank(MostRestrictive(S))
      BY <2>13, <3>1, <3>2, Ranks, RankIsAnOrder
    <3>4. Rank(w.outcome) = 2
      BY <3>1, Ranks
    <3>. QED  BY <2>2, <2>8, <2>16, <3>3, <3>4
  <2>. QED  BY <2>14, <2>15, <2>16
<1>. QED  BY <1>1, <1>2

\* What a caller of the engine says of itself; where the visitor is, the
\* resolution writes over.
Activity(activity) ==
    DOMAIN activity = {"jurisdictions", "actors", "asOf", "purposes", "dataCategories",
                       "contexts", "asserted", "subjectIsChild", "includeDerived"}

At(activity, jurisdictions) == [activity EXCEPT !.jurisdictions = jurisdictions]

LEMMA Located ==
    ASSUME NEW activity, Activity(activity), NEW J
    PROVE  /\ At(activity, J).jurisdictions = J
           /\ At(activity, J).actors = activity.actors /\ At(activity, J).asOf = activity.asOf
           /\ At(activity, J).purposes = activity.purposes
           /\ At(activity, J).dataCategories = activity.dataCategories
           /\ At(activity, J).contexts = activity.contexts
           /\ At(activity, J).asserted = activity.asserted
           /\ At(activity, J).subjectIsChild = activity.subjectIsChild
           /\ At(activity, J).includeDerived = activity.includeDerived
BY DEF At, Activity

LEMMA ContextResolved ==
    ASSUME NEW signals, NEW asserted, NEW activity, NEW regions, NEW rules
    PROVE  LET answer == ResolveContext(signals, asserted, activity, regions, rules)
               J == Jurisdictions(signals, asserted, regions)
           IN /\ answer.decision = Evaluate(At(activity, J), rules)
              /\ answer.resolution.jurisdictions = J
              /\ answer.resolution.regimes \cup answer.resolution.derivedRegimes
                    = {rule.regime : rule \in {r \in rules : r.regions \cap J # {}}}
<1>. DEFINE J == Jurisdictions(signals, asserted, regions)
            resolution == ResolveJurisdictions(signals, asserted, regions, rules)
            scope == RegimesFor(J, rules)
<1>1. /\ resolution.jurisdictions = J /\ resolution.regimes = scope.regimes
      /\ resolution.derivedRegimes = scope.derivedRegimes
  BY DEF ResolveJurisdictions
<1>2. scope.regimes \cup scope.derivedRegimes
        = {rule.regime : rule \in {r \in rules : r.regions \cap J # {}}}
  BY DEF RegimesFor
<1>. HIDE DEF J, resolution, scope
<1>3. LET answer == ResolveContext(signals, asserted, activity, regions, rules)
      IN /\ answer.resolution = resolution
         /\ answer.decision = Evaluate(At(activity, J), rules)
  BY <1>1 DEF ResolveContext, At, resolution
<1>. QED  BY <1>1, <1>2, <1>3 DEF J

(***************************************************************************)
(* "ALLOW requires a rule that positively says so" (policy/evaluate.ts:    *)
(* 12-14): whatever the matrix, the signals and the caller, an answer of   *)
(* ALLOW leaves no question open and no obligation unsaid, and rests on a  *)
(* rule about a gate, reaching where the visitor is, whose exemption asks  *)
(* nothing the caller did not assert; and every regime it names is one     *)
(* the resolution names.                                                   *)
(***************************************************************************)
THEOREM OnlyPermissionAllows ==
    ASSUME NEW rules, Matrix(rules), NEW signals, NEW asserted, NEW regions,
           NEW activity, Activity(activity)
    PROVE  LET answer == ResolveContext(signals, asserted, activity, regions, rules)
           IN answer.decision.outcome = "ALLOW" =>
                /\ answer.decision.open = {} /\ answer.decision.obligations = {}
                /\ \E rule \in rules :
                      /\ ExemptsGate(rule, activity)
                      /\ rule.regions \cap answer.resolution.jurisdictions # {}
                /\ answer.decision.regimes
                      \subseteq answer.resolution.regimes \cup answer.resolution.derivedRegimes
<1>. DEFINE answer == ResolveContext(signals, asserted, activity, regions, rules)
            J == Jurisdictions(signals, asserted, regions)
            context == At(activity, J)
<1>1. /\ answer.decision = Evaluate(context, rules)
      /\ answer.resolution.jurisdictions = J
      /\ answer.resolution.regimes \cup answer.resolution.derivedRegimes
            = {rule.regime : rule \in {r \in rules : r.regions \cap J # {}}}
  BY ContextResolved
<1>2. context.jurisdictions = J /\ context.asserted = activity.asserted
  BY Located
<1>. HIDE DEF answer, J, context
<1>3. SUFFICES ASSUME answer.decision.outcome = "ALLOW"
               PROVE  /\ answer.decision.open = {} /\ answer.decision.obligations = {}
                      /\ \E rule \in rules :
                            /\ ExemptsGate(rule, activity)
                            /\ rule.regions \cap answer.resolution.jurisdictions # {}
                      /\ answer.decision.regimes \subseteq
                           answer.resolution.regimes \cup answer.resolution.derivedRegimes
  BY DEF answer
<1>4. /\ answer.decision.open = {} /\ answer.decision.obligations = {}
      /\ \E rule \in SelectRules(context, rules) : ExemptsGate(rule, context)
      /\ answer.decision.regimes = {rule.regime : rule \in SelectRules(context, rules)}
  BY <1>1, <1>3, EvaluatedAllows
<1>5. \A rule \in SelectRules(context, rules) : rule \in rules /\ rule.regions \cap J # {}
  BY <1>2 DEF SelectRules
<1>6. \A rule : ExemptsGate(rule, context) => ExemptsGate(rule, activity)
  BY <1>2 DEF ExemptsGate
<1>7. \E rule \in rules : ExemptsGate(rule, activity) /\ rule.regions \cap J # {}
  BY <1>4, <1>5, <1>6
<1>8. {rule.regime : rule \in SelectRules(context, rules)}
        \subseteq {rule.regime : rule \in {r \in rules : r.regions \cap J # {}}}
  BY <1>5
<1>. QED  BY <1>1, <1>4, <1>7, <1>8

(***************************************************************************)
(* "Union, not winner-take-all" (policy/resolve.ts:9): more observations   *)
(* of where the visitor is, or more asserted, never loosen a verdict some  *)
(* rule gave; only the REVIEW of a matrix that said nothing may give way   *)
(* to an answer.  And no obligation goes away.                             *)
(***************************************************************************)
THEOREM WiderIsNoLooser ==
    ASSUME NEW rules, Matrix(rules), NEW regions, NEW activity, Activity(activity),
           NEW wide, NEW narrow \in SUBSET wide,
           NEW asserted, NEW less \in SUBSET asserted
    PROVE  LET n == ResolveContext(narrow, less, activity, regions, rules).decision
               w == ResolveContext(wide, asserted, activity, regions, rules).decision
           IN /\ Silent(n) \/ Rank(w.outcome) <= Rank(n.outcome)
              /\ n.obligations \subseteq w.obligations
<1>. DEFINE Jn == Jurisdictions(narrow, less, regions)
            Jw == Jurisdictions(wide, asserted, regions)
<1>1. Jn \subseteq Jw
  BY DEF Jurisdictions
<1>2. Wider(At(activity, Jn), At(activity, Jw))
  BY <1>1, Located DEF Wider
<1>3. /\ ResolveContext(narrow, less, activity, regions, rules).decision
           = Evaluate(At(activity, Jn), rules)
      /\ ResolveContext(wide, asserted, activity, regions, rules).decision
           = Evaluate(At(activity, Jw), rules)
  BY ContextResolved
<1>. HIDE DEF Jn, Jw
<1>. QED  BY <1>2, <1>3, WiderEvaluation

-----------------------------------------------------------------------------
(***************************************************************************)
(* The advice: one line per vendor, and the controls a visitor is offered. *)
(***************************************************************************)
Seen(t, decision, overrides) ==
    BuildOne(t, TRUE, {o \in overrides : o.vendor = t.vendor}, ConsentRequirement(decision))
CarriedOn(t, decision, overrides) ==
    BuildOne(t, FALSE, {o \in overrides : o.vendor = t.vendor}, ConsentRequirement(decision))

Advised(decision, technologies, overrides) ==
    {Seen(t, decision, overrides) : t \in technologies}
    \cup {CarriedOn(t, decision, overrides) : t \in Unseen(overrides, technologies)}

LEMMA PolicyIsAdvice ==
    ASSUME NEW decision, NEW technologies, NEW overrides, NEW declared
    PROVE  PolicyUnder(decision, technologies, overrides, declared).recommendations
             = Advised(decision, technologies, overrides)
BY DEF PolicyUnder, Advised, Seen, CarriedOn

About(overrides, vendor) == {o \in overrides : o.vendor = vendor}
Chosen(overrides, vendor) == CHOOSE o \in About(overrides, vendor) : TRUE

\* What a line of the advice says of its vendor.
LineSays(l, t, decision, overrides) ==
    /\ l.vendor = t.vendor /\ l.overridden = (About(overrides, t.vendor) # {})
    /\ l.overridden => /\ l.action = Chosen(overrides, t.vendor).action
                       /\ l.purpose = Chosen(overrides, t.vendor).purpose
    /\ ~l.overridden =>
         l.action = IF t.category \in Classified
                    THEN ActionFor(ConsentRequirement(decision), t.category \in Gated)
                    ELSE "review"

LEMMA OneLine ==
    ASSUME NEW t, NEW decision, NEW overrides,
           NEW l \in {Seen(t, decision, overrides), CarriedOn(t, decision, overrides)}
    PROVE  LineSays(l, t, decision, overrides)
<1>. DEFINE over == {o \in overrides : o.vendor = t.vendor}
<1>1. over = About(overrides, t.vendor)
  BY DEF About
<1>2. PICK observed \in BOOLEAN : l = BuildOne(t, observed, over, ConsentRequirement(decision))
  BY DEF Seen, CarriedOn
<1>3. (CHOOSE o \in over : TRUE) = Chosen(overrides, t.vendor)
  BY <1>1 DEF Chosen
<1>. HIDE DEF over
<1>. QED  BY <1>1, <1>2, <1>3 DEF BuildOne, LineSays

\* An operator says one thing of a vendor.
OneEach(overrides) == \A o, q \in overrides : o.vendor = q.vendor => o = q

LEMMA OverrideChosen ==
    ASSUME NEW overrides, OneEach(overrides), NEW o \in overrides
    PROVE  About(overrides, o.vendor) = {o} /\ Chosen(overrides, o.vendor) = o
<1>1. About(overrides, o.vendor) = {o}
  BY DEF OneEach, About
<1>2. (CHOOSE q \in {o} : TRUE) = o
  OBVIOUS
<1>. QED  BY <1>1, <1>2 DEF Chosen

LEMMA UnseenAreOverridden ==
    ASSUME NEW technologies, NEW overrides, NEW t \in Unseen(overrides, technologies)
    PROVE  About(overrides, t.vendor) # {}
<1>1. PICK o \in overrides : t.vendor = o.vendor
  BY DEF Unseen
<1>. QED  BY <1>1 DEF About

(***************************************************************************)
(* "An override always wins" (api/lib/autopilot.ts:18-36), be the vendor   *)
(* seen by the scan or not; and an answer that is missing or open permits  *)
(* nothing: a vendor no operator decided about is allowed only if it was   *)
(* seen and its category needs no gate, whatever the policy engine says.   *)
(***************************************************************************)
THEOREM OverridesAlwaysWin ==
    ASSUME NEW decision, NEW technologies, NEW overrides, OneEach(overrides), NEW declared
    PROVE  LET lines == PolicyUnder(decision, technologies, overrides, declared).recommendations
           IN /\ \A o \in overrides :
                   /\ \E l \in lines : l.vendor = o.vendor
                   /\ \A l \in lines : l.vendor = o.vendor =>
                        l.action = o.action /\ l.purpose = o.purpose
              /\ \A l \in lines : l.action = "allow" /\ ~l.overridden =>
                   \E t \in technologies : t.vendor = l.vendor /\ t.category \in Essential
<1>. DEFINE requirement == ConsentRequirement(decision)
            lines == Advised(decision, technologies, overrides)
<1>1. ASSUME NEW o \in overrides
      PROVE  /\ \E l \in lines : l.vendor = o.vendor
             /\ \A l \in lines : l.vendor = o.vendor => l.action = o.action /\ l.purpose = o.purpose
  <2>1. \E l \in lines : l.vendor = o.vendor
    <3>1. CASE \E t \in technologies : t.vendor = o.vendor
      <4>1. PICK t \in technologies : t.vendor = o.vendor
        BY <3>1
      <4>2. Seen(t, decision, overrides).vendor = o.vendor
        BY <4>1, OneLine DEF LineSays
      <4>. QED  BY <4>1, <4>2 DEF Advised
    <3>2. CASE \A t \in technologies : t.vendor # o.vendor
      <4>. DEFINE t == [vendor |-> o.vendor, category |-> "unclassified", confidence |-> "low"]
      <4>1. t \in Unseen(overrides, technologies) /\ t.vendor = o.vendor
        BY <3>2 DEF Unseen
      <4>. HIDE DEF t
      <4>2. CarriedOn(t, decision, overrides).vendor = o.vendor
        BY <4>1, OneLine DEF LineSays
      <4>. QED  BY <4>1, <4>2 DEF Advised
    <3>. QED  BY <3>1, <3>2
  <2>2. ASSUME NEW l \in lines, l.vendor = o.vendor
        PROVE  l.action = o.action /\ l.purpose = o.purpose
    <3>1. \E t : l \in {Seen(t, decision, overrides), CarriedOn(t, decision, overrides)}
      BY DEF Advised
    <3>2. PICK t : l \in {Seen(t, decision, overrides), CarriedOn(t, decision, overrides)}
      BY <3>1
    <3>3. LineSays(l, t, decision, overrides)
      BY <3>2, OneLine
    <3>4. About(overrides, o.vendor) = {o} /\ Chosen(overrides, o.vendor) = o
      BY OverrideChosen
    <3>. QED  BY <2>2, <3>3, <3>4 DEF LineSays
  <2>. QED  BY <2>1, <2>2
<1>2. ASSUME NEW l \in lines, l.action = "allow", ~l.overridden
      PROVE  \E t \in technologies : t.vendor = l.vendor /\ t.category \in Essential
  <2>1. ASSUME NEW t \in Unseen(overrides, technologies)
        PROVE  CarriedOn(t, decision, overrides).overridden
    <3>1. About(overrides, t.vendor) # {}
      BY UnseenAreOverridden
    <3>2. CarriedOn(t, decision, overrides).overridden = (About(overrides, t.vendor) # {})
      BY OneLine DEF LineSays
    <3>. QED  BY <3>1, <3>2
  <2>2. PICK t \in technologies : l = Seen(t, decision, overrides)
    BY <1>2, <2>1 DEF Advised
  <2>3. /\ l.vendor = t.vendor
        /\ l.action = IF t.category \in Classified
                      THEN ActionFor(requirement, t.category \in Gated) ELSE "review"
    BY <1>2, <2>2, OneLine DEF LineSays
  <2>4. requirement \in {"required", "conditional", "unknown"}
    BY DEF ConsentRequirement
  <2>5. t.category \in Classified /\ t.category \notin Gated
    BY <1>2, <2>3, <2>4 DEF ActionFor
  <2>. QED  BY <2>2, <2>3, <2>5 DEF Classified
<1>. HIDE DEF lines
<1>3. PolicyUnder(decision, technologies, overrides, declared).recommendations = lines
  BY PolicyIsAdvice DEF lines
<1>. QED  BY <1>1, <1>2, <1>3

(***************************************************************************)
(* What is recommended of a vendor where the visitor may be in more places *)
(* is no looser, and no control offered in fewer is missing in more; but   *)
(* for what an operator decided, which stays as decided.                   *)
(***************************************************************************)
LEMMA ActionsAreStricter ==
    ASSUME NEW n, NEW w, n.obligations \subseteq w.obligations, NEW gated \in BOOLEAN
    PROVE  Strictness(ActionFor(ConsentRequirement(n), gated))
             <= Strictness(ActionFor(ConsentRequirement(w), gated))
<1>1. /\ ConsentRequirement(n) \in {"required", "conditional", "unknown"}
      /\ ConsentRequirement(w) \in {"required", "conditional", "unknown"}
  BY DEF ConsentRequirement
<1>2. ConsentRequirement(n) = "required" => ConsentRequirement(w) = "required"
  BY DEF ConsentRequirement
<1>3. Strictness("block") = 2 /\ Strictness("review") = 1 /\ Strictness("allow") = 0
  BY DEF Strictness
<1>. QED  BY <1>1, <1>2, <1>3 DEF ActionFor

LEMMA WebsitesAreWider ==
    ASSUME NEW wide, NEW narrow \in SUBSET wide, NEW contexts, NEW asOf
    PROVE  Wider(WebsiteContext(narrow, contexts, asOf), WebsiteContext(wide, contexts, asOf))
BY DEF Wider, WebsiteContext

THEOREM WiderAdviceIsNoLooser ==
    ASSUME NEW rules, Matrix(rules), NEW technologies, NEW overrides, NEW declared, NEW asOf,
           NEW wide, NEW narrow \in SUBSET wide
    PROVE  LET n == GeneratePolicy(narrow, rules, technologies, overrides, declared, asOf)
               w == GeneratePolicy(wide, rules, technologies, overrides, declared, asOf)
           IN /\ \A few \in n.recommendations : \E many \in w.recommendations :
                   /\ many.vendor = few.vendor
                   /\ IF few.overridden THEN many.action = few.action
                      ELSE Strictness(few.action) <= Strictness(many.action)
              /\ AvailableRights(narrow, rules, asOf).indicated
                   \subseteq AvailableRights(wide, rules, asOf).indicated
<1>. DEFINE uses == {"cookies", "terminal_equipment", "tracking"}
            n == Evaluate(WebsiteContext(narrow, uses, asOf), rules)
            w == Evaluate(WebsiteContext(wide, uses, asOf), rules)
<1>1. n.obligations \subseteq w.obligations
  BY WebsitesAreWider, WiderEvaluation
<1>2. /\ GeneratePolicy(narrow, rules, technologies, overrides, declared, asOf).recommendations
           = Advised(n, technologies, overrides)
      /\ GeneratePolicy(wide, rules, technologies, overrides, declared, asOf).recommendations
           = Advised(w, technologies, overrides)
  BY PolicyIsAdvice DEF GeneratePolicy
<1>. HIDE DEF n, w
<1>3. ASSUME NEW t, NEW few \in {Seen(t, n, overrides), CarriedOn(t, n, overrides)},
             NEW many \in {Seen(t, w, overrides), CarriedOn(t, w, overrides)}
      PROVE  /\ many.vendor = few.vendor
             /\ IF few.overridden THEN many.action = few.action
                ELSE Strictness(few.action) <= Strictness(many.action)
  <2>1. LineSays(few, t, n, overrides)
    BY OneLine
  <2>2. LineSays(many, t, w, overrides)
    BY OneLine
  <2>3. Strictness(ActionFor(ConsentRequirement(n), t.category \in Gated))
          <= Strictness(ActionFor(ConsentRequirement(w), t.category \in Gated))
    <3>1. (t.category \in Gated) \in BOOLEAN
      OBVIOUS
    <3>. QED  BY <1>1, <3>1, ActionsAreStricter
  <2>4. Strictness("review") <= Strictness("review")
    BY DEF Strictness
  <2>. QED  BY <2>1, <2>2, <2>3, <2>4 DEF LineSays
<1>4. ASSUME NEW few \in Advised(n, technologies, overrides)
      PROVE  \E many \in Advised(w, technologies, overrides) :
               /\ many.vendor = few.vendor
               /\ IF few.overridden THEN many.action = few.action
                  ELSE Strictness(few.action) <= Strictness(many.action)
  <2>1. CASE \E t \in technologies : few = Seen(t, n, overrides)
    <3>1. PICK t \in technologies : few = Seen(t, n, overrides)
      BY <2>1
    <3>2. Seen(t, w, overrides) \in Advised(w, technologies, overrides)
      BY DEF Advised
    <3>. QED  BY <1>3, <3>1, <3>2
  <2>2. CASE \E t \in Unseen(overrides, technologies) : few = CarriedOn(t, n, overrides)
    <3>1. PICK t \in Unseen(overrides, technologies) : few = CarriedOn(t, n, overrides)
      BY <2>2
    <3>2. CarriedOn(t, w, overrides) \in Advised(w, technologies, overrides)
      BY DEF Advised
    <3>. QED  BY <1>3, <3>1, <3>2
  <2>. QED  BY <2>1, <2>2 DEF Advised
<1>5. AvailableRights(narrow, rules, asOf).indicated
        \subseteq AvailableRights(wide, rules, asOf).indicated
  <2>. DEFINE few == Indicating(WebsiteContext(narrow, {}, asOf), rules)
              many == Indicating(WebsiteContext(wide, {}, asOf), rules)
  <2>1. few \subseteq many
    BY WebsitesAreWider, WiderSelectsMore DEF Indicating
  <2>. HIDE DEF few, many
  <2>2. UNION {Indicates(rule.topic) : rule \in few}
          \subseteq UNION {Indicates(rule.topic) : rule \in many}
    BY <2>1
  <2>3. /\ AvailableRights(narrow, rules, asOf).indicated
             = (UNION {Indicates(rule.topic) : rule \in few}) \ Always
        /\ AvailableRights(wide, rules, asOf).indicated
             = (UNION {Indicates(rule.topic) : rule \in many}) \ Always
    BY DEF AvailableRights, few, many
  <2>. QED  BY <2>2, <2>3
<1>. QED  BY <1>2, <1>4, <1>5

(***************************************************************************)
(* A rule that indicates a control, other than a complaint, has a say in   *)
(* the verdict.                                                            *)
(***************************************************************************)
Speaks(c) == c.obliges # {} \/ c.asks # {} \/ c.permits

LEMMA WhatSpeaks ==
    /\ \A reason : Speaks(Asks(reason))
    /\ \A verdicts, unmet : verdicts # {} => Speaks(Obliges(verdicts, unmet))
    /\ \A c, d : Speaks(c) \/ Speaks(d) => Speaks(And(c, d))
    /\ Speaks([Nothing EXCEPT !.permits = TRUE])
<1>1. \A reason : Speaks(Asks(reason))
  BY DEF Speaks, Asks, Nothing
<1>2. ASSUME NEW verdicts, NEW unmet, verdicts # {}
      PROVE  Speaks(Obliges(verdicts, unmet))
  <2>1. Obliges(verdicts, unmet).obliges = verdicts
    BY DEF Obliges, Nothing
  <2>. QED  BY <1>2, <2>1 DEF Speaks
<1>3. ASSUME NEW c, NEW d, Speaks(c) \/ Speaks(d)
      PROVE  Speaks(And(c, d))
  <2>1. /\ And(c, d).obliges = c.obliges \cup d.obliges
        /\ And(c, d).asks = c.asks \cup d.asks
        /\ And(c, d).permits = (c.permits \/ d.permits)
    BY DEF And
  <2>. QED  BY <1>3, <2>1 DEF Speaks
<1>4. Speaks([Nothing EXCEPT !.permits = TRUE])
  BY DEF Speaks, Nothing
<1>. QED  BY <1>1, <1>2, <1>3, <1>4

LEMMA IndicationSpeaks ==
    ASSUME NEW rule, NEW context, Recorded(rule), rule.applies,
           context.subjectIsChild # FALSE, ~(Indicates(rule.topic) \subseteq {"complaint"})
    PROVE  Speaks(Contribute(rule, context))
<1>1. rule.topic \in {"rights", "withdrawal", "sale_and_sharing", "opt_out_signals",
                      "non_discrimination"}
  BY DEF Indicates
<1>2. Disposition(rule.topic).does \in {"gate", "obligation"}
  BY <1>1 DEF Disposition
<1>3. Speaks(Effect(rule, context))
  <2>1. CASE rule.children # NoValue
    BY <2>1, WhatSpeaks DEF Effect, OfChildren
  <2>2. CASE rule.children = NoValue /\ ConsentDecides(rule)
    <3>1. Effect(rule, context) = OfConsent(rule, context)
      BY <2>2 DEF Effect
    <3>2. \A S : {"REQUIRE_CONSENT"} \cup S # {}
      OBVIOUS
    <3>3. Speaks(Exempts(rule, context))
      BY WhatSpeaks DEF Exempts
    <3>. QED  BY <3>1, <3>2, <3>3, WhatSpeaks DEF OfConsent
  <2>3. CASE rule.children = NoValue /\ ~ConsentDecides(rule) /\ rule.optOut # NoValue
    BY <2>3, WhatSpeaks DEF Effect
  <2>4. CASE rule.children = NoValue /\ ~ConsentDecides(rule) /\ rule.optOut = NoValue
    BY <1>2, <2>4, WhatSpeaks DEF Effect, OfTopic
  <2>. QED  BY <2>1, <2>2, <2>3, <2>4
<1>. QED  BY <1>3, WhatSpeaks DEF Contribute

LEMMA SilentSaysNothing ==
    ASSUME NEW rules, Matrix(rules), NEW context, Silent(Evaluate(context, rules)),
           NEW rule \in SelectRules(context, rules), context.jurisdictions # {}
    PROVE  ~Speaks(Contribute(rule, context))
<1>. DEFINE selected == SelectRules(context, rules)
            d == Conclude(selected, Given(selected, context))
            obliges == Obliged(selected, context)
            asks == Asked(selected, context)
            permitted == Permitted(selected, context)
<1>1. Evaluate(context, rules) = d /\ selected \subseteq rules
  BY EvaluatedIsConcluded DEF Unanswered
<1>2. Matrix(selected)
  BY <1>1 DEF Matrix
<1>. HIDE DEF selected, d, obliges, asks, permitted
<1>3. /\ d.outcome = Outcome(obliges, asks, permitted)
      /\ d.open = IF d.outcome = "REVIEW" /\ asks = {} THEN {"nothing_addressed"} ELSE asks
  BY WhatIsConcluded DEF d, obliges, asks, permitted
<1>4. asks \subseteq Reason
  <2>1. ASSUME NEW r \in selected
        PROVE  Contribute(r, context).asks \subseteq Reason
    <3>1. Contributes(Contribute(r, context), ExemptsGate(r, context))
      BY <1>2, RuleContributes DEF Matrix
    <3>. QED  BY <3>1 DEF Contributes
  <2>. QED  BY <2>1 DEF Asked, asks
<1>5. asks = {}
  BY <1>1, <1>3, <1>4 DEF Silent, Reason
<1>6. obliges \in SUBSET Obligation /\ permitted \in BOOLEAN
  BY <1>2, ObligedAreObligations DEF Permitted, obliges, permitted
<1>7. MostRestrictive(Weighed(obliges, asks)) # "REVIEW"
  <2>1. MostRestrictive(Weighed(obliges, asks)) \in Weighed(obliges, asks)
    BY <1>6, WeighedAreVerdicts, TheMostRestrictive
  <2>. QED  BY <1>5, <1>6, <2>1 DEF Weighed, Obligation
<1>8. d.outcome = "REVIEW"
  BY <1>1 DEF Silent
<1>9. obliges = {} /\ ~permitted
  <2>1. Outcome(obliges, asks, permitted) # MostRestrictive(Weighed(obliges, asks))
    BY <1>3, <1>7, <1>8
  <2>. QED  BY <1>6, <2>1, NothingElseAllows
<1>10. rule \in selected
  BY DEF selected
<1>. QED  BY <1>5, <1>9, <1>10 DEF Speaks, Obliged, Asked, Permitted, obliges, asks, permitted

(***************************************************************************)
(* No control is offered where the decision is silent (api/lib/rights.ts:  *)
(* 162-166), but for complaints, which no verdict speaks of.  (Of the mark *)
(* of a field left open no more is used than that it is not an answer.)    *)
(***************************************************************************)
THEOREM SilenceOffersNothing ==
    ASSUME NoValue # FALSE, NEW rules, Matrix(rules), NEW jurisdictions, NEW asOf
    PROVE  Silent(Evaluate(WebsiteContext(jurisdictions, {}, asOf), rules))
             => AvailableRights(jurisdictions, rules, asOf).indicated \subseteq {"complaint"}
<1>. DEFINE context == WebsiteContext(jurisdictions, {}, asOf)
            indicating == Indicating(context, rules)
<1>1. SUFFICES ASSUME Silent(Evaluate(context, rules))
               PROVE  AvailableRights(jurisdictions, rules, asOf).indicated
                        \subseteq {"complaint"}
  OBVIOUS
<1>2. context.subjectIsChild # FALSE
  BY DEF WebsiteContext
<1>3. \A rule \in indicating : rule \in SelectRules(context, rules) /\ rule.applies
  BY DEF Indicating
<1>4. AvailableRights(jurisdictions, rules, asOf).indicated
        = (UNION {Indicates(rule.topic) : rule \in indicating}) \ Always
  BY DEF AvailableRights
<1>. HIDE DEF context, indicating
<1>5. ASSUME NEW rule \in indicating
      PROVE  Indicates(rule.topic) \subseteq {"complaint"}
  <2>1. rule \in SelectRules(context, rules) /\ rule.applies
    BY <1>3
  <2>2. rule \in rules /\ context.jurisdictions # {}
    BY <2>1 DEF SelectRules
  <2>3. ~Speaks(Contribute(rule, context))
    BY <1>1, <2>1, <2>2, SilentSaysNothing
  <2>. QED  BY <1>2, <2>1, <2>2, <2>3, IndicationSpeaks DEF Matrix
<1>. QED  BY <1>4, <1>5

-----------------------------------------------------------------------------
(***************************************************************************)
(*                         Proofs of stored decisions                      *)
(***************************************************************************)

(***************************************************************************)
(* What a document binds.  Two documents of one form are the same only if  *)
(* everything the form binds is.                                           *)
(***************************************************************************)
LEMMA Extended ==
    ASSUME NEW a, NEW b, NEW c, NEW d, NEW e, NEW f, NEW x
    PROVE  Append(<<a, b, c, d, e, f>>, x) = <<a, b, c, d, e, f, x>>
<1>. DEFINE S == {a, b, c, d, e, f, x}
            s == <<a, b, c, d, e, f>>
            t == <<a, b, c, d, e, f, x>>
<1>1. s \in Seq(S) /\ x \in S /\ t \in Seq(S) /\ Len(s) = 6 /\ Len(t) = 7
  OBVIOUS
<1>2. \A i \in 1..6 : s[i] = t[i]
  <2>1. \A i \in 1..6 : i = 1 \/ i = 2 \/ i = 3 \/ i = 4 \/ i = 5 \/ i = 6
    OBVIOUS
  <2>. QED  BY <2>1
<1>3. t[7] = x
  OBVIOUS
<1>. HIDE DEF S, s, t
<1>4. /\ Append(s, x) \in Seq(S) /\ Len(Append(s, x)) = Len(s) + 1
      /\ \A i \in 1..Len(s) : Append(s, x)[i] = s[i]
      /\ Append(s, x)[Len(s) + 1] = x
  <2>1. s \in Seq(S) /\ x \in S
    BY <1>1
  <2>2. Append(s, x) \in Seq(S)
    BY <2>1, AppendProperties
  <2>3. Len(Append(s, x)) = Len(s) + 1
    BY <2>1, AppendProperties
  <2>4. \A i \in 1..Len(s) : Append(s, x)[i] = s[i]
    BY <2>1, AppendProperties
  <2>5. Append(s, x)[Len(s) + 1] = x
    BY <2>1, AppendProperties
  <2>. QED  BY <2>2, <2>3, <2>4, <2>5
<1>5. /\ Len(Append(s, x)) = 7 /\ Append(s, x)[7] = t[7]
      /\ \A i \in 1..6 : Append(s, x)[i] = t[i]
  <2>1. Len(s) + 1 = 7
    BY <1>1
  <2>. QED  BY <1>1, <1>2, <1>3, <1>4, <2>1
<1>6. Append(s, x) = t
  BY <1>1, <1>4, <1>5, SeqEqual
<1>. QED  BY <1>6 DEF s, t

LEMMA DocumentIs ==
    ASSUME NEW f, NEW v
    PROVE  K!CanonicalProof(f, v) =
             IF v = "proof/1"
             THEN <<v, f.id, f.status, f.receipt, f.sequence, f.previous>>
             ELSE <<v, f.id, f.status, f.receipt, f.sequence, f.previous, f.variant>>
BY Extended DEF K!CanonicalProof

LEMMA DocumentNames ==
    ASSUME NEW f, NEW v
    PROVE  K!CanonicalProof(f, v)[2] = f.id
BY DocumentIs

LEMMA SameDocument ==
    ASSUME NEW f, NEW g, NEW v
    PROVE  K!CanonicalProof(f, v) = K!CanonicalProof(g, v)
             <=> /\ f.id = g.id /\ f.status = g.status /\ f.receipt = g.receipt
                 /\ f.sequence = g.sequence /\ f.previous = g.previous
                 /\ v # "proof/1" => f.variant = g.variant
<1>1. CASE v = "proof/1"
  BY <1>1, DocumentIs
<1>2. CASE v # "proof/1"
  BY <1>2, DocumentIs
<1>. QED  BY <1>1, <1>2

LEMMA SameEvidence ==
    ASSUME NEW d, NEW e
    PROVE  K!CanonicalEvidence(d) = K!CanonicalEvidence(e)
             <=> d.status = e.status /\ d.notice = e.notice
BY DEF K!CanonicalEvidence

(***************************************************************************)
(* A row as a release wrote it, and a row of which some columns are as     *)
(* nobody wrote them: those that were changed, and only those.             *)
(***************************************************************************)
Column == {"id", "status", "notice", "variant", "receipt", "sequence", "previous", "digest",
           "signature", "version"}
Alterable == {"status", "notice", "variant"}

FactsOf(row) == K!ProofFor(row).facts

Genuine(row) ==
    /\ row.version \in {NoValue, "proof/2"}
    /\ row.receipt = K!CanonicalEvidence(row)
    /\ row.sequence = NoValue => row.digest = NoValue
    /\ row.sequence # NoValue => row.digest = K!CanonicalProof(FactsOf(row), K!VersionOf(row))
    /\ row.signature # NoValue => /\ row.signature.over = row.digest
                                  /\ row.signature.key # NoValue

Agrees(row, o, changed) ==
    \A c \in Column : IF <<row.id, c>> \in changed THEN c \in Alterable /\ row[c] # o[c]
                      ELSE row[c] = o[c]

Standing(row, changed) ==
    /\ DOMAIN row = Column
    /\ \E o : Genuine(o) /\ Agrees(row, o, changed)

LEMMA FactsAre ==
    ASSUME NEW row
    PROVE  /\ FactsOf(row).id = row.id /\ FactsOf(row).status = row.status
           /\ FactsOf(row).receipt = row.receipt /\ FactsOf(row).sequence = row.sequence
           /\ FactsOf(row).previous = row.previous /\ FactsOf(row).variant = row.variant
BY DEF FactsOf, K!ProofFor

LEMMA FixedColumns ==
    ASSUME NEW row, NEW o, NEW changed, Agrees(row, o, changed)
    PROVE  /\ row.id = o.id /\ row.receipt = o.receipt /\ row.sequence = o.sequence
           /\ row.previous = o.previous /\ row.digest = o.digest
           /\ row.signature = o.signature /\ row.version = o.version
BY DEF Agrees, Column, Alterable

LEMMA StandingUntouched ==
    ASSUME NEW row, NEW changed, Standing(row, changed),
           \A c \in Alterable : <<row.id, c>> \notin changed
    PROVE  Genuine(row)
<1>1. PICK o : Genuine(o) /\ Agrees(row, o, changed)
  BY DEF Standing
<1>2. /\ row.id = o.id /\ row.receipt = o.receipt /\ row.sequence = o.sequence
      /\ row.previous = o.previous /\ row.digest = o.digest
      /\ row.signature = o.signature /\ row.version = o.version
  BY <1>1, FixedColumns
<1>3. row.status = o.status /\ row.notice = o.notice /\ row.variant = o.variant
  BY <1>1 DEF Agrees, Column, Alterable
<1>4. K!CanonicalEvidence(row) = K!CanonicalEvidence(o)
  BY <1>3, SameEvidence
<1>5. K!VersionOf(row) = K!VersionOf(o) /\ FactsOf(row) = FactsOf(o)
  BY <1>2, <1>3 DEF K!VersionOf, FactsOf, K!ProofFor
<1>. QED  BY <1>1, <1>2, <1>4, <1>5 DEF Genuine

LEMMA GenuineStands ==
    ASSUME NEW row, DOMAIN row = Column, Genuine(row), NEW changed,
           \A c \in Column : <<row.id, c>> \notin changed
    PROVE  Standing(row, changed)
<1>1. Agrees(row, row, changed)
  BY DEF Agrees
<1>. QED  BY <1>1 DEF Standing

\* The digest of a row names the row.
LEMMA DigestNames ==
    ASSUME NEW row, NEW changed, Standing(row, changed), row.sequence # NoValue
    PROVE  row.digest[2] = row.id
<1>1. PICK o : Genuine(o) /\ Agrees(row, o, changed)
  BY DEF Standing
<1>2. row.id = o.id /\ row.sequence = o.sequence /\ row.digest = o.digest
  BY <1>1, FixedColumns
<1>3. o.digest = K!CanonicalProof(FactsOf(o), K!VersionOf(o))
  BY <1>1, <1>2 DEF Genuine
<1>. QED  BY <1>2, <1>3, DocumentNames, FactsAre

(***************************************************************************)
(* The ledger.  Rows have ids of their own and, where they are chained,    *)
(* positions of their own; every position but the first names the row      *)
(* before it, which is there or was removed; and the place of a removed    *)
(* row another names is never given to a third.                            *)
(***************************************************************************)
Identified(rows, removed, n) ==
    /\ n \in Nat
    /\ rows \cap removed = {}
    /\ \A r \in rows \cup removed : r.id \in 1..n
    /\ \A r, s \in rows \cup removed : r.id = s.id => r = s

AllStand(rows, removed, changed) ==
    /\ \A r \in rows : Standing(r, changed)
    /\ \A r \in removed : Standing(r, {})

Positioned(rows, removed, n) ==
    /\ \A r \in K!Chained(rows \cup removed) : r.sequence \in 1..n
    /\ \A r, s \in K!Chained(rows) : r.sequence = s.sequence => r = s

Before(r, all) == {p \in K!Chained(all) : p.sequence = r.sequence - 1 /\ p.digest = r.previous}

Linked(rows, removed) ==
    \A r \in K!Chained(rows) :
        IF r.sequence = 1 THEN r.previous = NoValue ELSE Before(r, rows \cup removed) # {}

GapsStay(rows, removed) ==
    \A p \in K!Chained(removed), r \in K!Chained(rows) :
        r.sequence # 1 /\ r.previous = p.digest =>
            /\ r.sequence = p.sequence + 1
            /\ \A s \in K!Chained(rows) : s.sequence # p.sequence

TouchedOnce(removed, changed, n) ==
    /\ removed = {} \/ changed = {}
    /\ \A c \in changed : \E id \in 1..n, column \in Alterable : c = <<id, column>>

Ledger(rows, removed, changed, n) ==
    /\ Identified(rows, removed, n)
    /\ AllStand(rows, removed, changed)
    /\ Positioned(rows, removed, n)
    /\ Linked(rows, removed)
    /\ GapsStay(rows, removed)
    /\ TouchedOnce(removed, changed, n)

(***************************************************************************)
(* The tip of a chain, and the row a release writes.                       *)
(***************************************************************************)
LEMMA LeastOf ==
    ASSUME NEW T \in SUBSET Nat, T # {}
    PROVE  \E x \in T : \A y \in T : x <= y
<1>. DEFINE smaller == OpToRel(<, Nat)
<1>1. IsWellFoundedOn(smaller, Nat)
  BY NatLessThanWellFounded
<1>2. \A x, y \in Nat : <<y, x>> \in smaller <=> y < x
  BY DEF OpToRel
<1>. HIDE DEF smaller
<1>3. PICK x \in T : \A y \in T : ~(<<y, x>> \in smaller)
  BY <1>1, WFMin
<1>4. \A y \in T : ~(y < x)
  BY <1>2, <1>3
<1>. QED  BY <1>4

LEMMA TipIsLast ==
    ASSUME NEW rows, NEW n \in Nat, \A r \in K!Chained(rows) : r.sequence \in 1..n,
           K!Chained(rows) # {}
    PROVE  /\ K!Tip(rows) \in K!Chained(rows)
           /\ \A s \in K!Chained(rows) : s.sequence <= K!Tip(rows).sequence
<1>. DEFINE T == {n - r.sequence : r \in K!Chained(rows)}
<1>1. T \in SUBSET Nat /\ T # {}
  OBVIOUS
<1>2. PICK x \in T : \A y \in T : x <= y
  BY <1>1, LeastOf
<1>3. PICK r \in K!Chained(rows) : x = n - r.sequence
  OBVIOUS
<1>4. ASSUME NEW s \in K!Chained(rows)
      PROVE  s.sequence <= r.sequence
  <2>1. n - s.sequence \in T
    OBVIOUS
  <2>2. n - r.sequence <= n - s.sequence
    BY <1>2, <1>3, <2>1
  <2>3. s.sequence \in Int /\ r.sequence \in Int
    OBVIOUS
  <2>. HIDE DEF T
  <2>. QED  BY <2>2, <2>3
<1>. QED  BY <1>3, <1>4 DEF K!Tip

LEMMA RowWritten ==
    ASSUME NEW id, NEW decision, NEW rows, NEW release, NEW env,
           K!Chained(rows) # {} => K!Tip(rows).sequence \in Nat
    PROVE  LET w == K!Written(id, decision, rows, release, env)
           IN /\ DOMAIN w = Column /\ w.id = id /\ Genuine(w)
              /\ w.sequence # NoValue =>
                   IF K!Chained(rows) = {} THEN w.sequence = 1 /\ w.previous = NoValue
                   ELSE /\ w.sequence = K!Tip(rows).sequence + 1
                        /\ w.previous = K!Tip(rows).digest
<1>. DEFINE w == K!Written(id, decision, rows, release, env)
            first == K!Chained(rows) = {}
            sequence == IF first THEN 1 ELSE K!Tip(rows).sequence + 1
            previous == IF first THEN NoValue ELSE K!Tip(rows).digest
            version == IF release = "versions" THEN "proof/2" ELSE "proof/1"
            receipt == K!CanonicalEvidence(decision)
            facts == [id |-> id, status |-> decision.status, receipt |-> receipt,
                      sequence |-> sequence, previous |-> previous,
                      variant |-> decision.variant]
            document == K!CanonicalProof(facts, version)
            key == K!SigningKey(env)
            proved == release # "receipts"
<1>1. w = [id |-> id, status |-> decision.status, notice |-> decision.notice,
           variant |-> IF release = "versions" THEN decision.variant ELSE NoValue,
           receipt |-> receipt,
           sequence |-> IF proved THEN sequence ELSE NoValue,
           previous |-> IF proved THEN previous ELSE NoValue,
           digest |-> IF proved THEN document ELSE NoValue,
           signature |-> IF proved /\ key # NoValue THEN [key |-> key, over |-> document]
                         ELSE NoValue,
           version |-> IF release = "versions" THEN "proof/2" ELSE NoValue]
  BY DEF K!Written
<1>2. /\ facts.id = id /\ facts.status = decision.status /\ facts.receipt = receipt
      /\ facts.sequence = sequence /\ facts.previous = previous
      /\ facts.variant = decision.variant
  OBVIOUS
<1>3. sequence # NoValue
  BY NullAssumption
<1>. HIDE DEF w, facts, document, sequence, previous, receipt, key
<1>4. /\ DOMAIN w = Column /\ w.id = id /\ w.status = decision.status
      /\ w.notice = decision.notice /\ w.receipt = receipt
      /\ release = "versions" => w.variant = decision.variant /\ w.version = "proof/2"
      /\ release # "versions" => w.version = NoValue
      /\ proved => w.sequence = sequence /\ w.previous = previous /\ w.digest = document
      /\ ~proved => w.sequence = NoValue /\ w.digest = NoValue
  BY <1>1 DEF Column
<1>5. w.signature # NoValue => /\ proved /\ key # NoValue
                               /\ w.signature = [key |-> key, over |-> document]
  BY <1>1
<1>6. K!VersionOf(w) = version
  <2>1. NoValue # "proof/2"
    BY NullAssumption
  <2>. QED  BY <1>4, <2>1 DEF K!VersionOf
<1>7. w.receipt = K!CanonicalEvidence(w)
  BY <1>4, SameEvidence DEF receipt
<1>8. proved => document = K!CanonicalProof(FactsOf(w), version)
  BY <1>2, <1>4, FactsAre, SameDocument DEF document
<1>9. Genuine(w)
  <2>1. w.version \in {NoValue, "proof/2"}
    BY <1>4
  <2>2. w.sequence = NoValue => w.digest = NoValue
    BY <1>3, <1>4
  <2>3. w.sequence # NoValue => w.digest = K!CanonicalProof(FactsOf(w), K!VersionOf(w))
    BY <1>4, <1>6, <1>8
  <2>4. w.signature # NoValue => w.signature.over = w.digest /\ w.signature.key # NoValue
    BY <1>4, <1>5
  <2>. QED  BY <1>7, <2>1, <2>2, <2>3, <2>4 DEF Genuine
<1>10. w.sequence # NoValue =>
         IF K!Chained(rows) = {} THEN w.sequence = 1 /\ w.previous = NoValue
         ELSE w.sequence = K!Tip(rows).sequence + 1 /\ w.previous = K!Tip(rows).digest
  BY <1>4 DEF sequence, previous
<1>. QED  BY <1>4, <1>9, <1>10 DEF w

-----------------------------------------------------------------------------
(***************************************************************************)
(* Each step keeps the ledger: a decision recorded, a row deleted and a    *)
(* column changed.                                                         *)
(***************************************************************************)
LEMMA LedgerEmpty == Ledger({}, {}, {}, 0)
BY DEF Ledger, Identified, AllStand, Positioned, Linked, GapsStay, TouchedOnce, K!Chained

LEMMA LedgerGrows ==
    ASSUME NEW rows, NEW removed, NEW changed, NEW n, Ledger(rows, removed, changed, n),
           NEW decision, NEW release, NEW env
    PROVE  Ledger(rows \cup {K!Written(n + 1, decision, rows, release, env)},
                  removed, changed, n + 1)
<1>. DEFINE w == K!Written(n + 1, decision, rows, release, env)
            more == rows \cup {w}
            tip == K!Tip(rows)
<1>1. /\ Identified(rows, removed, n) /\ AllStand(rows, removed, changed)
      /\ Positioned(rows, removed, n) /\ Linked(rows, removed)
      /\ GapsStay(rows, removed) /\ TouchedOnce(removed, changed, n)
  BY DEF Ledger
<1>2. n \in Nat /\ \A r \in K!Chained(rows \cup removed) : r.sequence \in 1..n
  BY <1>1 DEF Identified, Positioned
<1>3. /\ K!Chained(rows) \subseteq K!Chained(rows \cup removed)
      /\ K!Chained(removed) \subseteq K!Chained(rows \cup removed)
      /\ K!Chained(rows) \subseteq rows /\ K!Chained(removed) \subseteq removed
  BY DEF K!Chained
<1>4. K!Chained(rows) # {} =>
        /\ tip \in K!Chained(rows) /\ tip.sequence \in 1..n
        /\ \A s \in K!Chained(rows) : s.sequence <= tip.sequence
  BY <1>2, <1>3, TipIsLast
<1>5. /\ DOMAIN w = Column /\ w.id = n + 1 /\ Genuine(w)
      /\ w.sequence # NoValue =>
           IF K!Chained(rows) = {} THEN w.sequence = 1 /\ w.previous = NoValue
           ELSE w.sequence = tip.sequence + 1 /\ w.previous = tip.digest
  <2>1. K!Chained(rows) # {} => tip.sequence \in Nat
    BY <1>2, <1>4
  <2>. HIDE DEF tip
  <2>2. K!Chained(rows) # {} => K!Tip(rows).sequence \in Nat
    BY <2>1 DEF tip
  <2>. QED  BY <2>2, RowWritten DEF tip
<1>. HIDE DEF w, tip
<1>6. /\ K!Chained(more) = K!Chained(rows) \cup (IF w.sequence = NoValue THEN {} ELSE {w})
      /\ K!Chained(more \cup removed)
           = K!Chained(rows \cup removed) \cup (IF w.sequence = NoValue THEN {} ELSE {w})
  BY DEF K!Chained
<1>7. w.sequence # NoValue =>
        /\ w.sequence \in 1..n + 1
        /\ \A s \in K!Chained(rows) : s.sequence < w.sequence
  <2>1. SUFFICES ASSUME w.sequence # NoValue
                 PROVE  /\ w.sequence \in 1..n + 1
                        /\ \A s \in K!Chained(rows) : s.sequence < w.sequence
    OBVIOUS
  <2>2. CASE K!Chained(rows) = {}
    BY <1>2, <1>5, <2>1, <2>2
  <2>3. CASE K!Chained(rows) # {}
    <3>1. w.sequence = tip.sequence + 1 /\ tip.sequence \in 1..n
      BY <1>4, <1>5, <2>1, <2>3
    <3>2. \A s \in K!Chained(rows) : s.sequence \in 1..n /\ s.sequence <= tip.sequence
      BY <1>2, <1>3, <1>4, <2>3
    <3>. QED  BY <1>2, <3>1, <3>2
  <2>. QED  BY <2>2, <2>3
<1>8. Identified(more, removed, n + 1)
  <2>1. /\ rows \cap removed = {} /\ \A r \in rows \cup removed : r.id \in 1..n
        /\ \A r, s \in rows \cup removed : r.id = s.id => r = s
    BY <1>1 DEF Identified
  <2>2. \A r \in rows \cup removed : r.id # w.id
    BY <1>2, <1>5, <2>1
  <2>3. more \cap removed = {}
    BY <2>1, <2>2
  <2>4. \A r \in more \cup removed : r.id \in 1..n + 1
    BY <1>2, <1>5, <2>1
  <2>5. \A r, s \in more \cup removed : r.id = s.id => r = s
    BY <2>1, <2>2
  <2>. QED  BY <1>2, <2>3, <2>4, <2>5 DEF Identified
<1>9. AllStand(more, removed, changed)
  <2>1. \A c \in Column : <<w.id, c>> \notin changed
    <3>1. SUFFICES ASSUME NEW c \in Column, <<w.id, c>> \in changed PROVE FALSE
      OBVIOUS
    <3>2. PICK id \in 1..n, column \in Alterable : <<w.id, c>> = <<id, column>>
      BY <1>1, <3>1 DEF TouchedOnce
    <3>. QED  BY <1>2, <1>5, <3>2
  <2>2. Standing(w, changed)
    BY <1>5, <2>1, GenuineStands
  <2>. QED  BY <1>1, <2>2 DEF AllStand
<1>10. Positioned(more, removed, n + 1)
  <2>1. \A r \in K!Chained(more \cup removed) : r.sequence \in 1..n + 1
    <3>1. 1..n \subseteq 1..n + 1
      BY <1>2
    <3>2. w.sequence # NoValue => w.sequence \in 1..n + 1
      BY <1>7
    <3>. QED  BY <1>2, <1>6, <3>1, <3>2
  <2>2. \A r, s \in K!Chained(rows) : r.sequence = s.sequence => r = s
    BY <1>1 DEF Positioned
  <2>3. \A s \in K!Chained(rows) : w.sequence # NoValue => s.sequence # w.sequence
    BY <1>2, <1>3, <1>7
  <2>4. \A r, s \in K!Chained(more) : r.sequence = s.sequence => r = s
    BY <1>6, <2>2, <2>3
  <2>. QED  BY <2>1, <2>4 DEF Positioned
<1>11. Linked(more, removed)
  <2>1. ASSUME NEW r \in K!Chained(rows)
        PROVE  IF r.sequence = 1 THEN r.previous = NoValue ELSE Before(r, more \cup removed) # {}
    <3>1. Before(r, rows \cup removed) \subseteq Before(r, more \cup removed)
      BY <1>6 DEF Before
    <3>. QED  BY <1>1, <3>1 DEF Linked
  <2>2. ASSUME w.sequence # NoValue
        PROVE  IF w.sequence = 1 THEN w.previous = NoValue ELSE Before(w, more \cup removed) # {}
    <3>1. CASE K!Chained(rows) = {}
      BY <1>5, <2>2, <3>1
    <3>2. CASE K!Chained(rows) # {}
      <4>1. w.sequence # 1 /\ tip.sequence = w.sequence - 1 /\ w.previous = tip.digest
        BY <1>2, <1>4, <1>5, <2>2, <3>2
      <4>2. tip \in K!Chained(more \cup removed)
        BY <1>3, <1>4, <1>6, <3>2
      <4>. QED  BY <4>1, <4>2 DEF Before
    <3>. QED  BY <3>1, <3>2
  <2>. QED  BY <1>6, <2>1, <2>2 DEF Linked
<1>12. GapsStay(more, removed)
  <2>1. SUFFICES ASSUME NEW p \in K!Chained(removed), NEW r \in K!Chained(more),
                        r.sequence # 1, r.previous = p.digest
                 PROVE  /\ r.sequence = p.sequence + 1
                        /\ \A s \in K!Chained(more) : s.sequence # p.sequence
    BY DEF GapsStay
  <2>2. p.sequence \in 1..n /\ p \in removed /\ p.sequence # NoValue
    BY <1>2, <1>3 DEF K!Chained
  <2>3. r \in K!Chained(rows)
    <3>1. SUFFICES ASSUME r = w, w.sequence # NoValue PROVE FALSE
      BY <1>6
    <3>2. /\ K!Chained(rows) # {} /\ tip \in K!Chained(rows) /\ p.digest = tip.digest
      BY <1>4, <1>5, <2>1, <3>1
    <3>3. tip \in rows /\ tip.sequence # NoValue
      BY <3>2 DEF K!Chained
    <3>4. tip.digest[2] = tip.id
      BY <1>1, <3>3, DigestNames DEF AllStand
    <3>5. p.digest[2] = p.id
      BY <1>1, <2>2, DigestNames DEF AllStand
    <3>6. tip = p
      BY <1>1, <2>2, <3>2, <3>3, <3>4, <3>5 DEF Identified
    <3>. QED  BY <1>1, <2>2, <3>3, <3>6 DEF Identified
  <2>4. /\ r.sequence = p.sequence + 1
        /\ \A s \in K!Chained(rows) : s.sequence # p.sequence
    BY <1>1, <2>1, <2>3 DEF GapsStay
  <2>5. w.sequence # NoValue => w.sequence # p.sequence
    BY <1>2, <1>3, <1>7, <2>2, <2>3, <2>4
  <2>. QED  BY <1>6, <2>4, <2>5
<1>13. TouchedOnce(removed, changed, n + 1)
  <2>1. 1..n \subseteq 1..n + 1
    BY <1>2
  <2>. QED  BY <1>1, <2>1 DEF TouchedOnce
<1>14. Ledger(more, removed, changed, n + 1)
  BY <1>8, <1>9, <1>10, <1>11, <1>12, <1>13 DEF Ledger
<1>. QED  BY <1>14 DEF w

LEMMA LedgerLoses ==
    ASSUME NEW rows, NEW n, Ledger(rows, {}, {}, n), NEW row \in rows
    PROVE  Ledger(rows \ {row}, {row}, {}, n)
<1>. DEFINE fewer == rows \ {row}
<1>1. /\ Identified(rows, {}, n) /\ AllStand(rows, {}, {})
      /\ Positioned(rows, {}, n) /\ Linked(rows, {})
  BY DEF Ledger
<1>2. fewer \cup {row} = rows /\ rows \cup {} = rows
  OBVIOUS
<1>3. K!Chained(fewer) \subseteq K!Chained(rows)
  BY DEF K!Chained
<1>4. Identified(fewer, {row}, n)
  BY <1>1, <1>2 DEF Identified
<1>5. AllStand(fewer, {row}, {})
  BY <1>1 DEF AllStand
<1>6. Positioned(fewer, {row}, n)
  BY <1>1, <1>2, <1>3 DEF Positioned
<1>7. Linked(fewer, {row})
  BY <1>1, <1>2, <1>3 DEF Linked
<1>8. GapsStay(fewer, {row})
  <2>1. SUFFICES ASSUME NEW p \in K!Chained({row}), NEW r \in K!Chained(fewer),
                        r.sequence # 1, r.previous = p.digest
                 PROVE  /\ r.sequence = p.sequence + 1
                        /\ \A s \in K!Chained(fewer) : s.sequence # p.sequence
    BY DEF GapsStay
  <2>2. p = row /\ p.sequence # NoValue /\ p \in rows /\ p \in K!Chained(rows)
    BY DEF K!Chained
  <2>3. PICK q \in Before(r, rows) : TRUE
    BY <1>1, <1>2, <1>3, <2>1 DEF Linked
  <2>4. /\ q \in rows /\ q.sequence # NoValue /\ q.sequence = r.sequence - 1
        /\ q.digest = p.digest
    BY <2>1, <2>3 DEF Before, K!Chained
  <2>5. p.digest[2] = p.id /\ q.digest[2] = q.id
    BY <1>1, <2>2, <2>4, DigestNames DEF AllStand
  <2>6. q = p
    BY <1>1, <1>2, <2>2, <2>4, <2>5 DEF Identified
  <2>7. r.sequence \in 1..n /\ n \in Nat
    BY <1>1, <1>2, <1>3 DEF Positioned, Identified
  <2>8. \A s \in K!Chained(fewer) : s.sequence # p.sequence
    <3>1. SUFFICES ASSUME NEW s \in K!Chained(fewer), s.sequence = p.sequence
                   PROVE  FALSE
      OBVIOUS
    <3>2. s \in K!Chained(rows) /\ s # p
      BY <1>3, <2>2 DEF K!Chained
    <3>3. p \in K!Chained(rows)
      BY <2>2
    <3>4. \A q1, q2 \in K!Chained(rows) : q1.sequence = q2.sequence => q1 = q2
      BY <1>1 DEF Positioned
    <3>. QED  BY <3>1, <3>2, <3>3, <3>4
  <2>9. r.sequence = p.sequence + 1
    <3>1. p.sequence = r.sequence - 1
      BY <2>4, <2>6
    <3>. QED  BY <2>7, <3>1
  <2>. QED  BY <2>8, <2>9
<1>9. TouchedOnce({row}, {}, n)
  BY DEF TouchedOnce
<1>. QED  BY <1>4, <1>5, <1>6, <1>7, <1>8, <1>9 DEF Ledger

LEMMA LedgerChanges ==
    ASSUME NEW rows, NEW n, Ledger(rows, {}, {}, n), NEW row \in rows,
           NEW column \in Alterable, NEW value, value # row[column]
    PROVE  Ledger((rows \ {row}) \cup {[row EXCEPT ![column] = value]}, {},
                  {<<row.id, column>>}, n)
<1>. DEFINE new == [row EXCEPT ![column] = value]
            altered == (rows \ {row}) \cup {new}
            mark == {<<row.id, column>>}
<1>1. /\ Identified(rows, {}, n) /\ AllStand(rows, {}, {})
      /\ Positioned(rows, {}, n) /\ Linked(rows, {})
  BY DEF Ledger
<1>2. Standing(row, {}) /\ DOMAIN row = Column
  BY <1>1 DEF AllStand, Standing
<1>3. Genuine(row)
  BY <1>2, StandingUntouched
<1>4. /\ DOMAIN new = Column
      /\ \A c \in Column : new[c] = IF c = column THEN value ELSE row[c]
  BY <1>2
<1>5. new.id = row.id /\ new.sequence = row.sequence /\ new.previous = row.previous
      /\ new.digest = row.digest
  BY <1>4 DEF Column, Alterable
<1>. HIDE DEF new
<1>6. Standing(new, mark)
  <2>1. Agrees(new, row, mark)
    BY <1>4, <1>5 DEF Agrees
  <2>. QED  BY <1>3, <1>4, <2>1 DEF Standing
<1>7. /\ n \in Nat /\ \A r \in rows : r.id \in 1..n
      /\ \A r, s \in rows : r.id = s.id => r = s
  BY <1>1 DEF Identified
<1>8. \A r \in rows \ {row} : Standing(r, mark)
  <2>1. SUFFICES ASSUME NEW r \in rows \ {row} PROVE Standing(r, mark)
    OBVIOUS
  <2>2. r.id # row.id
    BY <1>7
  <2>3. \A c \in Column : <<r.id, c>> \notin mark
    BY <2>2
  <2>4. DOMAIN r = Column /\ Standing(r, {})
    BY <1>1 DEF AllStand, Standing
  <2>5. Genuine(r)
    BY <2>4, StandingUntouched
  <2>. QED  BY <2>3, <2>4, <2>5, GenuineStands
<1>9. AllStand(altered, {}, mark)
  BY <1>6, <1>8 DEF AllStand
<1>10. Identified(altered, {}, n)
  BY <1>5, <1>7 DEF Identified
<1>11. \A r \in K!Chained(altered) :
         \E s \in K!Chained(rows) : /\ s.sequence = r.sequence /\ s.previous = r.previous
                                    /\ s.digest = r.digest
                                    /\ r = IF s = row THEN new ELSE s
  BY <1>5 DEF K!Chained
<1>12. \A s \in K!Chained(rows) :
         \E r \in K!Chained(altered) : r.sequence = s.sequence /\ r.digest = s.digest
  BY <1>5 DEF K!Chained
<1>13. altered \cup {} = altered /\ rows \cup {} = rows
  OBVIOUS
<1>. HIDE DEF altered
<1>14. Positioned(altered, {}, n)
  <2>1. \A r \in K!Chained(altered) : r.sequence \in 1..n
    BY <1>1, <1>11, <1>13 DEF Positioned
  <2>2. \A r, s \in K!Chained(altered) : r.sequence = s.sequence => r = s
    BY <1>1, <1>11 DEF Positioned
  <2>. QED  BY <1>13, <2>1, <2>2 DEF Positioned
<1>15. Linked(altered, {})
  <2>1. SUFFICES ASSUME NEW r \in K!Chained(altered)
                 PROVE  IF r.sequence = 1 THEN r.previous = NoValue
                        ELSE Before(r, altered) # {}
    BY <1>13 DEF Linked
  <2>2. PICK s \in K!Chained(rows) : s.sequence = r.sequence /\ s.previous = r.previous
    BY <1>11
  <2>3. IF s.sequence = 1 THEN s.previous = NoValue ELSE Before(s, rows) # {}
    BY <1>1, <1>13 DEF Linked
  <2>4. Before(s, rows) # {} => Before(r, altered) # {}
    BY <1>12, <2>2 DEF Before
  <2>. QED  BY <2>2, <2>3, <2>4
<1>16. GapsStay(altered, {})
  BY DEF GapsStay, K!Chained
<1>17. TouchedOnce({}, mark, n)
  BY <1>7 DEF TouchedOnce
<1>18. Ledger(altered, {}, mark, n)
  BY <1>9, <1>10, <1>14, <1>15, <1>16, <1>17 DEF Ledger
<1>. QED  BY <1>18 DEF altered, new

-----------------------------------------------------------------------------
(***************************************************************************)
(* What the verification finds of a chained row of a ledger.               *)
(***************************************************************************)
Bound(row) == {"status"} \cup IF row.version = NoValue THEN {} ELSE {"variant"}

Marked(row, columns, changed) == \E c \in columns : <<row.id, c>> \in changed

LEMMA IntegrityTells ==
    ASSUME NEW row, NEW changed, Standing(row, changed), row.sequence # NoValue
    PROVE  /\ row.digest = K!CanonicalProof(FactsOf(row), K!VersionOf(row))
                <=> ~Marked(row, Bound(row), changed)
           /\ (/\ row.receipt = K!CanonicalEvidence(row)
               /\ row.digest = K!CanonicalProof(FactsOf(row), K!VersionOf(row)))
                <=> ~Marked(row, Bound(row) \cup {"notice"}, changed)
<1>1. PICK o : Genuine(o) /\ Agrees(row, o, changed)
  BY DEF Standing
<1>2. /\ row.id = o.id /\ row.receipt = o.receipt /\ row.sequence = o.sequence
      /\ row.previous = o.previous /\ row.digest = o.digest
      /\ row.signature = o.signature /\ row.version = o.version
  BY <1>1, FixedColumns
<1>3. K!VersionOf(row) = K!VersionOf(o)
  BY <1>2 DEF K!VersionOf
<1>4. K!VersionOf(row) # "proof/1" <=> row.version # NoValue
  <2>1. row.version \in {NoValue, "proof/2"}
    BY <1>1, <1>2 DEF Genuine
  <2>. QED  BY <2>1 DEF K!VersionOf
<1>5. /\ row.digest = K!CanonicalProof(FactsOf(o), K!VersionOf(row))
      /\ row.receipt = K!CanonicalEvidence(o)
  BY <1>1, <1>2, <1>3 DEF Genuine
<1>6. /\ (row.status = o.status) <=> <<row.id, "status">> \notin changed
      /\ (row.notice = o.notice) <=> <<row.id, "notice">> \notin changed
      /\ (row.variant = o.variant) <=> <<row.id, "variant">> \notin changed
  BY <1>1 DEF Agrees, Column
<1>7. row.digest = K!CanonicalProof(FactsOf(row), K!VersionOf(row))
        <=> /\ row.status = o.status
            /\ row.version # NoValue => row.variant = o.variant
  <2>1. row.digest = K!CanonicalProof(FactsOf(row), K!VersionOf(row))
          <=> K!CanonicalProof(FactsOf(o), K!VersionOf(row))
                = K!CanonicalProof(FactsOf(row), K!VersionOf(row))
    BY <1>5
  <2>2. K!CanonicalProof(FactsOf(o), K!VersionOf(row))
          = K!CanonicalProof(FactsOf(row), K!VersionOf(row))
          <=> /\ row.status = o.status
              /\ K!VersionOf(row) # "proof/1" => row.variant = o.variant
    <3>1. /\ FactsOf(o).id = FactsOf(row).id /\ FactsOf(o).receipt = FactsOf(row).receipt
          /\ FactsOf(o).sequence = FactsOf(row).sequence
          /\ FactsOf(o).previous = FactsOf(row).previous
          /\ FactsOf(o).status = o.status /\ FactsOf(row).status = row.status
          /\ FactsOf(o).variant = o.variant /\ FactsOf(row).variant = row.variant
      BY <1>2, FactsAre
    <3>. QED  BY <3>1, SameDocument
  <2>. QED  BY <1>4, <2>1, <2>2
<1>8. row.receipt = K!CanonicalEvidence(row) <=> row.status = o.status /\ row.notice = o.notice
  BY <1>5, SameEvidence
<1>9. Marked(row, Bound(row), changed)
        <=> \/ <<row.id, "status">> \in changed
            \/ row.version # NoValue /\ <<row.id, "variant">> \in changed
  BY DEF Marked, Bound
<1>10. Marked(row, Bound(row) \cup {"notice"}, changed)
         <=> Marked(row, Bound(row), changed) \/ <<row.id, "notice">> \in changed
  BY DEF Marked
<1>. QED  BY <1>6, <1>7, <1>8, <1>9, <1>10

\* Whatever became of the keys, the verifier knows the key of a row as far as
\* the environment does.
LEMMA SignatureTells ==
    ASSUME NEW row, NEW changed, Standing(row, changed), row.sequence # NoValue
    PROVE  K!SignatureResult(K!ProofFor(row), K!KeyRing(input.env))
             = IF KeyState(row) \in {"valid", "revoked_key"} /\ Marked(row, Bound(row), changed)
               THEN "invalid" ELSE KeyState(row)
<1>. DEFINE env == input.env
            key == row.signature.key
            ring == K!KeyRing(env)
            held == {k \in ring : k.id = key}
            proof == K!ProofFor(row)
            over == row.signature.over # K!CanonicalProof(FactsOf(row), K!VersionOf(row))
            ids == {k.id : k \in env.ring}
            revoked == \E e \in env.ring : e.id = key /\ e.revoked
<1>1. /\ proof.signature = row.signature /\ proof.facts = FactsOf(row)
      /\ proof.version = K!VersionOf(row)
  BY DEF K!ProofFor, FactsOf
<1>2. KeyState(row) = IF row.signature = NoValue THEN "unsigned"
                      ELSE IF key \in ids THEN IF revoked THEN "revoked_key" ELSE "valid"
                      ELSE IF env.private /\ env.active = key THEN "valid" ELSE "unknown_key"
  <2>. DEFINE known == [k \in ids |-> \E e \in env.ring : e.id = k /\ e.revoked]
  <2>1. key \in ids => known[key] = revoked
    OBVIOUS
  <2>2. DOMAIN known = ids
    OBVIOUS
  <2>3. KeyState(row) = IF row.signature = NoValue THEN "unsigned"
                        ELSE IF key \in DOMAIN known
                        THEN IF known[key] THEN "revoked_key" ELSE "valid"
                        ELSE IF env.private /\ env.active = key THEN "valid" ELSE "unknown_key"
    BY DEF KeyState
  <2>. HIDE DEF known, ids, revoked
  <2>. QED  BY <2>1, <2>2, <2>3
<1>3. K!SignatureResult(proof, ring)
        = IF row.signature = NoValue THEN "unsigned"
          ELSE IF held = {} THEN "unknown_key"
          ELSE IF over THEN "invalid"
          ELSE IF \E k \in held : k.revoked THEN "revoked_key" ELSE "valid"
  <2>. HIDE DEF proof, ring
  <2>. QED  BY <1>1 DEF K!SignatureResult
<1>4. row.signature # NoValue => /\ key # NoValue
                                 /\ over <=> Marked(row, Bound(row), changed)
  <2>1. PICK o : Genuine(o) /\ Agrees(row, o, changed)
    BY DEF Standing
  <2>2. row.digest = o.digest /\ row.signature = o.signature
    BY <2>1, FixedColumns
  <2>3. row.signature # NoValue => row.signature.over = row.digest /\ key # NoValue
    BY <2>1, <2>2 DEF Genuine
  <2>. QED  BY <2>3, IntegrityTells
<1>5. ASSUME row.signature # NoValue
      PROVE  /\ held = {} <=> key \notin ids /\ ~(env.private /\ env.active = key)
             /\ key \in ids => ((\E k \in held : k.revoked) <=> revoked)
             /\ key \notin ids => ~\E k \in held : k.revoked
  <2>1. key # NoValue
    BY <1>4, <1>5
  <2>2. ring = IF env.private /\ env.active # NoValue /\ env.active \notin ids
               THEN env.ring \cup {[id |-> env.active, revoked |-> FALSE]} ELSE env.ring
    BY DEF K!KeyRing
  <2>3. CASE key \in ids
    <3>1. held = {k \in env.ring : k.id = key}
      BY <2>2, <2>3
    <3>. QED  BY <2>3, <3>1
  <2>4. CASE key \notin ids /\ env.private /\ env.active = key
    <3>. DEFINE own == [id |-> key, revoked |-> FALSE]
    <3>1. ring = env.ring \cup {own}
      BY <2>1, <2>2, <2>4
    <3>2. \A k \in env.ring : k.id # key
      BY <2>4
    <3>3. own.id = key /\ own.revoked = FALSE
      OBVIOUS
    <3>. HIDE DEF own, ring, key, env
    <3>4. held = {own}
      BY <3>1, <3>2, <3>3
    <3>. QED  BY <2>4, <3>3, <3>4
  <2>5. CASE key \notin ids /\ ~(env.private /\ env.active = key)
    <3>1. held = {}
      BY <2>2, <2>5
    <3>. QED  BY <2>5, <3>1
  <2>. QED  BY <2>3, <2>4, <2>5
<1>. HIDE DEF held, ids, revoked, over, key, env, ring, proof
<1>6. CASE row.signature = NoValue
  BY <1>2, <1>3, <1>6 DEF proof, ring, env
<1>7. CASE row.signature # NoValue
  <2>1. CASE key \in ids
    BY <1>2, <1>3, <1>4, <1>5, <1>7, <2>1 DEF proof, ring, env
  <2>2. CASE key \notin ids /\ env.private /\ env.active = key
    BY <1>2, <1>3, <1>4, <1>5, <1>7, <2>2 DEF proof, ring, env
  <2>3. CASE key \notin ids /\ ~(env.private /\ env.active = key)
    BY <1>2, <1>3, <1>4, <1>5, <1>7, <2>3 DEF proof, ring, env
  <2>. QED  BY <2>1, <2>2, <2>3
<1>. QED  BY <1>6, <1>7

\* The predecessor of a row is there, and is what the verifier looks up; or it
\* was removed, and the verifier finds nothing in its place.
LEMMA PredecessorFound ==
    ASSUME NEW rows, NEW removed, NEW changed, NEW n, Ledger(rows, removed, changed, n),
           NEW row \in K!Chained(rows)
    PROVE  /\ row.sequence = 1 => /\ row.previous = NoValue
                                  /\ K!Expected(row, rows) = {NoValue}
           /\ row.sequence # 1 =>
                \E p \in K!Chained(rows \cup removed) :
                   /\ p.digest = row.previous /\ p.sequence = row.sequence - 1
                   /\ p \in rows => K!Expected(row, rows) = {p.digest}
                   /\ p \notin rows => p \in removed /\ K!Expected(row, rows) = {NoValue}
<1>. DEFINE before == {r \in rows : r.sequence = row.sequence - 1}
<1>1. /\ Linked(rows, removed) /\ GapsStay(rows, removed) /\ Positioned(rows, removed, n)
      /\ n \in Nat
  BY DEF Ledger, Identified
<1>2. row.sequence # NoValue /\ row.sequence \in 1..n /\ row \in K!Chained(rows \cup removed)
  BY <1>1 DEF K!Chained, Positioned
<1>3. K!Expected(row, rows) = IF row.sequence = 1 \/ before = {} THEN {NoValue}
                              ELSE {r.digest : r \in before}
  BY <1>2 DEF K!Expected
<1>4. before \subseteq K!Chained(rows)
  <2>1. row.sequence - 1 # NoValue
    BY <1>1, <1>2, NullAssumption
  <2>. QED  BY <2>1 DEF K!Chained
<1>5. ASSUME row.sequence # 1
      PROVE  \E p \in K!Chained(rows \cup removed) :
                /\ p.digest = row.previous /\ p.sequence = row.sequence - 1
                /\ p \in rows => K!Expected(row, rows) = {p.digest}
                /\ p \notin rows => p \in removed /\ K!Expected(row, rows) = {NoValue}
  <2>1. PICK p \in K!Chained(rows \cup removed) :
           p.sequence = row.sequence - 1 /\ p.digest = row.previous
    BY <1>1, <1>5 DEF Linked, Before
  <2>2. p \in rows => K!Expected(row, rows) = {p.digest}
    <3>1. SUFFICES ASSUME p \in rows PROVE K!Expected(row, rows) = {p.digest}
      OBVIOUS
    <3>2. p \in K!Chained(rows) /\ p \in before
      BY <2>1, <3>1 DEF K!Chained
    <3>3. before = {p}
      BY <1>1, <1>4, <2>1, <3>2 DEF Positioned
    <3>. HIDE DEF before
    <3>. QED  BY <1>3, <1>5, <3>3
  <2>3. p \notin rows => p \in removed /\ K!Expected(row, rows) = {NoValue}
    <3>1. SUFFICES ASSUME p \notin rows
                   PROVE  p \in removed /\ K!Expected(row, rows) = {NoValue}
      OBVIOUS
    <3>2. p \in removed /\ p \in K!Chained(removed)
      BY <3>1 DEF K!Chained
    <3>3. \A s \in K!Chained(rows) : s.sequence # p.sequence
      BY <1>1, <1>5, <2>1, <3>2 DEF GapsStay
    <3>4. before = {}
      BY <1>4, <2>1, <3>3
    <3>. QED  BY <1>3, <3>2, <3>4
  <2>. QED  BY <2>1, <2>2, <2>3
<1>6. row.sequence = 1 => row.previous = NoValue
  BY <1>1 DEF Linked
<1>. HIDE DEF before
<1>. QED  BY <1>3, <1>5, <1>6

\* The chain is found broken exactly at the row after a removed one.
LEMMA ChainTells ==
    ASSUME NEW rows, NEW removed, NEW changed, NEW n, Ledger(rows, removed, changed, n),
           NEW row \in K!Chained(rows)
    PROVE  /\ K!Expected(row, rows) # {}
           /\ row.previous \notin K!Expected(row, rows)
                <=> \E r \in removed : r.digest = row.previous /\ r.digest # NoValue
<1>1. CASE row.sequence = 1
  <2>1. row.previous = NoValue /\ K!Expected(row, rows) = {NoValue}
    BY <1>1, PredecessorFound
  <2>. QED  BY <2>1
<1>2. CASE row.sequence # 1
  <2>1. PICK p \in K!Chained(rows \cup removed) :
           /\ p.digest = row.previous /\ p.sequence = row.sequence - 1
           /\ p \in rows => K!Expected(row, rows) = {p.digest}
           /\ p \notin rows => p \in removed /\ K!Expected(row, rows) = {NoValue}
    BY <1>2, PredecessorFound
  <2>2. CASE p \notin rows
    BY <2>1, <2>2
  <2>3. CASE p \in rows
    <3>1. ASSUME NEW r \in removed, r.digest = row.previous, r.digest # NoValue
          PROVE  FALSE
      <4>1. Standing(r, {}) /\ Genuine(r)
        BY StandingUntouched DEF Ledger, AllStand
      <4>2. r \in K!Chained(removed)
        BY <3>1, <4>1 DEF Genuine, K!Chained
      <4>3. /\ row.sequence = r.sequence + 1
            /\ \A s \in K!Chained(rows) : s.sequence # r.sequence
        BY <1>2, <3>1, <4>2 DEF Ledger, GapsStay
      <4>4. p \in K!Chained(rows)
        BY <2>3 DEF K!Chained
      <4>5. r.sequence \in Nat
        BY <4>2 DEF Ledger, Identified, Positioned, K!Chained
      <4>6. p.sequence = r.sequence
        BY <2>1, <4>3, <4>5
      <4>. QED  BY <4>3, <4>4, <4>6
    <3>. QED  BY <2>1, <2>3, <3>1
  <2>. QED  BY <2>2, <2>3
<1>. QED  BY <1>1, <1>2

-----------------------------------------------------------------------------
(***************************************************************************)
(* The ledger is kept by whatever is deployed, decided and tampered with,  *)
(* and tells all there is to tell of it.                                   *)
(***************************************************************************)
Kept ==
    input.of = "proofs" =>
        /\ DOMAIN input = {"of", "env", "release", "deployed", "rows", "recorded", "changed",
                           "removed"}
        /\ Ledger(input.rows, input.removed, input.changed, input.recorded)

LEMMA InitKept == Init => Kept
BY DEF Init, Kept

LEMMA StepKept == Kept /\ [Next]_input => Kept'
<1>. SUFFICES ASSUME Kept, [Next]_input
              PROVE  Kept'
  OBVIOUS
<1>. DEFINE fields == {"of", "env", "release", "deployed", "rows", "recorded", "changed",
                       "removed"}
<1>1. CASE AskPolicy \/ AskAdvice \/ SendRequest \/ SendPayload \/ SubmitVariants
  <2>1. input'.of # "proofs"
    BY <1>1 DEF AskPolicy, AskAdvice, SendRequest, SendPayload, SubmitVariants
  <2>. QED  BY <2>1 DEF Kept
<1>2. CASE ReadRobots \/ CompareScans \/ ReceiveRequest
  <2>1. input'.of # "proofs"
    <3>1. CASE ReadRobots
      BY <3>1 DEF ReadRobots
    <3>2. CASE CompareScans
      BY <3>2 DEF CompareScans
    <3>3. CASE ReceiveRequest
      BY <3>3 DEF ReceiveRequest
    <3>. QED  BY <1>2, <3>1, <3>2, <3>3
  <2>. QED  BY <2>1 DEF Kept
<1>3. CASE Deploy
  <2>1. PICK env \in Environment, release \in DOMAIN K!Release :
          IF input.of = "none"
          THEN input' = [of |-> "proofs", env |-> env, release |-> release, deployed |-> 1,
                         rows |-> {}, recorded |-> 0, changed |-> {}, removed |-> {}]
          ELSE input' = [input EXCEPT !.env = env, !.release = release,
                                      !.deployed = input.deployed + 1]
    BY <1>3 DEF Deploy
  <2>2. CASE input.of = "none"
    <3>1. /\ DOMAIN input' = fields /\ input'.rows = {} /\ input'.removed = {}
          /\ input'.changed = {} /\ input'.recorded = 0
      BY <2>1, <2>2
    <3>. QED  BY <3>1, LedgerEmpty DEF Kept
  <2>3. CASE input.of = "proofs"
    <3>1. /\ DOMAIN input = fields
          /\ Ledger(input.rows, input.removed, input.changed, input.recorded)
      BY <2>3 DEF Kept
    <3>2. /\ DOMAIN input' = fields /\ input'.rows = input.rows
          /\ input'.removed = input.removed /\ input'.changed = input.changed
          /\ input'.recorded = input.recorded
      BY <2>1, <2>3, <3>1
    <3>. QED  BY <3>1, <3>2 DEF Kept
  <2>. QED  BY <1>3, <2>2, <2>3 DEF Deploy
<1>4. CASE Decide
  <2>1. input.of = "proofs"
    BY <1>4 DEF Decide
  <2>2. /\ DOMAIN input = fields
        /\ Ledger(input.rows, input.removed, input.changed, input.recorded)
    BY <2>1 DEF Kept
  <2>3. PICK decision \in Decision :
          input' = [input EXCEPT
                      !.recorded = input.recorded + 1,
                      !.rows = input.rows \cup
                                 {K!Written(input.recorded + 1, decision, input.rows,
                                            K!Release[input.release], input.env)}]
    BY <1>4 DEF Decide
  <2>4. /\ DOMAIN input' = fields /\ input'.removed = input.removed
        /\ input'.changed = input.changed /\ input'.recorded = input.recorded + 1
        /\ input'.rows = input.rows \cup
                           {K!Written(input.recorded + 1, decision, input.rows,
                                      K!Release[input.release], input.env)}
    BY <2>2, <2>3
  <2>5. Ledger(input'.rows, input'.removed, input'.changed, input'.recorded)
    BY <2>2, <2>4, LedgerGrows
  <2>. QED  BY <2>4, <2>5 DEF Kept
<1>5. CASE Tamper
  <2>1. input.of = "proofs" /\ input.changed = {} /\ input.removed = {}
    BY <1>5 DEF Tamper, Untampered
  <2>2. /\ DOMAIN input = fields
        /\ Ledger(input.rows, {}, {}, input.recorded)
    BY <2>1 DEF Kept
  <2>3. PICK row \in input.rows :
       \/ input' = [input EXCEPT !.rows = input.rows \ {row}, !.removed = {row}]
       \/ \E decision \in Decision, column \in {"status", "notice", "variant"} :
            /\ row[column] # decision[column]
            /\ input' = [input EXCEPT
                           !.rows = (input.rows \ {row})
                                      \cup {[row EXCEPT ![column] = decision[column]]},
                           !.changed = {<<row.id, column>>}]
    BY <1>5 DEF Tamper
  <2>4. CASE input' = [input EXCEPT !.rows = input.rows \ {row}, !.removed = {row}]
    <3>1. /\ DOMAIN input' = fields /\ input'.rows = input.rows \ {row}
          /\ input'.removed = {row} /\ input'.changed = {} /\ input'.recorded = input.recorded
      BY <2>1, <2>2, <2>4
    <3>2. Ledger(input.rows \ {row}, {row}, {}, input.recorded)
      BY <2>2, LedgerLoses
    <3>. QED  BY <3>1, <3>2 DEF Kept
  <2>5. ASSUME NEW decision \in Decision, NEW column \in {"status", "notice", "variant"},
               row[column] # decision[column],
               input' = [input EXCEPT
                           !.rows = (input.rows \ {row})
                                      \cup {[row EXCEPT ![column] = decision[column]]},
                           !.changed = {<<row.id, column>>}]
        PROVE  Kept'
    <3>1. /\ DOMAIN input' = fields
          /\ input'.rows = (input.rows \ {row}) \cup {[row EXCEPT ![column] = decision[column]]}
          /\ input'.removed = {} /\ input'.changed = {<<row.id, column>>}
          /\ input'.recorded = input.recorded
      BY <2>1, <2>2, <2>5
    <3>2. column \in Alterable
      BY DEF Alterable
    <3>3. Ledger((input.rows \ {row}) \cup {[row EXCEPT ![column] = decision[column]]}, {},
                 {<<row.id, column>>}, input.recorded)
      BY <2>2, <2>5, <3>2, LedgerChanges
    <3>. QED  BY <3>1, <3>3 DEF Kept
  <2>. QED  BY <2>3, <2>4, <2>5
<1>6. CASE UNCHANGED input
  BY <1>6 DEF Kept
<1>. QED  BY <1>1, <1>2, <1>3, <1>4, <1>5, <1>6 DEF Next

LEMMA AlwaysKept == Spec => []Kept
BY InitKept, StepKept, PTL DEF Spec

(***************************************************************************)
(* A digest and a document are tuples, and null is no function.            *)
(***************************************************************************)
NullIsNoFunction == NoValue # [x \in DOMAIN NoValue |-> NoValue[x]]

LEMMA DocumentIsNotNull ==
    ASSUME NullIsNoFunction, NEW facts, NEW version
    PROVE  K!CanonicalProof(facts, version) # NoValue
<1>. DEFINE T == {version, facts.id, facts.status, facts.receipt, facts.sequence,
                  facts.previous, facts.variant}
            common == <<version, facts.id, facts.status, facts.receipt, facts.sequence,
                        facts.previous>>
<1>1. common \in Seq(T)
  OBVIOUS
<1>2. common # NoValue
  BY DEF NullIsNoFunction
<1>3. Append(common, facts.variant) \in Seq(T)
  BY <1>1
<1>. HIDE DEF T, common
<1>4. Append(common, facts.variant) # NoValue
  BY <1>3 DEF NullIsNoFunction
<1>. QED  BY <1>2, <1>4 DEF K!CanonicalProof, common

\* No row passes for another: what precedes it does not precede the other.
LEMMA NoneForAnother ==
    ASSUME NullIsNoFunction, NEW rows, NEW n, Ledger(rows, {}, {}, n),
           NEW row \in K!Chained(rows), NEW other \in K!Chained(rows), other # row
    PROVE  /\ other.previous \notin K!Expected(row, rows)
           /\ K!Expected(row, rows) # {}
<1>1. rows \cup {} = rows
  OBVIOUS
<1>2. row.sequence # other.sequence
  BY DEF Ledger, Positioned
<1>3. \A r \in K!Chained(rows) : /\ r \in rows /\ Standing(r, {}) /\ Genuine(r)
                                 /\ r.sequence # NoValue /\ r.sequence \in Int
  BY <1>1, StandingUntouched DEF Ledger, AllStand, Positioned, Identified, K!Chained
<1>4. \A r \in K!Chained(rows) : r.digest # NoValue
  BY <1>3, DocumentIsNotNull DEF Genuine
<1>5. \A p, q \in K!Chained(rows) : p.digest = q.digest => p = q
  <2>1. \A p \in K!Chained(rows) : p.digest[2] = p.id
    BY <1>3, DigestNames
  <2>. QED  BY <1>3, <2>1 DEF Ledger, Identified
<1>6. \A r \in K!Chained(rows) :
         /\ r.sequence = 1 => r.previous = NoValue /\ K!Expected(r, rows) = {NoValue}
         /\ r.sequence # 1 => \E p \in K!Chained(rows) :
               /\ p.digest = r.previous /\ p.sequence = r.sequence - 1
               /\ K!Expected(r, rows) = {p.digest}
  <2>1. ASSUME NEW r \in K!Chained(rows)
        PROVE  /\ r.sequence = 1 => r.previous = NoValue /\ K!Expected(r, rows) = {NoValue}
               /\ r.sequence # 1 =>
                    \E p \in K!Chained(rows \cup {}) :
                       /\ p.digest = r.previous /\ p.sequence = r.sequence - 1
                       /\ p \in rows => K!Expected(r, rows) = {p.digest}
    BY PredecessorFound
  <2>2. \A p \in K!Chained(rows \cup {}) : p \in rows /\ p \in K!Chained(rows)
    BY <1>1, <1>3
  <2>. QED  BY <2>1, <2>2
<1>7. CASE row.sequence = 1
  BY <1>2, <1>4, <1>6, <1>7
<1>8. CASE row.sequence # 1 /\ other.sequence = 1
  BY <1>4, <1>6, <1>8
<1>9. CASE row.sequence # 1 /\ other.sequence # 1
  <2>1. PICK p \in K!Chained(rows) : /\ p.sequence = row.sequence - 1
                                     /\ K!Expected(row, rows) = {p.digest}
    BY <1>6, <1>9
  <2>2. PICK q \in K!Chained(rows) : /\ q.digest = other.previous
                                     /\ q.sequence = other.sequence - 1
    BY <1>6, <1>9
  <2>3. p # q
    BY <1>2, <1>3, <2>1, <2>2
  <2>. QED  BY <1>5, <2>1, <2>2, <2>3
<1>. QED  BY <1>7, <1>8, <1>9

LEMMA AuditIs ==
    ASSUME NEW proof, NEW row, NEW rows, NEW ring
    PROVE  LET a == K!Audit(proof, row, rows, ring)
               whole == /\ proof.facts.receipt = K!CanonicalEvidence(row)
                        /\ proof.digest = K!CanonicalProof(proof.facts, proof.version)
           IN /\ a.integrity = "invalid" <=> ~whole
              /\ a.signature = K!SignatureResult(proof, ring)
              /\ a.chain = "broken" <=> /\ K!Expected(row, rows) # {}
                                        /\ proof.facts.previous \notin K!Expected(row, rows)
              /\ a.ok => a.chain # "broken"
BY DEF K!Audit, K!VerifySignedProof

LEMMA KeptTells ==
    ASSUME NullIsNoFunction, Kept
    PROVE  ProofsTell
<1>1. SUFFICES ASSUME input.of = "proofs"
               PROVE  ProofsTell
  BY DEF ProofsTell
<1>. DEFINE ring == K!KeyRing(input.env)
            rows == K!Chained(input.rows)
            Answer(row) == K!Audit(K!ProofFor(row), row, input.rows, ring)
<1>2. Ledger(input.rows, input.removed, input.changed, input.recorded)
  BY <1>1 DEF Kept
<1>3. ASSUME NEW row \in rows
      PROVE  /\ Answer(row).integrity = "invalid" <=> Changed(row, Bound(row) \cup {"notice"})
             /\ Answer(row).signature =
                  IF KeyState(row) \in {"valid", "revoked_key"} /\ Changed(row, Bound(row))
                  THEN "invalid" ELSE KeyState(row)
             /\ Answer(row).chain = "broken"
                  <=> \E r \in input.removed : r.digest = row.previous /\ r.digest # NoValue
  <2>1. row \in input.rows /\ row.sequence # NoValue /\ Standing(row, input.changed)
    BY <1>2 DEF K!Chained, Ledger, AllStand
  <2>2. /\ Changed(row, Bound(row)) <=> Marked(row, Bound(row), input.changed)
        /\ Changed(row, Bound(row) \cup {"notice"})
             <=> Marked(row, Bound(row) \cup {"notice"}, input.changed)
    BY DEF Changed, Marked
  <2>3. /\ K!ProofFor(row).facts = FactsOf(row) /\ K!ProofFor(row).digest = row.digest
        /\ K!ProofFor(row).version = K!VersionOf(row)
        /\ FactsOf(row).receipt = row.receipt /\ FactsOf(row).previous = row.previous
    BY DEF K!ProofFor, FactsOf
  <2>4. Answer(row).integrity = "invalid" <=> Changed(row, Bound(row) \cup {"notice"})
    BY <2>1, <2>2, <2>3, AuditIs, IntegrityTells
  <2>5. Answer(row).signature =
          IF KeyState(row) \in {"valid", "revoked_key"} /\ Changed(row, Bound(row))
          THEN "invalid" ELSE KeyState(row)
    BY <2>1, <2>2, AuditIs, SignatureTells
  <2>6. Answer(row).chain = "broken"
          <=> \E r \in input.removed : r.digest = row.previous /\ r.digest # NoValue
    BY <1>2, <2>3, AuditIs, ChainTells
  <2>. QED  BY <2>4, <2>5, <2>6
<1>4. ASSUME Untampered, NEW row \in rows, NEW other \in rows \ {row}
      PROVE  ~K!Audit(K!ProofFor(other), row, input.rows, ring).ok
  <2>1. K!ProofFor(other).facts.previous = other.previous
    BY DEF K!ProofFor
  <2>2. /\ other.previous \notin K!Expected(row, input.rows)
        /\ K!Expected(row, input.rows) # {}
    <3>1. Ledger(input.rows, {}, {}, input.recorded)
      BY <1>2, <1>4 DEF Untampered
    <3>2. other # row
      OBVIOUS
    <3>. QED  BY <3>1, <3>2, NoneForAnother
  <2>. QED  BY <2>1, <2>2, AuditIs
<1>5. \A row \in rows : Bound(row) = {"status"} \cup IF row.version = NoValue THEN {}
                                                     ELSE {"variant"}
  BY DEF Bound
<1>6. \A row \in rows : [r \in rows |-> Answer(r)][row] = Answer(row)
  OBVIOUS
<1>. HIDE DEF ring, rows, Answer
<1>. SUFFICES \A row \in rows :
         LET bound == {"status"} \cup IF row.version = NoValue THEN {} ELSE {"variant"}
             a == Answer(row)
         IN /\ a.integrity = "invalid" <=> Changed(row, bound \cup {"notice"})
            /\ a.signature = IF KeyState(row) \in {"valid", "revoked_key"}
                                /\ Changed(row, bound)
                             THEN "invalid" ELSE KeyState(row)
            /\ a.chain = "broken" <=> \E r \in input.removed : r.digest = row.previous
                                                            /\ r.digest # NoValue
            /\ Untampered => \A other \in rows \ {row} :
                 ~K!Audit(K!ProofFor(other), row, input.rows, ring).ok
  BY DEF ProofsTell, ring, rows, Answer
<1>. QED  BY <1>3, <1>4, <1>5

(***************************************************************************)
(* What the verification of a stored decision tells (api/app/api/v1/       *)
(* consent/proof/verify/route.ts:68-134), whatever releases wrote the rows *)
(* under whatever keys, configured, rotated and revoked since: a row       *)
(* nobody touched is never reported as changed, a change of anything its   *)
(* proof binds is, a missing row shows at the one after it and nowhere     *)
(* else, and no other row's proof passes for a row's own.                  *)
(***************************************************************************)
THEOREM ProofsAlwaysTell ==
    ASSUME NullIsNoFunction
    PROVE  Spec => []ProofsTell
<1>1. Kept => ProofsTell
  BY KeptTells
<1>. QED  BY <1>1, AlwaysKept, PTL

-----------------------------------------------------------------------------
(***************************************************************************)
(* Joined sequences hold what the sequences hold.                          *)
(***************************************************************************)
LEMMA ToSetOfJoined ==
    ASSUME NEW S, NEW s \in Seq(S), NEW t \in Seq(S)
    PROVE  ToSet(s \o t) = ToSet(s) \cup ToSet(t)
<1>. DEFINE j == s \o t
<1>1. /\ DOMAIN j = 1..Len(s) + Len(t) /\ DOMAIN s = 1..Len(s) /\ DOMAIN t = 1..Len(t)
      /\ Len(s) \in Nat /\ Len(t) \in Nat
  OBVIOUS
<1>2. \A i \in 1..Len(s) : j[i] = s[i] /\ i \in 1..Len(s) + Len(t)
  OBVIOUS
<1>3. \A i \in 1..Len(t) : j[Len(s) + i] = t[i] /\ Len(s) + i \in 1..Len(s) + Len(t)
  OBVIOUS
<1>. HIDE DEF j
<1>4. \A i \in 1..Len(s) + Len(t) : i \in 1..Len(s)
                                    \/ \E k \in 1..Len(t) : i = Len(s) + k
  <2>1. ASSUME NEW i \in 1..Len(s) + Len(t), i \notin 1..Len(s)
        PROVE  \E k \in 1..Len(t) : i = Len(s) + k
    <3>1. i - Len(s) \in 1..Len(t) /\ i = Len(s) + (i - Len(s))
      BY <1>1, <2>1
    <3>. QED  BY <3>1
  <2>. QED  BY <2>1
<1>5. ToSet(j) = ToSet(s) \cup ToSet(t)
  <2>1. ASSUME NEW e \in ToSet(j) PROVE e \in ToSet(s) \cup ToSet(t)
    <3>1. PICK i \in 1..Len(s) + Len(t) : e = j[i]
      BY <1>1 DEF ToSet
    <3>. QED  BY <1>1, <1>2, <1>3, <1>4, <3>1 DEF ToSet
  <2>2. ASSUME NEW e \in ToSet(s) PROVE e \in ToSet(j)
    BY <1>1, <1>2 DEF ToSet
  <2>3. ASSUME NEW e \in ToSet(t) PROVE e \in ToSet(j)
    BY <1>1, <1>3 DEF ToSet
  <2>. QED  BY <2>1, <2>2, <2>3
<1>. QED  BY <1>5 DEF j

(***************************************************************************)
(* Sequences of sequences, one after the other, and the first that passes  *)
(* a test.                                                                 *)
(***************************************************************************)
LEMMA Induction ==
    ASSUME NEW S, 0 \in S, \A n \in Nat : n \in S => n + 1 \in S
    PROVE  Nat \subseteq S
<1>. DEFINE T == Nat \ S
<1>1. SUFFICES ASSUME T # {} PROVE FALSE
  OBVIOUS
<1>2. PICK x \in T : \A y \in T : x <= y
  BY <1>1, LeastOf
<1>3. x # 0 /\ x - 1 \in Nat /\ x - 1 \in S
  BY <1>2
<1>. QED  BY <1>2, <1>3

\* Joining from the left has a last value, and it is the elements of all.
JoinedUpTo(f, seqs, m) ==
    /\ f = [i \in 1..m |-> f[i]]
    /\ \A i \in 1..m : f[i] = IF i = 1 THEN seqs[i] ELSE f[i - 1] \o seqs[i]

LEMMA JoinedExists ==
    ASSUME NEW seqs, NEW m \in Nat
    PROVE  \E f : JoinedUpTo(f, seqs, m)
<1>. DEFINE S == {n \in Nat : \E f : JoinedUpTo(f, seqs, n)}
<1>1. 0 \in S
  <2>. DEFINE f == [i \in 1..0 |-> seqs]
  <2>1. f = [i \in 1..0 |-> f[i]] /\ \A i \in 1..0 : FALSE
    OBVIOUS
  <2>. QED  BY <2>1 DEF JoinedUpTo
<1>2. ASSUME NEW n \in Nat, n \in S
      PROVE  n + 1 \in S
  <2>1. PICK f : JoinedUpTo(f, seqs, n)
    BY <1>2
  <2>. DEFINE g == [i \in 1..n + 1 |->
                      IF i = n + 1 THEN IF i = 1 THEN seqs[i] ELSE f[i - 1] \o seqs[i] ELSE f[i]]
  <2>2. g = [i \in 1..n + 1 |-> g[i]]
    OBVIOUS
  <2>3. \A i \in 1..n : g[i] = f[i]
    OBVIOUS
  <2>4. g[n + 1] = IF n + 1 = 1 THEN seqs[n + 1] ELSE f[n] \o seqs[n + 1]
    OBVIOUS
  <2>. HIDE DEF g
  <2>5. \A i \in 1..n + 1 : g[i] = IF i = 1 THEN seqs[i] ELSE g[i - 1] \o seqs[i]
    <3>1. SUFFICES ASSUME NEW i \in 1..n + 1
                   PROVE  g[i] = IF i = 1 THEN seqs[i] ELSE g[i - 1] \o seqs[i]
      OBVIOUS
    <3>2. CASE i = n + 1
      <4>1. CASE n = 0
        BY <2>4, <3>2, <4>1
      <4>2. CASE n # 0
        <5>1. n \in 1..n /\ i - 1 = n /\ i # 1
          BY <3>2, <4>2
        <5>. QED  BY <2>3, <2>4, <3>2, <5>1
      <4>. QED  BY <4>1, <4>2
    <3>3. CASE i # n + 1
      <4>1. i \in 1..n
        BY <3>3
      <4>2. i # 1 => i - 1 \in 1..n
        BY <4>1
      <4>. QED  BY <2>1, <2>3, <4>1, <4>2 DEF JoinedUpTo
    <3>. QED  BY <3>2, <3>3
  <2>6. JoinedUpTo(g, seqs, n + 1)
    BY <2>2, <2>5 DEF JoinedUpTo
  <2>. QED  BY <2>6
<1>. QED  BY <1>1, <1>2, Induction

LEMMA FlattenUnfolds ==
    ASSUME NEW seqs, Len(seqs) \in Nat \ {0}
    PROVE  \E f : JoinedUpTo(f, seqs, Len(seqs)) /\ F!FlattenSeq(seqs) = f[Len(seqs)]
<1>. DEFINE n == Len(seqs)
            Join(f) == [i \in 1..n |-> IF i = 1 THEN seqs[i] ELSE f[i - 1] \o seqs[i]]
            flatten == CHOOSE f : f = Join(f)
<1>1. F!FlattenSeq(seqs) = flatten[n]
  BY DEF F!FlattenSeq
<1>. HIDE DEF n
<1>2. PICK g : JoinedUpTo(g, seqs, n)
  BY JoinedExists DEF n
<1>3. g = Join(g)
  <2>1. \A i \in 1..n : Join(g)[i] = g[i]
    BY <1>2 DEF JoinedUpTo
  <2>2. Join(g) = [i \in 1..n |-> Join(g)[i]] /\ g = [i \in 1..n |-> g[i]]
    BY <1>2 DEF JoinedUpTo
  <2>. HIDE DEF Join
  <2>. QED  BY <2>1, <2>2
<1>4. flatten = Join(flatten)
  BY <1>3
<1>. HIDE DEF flatten
<1>5. JoinedUpTo(flatten, seqs, n)
  <2>1. flatten = [i \in 1..n |-> flatten[i]]
    BY <1>4
  <2>2. \A i \in 1..n : flatten[i] = Join(flatten)[i]
    BY <1>4
  <2>. QED  BY <2>1, <2>2 DEF JoinedUpTo
<1>. QED  BY <1>1, <1>5 DEF n

LEMMA FlattenSeqOf ==
    ASSUME NEW S, NEW n \in Nat, NEW seqs \in [1..n -> Seq(S)]
    PROVE  /\ F!FlattenSeq(seqs) \in Seq(S)
           /\ \A e : e \in ToSet(F!FlattenSeq(seqs)) <=> \E i \in 1..n : e \in ToSet(seqs[i])
<1>1. Len(seqs) = n
  OBVIOUS
<1>2. CASE n = 0
  <2>1. F!FlattenSeq(seqs) = seqs
    BY <1>1, <1>2 DEF F!FlattenSeq
  <2>2. seqs = << >>
    BY <1>2
  <2>. QED  BY <1>2, <2>1, <2>2 DEF ToSet
<1>3. CASE n # 0
  <2>1. PICK f : JoinedUpTo(f, seqs, n) /\ F!FlattenSeq(seqs) = f[n]
    BY <1>1, <1>3, FlattenUnfolds
  <2>. DEFINE Fine(m) == /\ f[m] \in Seq(S)
                         /\ \A e : e \in ToSet(f[m]) <=> \E i \in 1..m : e \in ToSet(seqs[i])
              T == {m \in Nat : m \in 1..n => Fine(m)}
  <2>2. 0 \in T
    OBVIOUS
  <2>3. ASSUME NEW m \in Nat, m \in T
        PROVE  m + 1 \in T
    <3>1. SUFFICES ASSUME m + 1 \in 1..n PROVE Fine(m + 1)
      OBVIOUS
    <3>2. f[m + 1] = IF m + 1 = 1 THEN seqs[m + 1] ELSE f[m] \o seqs[m + 1]
      <4>1. f[m + 1] = IF m + 1 = 1 THEN seqs[m + 1] ELSE f[(m + 1) - 1] \o seqs[m + 1]
        BY <2>1, <3>1 DEF JoinedUpTo
      <4>. QED  BY <4>1
    <3>3. seqs[m + 1] \in Seq(S)
      BY <3>1
    <3>4. CASE m = 0
      <4>1. f[1] = seqs[1] /\ seqs[1] \in Seq(S) /\ 1..1 = {1} /\ m + 1 = 1
        BY <3>2, <3>3, <3>4
      <4>. QED  BY <4>1
    <3>5. CASE m # 0
      <4>1. m \in 1..n /\ m + 1 # 1
        BY <3>1, <3>5
      <4>2. Fine(m)
        BY <2>3, <4>1
      <4>3. f[m + 1] = f[m] \o seqs[m + 1]
        BY <3>2, <4>1
      <4>4. f[m + 1] \in Seq(S)
        BY <3>3, <4>2, <4>3
      <4>5. ToSet(f[m + 1]) = ToSet(f[m]) \cup ToSet(seqs[m + 1])
        BY <3>3, <4>2, <4>3, ToSetOfJoined
      <4>6. \A e : (\E i \in 1..m + 1 : e \in ToSet(seqs[i]))
              <=> e \in ToSet(seqs[m + 1]) \/ \E i \in 1..m : e \in ToSet(seqs[i])
        <5>1. 1..m + 1 = 1..m \cup {m + 1}
          OBVIOUS
        <5>. QED  BY <5>1
      <4>. QED  BY <4>2, <4>4, <4>5, <4>6
    <3>. QED  BY <3>4, <3>5
  <2>4. n \in T
    BY <2>2, <2>3, Induction
  <2>5. Fine(n)
    BY <1>3, <2>4
  <2>. QED  BY <2>1, <2>5
<1>. QED  BY <1>2, <1>3

-----------------------------------------------------------------------------
(***************************************************************************)
(* From the recommendations to the wire.                                   *)
(***************************************************************************)
LEMMA LeastIsMin ==
    ASSUME NEW T \in SUBSET Nat, T # {}
    PROVE  F!Min(T) \in T /\ N!Min(T) \in T
<1>1. PICK x \in T : \A y \in T : x <= y
  BY LeastOf
<1>. QED  BY <1>1 DEF F!Min, N!Min

LEMMA MatchingRuleIs ==
    ASSUME NEW S, NoValue \notin S, NEW rules \in Seq(S), NEW host
    PROVE  LET rule == F!MatchingRule(host, rules)
           IN IF \E r \in ToSet(rules) : F!HostMatches(host, r.host)
              THEN rule # NoValue /\ rule \in ToSet(rules) /\ F!HostMatches(host, rule.host)
              ELSE rule = NoValue
<1>. DEFINE I == {i \in 1..Len(rules) : F!HostMatches(host, rules[i].host)}
            i0 == IF I # {} THEN F!Min(I) ELSE 0
<1>1. F!MatchingRule(host, rules) = IF i0 = 0 THEN NoValue ELSE rules[i0]
  BY DEF F!MatchingRule, F!SelectInSeq
<1>2. I \subseteq Nat /\ 0 \notin I
  OBVIOUS
<1>3. I # {} => i0 \in I
  BY <1>2, LeastIsMin
<1>4. (\E r \in ToSet(rules) : F!HostMatches(host, r.host)) <=> I # {}
  <2>1. DOMAIN rules = 1..Len(rules)
    OBVIOUS
  <2>. QED  BY <2>1 DEF ToSet
<1>5. CASE I = {}
  BY <1>1, <1>4, <1>5
<1>6. CASE I # {}
  <2>1. i0 \in 1..Len(rules) /\ F!HostMatches(host, rules[i0].host) /\ i0 # 0
    BY <1>2, <1>3, <1>6
  <2>2. rules[i0] \in S /\ rules[i0] \in ToSet(rules)
    <3>1. DOMAIN rules = 1..Len(rules)
      OBVIOUS
    <3>2. rules[i0] \in S
      BY <2>1
    <3>. HIDE DEF i0
    <3>. QED  BY <2>1, <3>1, <3>2 DEF ToSet
  <2>. HIDE DEF I, i0
  <2>. QED  BY <1>1, <1>4, <1>6, <2>1, <2>2
<1>. QED  BY <1>5, <1>6

(* The rules: one for each host of each enforced vendor. *)
RuleFor(r, host) ==
    [host |-> host, vendor |-> r.vendor, purpose |-> r.purpose, action |-> r.action]

EnforcedAt(r, host) == r.action \in F!Enforced /\ host \in HostsForVendor[r.vendor]

LEMMA EnforcementIs ==
    ASSUME NEW S, NEW recommendations \in Seq(S)
    PROVE  LET rules == F!EnforcementFrom(recommendations, HostsForVendor, Hosts)
               all == {RuleFor(r, host) : r \in S, host \in ToSet(Hosts)}
           IN /\ rules \in Seq(all)
              /\ \A rule : rule \in ToSet(rules) <=>
                   \E r \in ToSet(recommendations), host \in ToSet(Hosts) :
                      EnforcedAt(r, host) /\ rule = RuleFor(r, host)
<1>. DEFINE all == {RuleFor(r, host) : r \in S, host \in ToSet(Hosts)}
            n == Len(recommendations)
            m == Len(Hosts)
            RulesOf(r, host) == IF EnforcedAt(r, host) THEN <<RuleFor(r, host)>> ELSE << >>
            each(host) == [i \in DOMAIN recommendations |-> RulesOf(recommendations[i], host)]
            AtHost(host) == F!FlattenSeq(each(host))
            ats == [i \in DOMAIN Hosts |-> AtHost(Hosts[i])]
<1>1. F!EnforcementFrom(recommendations, HostsForVendor, Hosts) = F!FlattenSeq(ats)
  BY DEF F!EnforcementFrom, EnforcedAt, RuleFor
<1>2. /\ DOMAIN recommendations = 1..n /\ n \in Nat
      /\ DOMAIN Hosts = 1..m /\ m \in Nat
      /\ \A i \in 1..n : recommendations[i] \in S
      /\ \A i \in 1..m : Hosts[i] \in ToSet(Hosts)
  BY HostsAssumption DEF ToSet
<1>. HIDE DEF n, m
<1>3. ASSUME NEW host \in ToSet(Hosts)
      PROVE  /\ AtHost(host) \in Seq(all)
             /\ \A rule : rule \in ToSet(AtHost(host)) <=>
                  \E i \in 1..n : /\ EnforcedAt(recommendations[i], host)
                                  /\ rule = RuleFor(recommendations[i], host)
  <2>1. ASSUME NEW r \in S
        PROVE  /\ RulesOf(r, host) \in Seq(all)
               /\ \A rule : rule \in ToSet(RulesOf(r, host))
                              <=> EnforcedAt(r, host) /\ rule = RuleFor(r, host)
    <3>. DEFINE one == RuleFor(r, host)
    <3>1. one \in all
      OBVIOUS
    <3>. HIDE DEF one, all
    <3>2. <<one>> \in Seq(all) /\ << >> \in Seq(all)
      BY <3>1
    <3>3. ToSet(<<one>>) = {one} /\ ToSet(<< >>) = {}
      BY DEF ToSet
    <3>. QED  BY <3>2, <3>3 DEF one
  <2>. HIDE DEF all, RulesOf
  <2>2. each(host) \in [1..n -> Seq(all)]
    BY <1>2, <2>1
  <2>3. \A i \in 1..n : each(host)[i] = RulesOf(recommendations[i], host)
    BY <1>2
  <2>. HIDE DEF each
  <2>4. /\ AtHost(host) \in Seq(all)
        /\ \A e : e \in ToSet(AtHost(host)) <=> \E i \in 1..n : e \in ToSet(each(host)[i])
    BY <1>2, <2>2, FlattenSeqOf
  <2>. HIDE DEF AtHost
  <2>5. \A i \in 1..n : \A rule : rule \in ToSet(each(host)[i]) <=>
          EnforcedAt(recommendations[i], host) /\ rule = RuleFor(recommendations[i], host)
    BY <1>2, <2>1, <2>3
  <2>. QED  BY <2>4, <2>5
<1>. HIDE DEF AtHost, all
<1>4. ats \in [1..m -> Seq(all)]
  BY <1>2, <1>3
<1>5. \A i \in 1..m : ats[i] = AtHost(Hosts[i])
  BY <1>2
<1>. HIDE DEF ats
<1>6. /\ F!FlattenSeq(ats) \in Seq(all)
      /\ \A e : e \in ToSet(F!FlattenSeq(ats)) <=> \E i \in 1..m : e \in ToSet(ats[i])
  BY <1>2, <1>4, FlattenSeqOf
<1>7. ASSUME NEW rule
      PROVE  rule \in ToSet(F!FlattenSeq(ats)) <=>
               \E r \in ToSet(recommendations), host \in ToSet(Hosts) :
                  EnforcedAt(r, host) /\ rule = RuleFor(r, host)
  <2>1. rule \in ToSet(F!FlattenSeq(ats))
          <=> \E host \in ToSet(Hosts) : rule \in ToSet(AtHost(host))
    <3>1. ToSet(Hosts) = {Hosts[i] : i \in 1..m}
      BY <1>2 DEF ToSet
    <3>2. rule \in ToSet(F!FlattenSeq(ats)) <=> \E i \in 1..m : rule \in ToSet(AtHost(Hosts[i]))
      BY <1>5, <1>6
    <3>. QED  BY <3>1, <3>2
  <2>2. ToSet(recommendations) = {recommendations[i] : i \in 1..n}
    BY <1>2 DEF ToSet
  <2>. QED  BY <1>3, <2>1, <2>2
<1>. QED  BY <1>1, <1>6, <1>7 DEF all

LEMMA OnlyPassesGo ==
    ASSUME NEW host, host # NoValue, NEW rules, NEW granted, NEW known, NEW redaction,
           NEW rule, rule # NoValue, F!MatchingRule(host, rules) = rule,
           ~(rule.action = "allow"),
           ~(rule.action = "require_consent" /\ rule.purpose \in granted /\ known)
    PROVE  F!GuardOutboundRequest(host, rules, granted, granted, redaction, known).send
             = "nothing"
<1>. DEFINE base == F!Judge(host, rules, "allow", granted, granted)
            judged == F!EvaluateFirewall(host, rules, "allow", granted, granted,
                                         redaction = "applied", known)
<1>1. /\ base.rule = rule
      /\ base.decision = IF F!Satisfies(rule, granted, granted) THEN "allow" ELSE "block"
  BY DEF F!Judge
<1>2. judged.effect = "block"
  <2>1. CASE rule.action = "require_consent"
    <3>1. ~F!GateOpen(base, known)
      BY <1>1, <2>1 DEF F!GateOpen, F!Satisfies
    <3>2. base.rule # NoValue /\ base.rule.action = "require_consent"
      BY <1>1, <2>1
    <3>. HIDE DEF base
    <3>3. judged.decision = "REQUIRE_CONSENT"
      BY <3>1, <3>2 DEF F!EvaluateFirewall, base
    <3>4. judged.effect = IF judged.decision = "REQUIRE_CONSENT" THEN "block" ELSE base.decision
      BY DEF F!EvaluateFirewall, base
    <3>. QED  BY <3>3, <3>4
  <2>2. CASE rule.action # "require_consent"
    <3>1. base.decision = "block"
      BY <1>1, <2>2 DEF F!Satisfies
    <3>. HIDE DEF base
    <3>2. judged.effect = "block"
      BY <1>1, <2>2, <3>1 DEF F!EvaluateFirewall, base
    <3>. QED  BY <3>2
  <2>. QED  BY <2>1, <2>2
<1>. HIDE DEF judged
<1>. QED  BY <1>2 DEF F!GuardOutboundRequest, F!Sent, judged

\* The guard says it blocked what it did not send, and nothing else.
LEMMA GuardTells ==
    ASSUME NEW host, NEW rules, NEW granted, NEW known, NEW redaction
    PROVE  LET answer == F!GuardOutboundRequest(host, rules, granted, granted, redaction, known)
           IN answer.send = "nothing" <=> answer.effect = "block"
<1>. DEFINE base == F!Judge(host, rules, "allow", granted, granted)
            judged == F!EvaluateFirewall(host, rules, "allow", granted, granted,
                                         redaction = "applied", known)
            answer == F!GuardOutboundRequest(host, rules, granted, granted, redaction, known)
<1>1. base.decision \in {"allow", "block"}
  BY DEF F!Judge, F!NoDecision
<1>2. judged.effect \in {"allow", "block"}
  <2>1. judged.effect = IF judged.decision = "REQUIRE_CONSENT" THEN "block" ELSE base.decision
    BY DEF F!EvaluateFirewall
  <2>. HIDE DEF judged, base
  <2>. QED  BY <1>1, <2>1
<1>. HIDE DEF judged
<1>3. CASE redaction = "rejected" \/ (redaction = "refused" /\ judged.effect = "allow")
  <2>1. answer = [effect |-> "block", decision |-> "BLOCK", send |-> "nothing"]
    BY <1>3 DEF F!GuardOutboundRequest, judged
  <2>. QED  BY <2>1
<1>4. CASE ~(redaction = "rejected" \/ (redaction = "refused" /\ judged.effect = "allow"))
  <2>1. answer = [effect |-> judged.effect, decision |-> judged.decision,
                  send |-> F!Sent(judged.effect, redaction)]
    BY <1>4 DEF F!GuardOutboundRequest, judged
  <2>2. F!Sent(judged.effect, redaction) = "nothing" <=> judged.effect = "block"
    BY <1>2, <1>4 DEF F!Sent
  <2>. QED  BY <2>1, <2>2
<1>. QED  BY <1>3, <1>4

LEMMA NothingLeaves ==
    ASSUME NullIsNoFunction,
           input.of = "request" => input.recommendations \in Seq(Recommendation)
    PROVE  NothingLeavesUngranted
<1>1. SUFFICES ASSUME input.of = "request", input.host # NoValue
               PROVE  NothingLeavesUngranted
  BY DEF NothingLeavesUngranted
<1>. DEFINE host == input.host
            all == {RuleFor(r, h) : r \in Recommendation, h \in ToSet(Hosts)}
            rules == F!EnforcementFrom(input.recommendations, HostsForVendor, Hosts)
            answer == F!GuardOutboundRequest(host, rules, input.granted, input.granted,
                                             input.redaction, input.known)
            listed == F!VendorsByPurpose(input.recommendations)
<1>2. /\ rules \in Seq(all)
      /\ \A rule : rule \in ToSet(rules) <=>
           \E r \in ToSet(input.recommendations), h \in ToSet(Hosts) :
              EnforcedAt(r, h) /\ rule = RuleFor(r, h)
  BY <1>1, EnforcementIs
<1>3. NoValue \notin all
  BY DEF RuleFor, NullIsNoFunction
<1>4. ASSUME NEW r \in Naming(host)
      PROVE  r \in ToSet(input.recommendations) /\ r \in Recommendation
  BY <1>1 DEF Naming, ToSet
<1>5. ASSUME NEW r0 \in Naming(host), \A r \in Naming(host) : ~MayPass(r)
      PROVE  answer.send = "nothing"
  <2>. DEFINE rule == F!MatchingRule(host, rules)
  <2>1. PICK h \in HostsForVendor[r0.vendor] : F!HostMatches(host, h)
    BY DEF Naming
  <2>2. h \in ToSet(Hosts) /\ EnforcedAt(r0, h)
    BY <1>4, HostsAssumption DEF Naming, EnforcedAt
  <2>3. RuleFor(r0, h) \in ToSet(rules) /\ RuleFor(r0, h).host = h
    BY <1>2, <1>4, <2>2 DEF RuleFor
  <2>. HIDE DEF rules, all
  <2>4. rule # NoValue /\ rule \in ToSet(rules) /\ F!HostMatches(host, rule.host)
    BY <1>2, <1>3, <2>1, <2>3, MatchingRuleIs
  <2>5. PICK r \in ToSet(input.recommendations), g \in ToSet(Hosts) :
          EnforcedAt(r, g) /\ rule = RuleFor(r, g)
    BY <1>2, <2>4
  <2>6. rule.host = g /\ rule.action = r.action /\ rule.purpose = r.purpose
    BY <2>5 DEF RuleFor
  <2>7. r \in Naming(host)
    BY <2>4, <2>5, <2>6 DEF Naming, EnforcedAt
  <2>8. ~MayPass(r)
    BY <1>5, <2>7
  <2>. HIDE DEF rule
  <2>9. /\ ~(rule.action = "allow")
        /\ ~(rule.action = "require_consent" /\ rule.purpose \in input.granted /\ input.known)
    BY <2>6, <2>8 DEF MayPass
  <2>. QED  BY <1>1, <2>4, <2>9, OnlyPassesGo DEF rule
<1>6. input.redaction \in {"rejected", "refused"} => answer.send = "nothing"
  BY DEF F!GuardOutboundRequest, F!Sent
<1>7. ASSUME NEW r \in Naming(host), r.action = "require_consent", r.purpose # NoValue
      PROVE  r.vendor \in listed[r.purpose]
  <2>1. F!ToSet(input.recommendations) = ToSet(input.recommendations)
    BY DEF F!ToSet, ToSet
  <2>2. r \in {q \in F!ToSet(input.recommendations) : F!Listed(q)}
    BY <1>4, <1>7, <2>1 DEF F!Listed
  <2>. QED  BY <2>2 DEF F!VendorsByPurpose
<1>8. answer.send = "nothing" <=> answer.effect = "block"
  <2>. HIDE DEF rules
  <2>. QED  BY GuardTells
<1>. HIDE DEF answer, rules, listed
<1>. QED  BY <1>5, <1>6, <1>7, <1>8 DEF NothingLeavesUngranted, answer, rules, listed

-----------------------------------------------------------------------------
(***************************************************************************)
(* The depths of a body: what the walk visits, what there is to be found,  *)
(* and what is made of it from the deepest up.  Each is one depth made of  *)
(* the one before, as far as the walk goes.                                *)
(***************************************************************************)
VisitedAt(f, n, body, config) ==
    IF n = 0 THEN {<<<< >>, body>>} ELSE UNION {N!Below(node, config) : node \in f[n - 1]}

VisitedUpTo(f, m, body, config) == f = [n \in 0..m |-> VisitedAt(f, n, body, config)]

LEMMA VisitedExists ==
    ASSUME NEW body, NEW config, NEW m \in Nat
    PROVE  \E f : VisitedUpTo(f, m, body, config)
<1>. DEFINE Level(f, n) == VisitedAt(f, n, body, config)
            S == {k \in Nat : \E f : f = [n \in 0..k |-> Level(f, n)]}
<1>1. 0 \in S
  <2>. DEFINE f == [n \in 0..0 |-> Level(<< >>, 0)]
  <2>1. \A n \in 0..0 : Level(f, n) = Level(<< >>, 0)
    BY DEF VisitedAt
  <2>2. f = [n \in 0..0 |-> Level(f, n)]
    BY <2>1
  <2>. QED  BY <2>2
<1>2. ASSUME NEW k \in Nat, k \in S
      PROVE  k + 1 \in S
  <2>1. PICK f : f = [n \in 0..k |-> Level(f, n)]
    BY <1>2
  <2>2. \A n \in 0..k : f[n] = Level(f, n)
    BY <2>1
  <2>. DEFINE g == [n \in 0..k + 1 |-> IF n = k + 1 THEN Level(f, n) ELSE f[n]]
  <2>3. \A n \in 0..k + 1 : g[n] = Level(f, n)
    BY <2>2
  <2>4. \A n \in 0..k : g[n] = f[n]
    OBVIOUS
  <2>. HIDE DEF g
  <2>5. \A n \in 0..k + 1 : Level(g, n) = Level(f, n)
    <3>1. ASSUME NEW n \in 0..k + 1, n # 0 PROVE g[n - 1] = f[n - 1]
      BY <2>4, <3>1
    <3>. QED  BY <3>1 DEF VisitedAt
  <2>6. g = [n \in 0..k + 1 |-> Level(g, n)]
    <3>1. g = [n \in 0..k + 1 |-> g[n]]
      BY DEF g
    <3>. HIDE DEF Level
    <3>. QED  BY <2>3, <2>5, <3>1
  <2>. QED  BY <2>6
<1>3. m \in S
  BY <1>1, <1>2, Induction
<1>. QED  BY <1>3 DEF VisitedUpTo

LEMMA VisitedUnfolds ==
    ASSUME NEW body, NEW config
    PROVE  \A n \in 0..MaxDepth + 1 :
             N!Visited(body, config)[n] = VisitedAt(N!Visited(body, config), n, body, config)
<1>. DEFINE Full(f) == [n \in 0..MaxDepth + 1 |-> VisitedAt(f, n, body, config)]
            f0 == CHOOSE f : f = Full(f)
<1>1. N!Visited(body, config) = f0
  BY DEF N!Visited, VisitedAt
<1>2. \E f : f = Full(f)
  <2>1. MaxDepth + 1 \in Nat
    BY PayloadAssumption
  <2>2. \E f : VisitedUpTo(f, MaxDepth + 1, body, config)
    BY <2>1, VisitedExists
  <2>. QED  BY <2>2 DEF VisitedUpTo
<1>3. f0 = Full(f0)
  BY <1>2
<1>. HIDE DEF f0
<1>. QED  BY <1>1, <1>3

OpenedAt(f, n, value) ==
    IF n = 0 THEN {<<<< >>, value>>} ELSE UNION {Opened(node) : node \in f[n - 1]}

OpenedUpTo(f, m, value) == f = [n \in 0..m |-> OpenedAt(f, n, value)]

LEMMA OpenedExists ==
    ASSUME NEW value, NEW m \in Nat
    PROVE  \E f : OpenedUpTo(f, m, value)
<1>. DEFINE Level(f, n) == OpenedAt(f, n, value)
            S == {k \in Nat : \E f : f = [n \in 0..k |-> Level(f, n)]}
<1>1. 0 \in S
  <2>. DEFINE f == [n \in 0..0 |-> Level(<< >>, 0)]
  <2>1. \A n \in 0..0 : Level(f, n) = Level(<< >>, 0)
    BY DEF OpenedAt
  <2>2. f = [n \in 0..0 |-> Level(f, n)]
    BY <2>1
  <2>. QED  BY <2>2
<1>2. ASSUME NEW k \in Nat, k \in S
      PROVE  k + 1 \in S
  <2>1. PICK f : f = [n \in 0..k |-> Level(f, n)]
    BY <1>2
  <2>2. \A n \in 0..k : f[n] = Level(f, n)
    BY <2>1
  <2>. DEFINE g == [n \in 0..k + 1 |-> IF n = k + 1 THEN Level(f, n) ELSE f[n]]
  <2>3. \A n \in 0..k + 1 : g[n] = Level(f, n)
    BY <2>2
  <2>4. \A n \in 0..k : g[n] = f[n]
    OBVIOUS
  <2>. HIDE DEF g
  <2>5. \A n \in 0..k + 1 : Level(g, n) = Level(f, n)
    <3>1. ASSUME NEW n \in 0..k + 1, n # 0 PROVE g[n - 1] = f[n - 1]
      BY <2>4, <3>1
    <3>. QED  BY <3>1 DEF OpenedAt
  <2>6. g = [n \in 0..k + 1 |-> Level(g, n)]
    <3>1. g = [n \in 0..k + 1 |-> g[n]]
      BY DEF g
    <3>. HIDE DEF Level
    <3>. QED  BY <2>3, <2>5, <3>1
  <2>. QED  BY <2>6
<1>3. m \in S
  BY <1>1, <1>2, Induction
<1>. QED  BY <1>3 DEF OpenedUpTo

LEMMA OpenedUnfolds ==
    ASSUME NEW value
    PROVE  \A n \in 0..MaxDepth + 1 : OpenedTo(value)[n] = OpenedAt(OpenedTo(value), n, value)
<1>. DEFINE Full(f) == [n \in 0..MaxDepth + 1 |-> OpenedAt(f, n, value)]
            f0 == CHOOSE f : f = Full(f)
<1>1. OpenedTo(value) = f0
  BY DEF OpenedTo, OpenedAt
<1>2. \E f : f = Full(f)
  <2>1. MaxDepth + 1 \in Nat
    BY PayloadAssumption
  <2>2. \E f : OpenedUpTo(f, MaxDepth + 1, value)
    BY <2>1, OpenedExists
  <2>. QED  BY <2>2 DEF OpenedUpTo
<1>3. f0 = Full(f0)
  BY <1>2
<1>. HIDE DEF f0
<1>. QED  BY <1>1, <1>3

WalkAt(f, n, level, config) ==
    [node \in level[MaxDepth - n] |->
       N!Rebuilt(node, IF n = 0 THEN << >> ELSE f[n - 1], config)]

WalkUpTo(f, m, level, config) == f = [n \in 0..m |-> WalkAt(f, n, level, config)]

LEMMA WalkExists ==
    ASSUME NEW level, NEW config, NEW m \in Nat
    PROVE  \E f : WalkUpTo(f, m, level, config)
<1>. DEFINE Level(f, n) == WalkAt(f, n, level, config)
            S == {k \in Nat : \E f : f = [n \in 0..k |-> Level(f, n)]}
<1>1. 0 \in S
  <2>. DEFINE f == [n \in 0..0 |-> Level(<< >>, 0)]
  <2>1. \A n \in 0..0 : Level(f, n) = Level(<< >>, 0)
    BY DEF WalkAt
  <2>2. f = [n \in 0..0 |-> Level(f, n)]
    BY <2>1
  <2>. QED  BY <2>2
<1>2. ASSUME NEW k \in Nat, k \in S
      PROVE  k + 1 \in S
  <2>1. PICK f : f = [n \in 0..k |-> Level(f, n)]
    BY <1>2
  <2>2. \A n \in 0..k : f[n] = Level(f, n)
    BY <2>1
  <2>. DEFINE g == [n \in 0..k + 1 |-> IF n = k + 1 THEN Level(f, n) ELSE f[n]]
  <2>3. \A n \in 0..k + 1 : g[n] = Level(f, n)
    BY <2>2
  <2>4. \A n \in 0..k : g[n] = f[n]
    OBVIOUS
  <2>. HIDE DEF g
  <2>5. \A n \in 0..k + 1 : Level(g, n) = Level(f, n)
    <3>1. ASSUME NEW n \in 0..k + 1, n # 0 PROVE g[n - 1] = f[n - 1]
      BY <2>4, <3>1
    <3>. QED  BY <3>1 DEF WalkAt
  <2>6. g = [n \in 0..k + 1 |-> Level(g, n)]
    <3>1. g = [n \in 0..k + 1 |-> g[n]]
      BY DEF g
    <3>. HIDE DEF Level
    <3>. QED  BY <2>3, <2>5, <3>1
  <2>. QED  BY <2>6
<1>3. m \in S
  BY <1>1, <1>2, Induction
<1>. QED  BY <1>3 DEF WalkUpTo

LEMMA WalkUnfolds ==
    ASSUME NEW level, NEW config
    PROVE  \A n \in 0..MaxDepth :
             N!Walk(level, config)[n] = WalkAt(N!Walk(level, config), n, level, config)
<1>. DEFINE Full(f) == [n \in 0..MaxDepth |-> WalkAt(f, n, level, config)]
            f0 == CHOOSE f : f = Full(f)
<1>1. N!Walk(level, config) = f0
  BY DEF N!Walk, WalkAt
<1>2. \E f : f = Full(f)
  <2>1. MaxDepth \in Nat
    BY PayloadAssumption
  <2>2. \E f : WalkUpTo(f, MaxDepth, level, config)
    BY <2>1, WalkExists
  <2>. QED  BY <2>2 DEF WalkUpTo
<1>3. f0 = Full(f0)
  BY <1>2
<1>. HIDE DEF f0
<1>. QED  BY <1>1, <1>3

(***************************************************************************)
(* Paths, and the rules about them: what findRule finds is what the rules  *)
(* declare, and what is declared of a path is declared of all below it.    *)
(***************************************************************************)
KeyPath(path) ==
    path \in Seq(ToSet(path)) /\ \A i \in DOMAIN path : Spelt(path[i])

RuleDeclares(path, location) ==
    \E rule \in ToSet(input.config.rules) :
        location \in rule.locations /\ Declares(rule, path)

LEMMA EmptyKeyPath == KeyPath(<< >>) /\ \A location : ~Declared(<< >>, location)
BY DEF KeyPath, Declared, ToSet

LEMMA Grown ==
    ASSUME NEW path, KeyPath(path), NEW key, Spelt(key)
    PROVE  LET longer == Append(path, key)
           IN /\ KeyPath(longer)
              /\ Len(path) \in Nat /\ Len(longer) = Len(path) + 1
              /\ DOMAIN path = 1..Len(path) /\ DOMAIN longer = 1..Len(longer)
              /\ longer[Len(longer)] = key
              /\ \A i \in 1..Len(path) : longer[i] = path[i]
              /\ SubSeq(longer, 1, Len(longer)) = longer
              /\ \A i \in 1..Len(path) : SubSeq(longer, 1, i) = SubSeq(path, 1, i)
<1>. DEFINE S == ToSet(path) \cup {key}
            longer == Append(path, key)
            n == Len(path)
<1>1. path \in Seq(S)
  BY DEF KeyPath
<1>2. longer \in Seq(S) /\ Len(longer) = n + 1
  BY <1>1, AppendProperties
<1>3. n \in Nat /\ DOMAIN path = 1..n
  BY <1>1
<1>4. DOMAIN longer = 1..n + 1
  BY <1>2
<1>5. longer[n + 1] = key
  BY <1>1, AppendProperties
<1>6. \A i \in 1..n : longer[i] = path[i]
  BY <1>1, AppendProperties
<1>7. KeyPath(longer)
  <2>1. \A i \in 1..n + 1 : Spelt(longer[i])
    <3>1. \A i \in 1..n + 1 : i \in 1..n \/ i = n + 1
      BY <1>3
    <3>. HIDE DEF longer, n
    <3>. QED  BY <1>3, <1>5, <1>6, <3>1 DEF KeyPath
  <2>2. longer \in Seq(ToSet(longer))
    <3>1. \A i \in 1..n + 1 : longer[i] \in ToSet(longer)
      BY <1>4 DEF ToSet
    <3>2. longer = [i \in 1..n + 1 |-> longer[i]]
      <4>. HIDE DEF longer
      <4>. QED  BY <1>2, <1>4
    <3>3. longer \in [1..n + 1 -> ToSet(longer)]
      BY <3>1, <3>2
    <3>4. n + 1 \in Nat
      BY <1>3
    <3>. HIDE DEF longer
    <3>. QED  BY <3>3, <3>4
  <2>. QED  BY <1>4, <2>1, <2>2 DEF KeyPath
<1>8. SubSeq(longer, 1, Len(longer)) = longer
  <2>. HIDE DEF longer
  <2>. QED  BY <1>2
<1>9. ASSUME NEW i \in 1..n
      PROVE  SubSeq(longer, 1, i) = SubSeq(path, 1, i)
  <2>1. /\ SubSeq(longer, 1, i) \in Seq(S) /\ Len(SubSeq(longer, 1, i)) = i
        /\ \A j \in 1..i : SubSeq(longer, 1, i)[j] = longer[j]
    <3>1. i \in 0..Len(longer) /\ 1 \in 1..Len(longer) + 1 /\ i - 1 + 1 = i /\ i >= 1
      BY <1>2, <1>3
    <3>. HIDE DEF longer, S
    <3>. QED  BY <1>2, <3>1
  <2>2. /\ SubSeq(path, 1, i) \in Seq(S) /\ Len(SubSeq(path, 1, i)) = i
        /\ \A j \in 1..i : SubSeq(path, 1, i)[j] = path[j]
    <3>. HIDE DEF S
    <3>. QED  BY <1>1, <1>3
  <2>3. \A j \in 1..i : longer[j] = path[j]
    <3>1. \A j \in 1..i : j \in 1..n
      BY <1>3
    <3>. QED  BY <1>6, <3>1
  <2>. HIDE DEF longer, S
  <2>. QED  BY <2>1, <2>2, <2>3, SeqEqual
<1>. QED  BY <1>2, <1>3, <1>4, <1>5, <1>6, <1>7, <1>8, <1>9

LEMMA DeclaredGrows ==
    ASSUME NEW path, KeyPath(path), NEW key, Spelt(key), NEW location
    PROVE  Declared(Append(path, key), location) <=>
             \/ Declared(path, location)
             \/ key.word # "[]" /\ RuleDeclares(Append(path, key), location)
<1>. DEFINE longer == Append(path, key)
            n == Len(path)
            DeclaredAt(p, i) == \E rule \in ToSet(input.config.rules) :
                          /\ p[i].word # "[]" /\ location \in rule.locations
                          /\ Declares(rule, SubSeq(p, 1, i))
<1>1. /\ n \in Nat /\ Len(longer) = n + 1 /\ DOMAIN path = 1..n /\ DOMAIN longer = 1..n + 1
      /\ longer[n + 1] = key /\ SubSeq(longer, 1, n + 1) = longer
  BY Grown
<1>2. \A i \in 1..n : longer[i] = path[i] /\ SubSeq(longer, 1, i) = SubSeq(path, 1, i)
  BY Grown
<1>3. Declared(longer, location) <=> \E i \in 1..n + 1 : DeclaredAt(longer, i)
  BY <1>1 DEF Declared
<1>4. Declared(path, location) <=> \E i \in 1..n : DeclaredAt(path, i)
  BY <1>1 DEF Declared
<1>5. \A i \in 1..n : DeclaredAt(longer, i) <=> DeclaredAt(path, i)
  BY <1>2
<1>6. DeclaredAt(longer, n + 1) <=> key.word # "[]" /\ RuleDeclares(longer, location)
  BY <1>1 DEF RuleDeclares
<1>7. \A i : i \in 1..n + 1 <=> i \in 1..n \/ i = n + 1
  BY <1>1
<1>. HIDE DEF longer, DeclaredAt, n
<1>. QED  BY <1>3, <1>4, <1>5, <1>6, <1>7 DEF longer

LEMMA SameRange ==
    ASSUME NEW m \in Nat, NEW n \in Nat, 1..m = 1..n
    PROVE  m = n
<1>1. m \in 1..m <=> m \in 1..n
  OBVIOUS
<1>2. n \in 1..m <=> n \in 1..n
  OBVIOUS
<1>. QED  BY <1>1, <1>2

LEMMA MatchesDeclares ==
    ASSUME NEW rule \in RedactionRule, NEW path, KeyPath(path), path # << >>, NEW location
    PROVE  N!Matches(rule, location, path)
             <=> location \in rule.locations /\ Declares(rule, path)
<1>. DEFINE field == rule.field
            n == Len(path)
            Same(a, b) == a.word = b.word /\ (rule.caseSensitive /\ a.word # "[]"
                                                => a.spelt = b.spelt)
<1>1. /\ n \in Nat /\ DOMAIN path = 1..n /\ n # 0
      /\ \A i \in 1..n : Spelt(path[i])
  BY DEF KeyPath
<1>2. /\ Len(field) \in Nat /\ DOMAIN field = 1..Len(field)
      /\ \A i \in DOMAIN field : Spelt(field[i])
  <2>1. field \in Seq(ToSet(field)) /\ \A i \in DOMAIN field : Spelt(field[i])
    BY RedactionAssumption
  <2>. HIDE DEF field
  <2>. QED  BY <2>1
<1>3. ASSUME NEW a, NEW b, Spelt(a), Spelt(b)
      PROVE  /\ N!SameKey(rule, a, b) <=> Same(a, b)
             /\ Same(a, b) <=> /\ b.word = a.word
                               /\ rule.caseSensitive => b.word = "[]" \/ b = a
  <2>1. a.word = b.word /\ a.spelt = b.spelt <=> a = b
    BY <1>3 DEF Spelt
  <2>. QED  BY <2>1 DEF N!SameKey
<1>. HIDE DEF field, Same
<1>4. CASE rule.match = "name"
  <2>. DEFINE key == path[n]
              of == <<key>>
  <2>1. N!Last(path) = key /\ Last(path) = key /\ Spelt(key)
    BY <1>1 DEF N!Last, Last
  <2>2. N!Matches(rule, location, path) <=>
          location \in rule.locations /\ Len(field) = 1 /\ Same(field[1], key)
    <3>1. Len(field) = 1 => Spelt(field[1])
      BY <1>2
    <3>. HIDE DEF key
    <3>. QED  BY <1>3, <1>4, <2>1, <3>1 DEF N!Matches, field
  <2>3. Words(of) = Words(field) <=> Len(field) = 1 /\ field[1].word = key.word
    <3>1. Words(of) = [i \in 1..1 |-> of[i].word] /\ of[1] = key
      BY DEF Words
    <3>2. Words(field) = [i \in 1..Len(field) |-> field[i].word]
      BY <1>2 DEF Words
    <3>. HIDE DEF of, key
    <3>3. ASSUME Words(of) = Words(field)
          PROVE  Len(field) = 1 /\ field[1].word = key.word
      <4>1. 1..1 = 1..Len(field)
        BY <3>1, <3>2, <3>3
      <4>2. Len(field) = 1
        BY <1>2, <4>1
      <4>. QED  BY <3>1, <3>2, <3>3, <4>2
    <3>4. ASSUME Len(field) = 1, field[1].word = key.word
          PROVE  Words(of) = Words(field)
      <4>1. \A i \in 1..1 : of[i].word = field[i].word
        BY <3>1, <3>4
      <4>. QED  BY <3>1, <3>2, <3>4, <4>1
    <3>. QED  BY <3>3, <3>4
  <2>4. Declares(rule, path) <=>
          /\ Words(of) = Words(field)
          /\ rule.caseSensitive => key.word = "[]" \/ key = field[1]
    <3>1. DOMAIN of = {1} /\ of[1] = key
      OBVIOUS
    <3>. HIDE DEF of, key
    <3>. QED  BY <1>4, <2>1, <3>1 DEF Declares, field, of
  <2>5. Len(field) = 1 => Spelt(field[1])
    BY <1>2
  <2>. HIDE DEF of, key
  <2>. QED  BY <1>3, <2>1, <2>2, <2>3, <2>4, <2>5
<1>5. CASE rule.match # "name"
  <2>1. N!Matches(rule, location, path) <=>
          /\ location \in rule.locations
          /\ Len(field) = n /\ \A i \in 1..n : N!SameKey(rule, field[i], path[i])
    BY <1>1, <1>5 DEF N!Matches, N!PathMatches, field
  <2>2. Words(path) = Words(field) <=>
          Len(field) = n /\ \A i \in 1..n : field[i].word = path[i].word
    <3>1. Words(path) = [i \in 1..n |-> path[i].word]
      BY <1>1 DEF Words
    <3>2. Words(field) = [i \in 1..Len(field) |-> field[i].word]
      BY <1>2 DEF Words
    <3>3. ASSUME Words(path) = Words(field)
          PROVE  Len(field) = n /\ \A i \in 1..n : field[i].word = path[i].word
      <4>1. 1..n = 1..Len(field)
        BY <3>1, <3>2, <3>3
      <4>2. Len(field) = n
        BY <1>1, <1>2, <4>1, SameRange
      <4>. QED  BY <3>1, <3>2, <3>3, <4>2
    <3>4. ASSUME Len(field) = n, \A i \in 1..n : field[i].word = path[i].word
          PROVE  Words(path) = Words(field)
      BY <3>1, <3>2, <3>4
    <3>. QED  BY <3>3, <3>4
  <2>3. Declares(rule, path) <=>
          /\ Words(path) = Words(field)
          /\ rule.caseSensitive => \A i \in 1..n : path[i].word = "[]" \/ path[i] = field[i]
    BY <1>1, <1>5 DEF Declares, field
  <2>4. Len(field) = n => \A i \in 1..n : Spelt(field[i]) /\ Spelt(path[i])
    BY <1>1, <1>2
  <2>. HIDE DEF n
  <2>. QED  BY <1>3, <2>1, <2>2, <2>3, <2>4
<1>. QED  BY <1>4, <1>5

LEMMA FindRuleTells ==
    ASSUME input.config.rules \in Seq(RedactionRule), NEW path, KeyPath(path), path # << >>,
           NEW location
    PROVE  N!FindRule(input.config.rules, location, path) = NoValue
             <=> ~RuleDeclares(path, location)
<1>. DEFINE rules == input.config.rules
            I == {i \in 1..Len(rules) : N!Matches(rules[i], location, path)}
            i0 == IF I # {} THEN N!Min(I) ELSE 0
<1>1. N!FindRule(rules, location, path) = IF i0 = 0 THEN NoValue ELSE rules[i0]
  BY DEF N!FindRule, N!SelectInSeq
<1>2. I \subseteq Nat /\ 0 \notin I
  OBVIOUS
<1>3. I # {} => i0 \in I
  BY <1>2, LeastIsMin
<1>4. DOMAIN rules = 1..Len(rules) /\ \A i \in 1..Len(rules) : rules[i] \in RedactionRule
  OBVIOUS
<1>5. RuleDeclares(path, location) <=> I # {}
  <2>1. \A i \in 1..Len(rules) : N!Matches(rules[i], location, path)
          <=> location \in rules[i].locations /\ Declares(rules[i], path)
    BY <1>4, MatchesDeclares
  <2>. QED  BY <1>4, <2>1 DEF RuleDeclares, ToSet
<1>6. I # {} => rules[i0] \in RedactionRule /\ i0 # 0
  BY <1>2, <1>3, <1>4
<1>7. NoValue \notin RedactionRule
  BY RedactionAssumption
<1>. HIDE DEF I, i0
<1>. QED  BY <1>1, <1>5, <1>6, <1>7 DEF i0

(***************************************************************************)
(* One node that may go, the walk of it and what is made of it, beside     *)
(* what was there: after holds what becomes of the nodes below.            *)
(***************************************************************************)
MayGo(path) == ~Declared(path, "body")

PutThere(value) == value.type \in {"masked", "digest"}

\* What is found in the result is what was made of a node below, or covers something declared.
NodeKept(node, after) ==
    LET below == N!Below(node, input.config)
        result == <<node[1], N!Rebuilt(node, after, input.config)>>
    IN IF node[2].type = "scalar"
       THEN below = {} /\ Opened(node) = {node} /\ result = node
       ELSE /\ below = {c \in Opened(node) : MayGo(c[1])}
            /\ \A c \in below : <<c[1], after[c]>> \in Opened(result)
            /\ \A m \in Opened(result) :
                 \/ \E c \in below : m = <<c[1], after[c]>>
                 \/ ~MayGo(m[1]) /\ PutThere(m[2])

LEMMA ArrayKept ==
    ASSUME NEW path, KeyPath(path), MayGo(path), NEW value, Parsed(value),
           value.type = "array", NEW after
    PROVE  NodeKept(<<path, value>>, after)
<1>. DEFINE node == <<path, value>>
            items == value.items
            PathTo(i) == Append(path, N!Index(i))
            below == N!Below(node, input.config)
            rebuilt == N!Rebuilt(node, after, input.config)
            result == <<path, rebuilt>>
            made == [i \in DOMAIN items |-> after[<<PathTo(i), items[i]>>]]
<1>1. below = {<<PathTo(i), items[i]>> : i \in DOMAIN items}
  BY DEF N!Below
<1>2. Opened(node) = {<<PathTo(i), items[i]>> : i \in DOMAIN items}
  BY DEF Opened
<1>3. rebuilt = [value EXCEPT !.items = made]
  BY DEF N!Rebuilt
<1>4. rebuilt.type = "array" /\ rebuilt.items = made
  <2>1. "items" \in DOMAIN value
    BY DEF Parsed
  <2>. HIDE DEF made, rebuilt
  <2>. QED  BY <1>3, <2>1
<1>5. Opened(result) = {<<PathTo(i), made[i]>> : i \in DOMAIN items}
  <2>. HIDE DEF rebuilt
  <2>. QED  BY <1>4 DEF Opened
<1>6. \A i : MayGo(PathTo(i))
  <2>1. \A i : Spelt(N!Index(i)) /\ N!Index(i).word = "[]"
    BY DEF N!Index, Spelt
  <2>. QED  BY <2>1, DeclaredGrows DEF MayGo
<1>7. \A i \in DOMAIN items : made[i] = after[<<PathTo(i), items[i]>>]
  OBVIOUS
<1>. HIDE DEF PathTo, made, rebuilt, items, below
<1>8. below = {c \in Opened(node) : MayGo(c[1])}
  BY <1>1, <1>2, <1>6
<1>9. \A c \in below : <<c[1], after[c]>> \in Opened(result)
  BY <1>1, <1>5, <1>7
<1>10. \A m \in Opened(result) : \E c \in below : m = <<c[1], after[c]>>
  BY <1>1, <1>5, <1>7
<1>. QED  BY <1>8, <1>9, <1>10 DEF NodeKept, below, rebuilt

LEMMA ObjectKept ==
    ASSUME input.config.rules \in Seq(RedactionRule),
           NEW path, KeyPath(path), MayGo(path), NEW value, Parsed(value),
           value.type = "object", NEW after
    PROVE  NodeKept(<<path, value>>, after)
<1>. DEFINE config == input.config
            node == <<path, value>>
            fields == value.fields
            PathTo(k) == Append(path, k)
            RuleAt(k) == N!FindRule(config.rules, "body", PathTo(k))
            Free == {k \in DOMAIN fields : RuleAt(k) = NoValue}
            Stays == {k \in DOMAIN fields :
                        RuleAt(k) = NoValue \/ N!Transform(RuleAt(k), config) # NoValue}
            below == N!Below(node, config)
            rebuilt == N!Rebuilt(node, after, config)
            result == <<path, rebuilt>>
            made == [k \in Stays |-> IF RuleAt(k) = NoValue THEN after[<<PathTo(k), fields[k]>>]
                                     ELSE N!Transform(RuleAt(k), config)]
<1>1. below = {<<PathTo(k), fields[k]>> : k \in Free}
  BY DEF N!Below, N!Looked
<1>2. Opened(node) = {<<PathTo(k), fields[k]>> : k \in DOMAIN fields}
  BY DEF Opened
<1>3. rebuilt = [value EXCEPT !.fields = made]
  BY DEF N!Rebuilt, N!WalkObject
<1>4. rebuilt.type = "object" /\ rebuilt.fields = made /\ DOMAIN made = Stays
  <2>1. "fields" \in DOMAIN value
    BY DEF Parsed
  <2>2. DOMAIN made = Stays
    OBVIOUS
  <2>. HIDE DEF made, rebuilt, Stays
  <2>. QED  BY <1>3, <2>1, <2>2
<1>5. Opened(result) = {<<PathTo(k), made[k]>> : k \in Stays}
  <2>. HIDE DEF rebuilt, made, Stays
  <2>. QED  BY <1>4 DEF Opened
<1>6. ASSUME NEW k \in DOMAIN fields
      PROVE  MayGo(PathTo(k)) <=> k \in Free
  <2>1. FieldKey(k) /\ Spelt(k) /\ k.word # "[]"
    BY DEF Parsed, FieldKey
  <2>2. KeyPath(PathTo(k)) /\ PathTo(k) # << >>
    BY <2>1, Grown
  <2>3. RuleAt(k) = NoValue <=> ~RuleDeclares(PathTo(k), "body")
    BY <2>2, FindRuleTells
  <2>4. Declared(PathTo(k), "body") <=> RuleDeclares(PathTo(k), "body")
    BY <2>1, DeclaredGrows DEF MayGo
  <2>. QED  BY <2>3, <2>4 DEF MayGo
<1>7. ASSUME NEW k \in Stays, RuleAt(k) # NoValue
      PROVE  ~MayGo(PathTo(k)) /\ PutThere(made[k])
  <2>1. ~MayGo(PathTo(k))
    BY <1>6, <1>7
  <2>2. made[k] = N!Transform(RuleAt(k), config) /\ N!Transform(RuleAt(k), config) # NoValue
    BY <1>7
  <2>3. PutThere(N!Transform(RuleAt(k), config))
    BY <2>2 DEF N!Transform, PutThere
  <2>. QED  BY <2>1, <2>2, <2>3
<1>8. \A k \in Free : k \in Stays /\ made[k] = after[<<PathTo(k), fields[k]>>]
  OBVIOUS
<1>9. \A k \in Stays : k \in Free \/ RuleAt(k) # NoValue
  OBVIOUS
<1>. HIDE DEF PathTo, made, rebuilt, fields, below, Stays, Free, RuleAt
<1>10. below = {c \in Opened(node) : MayGo(c[1])}
  <2>1. \A k \in Free : k \in DOMAIN fields
    BY DEF Free
  <2>. QED  BY <1>1, <1>2, <1>6, <2>1
<1>11. \A c \in below : <<c[1], after[c]>> \in Opened(result)
  BY <1>1, <1>5, <1>8
<1>12. ASSUME NEW m \in Opened(result)
       PROVE  \/ \E c \in below : m = <<c[1], after[c]>>
              \/ ~MayGo(m[1]) /\ PutThere(m[2])
  <2>1. PICK k \in Stays : m = <<PathTo(k), made[k]>>
    BY <1>5
  <2>2. CASE k \in Free
    <3>1. <<PathTo(k), fields[k]>> \in below /\ made[k] = after[<<PathTo(k), fields[k]>>]
      BY <1>1, <1>8, <2>2
    <3>. QED  BY <2>1, <3>1
  <2>3. CASE k \notin Free
    <3>1. ~MayGo(PathTo(k)) /\ PutThere(made[k])
      BY <1>7, <1>9, <2>3
    <3>2. m[1] = PathTo(k) /\ m[2] = made[k]
      BY <2>1
    <3>. QED  BY <3>1, <3>2
  <2>. QED  BY <2>2, <2>3
<1>. QED  BY <1>10, <1>11, <1>12 DEF NodeKept, below, rebuilt

LEMMA NodesKept ==
    ASSUME input.config.rules \in Seq(RedactionRule),
           NEW path, KeyPath(path), MayGo(path), NEW value, Parsed(value), NEW after
    PROVE  NodeKept(<<path, value>>, after)
<1>1. CASE value.type = "scalar"
  <2>1. /\ N!Below(<<path, value>>, input.config) = {}
        /\ Opened(<<path, value>>) = {<<path, value>>}
        /\ N!Rebuilt(<<path, value>>, after, input.config) = value
    BY <1>1 DEF N!Below, Opened, N!Rebuilt
  <2>. QED  BY <1>1, <2>1 DEF NodeKept
<1>. QED  BY <1>1, ArrayKept, ObjectKept DEF Parsed

LEMMA OpenedPaths ==
    ASSUME NEW path, KeyPath(path), NEW value, Parsed(value), NEW c \in Opened(<<path, value>>)
    PROVE  KeyPath(c[1]) /\ c = <<c[1], c[2]>> /\ (MayGo(c[1]) => MayGo(path))
<1>1. ASSUME NEW key, Spelt(key), NEW v, c = <<Append(path, key), v>>
      PROVE  KeyPath(c[1]) /\ c = <<c[1], c[2]>> /\ (MayGo(c[1]) => MayGo(path))
  <2>1. KeyPath(Append(path, key))
    BY <1>1, Grown
  <2>2. MayGo(Append(path, key)) => MayGo(path)
    BY <1>1, DeclaredGrows DEF MayGo
  <2>. QED  BY <1>1, <2>1, <2>2
<1>2. CASE value.type = "array"
  <2>1. PICK i \in DOMAIN value.items : c = <<Append(path, N!Index(i)), value.items[i]>>
    BY <1>2 DEF Opened
  <2>2. Spelt(N!Index(i))
    BY DEF N!Index, Spelt
  <2>. QED  BY <1>1, <2>1, <2>2
<1>3. CASE value.type = "object"
  <2>1. PICK k \in DOMAIN value.fields : c = <<Append(path, k), value.fields[k]>>
    BY <1>3 DEF Opened
  <2>2. Spelt(k)
    BY <1>3 DEF Parsed, FieldKey
  <2>. QED  BY <1>1, <2>1, <2>2
<1>4. CASE value.type \notin {"array", "object"}
  <2>1. c = <<path, value>>
    BY <1>4 DEF Opened
  <2>. QED  BY <2>1
<1>. QED  BY <1>2, <1>3, <1>4

(***************************************************************************)
(* One depth of a body, of the walk of it and of what is made of it: what  *)
(* may go is still walked or found as it was, and what is found is being   *)
(* made, as it was, or covers something declared.                          *)
(***************************************************************************)
Beside(there, walked, made, found) ==
    /\ \A c \in there : KeyPath(c[1]) /\ c = <<c[1], c[2]>>
    /\ \A c \in walked : c \in there /\ MayGo(c[1]) /\ <<c[1], made[c]>> \in found
    /\ \A c \in there : MayGo(c[1]) => c \in walked \/ (c[2].type = "scalar" /\ c \in found)
    /\ \A m \in found : \/ \E c \in walked : m = <<c[1], made[c]>>
                        \/ m \in there /\ MayGo(m[1]) /\ m[2].type = "scalar"
                        \/ ~MayGo(m[1]) /\ PutThere(m[2])

AllOpened(nodes) == UNION {Opened(node) : node \in nodes}

LEMMA BesideBelow ==
    ASSUME input.config.rules \in Seq(RedactionRule),
           NEW there, NEW walked, NEW made, NEW found, Beside(there, walked, made, found),
           \A c \in there : Parsed(c[2]),
           NEW after, \A c \in walked : made[c] = N!Rebuilt(c, after, input.config),
           NEW next, next = UNION {N!Below(c, input.config) : c \in walked},
           NEW mades, \A c \in next : mades[c] = after[c]
    PROVE  Beside(AllOpened(there), next, mades, AllOpened(found))
<1>1. ASSUME NEW c \in walked
      PROVE  /\ c \in there /\ MayGo(c[1]) /\ c = <<c[1], c[2]>> /\ NodeKept(c, after)
             /\ <<c[1], N!Rebuilt(c, after, input.config)>> \in found
  <2>1. c \in there /\ MayGo(c[1]) /\ KeyPath(c[1]) /\ c = <<c[1], c[2]>> /\ Parsed(c[2])
    BY DEF Beside
  <2>2. NodeKept(<<c[1], c[2]>>, after)
    BY <2>1, NodesKept
  <2>3. <<c[1], made[c]>> \in found
    BY DEF Beside
  <2>. QED  BY <2>1, <2>2, <2>3
<1>2. \A c \in AllOpened(there) : KeyPath(c[1]) /\ c = <<c[1], c[2]>>
  <2>1. ASSUME NEW b \in there, NEW c \in Opened(b)
        PROVE  KeyPath(c[1]) /\ c = <<c[1], c[2]>>
    <3>1. KeyPath(b[1]) /\ b = <<b[1], b[2]>> /\ Parsed(b[2])
      BY DEF Beside
    <3>2. c \in Opened(<<b[1], b[2]>>)
      BY <3>1
    <3>. QED  BY <3>1, <3>2, OpenedPaths
  <2>. QED  BY <2>1 DEF AllOpened
<1>3. ASSUME NEW c \in next
      PROVE  c \in AllOpened(there) /\ MayGo(c[1]) /\ <<c[1], mades[c]>> \in AllOpened(found)
  <2>1. PICK b \in walked : c \in N!Below(b, input.config)
    OBVIOUS
  <2>2. NodeKept(b, after) /\ b \in there
    BY <1>1
  <2>3. b[2].type # "scalar"
    BY <2>1, <2>2 DEF NodeKept
  <2>4. c \in Opened(b) /\ MayGo(c[1])
    BY <2>1, <2>2, <2>3 DEF NodeKept
  <2>5. <<c[1], after[c]>> \in Opened(<<b[1], N!Rebuilt(b, after, input.config)>>)
    BY <2>1, <2>2, <2>3 DEF NodeKept
  <2>6. mades[c] = after[c]
    OBVIOUS
  <2>. QED  BY <1>1, <2>2, <2>4, <2>5, <2>6 DEF AllOpened
<1>4. ASSUME NEW c \in AllOpened(there), MayGo(c[1])
      PROVE  c \in next \/ (c[2].type = "scalar" /\ c \in AllOpened(found))
  <2>1. PICK b \in there : c \in Opened(b)
    BY DEF AllOpened
  <2>2. KeyPath(b[1]) /\ b = <<b[1], b[2]>> /\ Parsed(b[2])
    BY DEF Beside
  <2>3. MayGo(b[1])
    <3>1. c \in Opened(<<b[1], b[2]>>)
      BY <2>1, <2>2
    <3>. QED  BY <1>4, <2>2, <3>1, OpenedPaths
  <2>4. CASE b[2].type = "scalar"
    <3>1. Opened(b) = {b}
      BY <2>4 DEF Opened
    <3>2. b \in found
      <4>1. CASE b \in walked
        <5>1. <<b[1], N!Rebuilt(b, after, input.config)>> = b
          BY <1>1, <2>4, <4>1 DEF NodeKept
        <5>. QED  BY <1>1, <4>1, <5>1
      <4>2. CASE b \notin walked
        BY <2>3, <4>2 DEF Beside
      <4>. QED  BY <4>1, <4>2
    <3>. QED  BY <2>1, <2>4, <3>1, <3>2 DEF AllOpened
  <2>5. CASE b[2].type # "scalar"
    <3>1. b \in walked
      BY <2>3, <2>5 DEF Beside
    <3>2. NodeKept(b, after)
      BY <1>1, <3>1
    <3>3. \A o \in Opened(b) : MayGo(o[1]) => o \in N!Below(b, input.config)
      BY <2>5, <3>2 DEF NodeKept
    <3>4. c \in N!Below(b, input.config)
      BY <1>4, <2>1, <3>3
    <3>. QED  BY <3>1, <3>4
  <2>. QED  BY <2>4, <2>5
<1>5. ASSUME NEW m \in AllOpened(found)
      PROVE  \/ \E c \in next : m = <<c[1], mades[c]>>
             \/ m \in AllOpened(there) /\ MayGo(m[1]) /\ m[2].type = "scalar"
             \/ ~MayGo(m[1]) /\ PutThere(m[2])
  <2>1. PICK f \in found : m \in Opened(f)
    BY DEF AllOpened
  <2>2. CASE \E b \in walked : f = <<b[1], made[b]>>
    <3>1. PICK b \in walked : f = <<b[1], N!Rebuilt(b, after, input.config)>>
      BY <2>2
    <3>2. NodeKept(b, after) /\ b \in there /\ MayGo(b[1]) /\ b = <<b[1], b[2]>>
      BY <1>1
    <3>3. CASE b[2].type = "scalar"
      <4>1. f = b /\ Opened(b) = {b}
        BY <3>1, <3>2, <3>3 DEF NodeKept
      <4>. QED  BY <2>1, <3>2, <3>3, <4>1 DEF AllOpened
    <3>4. CASE b[2].type # "scalar"
      <4>1. \/ \E c \in N!Below(b, input.config) : m = <<c[1], after[c]>>
            \/ ~MayGo(m[1]) /\ PutThere(m[2])
        BY <2>1, <3>1, <3>2, <3>4 DEF NodeKept
      <4>2. \A c \in N!Below(b, input.config) : c \in next /\ mades[c] = after[c]
        OBVIOUS
      <4>. QED  BY <4>1, <4>2
    <3>. QED  BY <3>3, <3>4
  <2>3. CASE f \in there /\ MayGo(f[1]) /\ f[2].type = "scalar"
    <3>1. Opened(f) = {f}
      BY <2>3 DEF Opened
    <3>. QED  BY <2>1, <2>3, <3>1 DEF AllOpened
  <2>4. CASE ~MayGo(f[1]) /\ PutThere(f[2])
    <3>1. Opened(f) = {f}
      BY <2>4 DEF Opened, PutThere
    <3>. QED  BY <2>1, <2>4, <3>1
  <2>. QED  BY <2>2, <2>3, <2>4 DEF Beside
<1>. QED  BY <1>2, <1>3, <1>4, <1>5 DEF Beside

(***************************************************************************)
(* The whole walk, by induction on the depth: of a body that was walked,   *)
(* what may go is there as it was, and all else covers something declared. *)
(***************************************************************************)
LEMMA BodyWalked ==
    ASSUME input.config.rules \in Seq(RedactionRule), NEW body,
           \A n \in 0..MaxDepth + 1 : \A node \in OpenedTo(body)[n] : Parsed(node[2]),
           NEW level, level = N!Visited(body, input.config), level[MaxDepth + 1] = {},
           NEW result, result = N!Walk(level, input.config)[MaxDepth][<<<< >>, body>>]
    PROVE  /\ \A c \in Leaves(body) : MayGo(c[1]) => c \in Leaves(result)
           /\ \A m \in Leaves(result) : \/ m \in Leaves(body) /\ MayGo(m[1])
                                        \/ ~MayGo(m[1]) /\ PutThere(m[2])
<1>. DEFINE root == <<<< >>, body>>
            there == OpenedTo(body)
            found == OpenedTo(result)
            walk == N!Walk(level, input.config)
            Together(n) == Beside(there[n], level[n], walk[MaxDepth - n], found[n])
            S == {n \in Nat : n <= MaxDepth + 1 => Together(n)}
<1>1. MaxDepth \in Nat
  BY PayloadAssumption
<1>2. \A n \in 0..MaxDepth + 1 :
        /\ there[n] = OpenedAt(there, n, body)
        /\ found[n] = OpenedAt(found, n, result)
        /\ level[n] = VisitedAt(level, n, body, input.config)
  BY OpenedUnfolds, VisitedUnfolds
<1>3. \A n \in 0..MaxDepth : walk[n] = WalkAt(walk, n, level, input.config)
  BY WalkUnfolds
<1>4. walk[MaxDepth][root] = result
  OBVIOUS
<1>. HIDE DEF there, found, walk
<1>5. 0 \in S
  <2>1. there[0] = {root} /\ level[0] = {root} /\ found[0] = {<<<< >>, result>>}
    <3>1. 0 \in 0..MaxDepth + 1
      BY <1>1
    <3>2. /\ there[0] = OpenedAt(there, 0, body) /\ found[0] = OpenedAt(found, 0, result)
          /\ level[0] = VisitedAt(level, 0, body, input.config)
      BY <1>2, <3>1
    <3>3. /\ OpenedAt(there, 0, body) = {root} /\ OpenedAt(found, 0, result) = {<<<< >>, result>>}
          /\ VisitedAt(level, 0, body, input.config) = {root}
      BY DEF OpenedAt, VisitedAt
    <3>. QED  BY <3>2, <3>3
  <2>2. MaxDepth - 0 = MaxDepth
    BY <1>1
  <2>3. KeyPath(<< >>) /\ MayGo(<< >>)
    BY EmptyKeyPath DEF MayGo
  <2>4. Together(0)
    BY <1>4, <2>1, <2>2, <2>3 DEF Beside
  <2>. QED  BY <2>4
<1>6. ASSUME NEW n \in Nat, n \in S
      PROVE  n + 1 \in S
  <2>1. SUFFICES ASSUME n <= MaxDepth
                 PROVE  Together(n + 1)
    BY <1>1
  <2>. DEFINE after == IF MaxDepth - n = 0 THEN << >> ELSE walk[MaxDepth - n - 1]
  <2>2. /\ MaxDepth - n \in 0..MaxDepth /\ MaxDepth - (MaxDepth - n) = n
        /\ MaxDepth - (n + 1) = MaxDepth - n - 1
        /\ n + 1 \in 0..MaxDepth + 1 /\ n + 1 # 0 /\ n + 1 - 1 = n
        /\ n \in 0..MaxDepth + 1
        /\ MaxDepth - n = 0 => n + 1 = MaxDepth + 1
    BY <1>1, <2>1
  <2>3. Together(n)
    BY <1>1, <1>6, <2>1
  <2>4. /\ there[n + 1] = AllOpened(there[n]) /\ found[n + 1] = AllOpened(found[n])
        /\ level[n + 1] = UNION {N!Below(c, input.config) : c \in level[n]}
    <3>1. /\ there[n + 1] = OpenedAt(there, n + 1, body)
          /\ found[n + 1] = OpenedAt(found, n + 1, result)
          /\ level[n + 1] = VisitedAt(level, n + 1, body, input.config)
      BY <1>2, <2>2
    <3>2. OpenedAt(there, n + 1, body) = AllOpened(there[n])
      BY <2>2 DEF OpenedAt, AllOpened
    <3>3. OpenedAt(found, n + 1, result) = AllOpened(found[n])
      BY <2>2 DEF OpenedAt, AllOpened
    <3>4. VisitedAt(level, n + 1, body, input.config)
            = UNION {N!Below(c, input.config) : c \in level[n]}
      BY <2>2 DEF VisitedAt
    <3>. QED  BY <3>1, <3>2, <3>3, <3>4
  <2>5. \A c \in level[n] : walk[MaxDepth - n][c] = N!Rebuilt(c, after, input.config)
    <3>1. walk[MaxDepth - n] = WalkAt(walk, MaxDepth - n, level, input.config)
      BY <1>3, <2>2
    <3>2. walk[MaxDepth - n] = [c \in level[n] |-> N!Rebuilt(c, after, input.config)]
      BY <2>2, <3>1 DEF WalkAt
    <3>. HIDE DEF after
    <3>. QED  BY <3>2
  <2>6. \A c \in level[n + 1] : walk[MaxDepth - (n + 1)][c] = after[c]
    BY <2>2
  <2>7. \A c \in there[n] : Parsed(c[2])
    BY <2>2 DEF there
  <2>. HIDE DEF after
  <2>. QED  BY <2>3, <2>4, <2>5, <2>6, <2>7, BesideBelow
<1>7. Together(MaxDepth + 1)
  <2>1. MaxDepth + 1 \in Nat
    BY <1>1
  <2>2. Nat \subseteq S
    <3>. HIDE DEF S
    <3>. QED  BY <1>5, <1>6, Induction
  <2>3. MaxDepth + 1 \in S
    BY <2>1, <2>2
  <2>4. MaxDepth + 1 <= MaxDepth + 1
    BY <2>1
  <2>. HIDE DEF Together
  <2>. QED  BY <2>3, <2>4
<1>8. Leaves(body) = there[MaxDepth + 1] /\ Leaves(result) = found[MaxDepth + 1]
  BY DEF Leaves, there, found
<1>. HIDE DEF S
<1>. QED  BY <1>7, <1>8 DEF Beside

(***************************************************************************)
(* A request is redacted: its query, its headers and its body.             *)
(***************************************************************************)
LEMMA KeyDeclared ==
    ASSUME input.config.rules \in Seq(RedactionRule), NEW key, FieldKey(key), NEW location
    PROVE  N!FindRule(input.config.rules, location, <<key>>) = NoValue
             <=> ~Declared(<<key>>, location)
<1>1. <<key>> = Append(<< >>, key) /\ <<key>> # << >>
  OBVIOUS
<1>2. Spelt(key) /\ key.word # "[]"
  BY DEF FieldKey
<1>3. KeyPath(<<key>>)
  BY <1>1, <1>2, EmptyKeyPath, Grown
<1>4. Declared(<<key>>, location) <=> RuleDeclares(<<key>>, location)
  <2>1. Declared(Append(<< >>, key), location) <=>
          \/ Declared(<< >>, location)
          \/ key.word # "[]" /\ RuleDeclares(Append(<< >>, key), location)
    BY <1>2, EmptyKeyPath, DeclaredGrows
  <2>. QED  BY <1>1, <1>2, <2>1, EmptyKeyPath
<1>. QED  BY <1>1, <1>3, <1>4, FindRuleTells

LEMMA PairsRedacted ==
    ASSUME input.config.rules \in Seq(RedactionRule), NEW pairs, NEW location,
           \A p \in pairs : FieldKey(p[1])
    PROVE  LET after == N!RedactPairs(pairs, location, input.config)
           IN /\ \A p \in pairs : ~Declared(<<p[1]>>, location) => p \in after
              /\ \A q \in after : \/ q \in pairs /\ ~Declared(<<q[1]>>, location)
                                  \/ Declared(<<q[1]>>, location) /\ PutThere(q[2])
<1>. DEFINE config == input.config
            RuleOf(p) == N!FindRule(config.rules, location, <<p[1]>>)
            kept == {p \in pairs : RuleOf(p) = NoValue}
            put == {<<p[1], N!Transform(RuleOf(p), config)>> :
                      p \in {p \in pairs : RuleOf(p) # NoValue
                                           /\ N!Transform(RuleOf(p), config) # NoValue}}
            after == N!RedactPairs(pairs, location, config)
<1>1. after = kept \cup put
  BY DEF N!RedactPairs
<1>2. \A p \in pairs : RuleOf(p) = NoValue <=> ~Declared(<<p[1]>>, location)
  BY KeyDeclared
<1>3. ASSUME NEW rule, N!Transform(rule, config) # NoValue
      PROVE  PutThere(N!Transform(rule, config))
  BY <1>3 DEF N!Transform, PutThere
<1>. HIDE DEF after, RuleOf
<1>4. ASSUME NEW q \in put
      PROVE  Declared(<<q[1]>>, location) /\ PutThere(q[2])
  <2>1. PICK p \in pairs : /\ RuleOf(p) # NoValue /\ N!Transform(RuleOf(p), config) # NoValue
                           /\ q = <<p[1], N!Transform(RuleOf(p), config)>>
    OBVIOUS
  <2>2. Declared(<<p[1]>>, location)
    BY <1>2, <2>1
  <2>3. PutThere(N!Transform(RuleOf(p), config))
    BY <1>3, <2>1
  <2>. QED  BY <2>1, <2>2, <2>3
<1>5. \A p \in pairs : ~Declared(<<p[1]>>, location) => p \in after
  BY <1>1, <1>2
<1>6. \A q \in after : \/ q \in pairs /\ ~Declared(<<q[1]>>, location)
                       \/ Declared(<<q[1]>>, location) /\ PutThere(q[2])
  BY <1>1, <1>2, <1>4
<1>. QED  BY <1>5, <1>6 DEF after

LEMMA BodyRemains ==
    ASSUME NullIsNoFunction, NEW body, body # NoValue,
           \A n \in 0..MaxDepth + 1 : \A node \in OpenedTo(body)[n] : Parsed(node[2])
    PROVE  N!Walk(N!Visited(body, input.config), input.config)[MaxDepth][<<<< >>, body>>]
             # NoValue
<1>. DEFINE root == <<<< >>, body>>
            level == N!Visited(body, input.config)
            walk == N!Walk(level, input.config)
            after == IF MaxDepth = 0 THEN << >> ELSE walk[MaxDepth - 1]
<1>1. MaxDepth \in Nat
  BY PayloadAssumption
<1>2. level[0] = {root} /\ OpenedTo(body)[0] = {root}
  <2>1. 0 \in 0..MaxDepth + 1
    BY <1>1
  <2>. HIDE DEF level
  <2>. QED  BY <2>1, OpenedUnfolds, VisitedUnfolds DEF OpenedAt, VisitedAt, level
<1>3. Parsed(body)
  <2>1. 0 \in 0..MaxDepth + 1
    BY <1>1
  <2>2. root \in OpenedTo(body)[0] /\ root[2] = body
    BY <1>2
  <2>3. Parsed(root[2])
    BY <2>1, <2>2
  <2>. QED  BY <2>2, <2>3
<1>4. walk[MaxDepth][root] = N!Rebuilt(root, after, input.config)
  <2>1. MaxDepth \in 0..MaxDepth /\ MaxDepth - MaxDepth = 0
    BY <1>1
  <2>2. walk[MaxDepth] = WalkAt(walk, MaxDepth, level, input.config)
    BY <2>1, WalkUnfolds
  <2>3. walk[MaxDepth] = [node \in level[0] |-> N!Rebuilt(node, after, input.config)]
    BY <2>1, <2>2 DEF WalkAt
  <2>. HIDE DEF walk, after
  <2>. QED  BY <1>2, <2>3
<1>. HIDE DEF walk, after
<1>5. CASE body.type = "scalar"
  BY <1>4, <1>5 DEF N!Rebuilt, walk
<1>6. CASE body.type = "array"
  <2>1. \E items : N!Rebuilt(root, after, input.config) = [body EXCEPT !.items = items]
    BY <1>6 DEF N!Rebuilt
  <2>. QED  BY <1>4, <2>1 DEF NullIsNoFunction, walk
<1>7. CASE body.type = "object"
  <2>1. \E fields : N!Rebuilt(root, after, input.config) = [body EXCEPT !.fields = fields]
    BY <1>7 DEF N!Rebuilt, N!WalkObject
  <2>. QED  BY <1>4, <2>1 DEF NullIsNoFunction, walk
<1>. QED  BY <1>3, <1>5, <1>6, <1>7 DEF Parsed

LEMMA DeclaredStays ==
    ASSUME NullIsNoFunction,
           input.of = "payload" => /\ input.payload \in Payload
                                   /\ input.config.rules \in Seq(RedactionRule)
    PROVE  DeclaredFieldsStay
<1>1. SUFFICES ASSUME input.of = "payload"
               PROVE  DeclaredFieldsStay
  BY DEF DeclaredFieldsStay
<1>. DEFINE config == input.config
            request == input.payload
            body == request.body
            level == N!Visited(body, config)
            rebuilt == N!Walk(level, config)[MaxDepth][<<<< >>, body>>]
            redaction == N!Redact(request, config)
            after == redaction.request
            outcome == N!OutcomeOf(request, config)
            carried == Carried(request)
            sent == Carried(after)
            free == {c \in carried : ~Declared(c[2], c[1])}
            Hidden(c) == Declared(c[2], c[1]) /\ PutThere(c[3])
<1>2. /\ MaxDepth \in Nat /\ config.rules \in Seq(RedactionRule)
      /\ \A p \in request.query : FieldKey(p[1]) /\ p[2].type = "scalar"
      /\ \A p \in request.headers : FieldKey(p[1]) /\ p[2].type = "scalar"
      /\ "body" \in DOMAIN request /\ "query" \in DOMAIN request /\ "headers" \in DOMAIN request
      /\ body # NoValue =>
           \A n \in 0..MaxDepth + 1 : \A node \in OpenedTo(body)[n] : Parsed(node[2])
  BY <1>1, PayloadAssumption
<1>3. ASSUME outcome \in {"rejected", "refused"}
      PROVE  F!Sent("allow", outcome) = "nothing"
  BY <1>3 DEF F!Sent
<1>4. outcome \in {"applied", "nothing"} => ~redaction.refused
  BY DEF N!OutcomeOf, N!Told
<1>5. outcome = "nothing" => after = request
  BY DEF N!OutcomeOf, N!Told
<1>6. ASSUME ~redaction.refused
      PROVE  /\ body # NoValue => level[MaxDepth + 1] = {}
             /\ after.body = IF body = NoValue THEN NoValue ELSE rebuilt
             /\ after.query = N!RedactPairs(request.query, "query", config)
             /\ after.headers = N!RedactPairs(request.headers, "header", config)
  <2>. DEFINE redacted == [request EXCEPT !.body = IF body = NoValue THEN NoValue ELSE rebuilt,
                                          !.query = N!RedactPairs(@, "query", config),
                                          !.headers = N!RedactPairs(@, "header", config)]
  <2>1. body # NoValue => level[MaxDepth + 1] = {}
    BY <1>6 DEF N!Redact
  <2>2. after = redacted
    BY <1>6 DEF N!Redact
  <2>. HIDE DEF rebuilt, after
  <2>3. redacted.body = IF body = NoValue THEN NoValue ELSE rebuilt
    BY <1>2
  <2>4. redacted.query = N!RedactPairs(request.query, "query", config)
    BY <1>2
  <2>5. redacted.headers = N!RedactPairs(request.headers, "header", config)
    BY <1>2
  <2>. QED  BY <2>1, <2>2, <2>3, <2>4, <2>5
<1>. HIDE DEF redaction, after, outcome, rebuilt, level, Hidden
<1>7. ASSUME ~redaction.refused, NEW c \in carried, ~Declared(c[2], c[1])
      PROVE  c \in sent
  <2>1. CASE \E p \in request.query : c = <<"query", <<p[1]>>, p[2]>>
    <3>1. PICK p \in request.query : c = <<"query", <<p[1]>>, p[2]>>
      BY <2>1
    <3>2. p \in after.query
      BY <1>2, <1>6, <1>7, <3>1, PairsRedacted
    <3>. QED  BY <3>1, <3>2 DEF Carried
  <2>2. CASE \E p \in request.headers : c = <<"header", <<p[1]>>, p[2]>>
    <3>1. PICK p \in request.headers : c = <<"header", <<p[1]>>, p[2]>>
      BY <2>2
    <3>2. p \in after.headers
      BY <1>2, <1>6, <1>7, <3>1, PairsRedacted
    <3>. QED  BY <3>1, <3>2 DEF Carried
  <2>3. CASE body # NoValue /\ \E l \in Leaves(body) : c = <<"body", l[1], l[2]>>
    <3>1. PICK l \in Leaves(body) : c = <<"body", l[1], l[2]>>
      BY <2>3
    <3>2. MayGo(l[1])
      BY <1>7, <3>1 DEF MayGo
    <3>3. l \in Leaves(rebuilt)
      BY <1>2, <1>6, <1>7, <2>3, <3>2, BodyWalked DEF level, rebuilt
    <3>4. after.body = rebuilt /\ rebuilt # NoValue
      BY <1>2, <1>6, <1>7, <2>3, BodyRemains DEF level, rebuilt
    <3>. QED  BY <3>1, <3>3, <3>4 DEF Carried
  <2>. QED  BY <2>1, <2>2, <2>3 DEF Carried
<1>8. ASSUME ~redaction.refused, NEW c \in sent, c \notin free
      PROVE  Hidden(c)
  <2>1. CASE \E p \in after.query : c = <<"query", <<p[1]>>, p[2]>>
    <3>1. PICK p \in after.query : c = <<"query", <<p[1]>>, p[2]>>
      BY <2>1
    <3>2. \/ p \in request.query /\ ~Declared(<<p[1]>>, "query")
          \/ Declared(<<p[1]>>, "query") /\ PutThere(p[2])
      BY <1>2, <1>6, <1>8, PairsRedacted
    <3>3. p \in request.query => c \in carried
      BY <3>1 DEF Carried
    <3>. QED  BY <1>8, <3>1, <3>2, <3>3 DEF Hidden
  <2>2. CASE \E p \in after.headers : c = <<"header", <<p[1]>>, p[2]>>
    <3>1. PICK p \in after.headers : c = <<"header", <<p[1]>>, p[2]>>
      BY <2>2
    <3>2. \/ p \in request.headers /\ ~Declared(<<p[1]>>, "header")
          \/ Declared(<<p[1]>>, "header") /\ PutThere(p[2])
      BY <1>2, <1>6, <1>8, PairsRedacted
    <3>3. p \in request.headers => c \in carried
      BY <3>1 DEF Carried
    <3>. QED  BY <1>8, <3>1, <3>2, <3>3 DEF Hidden
  <2>3. CASE after.body # NoValue /\ \E l \in Leaves(after.body) : c = <<"body", l[1], l[2]>>
    <3>1. PICK l \in Leaves(after.body) : c = <<"body", l[1], l[2]>>
      BY <2>3
    <3>2. body # NoValue /\ after.body = rebuilt
      BY <1>6, <1>8, <2>3
    <3>3. \/ l \in Leaves(body) /\ MayGo(l[1])
          \/ ~MayGo(l[1]) /\ PutThere(l[2])
      BY <1>2, <1>6, <1>8, <3>1, <3>2, BodyWalked DEF level, rebuilt
    <3>4. l \in Leaves(body) => c \in carried
      BY <3>1, <3>2 DEF Carried
    <3>. QED  BY <1>8, <3>1, <3>3, <3>4 DEF Hidden, MayGo
  <2>. QED  BY <2>1, <2>2, <2>3 DEF Carried
<1>9. ASSUME NEW c \in carried
      PROVE  ~PutThere(c[3])
  <2>1. ASSUME NEW l \in Leaves(body), body # NoValue, c = <<"body", l[1], l[2]>>
        PROVE  ~PutThere(c[3])
    <3>1. MaxDepth + 1 \in 0..MaxDepth + 1
      BY <1>2
    <3>2. Parsed(l[2])
      BY <1>2, <2>1, <3>1 DEF Leaves
    <3>. QED  BY <2>1, <3>2 DEF Parsed, PutThere
  <2>. QED  BY <1>2, <2>1 DEF Carried, PutThere
<1>. HIDE DEF carried, sent
<1>10. outcome \in {"applied", "nothing"} =>
         /\ free \subseteq sent
         /\ \A c \in sent \ free : Declared(c[2], c[1]) /\ c[3].type \in {"masked", "digest"}
  <2>1. \A c : Hidden(c) => Declared(c[2], c[1]) /\ c[3].type \in {"masked", "digest"}
    BY DEF Hidden, PutThere
  <2>. QED  BY <1>4, <1>7, <1>8, <2>1
<1>11. ASSUME outcome = "nothing"
       PROVE  free = carried
  <2>1. sent = carried /\ ~redaction.refused
    BY <1>4, <1>5, <1>11 DEF sent, carried
  <2>2. ASSUME NEW c \in carried, c \notin free
        PROVE  FALSE
    BY <1>8, <1>9, <2>1, <2>2 DEF Hidden
  <2>. QED  BY <2>2
<1>12. OnlyFreeFieldsGo(outcome, carried, sent)
  BY <1>3, <1>10, <1>11 DEF OnlyFreeFieldsGo
<1>. QED  BY <1>12 DEF DeclaredFieldsStay, outcome, carried, sent, after, redaction

-----------------------------------------------------------------------------
(***************************************************************************)
(* The rate limiter.  What a table holds, and that what is left of a full  *)
(* one leaves room.                                                        *)
(***************************************************************************)
Windows(table) ==
    /\ IsFiniteSet(DOMAIN table)
    /\ \A k \in DOMAIN table : table[k] \in [count : Nat \ {0}, resetAt : Int, since : Nat]

LEMMA Subsets ==
    ASSUME NEW S, IsFiniteSet(S), NEW T \in SUBSET S
    PROVE  /\ IsFiniteSet(T) /\ Cardinality(T) <= Cardinality(S)
           /\ Cardinality(T) \in Nat /\ Cardinality(S) \in Nat
<1>1. IsFiniteSet(T)
  BY FS_Subset
<1>2. Cardinality(T) <= Cardinality(S)
  BY FS_Subset
<1>. QED  BY <1>1, <1>2, FS_CardinalityType

LEMMA HalfIsLeft ==
    ASSUME NEW table, Windows(table), NEW keys \in SUBSET DOMAIN table
    PROVE  LastHalf(table, keys) \subseteq keys
           /\ Cardinality(LastHalf(table, keys)) <= MaxTrackedKeys \div 2
<1>. DEFINE half == LastHalf(table, keys)
            Later(k) == {j \in keys : table[j].since >= table[k].since}
            turns == {table[k].since : k \in half}
<1>1. half \subseteq keys
  BY DEF LastHalf
<1>2. IsFiniteSet(keys) /\ \A k \in keys : table[k].since \in Nat
  BY Subsets DEF Windows
<1>3. \A k \in half : Cardinality(Later(k)) <= MaxTrackedKeys \div 2
  BY DEF LastHalf
<1>4. MaxTrackedKeys \div 2 \in Nat
  BY RateAssumption
<1>5. CASE half = {}
  BY <1>1, <1>4, <1>5, FS_EmptySet
<1>6. CASE half # {}
  <2>. HIDE DEF half
  <2>1. turns \in SUBSET Nat /\ turns # {}
    BY <1>1, <1>2, <1>6
  <2>2. PICK first \in turns : \A turn \in turns : first <= turn
    BY <2>1, LeastOf
  <2>3. PICK k \in half : table[k].since = first
    BY <2>2
  <2>4. \A j \in half : table[j].since >= table[k].since
    BY <1>1, <1>2, <2>2, <2>3
  <2>5. half \subseteq Later(k)
    BY <1>1, <2>4
  <2>6. Later(k) \in SUBSET keys
    OBVIOUS
  <2>. HIDE DEF Later
  <2>7. IsFiniteSet(Later(k)) /\ Cardinality(Later(k)) \in Nat
    BY <1>2, <2>6, Subsets
  <2>8. Cardinality(half) <= Cardinality(Later(k)) /\ Cardinality(half) \in Nat
    BY <2>5, <2>7, Subsets
  <2>. QED  BY <1>1, <1>3, <1>4, <2>3, <2>7, <2>8 DEF half
<1>. QED  BY <1>5, <1>6

\* What a call leaves of a table, but for the window of its key.
LEMMA RoomIsMade ==
    ASSUME NEW table, Windows(table), Cardinality(DOMAIN table) <= MaxTrackedKeys, NEW now
    PROVE  LET room == IF AtCapacity(table) THEN EvictExpired(table, now) ELSE table
           IN /\ DOMAIN room \subseteq DOMAIN table
              /\ \A k \in DOMAIN room : room[k] = table[k]
              /\ Cardinality(DOMAIN room) < MaxTrackedKeys
<1>. DEFINE live == Live(table, now)
            kept == IF Cardinality(live) < MaxTrackedKeys THEN live ELSE LastHalf(table, live)
<1>1. MaxTrackedKeys \in Nat /\ MaxTrackedKeys \div 2 \in Nat
      /\ MaxTrackedKeys \div 2 < MaxTrackedKeys
  BY RateAssumption
<1>2. live \in SUBSET DOMAIN table
  BY DEF Live
<1>3. Cardinality(live) \in Nat /\ Cardinality(DOMAIN table) \in Nat
  BY <1>2, Subsets DEF Windows
<1>4. kept \subseteq DOMAIN table /\ Cardinality(kept) < MaxTrackedKeys
  <2>1. CASE Cardinality(live) < MaxTrackedKeys
    BY <1>2, <2>1
  <2>2. CASE ~(Cardinality(live) < MaxTrackedKeys)
    <3>1. LastHalf(table, live) \subseteq live
          /\ Cardinality(LastHalf(table, live)) <= MaxTrackedKeys \div 2
      BY <1>2, HalfIsLeft
    <3>2. Cardinality(LastHalf(table, live)) \in Nat
      BY <1>2, <3>1, Subsets DEF Windows
    <3>. QED  BY <1>1, <1>2, <2>2, <3>1, <3>2
  <2>. QED  BY <2>1, <2>2
<1>5. EvictExpired(table, now) = [k \in kept |-> table[k]]
  BY DEF EvictExpired
<1>. HIDE DEF kept, live
<1>6. CASE AtCapacity(table)
  BY <1>4, <1>5, <1>6
<1>7. CASE ~AtCapacity(table)
  BY <1>1, <1>3, <1>7 DEF AtCapacity
<1>. QED  BY <1>6, <1>7

(***************************************************************************)
(* One call: what becomes of the window of its key, that the others are as *)
(* they were, and that a live one goes only if that is told.               *)
(***************************************************************************)
AsCounted(table, key, now, v) ==
    LET counts == key \in Live(table, now)
    IN /\ Windows(v.table) /\ Cardinality(DOMAIN v.table) <= MaxTrackedKeys
       /\ key \in DOMAIN v.table
       /\ v.table[key].count = IF counts THEN table[key].count + 1 ELSE 1
       /\ v.table[key].resetAt = IF counts THEN table[key].resetAt ELSE now + WindowLength
       /\ v.allowed <=> (counts => table[key].count + 1 <= Limit)
       /\ \A k \in DOMAIN v.table : k # key => k \in DOMAIN table /\ v.table[k] = table[k]
       /\ ~v.forgot => Live(table, now) \subseteq DOMAIN v.table

LEMMA RateLimitChecked ==
    ASSUME NEW table, Windows(table), Cardinality(DOMAIN table) <= MaxTrackedKeys,
           NEW key, NEW now \in Nat, NEW turn \in Nat
    PROVE  AsCounted(table, key, now, CheckRateLimit(table, key, now, turn))
<1>. DEFINE v == CheckRateLimit(table, key, now, turn)
<1>1. MaxTrackedKeys \in Int /\ WindowLength \in Nat
  BY RateAssumption
<1>2. CASE key \in Live(table, now)
  <2>. DEFINE old == table[key]
              w == Counted(old, now)
  <2>1. key \in DOMAIN table /\ old \in [count : Nat \ {0}, resetAt : Int, since : Nat]
    BY <1>2 DEF Live, Windows
  <2>2. /\ w \in [count : Nat \ {0}, resetAt : Int, since : Nat]
        /\ w.count = old.count + 1 /\ w.resetAt = old.resetAt
    <3>. HIDE DEF old
    <3>. QED  BY <2>1 DEF Counted
  <2>3. /\ v.table = Put(table, key, w) /\ ~v.forgot
        /\ v.allowed = (w.count <= Limit)
    BY <1>2 DEF CheckRateLimit
  <2>. HIDE DEF v, w
  <2>4. /\ DOMAIN v.table = DOMAIN table /\ v.table[key] = w
        /\ \A k \in DOMAIN table : k # key => v.table[k] = table[k]
    BY <2>1, <2>3 DEF Put
  <2>5. Windows(v.table)
    BY <2>2, <2>4 DEF Windows
  <2>6. Live(table, now) \subseteq DOMAIN v.table
    BY <2>4 DEF Live
  <2>. QED  BY <1>2, <2>1, <2>2, <2>3, <2>4, <2>5, <2>6 DEF v, AsCounted
<1>3. CASE key \notin Live(table, now)
  <2>. DEFINE room == IF AtCapacity(table) THEN EvictExpired(table, now) ELSE table
              w == Opening(room, key, now, turn)
  <2>1. /\ DOMAIN room \subseteq DOMAIN table
        /\ \A k \in DOMAIN room : room[k] = table[k]
        /\ Cardinality(DOMAIN room) < MaxTrackedKeys
    BY RoomIsMade
  <2>2. /\ v.table = Put(room, key, w) /\ v.allowed = TRUE
        /\ v.forgot = ~(Live(table, now) \subseteq DOMAIN room)
    BY <1>3 DEF CheckRateLimit
  <2>. HIDE DEF v, room
  <2>3. /\ w \in [count : Nat \ {0}, resetAt : Int, since : Nat]
        /\ w.count = 1 /\ w.resetAt = now + WindowLength
    <3>1. (IF key \in DOMAIN room THEN room[key].since ELSE turn) \in Nat
      BY <2>1 DEF Windows
    <3>. QED  BY <1>1, <3>1 DEF Opening
  <2>. HIDE DEF w
  <2>4. /\ DOMAIN v.table = DOMAIN room \cup {key} /\ v.table[key] = w
        /\ \A k \in DOMAIN room : k # key => v.table[k] = room[k]
    BY <2>2 DEF Put
  <2>5. IsFiniteSet(DOMAIN room) /\ Cardinality(DOMAIN room) \in Nat
    BY <2>1, Subsets DEF Windows
  <2>6. /\ IsFiniteSet(DOMAIN room \cup {key})
        /\ Cardinality(DOMAIN room \cup {key}) <= MaxTrackedKeys
    <3>1. IsFiniteSet(DOMAIN room \cup {key})
      BY <2>5, FS_AddElement
    <3>2. Cardinality(DOMAIN room \cup {key})
            = IF key \in DOMAIN room THEN Cardinality(DOMAIN room)
              ELSE Cardinality(DOMAIN room) + 1
      BY <2>5, FS_AddElement
    <3>. QED  BY <1>1, <2>1, <2>5, <3>1, <3>2
  <2>7. Windows(v.table)
    BY <2>1, <2>3, <2>4, <2>6 DEF Windows
  <2>8. \A k \in DOMAIN v.table : k # key => k \in DOMAIN table /\ v.table[k] = table[k]
    BY <2>1, <2>4
  <2>. QED  BY <1>3, <2>2, <2>3, <2>4, <2>6, <2>7, <2>8 DEF v, AsCounted
<1>. QED  BY <1>2, <1>3

(***************************************************************************)
(* A sequence of requests, answered one after the other.                   *)
(***************************************************************************)
ServedAt(f, n, requests) ==
    IF n = 0 THEN [table |-> << >>]
    ELSE CheckRateLimit(f[n - 1].table, requests[n].key, requests[n].at, n)

ServedUpTo(f, m, requests) == f = [n \in 0..m |-> ServedAt(f, n, requests)]

LEMMA ServedExists ==
    ASSUME NEW requests, NEW m \in Nat
    PROVE  \E f : ServedUpTo(f, m, requests)
<1>. DEFINE Level(f, n) == ServedAt(f, n, requests)
            S == {k \in Nat : \E f : f = [n \in 0..k |-> Level(f, n)]}
<1>1. 0 \in S
  <2>. DEFINE f == [n \in 0..0 |-> Level(<< >>, 0)]
  <2>1. \A n \in 0..0 : Level(f, n) = Level(<< >>, 0)
    BY DEF ServedAt
  <2>2. f = [n \in 0..0 |-> Level(f, n)]
    BY <2>1
  <2>. QED  BY <2>2
<1>2. ASSUME NEW k \in Nat, k \in S
      PROVE  k + 1 \in S
  <2>1. PICK f : f = [n \in 0..k |-> Level(f, n)]
    BY <1>2
  <2>2. \A n \in 0..k : f[n] = Level(f, n)
    BY <2>1
  <2>. DEFINE g == [n \in 0..k + 1 |-> IF n = k + 1 THEN Level(f, n) ELSE f[n]]
  <2>3. \A n \in 0..k + 1 : g[n] = Level(f, n)
    BY <2>2
  <2>4. \A n \in 0..k : g[n] = f[n]
    OBVIOUS
  <2>. HIDE DEF g
  <2>5. \A n \in 0..k + 1 : Level(g, n) = Level(f, n)
    <3>1. ASSUME NEW n \in 0..k + 1, n # 0 PROVE g[n - 1] = f[n - 1]
      BY <2>4, <3>1
    <3>. QED  BY <3>1 DEF ServedAt
  <2>6. g = [n \in 0..k + 1 |-> Level(g, n)]
    <3>1. g = [n \in 0..k + 1 |-> g[n]]
      BY DEF g
    <3>. HIDE DEF Level
    <3>. QED  BY <2>3, <2>5, <3>1
  <2>. QED  BY <2>6
<1>3. m \in S
  BY <1>1, <1>2, Induction
<1>. QED  BY <1>3 DEF ServedUpTo

LEMMA ServedUnfolds ==
    ASSUME NEW requests, Len(requests) \in Nat
    PROVE  \A n \in 0..Len(requests) :
             Served(requests)[n] = ServedAt(Served(requests), n, requests)
<1>. DEFINE Full(f) == [n \in 0..Len(requests) |-> ServedAt(f, n, requests)]
            f0 == CHOOSE f : f = Full(f)
<1>1. Served(requests) = f0
  BY DEF Served, ServedAt
<1>2. \E f : f = Full(f)
  <2>1. Len(requests) \in Nat
    OBVIOUS
  <2>2. \E f : ServedUpTo(f, Len(requests), requests)
    BY <2>1, ServedExists
  <2>. QED  BY <2>2 DEF ServedUpTo
<1>3. f0 = Full(f0)
  BY <1>2
<1>. HIDE DEF f0
<1>. QED  BY <1>1, <1>3

(***************************************************************************)
(* Of n requests: those of a key that were let through since a moment, and *)
(* whether a live window was forgotten since then.                         *)
(***************************************************************************)
Passed(served, requests, n, key, from) ==
    {j \in 1..n : requests[j].key = key /\ served[j].allowed /\ requests[j].at >= from}

Forgotten(served, requests, n, from) ==
    \E j \in 1..n : served[j].forgot /\ requests[j].at >= from

Clock(requests, n) == IF n = 0 THEN 0 ELSE requests[n].at

UpToLimit(count) == IF count > Limit THEN Limit ELSE count

Timed(requests) ==
    /\ Len(requests) \in Nat /\ DOMAIN requests = 1..Len(requests)
    /\ \A i \in DOMAIN requests : requests[i].at \in Nat
    /\ \A i, j \in DOMAIN requests : i <= j => requests[i].at <= requests[j].at

LEMMA PassedGrows ==
    ASSUME NEW served, NEW requests, NEW n \in Nat, NEW key, NEW from
    PROVE  LET Size(m) == Cardinality(Passed(served, requests, m, key, from))
               passes == /\ requests[n + 1].key = key /\ served[n + 1].allowed
                         /\ requests[n + 1].at >= from
           IN Size(n) \in Nat /\ Size(n + 1) = IF passes THEN Size(n) + 1 ELSE Size(n)
<1>. DEFINE few == Passed(served, requests, n, key, from)
            many == Passed(served, requests, n + 1, key, from)
            passes == /\ requests[n + 1].key = key /\ served[n + 1].allowed
                      /\ requests[n + 1].at >= from
<1>1. IsFiniteSet(few) /\ Cardinality(few) \in Nat
  <2>1. IsFiniteSet(1..n)
    BY FS_Interval
  <2>2. few \in SUBSET (1..n)
    BY DEF Passed
  <2>. HIDE DEF few
  <2>. QED  BY <2>1, <2>2, Subsets
<1>2. many = IF passes THEN few \cup {n + 1} ELSE few
  <2>1. \A j : j \in 1..n + 1 <=> j \in 1..n \/ j = n + 1
    OBVIOUS
  <2>. QED  BY <2>1 DEF Passed
<1>3. n + 1 \notin few
  BY DEF Passed
<1>. HIDE DEF few, many, passes
<1>4. Cardinality(few \cup {n + 1}) = Cardinality(few) + 1
  BY <1>1, <1>3, FS_AddElement
<1>. QED  BY <1>1, <1>2, <1>4 DEF few, many, passes

LEMMA NonePassedYet ==
    ASSUME NEW served, NEW requests, Timed(requests), NEW n \in 0..Len(requests), NEW key,
           NEW from \in Int, Clock(requests, n) < from
    PROVE  Cardinality(Passed(served, requests, n, key, from)) = 0
<1>1. ASSUME NEW j \in 1..n
      PROVE  ~(requests[j].at >= from)
  <2>1. n # 0 /\ n \in 1..Len(requests) /\ j \in 1..Len(requests) /\ j <= n
    BY DEF Timed
  <2>2. requests[j].at <= requests[n].at /\ requests[j].at \in Nat /\ requests[n].at \in Nat
    BY <2>1 DEF Timed
  <2>. QED  BY <2>1, <2>2 DEF Clock
<1>2. Passed(served, requests, n, key, from) = {}
  BY <1>1 DEF Passed
<1>. QED  BY <1>2, FS_EmptySet

(***************************************************************************)
(* The limiter's invariant.  What a window has counted was let through     *)
(* since it was opened, up to the limit.  And since any moment less than a *)
(* window's length ago, unless a live window was forgotten, a key passed   *)
(* less often than the limit if its window is gone or was opened before    *)
(* that moment, since the request that opened it came before; and no       *)
(* oftener than that and what its window counts, if it was opened since.   *)
(***************************************************************************)
Guarded(served, requests, n) ==
    LET table == served[n].table
        Start(k) == table[k].resetAt - WindowLength
    IN /\ Windows(table) /\ Cardinality(DOMAIN table) <= MaxTrackedKeys
       /\ \A k \in DOMAIN table :
            /\ Start(k) <= Clock(requests, n)
            /\ Cardinality(Passed(served, requests, n, k, Start(k)))
                 >= UpToLimit(table[k].count)
       /\ \A k : \A from \in Int :
            Clock(requests, n) < from + WindowLength /\ ~Forgotten(served, requests, n, from) =>
              Cardinality(Passed(served, requests, n, k, from))
                <= IF k \notin DOMAIN table THEN Limit - 1
                   ELSE UpToLimit(table[k].count) - 1
                        + IF Start(k) < from THEN 0 ELSE Limit

LEMMA GuardedNext ==
    ASSUME NEW served, NEW requests, Timed(requests), NEW n \in Nat, n + 1 <= Len(requests),
           served[n + 1] = CheckRateLimit(served[n].table, requests[n + 1].key,
                                          requests[n + 1].at, n + 1),
           Guarded(served, requests, n)
    PROVE  Guarded(served, requests, n + 1)
<1>. DEFINE old == served[n].table
            new == served[n + 1].table
            key == requests[n + 1].key
            now == requests[n + 1].at
            was == Clock(requests, n)
            counts == key \in Live(old, now)
            allowed == served[n + 1].allowed
            N1(k, from) == Cardinality(Passed(served, requests, n, k, from))
            N2(k, from) == Cardinality(Passed(served, requests, n + 1, k, from))
            Since(w) == w.resetAt - WindowLength
<1>1. /\ Limit \in Nat \ {0} /\ WindowLength \in Nat \ {0} /\ MaxTrackedKeys \in Nat
      /\ now \in Nat /\ was \in Nat /\ was <= now
      /\ n + 1 \in 0..Len(requests) /\ n \in 0..Len(requests)
      /\ Clock(requests, n + 1) = now
  <2>1. Limit \in Nat \ {0} /\ WindowLength \in Nat \ {0} /\ MaxTrackedKeys \in Nat
    BY RateAssumption
  <2>2. n + 1 \in 1..Len(requests) /\ n + 1 \in 0..Len(requests) /\ n \in 0..Len(requests)
        /\ n + 1 # 0
    BY DEF Timed
  <2>3. now \in Nat
    BY <2>2 DEF Timed
  <2>4. was \in Nat /\ was <= now
    <3>1. CASE n = 0
      BY <2>3, <3>1 DEF Clock
    <3>2. CASE n # 0
      <4>1. n \in 1..Len(requests) /\ n <= n + 1
        BY <2>2, <3>2
      <4>. QED  BY <2>2, <3>2, <4>1 DEF Timed, Clock
    <3>. QED  BY <3>1, <3>2
  <2>5. Clock(requests, n + 1) = now
    BY <2>2 DEF Clock
  <2>. QED  BY <2>1, <2>2, <2>3, <2>4, <2>5
<1>2. /\ Windows(old) /\ Cardinality(DOMAIN old) <= MaxTrackedKeys
      /\ \A k \in DOMAIN old : /\ Since(old[k]) <= was
                               /\ N1(k, Since(old[k])) >= UpToLimit(old[k].count)
      /\ \A k : \A from \in Int :
           was < from + WindowLength /\ ~Forgotten(served, requests, n, from) =>
             N1(k, from) <= IF k \notin DOMAIN old THEN Limit - 1
                            ELSE UpToLimit(old[k].count) - 1
                                 + IF Since(old[k]) < from THEN 0 ELSE Limit
  BY DEF Guarded
<1>3. /\ Windows(new) /\ Cardinality(DOMAIN new) <= MaxTrackedKeys
      /\ key \in DOMAIN new
      /\ new[key].count = IF counts THEN old[key].count + 1 ELSE 1
      /\ new[key].resetAt = IF counts THEN old[key].resetAt ELSE now + WindowLength
      /\ allowed <=> (counts => old[key].count + 1 <= Limit)
      /\ \A k \in DOMAIN new : k # key => k \in DOMAIN old /\ new[k] = old[k]
      /\ ~served[n + 1].forgot => Live(old, now) \subseteq DOMAIN new
  <2>1. AsCounted(old, key, now, CheckRateLimit(old, key, now, n + 1))
    BY <1>1, <1>2, RateLimitChecked
  <2>. QED  BY <2>1 DEF AsCounted
<1>4. /\ \A k \in DOMAIN old : /\ old[k].count \in Nat \ {0} /\ old[k].resetAt \in Int
                               /\ (k \in Live(old, now) <=> old[k].resetAt > now)
      /\ \A k \in DOMAIN new : new[k].count \in Nat \ {0} /\ new[k].resetAt \in Int
      /\ counts => key \in DOMAIN old
  BY <1>2, <1>3 DEF Windows, Live
<1>5. \A k : \A from \in Int :
        /\ N1(k, from) \in Nat
        /\ N2(k, from) = IF key = k /\ allowed /\ now >= from THEN N1(k, from) + 1
                         ELSE N1(k, from)
  BY PassedGrows
<1>6. \A k : \A from \in Int : now < from => N2(k, from) = 0
  BY <1>1, NonePassedYet
<1>7. \A from : ~Forgotten(served, requests, n + 1, from) =>
        /\ ~Forgotten(served, requests, n, from)
        /\ now >= from => ~served[n + 1].forgot
  <2>1. n + 1 \in 1..n + 1 /\ \A j \in 1..n : j \in 1..n + 1
    OBVIOUS
  <2>. QED  BY <2>1 DEF Forgotten
<1>. HIDE DEF old, new, key, now, was, counts, allowed, N1, N2
<1>8. ASSUME NEW k \in DOMAIN new
      PROVE  Since(new[k]) <= now /\ N2(k, Since(new[k])) >= UpToLimit(new[k].count)
  <2>1. CASE k # key
    <3>1. k \in DOMAIN old /\ new[k] = old[k]
      BY <1>3, <2>1
    <3>2. Since(old[k]) \in Int /\ Since(old[k]) <= was
          /\ N1(k, Since(old[k])) >= UpToLimit(old[k].count)
      BY <1>1, <1>2, <1>4, <3>1
    <3>3. N2(k, Since(old[k])) = N1(k, Since(old[k]))
      BY <1>5, <2>1, <3>2
    <3>. QED  BY <1>1, <3>1, <3>2, <3>3
  <2>2. CASE k = key /\ counts
    <3>1. k \in DOMAIN old /\ Since(new[k]) = Since(old[k])
          /\ new[k].count = old[k].count + 1 /\ old[k].count \in Nat
      BY <1>3, <1>4, <2>2
    <3>2. Since(old[k]) \in Int /\ Since(old[k]) <= was
          /\ N1(k, Since(old[k])) >= UpToLimit(old[k].count)
      BY <1>1, <1>2, <1>4, <3>1
    <3>3. N2(k, Since(old[k])) = IF allowed THEN N1(k, Since(old[k])) + 1
                                 ELSE N1(k, Since(old[k]))
      BY <1>1, <1>5, <2>2, <3>2
    <3>4. allowed <=> old[k].count + 1 <= Limit
      BY <1>3, <2>2
    <3>5. N1(k, Since(old[k])) \in Nat
      BY <1>5, <3>2
    <3>. QED  BY <1>1, <3>1, <3>2, <3>3, <3>4, <3>5 DEF UpToLimit
  <2>3. CASE k = key /\ ~counts
    <3>1. new[k].count = 1 /\ Since(new[k]) = now /\ allowed
      BY <1>1, <1>3, <2>3
    <3>2. N2(k, now) = N1(k, now) + 1 /\ N1(k, now) \in Nat
      BY <1>1, <1>5, <2>3, <3>1
    <3>. QED  BY <1>1, <3>1, <3>2 DEF UpToLimit
  <2>. QED  BY <2>1, <2>2, <2>3
<1>9. ASSUME NEW k, NEW from \in Int, now < from + WindowLength,
             ~Forgotten(served, requests, n + 1, from)
      PROVE  N2(k, from) <= IF k \notin DOMAIN new THEN Limit - 1
                            ELSE UpToLimit(new[k].count) - 1
                                 + IF Since(new[k]) < from THEN 0 ELSE Limit
  <2>1. CASE now < from
    <3>1. N2(k, from) = 0
      BY <1>6, <2>1
    <3>2. k \in DOMAIN new => UpToLimit(new[k].count) \in Nat \ {0}
      BY <1>1, <1>4 DEF UpToLimit
    <3>. QED  BY <1>1, <3>1, <3>2
  <2>2. CASE now >= from
    <3>. DEFINE few == N1(k, from)
    <3>1. few \in Nat /\ few <= IF k \notin DOMAIN old THEN Limit - 1
                                ELSE UpToLimit(old[k].count) - 1
                                     + IF Since(old[k]) < from THEN 0 ELSE Limit
      <4>1. was < from + WindowLength
        BY <1>1, <1>9
      <4>. QED  BY <1>2, <1>5, <1>7, <1>9, <4>1
    <3>2. Live(old, now) \subseteq DOMAIN new
      BY <1>3, <1>7, <1>9, <2>2
    <3>3. ASSUME k \notin DOMAIN old \/ k \notin Live(old, now)
          PROVE  few <= Limit - 1
      <4>1. CASE k \notin DOMAIN old
        BY <3>1, <4>1
      <4>2. CASE k \in DOMAIN old
        <5>1. old[k].resetAt <= now /\ old[k].resetAt \in Int /\ old[k].count \in Nat
          BY <1>1, <1>4, <3>3, <4>2
        <5>2. Since(old[k]) < from
          BY <1>1, <1>9, <5>1
        <5>3. UpToLimit(old[k].count) \in Nat /\ UpToLimit(old[k].count) <= Limit
          BY <1>1, <5>1 DEF UpToLimit
        <5>. QED  BY <1>1, <3>1, <4>2, <5>2, <5>3
      <4>. QED  BY <4>1, <4>2
    <3>. HIDE DEF few
    <3>4. CASE k # key
      <4>1. N2(k, from) = few
        BY <1>5, <3>4 DEF few
      <4>2. CASE k \in DOMAIN new
        <5>1. k \in DOMAIN old /\ new[k] = old[k]
          BY <1>3, <3>4, <4>2
        <5>. QED  BY <3>1, <4>1, <4>2, <5>1
      <4>3. CASE k \notin DOMAIN new
        BY <3>2, <3>3, <4>1, <4>3
      <4>. QED  BY <4>2, <4>3
    <3>5. CASE k = key /\ counts
      <4>1. k \in DOMAIN old /\ Since(new[k]) = Since(old[k]) /\ k \in DOMAIN new
            /\ new[k].count = old[k].count + 1 /\ old[k].count \in Nat
            /\ Since(old[k]) \in Int
        BY <1>1, <1>3, <1>4, <3>5
      <4>2. allowed <=> old[k].count + 1 <= Limit
        BY <1>3, <3>5
      <4>3. N2(k, from) = IF allowed THEN few + 1 ELSE few
        BY <1>5, <2>2, <3>5 DEF few
      <4>4. UpToLimit(new[k].count) = IF allowed THEN UpToLimit(old[k].count) + 1
                                      ELSE UpToLimit(old[k].count)
        BY <1>1, <4>1, <4>2 DEF UpToLimit
      <4>5. UpToLimit(old[k].count) \in Int
        BY <1>1, <4>1 DEF UpToLimit
      <4>. HIDE DEF Since
      <4>6. few \in Nat /\ few <= UpToLimit(old[k].count) - 1
                                 + IF Since(old[k]) < from THEN 0 ELSE Limit
        BY <3>1, <4>1
      <4>7. Limit \in Nat
        BY <1>1
      <4>. QED  BY <4>1, <4>3, <4>4, <4>5, <4>6, <4>7
    <3>6. CASE k = key /\ ~counts
      <4>1. new[k].count = 1 /\ Since(new[k]) = now /\ allowed /\ k \in DOMAIN new
        BY <1>1, <1>3, <3>6
      <4>2. few <= Limit - 1
        BY <3>3, <3>6 DEF counts
      <4>3. N2(k, from) = few + 1
        BY <1>5, <2>2, <3>6, <4>1 DEF few
      <4>4. UpToLimit(1) = 1
        BY <1>1 DEF UpToLimit
      <4>5. ~(now < from)
        BY <1>1, <2>2
      <4>. HIDE DEF Since
      <4>. QED  BY <1>1, <3>1, <4>1, <4>2, <4>3, <4>4, <4>5
    <3>. QED  BY <3>4, <3>5, <3>6
  <2>. QED  BY <1>1, <2>1, <2>2
<1>. QED  BY <1>1, <1>3, <1>8, <1>9 DEF Guarded, new, now, N2

LEMMA AlwaysGuarded ==
    ASSUME NEW requests, Timed(requests)
    PROVE  \A n \in 0..Len(requests) : Guarded(Served(requests), requests, n)
<1>. DEFINE served == Served(requests)
            S == {n \in Nat : n <= Len(requests) => Guarded(served, requests, n)}
<1>1. /\ Len(requests) \in Nat
      /\ \A n \in 0..Len(requests) : served[n] = ServedAt(served, n, requests)
  <2>1. Len(requests) \in Nat
    BY DEF Timed
  <2>. QED  BY <2>1, ServedUnfolds
<1>. HIDE DEF served
<1>2. 0 \in S
  <2>1. 0 \in 0..Len(requests)
    BY <1>1
  <2>2. served[0].table = << >> /\ DOMAIN served[0].table = {}
    BY <1>1, <2>1 DEF ServedAt
  <2>3. Limit \in Nat \ {0} /\ MaxTrackedKeys \in Nat
    BY RateAssumption
  <2>4. Windows(served[0].table) /\ Cardinality(DOMAIN served[0].table) <= MaxTrackedKeys
    BY <2>2, <2>3, FS_EmptySet DEF Windows
  <2>5. ASSUME NEW k, NEW from
        PROVE  Cardinality(Passed(served, requests, 0, k, from)) = 0
    <3>1. Passed(served, requests, 0, k, from) = {}
      BY DEF Passed
    <3>. QED  BY <3>1, FS_EmptySet
  <2>. QED  BY <2>2, <2>3, <2>4, <2>5 DEF Guarded
<1>3. ASSUME NEW n \in Nat, n \in S
      PROVE  n + 1 \in S
  <2>1. SUFFICES ASSUME n + 1 <= Len(requests)
                 PROVE  Guarded(served, requests, n + 1)
    OBVIOUS
  <2>2. Guarded(served, requests, n)
    BY <1>1, <1>3, <2>1
  <2>3. n + 1 \in 0..Len(requests) /\ n + 1 # 0 /\ (n + 1) - 1 = n
    BY <1>1, <2>1
  <2>4. served[n + 1] = CheckRateLimit(served[n].table, requests[n + 1].key,
                                       requests[n + 1].at, n + 1)
    BY <1>1, <2>3 DEF ServedAt
  <2>. QED  BY <2>1, <2>2, <2>4, GuardedNext
<1>4. Nat \subseteq S
  BY <1>2, <1>3, Induction
<1>. QED  BY <1>1, <1>4 DEF served

(* What is refused was counted to the limit in a window still open, and    *)
(* every request that was let through into it is less than its length ago. *)
LEMMA RefusedAfterTheLimit ==
    ASSUME NEW requests, Timed(requests), NEW i \in DOMAIN requests,
           ~Served(requests)[i].allowed
    PROVE  Cardinality(Passed(Served(requests), requests, i, requests[i].key,
                              requests[i].at - WindowLength + 1)) >= Limit
<1>. DEFINE served == Served(requests)
            table == served[i - 1].table
            key == requests[i].key
            now == requests[i].at
            begun == table[key].resetAt - WindowLength
            from == now - WindowLength + 1
            early == Passed(served, requests, i - 1, key, begun)
            late == Passed(served, requests, i, key, from)
<1>1. /\ i \in 1..Len(requests) /\ Len(requests) \in Nat /\ now \in Nat
      /\ i - 1 \in 0..Len(requests) /\ i \in 0..Len(requests) /\ i # 0 /\ i - 1 \in Nat
  BY DEF Timed
<1>2. Limit \in Nat \ {0} /\ WindowLength \in Nat
  BY RateAssumption
<1>3. Guarded(served, requests, i - 1)
  BY <1>1, AlwaysGuarded
<1>4. served[i] = CheckRateLimit(table, key, now, i) /\ ~served[i].allowed
  BY <1>1, ServedUnfolds DEF ServedAt
<1>. HIDE DEF served
<1>5. Windows(table) /\ Cardinality(DOMAIN table) <= MaxTrackedKeys
      /\ \A k \in DOMAIN table :
           Cardinality(Passed(served, requests, i - 1, k, table[k].resetAt - WindowLength))
             >= UpToLimit(table[k].count)
  BY <1>3 DEF Guarded
<1>6. AsCounted(table, key, now, served[i])
  <2>1. i \in Nat
    BY <1>1
  <2>. HIDE DEF table, key, now
  <2>. QED  BY <1>1, <1>4, <1>5, <2>1, RateLimitChecked
<1>7. key \in Live(table, now) /\ ~(table[key].count + 1 <= Limit)
  BY <1>4, <1>6 DEF AsCounted
<1>8. /\ key \in DOMAIN table /\ table[key].resetAt > now
      /\ table[key].count \in Nat /\ table[key].resetAt \in Int
  BY <1>5, <1>7 DEF Live, Windows
<1>9. Cardinality(early) >= Limit
  <2>1. UpToLimit(table[key].count) = Limit
    BY <1>2, <1>7, <1>8 DEF UpToLimit
  <2>. QED  BY <1>5, <1>8, <2>1
<1>10. early \subseteq late
  <2>1. begun \in Int /\ begun >= from
    <3>1. \A r, m \in Int : \A w \in Nat : r > m => r - w \in Int /\ r - w >= m - w + 1
      OBVIOUS
    <3>. HIDE DEF table, key, now
    <3>. QED  BY <1>1, <1>2, <1>8, <3>1
  <2>2. from \in Int
    BY <1>1, <1>2
  <2>3. \A j \in 1..i - 1 : j \in 1..i /\ requests[j].at \in Nat
    BY <1>1 DEF Timed
  <2>. HIDE DEF begun, from, key
  <2>. QED  BY <2>1, <2>2, <2>3 DEF Passed
<1>11. IsFiniteSet(late)
  <2>1. IsFiniteSet(1..i)
    <3>1. i \in Int /\ 1 \in Int
      BY <1>1
    <3>. QED  BY <3>1, FS_Interval
  <2>2. late \in SUBSET (1..i)
    BY DEF Passed
  <2>. HIDE DEF late
  <2>. QED  BY <2>1, <2>2, Subsets
<1>. HIDE DEF early, late
<1>12. Cardinality(early) <= Cardinality(late) /\ Cardinality(early) \in Nat
       /\ Cardinality(late) \in Nat
  BY <1>10, <1>11, Subsets
<1>. QED  BY <1>2, <1>9, <1>12 DEF late, served

LEMMA LessThanTwice ==
    ASSUME NEW requests, Timed(requests), NEW i \in DOMAIN requests, NEW key
    PROVE  LET from == requests[i].at - WindowLength + 1
           IN \/ Forgotten(Served(requests), requests, i, from)
              \/ Cardinality(Passed(Served(requests), requests, i, key, from)) < 2 * Limit
<1>. DEFINE served == Served(requests)
            table == served[i].table
            from == requests[i].at - WindowLength + 1
            passed == Cardinality(Passed(served, requests, i, key, from))
<1>1. /\ i \in 0..Len(requests) /\ i # 0 /\ requests[i].at \in Nat
      /\ i \in 1..Len(requests) /\ i \in Nat /\ i - 1 \in Nat /\ (i - 1) + 1 = i
  BY DEF Timed
<1>2. Limit \in Nat \ {0} /\ WindowLength \in Nat
  BY RateAssumption
<1>3. Guarded(served, requests, i)
  BY <1>1, AlwaysGuarded
<1>. HIDE DEF served
<1>4. SUFFICES ASSUME ~Forgotten(served, requests, i, from)
               PROVE  passed < 2 * Limit
  BY DEF served
<1>5. from \in Int /\ Clock(requests, i) < from + WindowLength
  BY <1>1, <1>2 DEF Clock
<1>6. /\ Windows(table)
      /\ passed <= IF key \notin DOMAIN table THEN Limit - 1
                   ELSE UpToLimit(table[key].count) - 1
                        + IF table[key].resetAt - WindowLength < from THEN 0 ELSE Limit
  <2>. HIDE DEF from
  <2>. QED  BY <1>3, <1>4, <1>5 DEF Guarded
<1>7. passed \in Nat
  <2>1. IsFiniteSet(1..i)
    <3>1. i \in Int /\ 1 \in Int
      BY <1>1
    <3>. QED  BY <3>1, FS_Interval
  <2>2. Passed(served, requests, i, key, from) \in SUBSET (1..i)
    BY DEF Passed
  <2>. HIDE DEF from
  <2>. QED  BY <2>1, <2>2, Subsets
<1>8. key \in DOMAIN table => UpToLimit(table[key].count) \in Nat
                              /\ UpToLimit(table[key].count) <= Limit
  BY <1>2, <1>6 DEF Windows, UpToLimit
<1>. HIDE DEF passed, from, table
<1>. QED  BY <1>2, <1>6, <1>7, <1>8

LEMMA TimedHolds ==
    ASSUME NEW requests, Timed(requests), NEW i \in DOMAIN requests
    PROVE  LET served == Served(requests)
               span == (requests[i].at - WindowLength + 1)..requests[i].at
               forgot == \E j \in 1..i : served[j].forgot /\ requests[j].at \in span
               permitted == {j \in 1..i : /\ requests[j].key = requests[i].key
                                          /\ served[j].allowed /\ requests[j].at \in span}
           IN /\ Cardinality(DOMAIN served[i].table) <= MaxTrackedKeys
              /\ ~served[i].allowed => Cardinality(permitted) >= Limit
              /\ forgot \/ Cardinality(permitted) < 2 * Limit
<1>. DEFINE served == Served(requests)
            key == requests[i].key
            now == requests[i].at
            from == now - WindowLength + 1
            span == from..now
            forgot == \E j \in 1..i : served[j].forgot /\ requests[j].at \in span
            permitted == {j \in 1..i : /\ requests[j].key = key /\ served[j].allowed
                                       /\ requests[j].at \in span}
<1>1. i \in 0..Len(requests) /\ now \in Nat /\ WindowLength \in Nat
  BY RateAssumption DEF Timed
<1>2. \A j \in 1..i : requests[j].at \in Nat /\ requests[j].at <= now
  <2>1. \A j \in 1..i : j \in DOMAIN requests /\ j <= i
    BY DEF Timed
  <2>. QED  BY <2>1 DEF Timed
<1>3. \A j \in 1..i : requests[j].at \in span <=> requests[j].at >= from
  BY <1>1, <1>2
<1>4. Cardinality(DOMAIN served[i].table) <= MaxTrackedKeys
  BY <1>1, AlwaysGuarded DEF Guarded
<1>. HIDE DEF served, key, span, from
<1>5. permitted = Passed(served, requests, i, key, from)
  BY <1>3 DEF Passed
<1>6. forgot = Forgotten(served, requests, i, from)
  BY <1>3 DEF Forgotten
<1>. HIDE DEF permitted, forgot
<1>7. ~served[i].allowed => Cardinality(permitted) >= Limit
  BY <1>5, RefusedAfterTheLimit DEF served, key, from
<1>8. forgot \/ Cardinality(permitted) < 2 * Limit
  BY <1>5, <1>6, LessThanTwice DEF served, from
<1>. QED  BY <1>4, <1>7, <1>8 DEF permitted, forgot, span, from, key, served

LEMMA TimedAppended ==
    ASSUME NEW s \in Seq([key : Key, at : Nat]), Timed(s), NEW r \in [key : Key, at : Nat],
           s # << >> => r.at >= Last(s).at
    PROVE  Append(s, r) \in Seq([key : Key, at : Nat]) /\ Timed(Append(s, r))
<1>. DEFINE t == Append(s, r)
<1>1. t \in Seq([key : Key, at : Nat]) /\ Len(s) \in Nat /\ Len(t) = Len(s) + 1
      /\ DOMAIN t = 1..Len(t) /\ t[Len(s) + 1] = r
      /\ DOMAIN s = 1..Len(s)
  OBVIOUS
<1>2. \A i \in 1..Len(s) : t[i] = s[i] /\ s[i].at \in Nat
  <2>1. \A i \in 1..Len(s) : t[i] = s[i]
    OBVIOUS
  <2>. QED  BY <1>1, <2>1 DEF Timed
<1>3. \A i \in 1..Len(s) : s[i].at <= r.at
  <2>1. SUFFICES ASSUME NEW i \in 1..Len(s) PROVE s[i].at <= r.at
    OBVIOUS
  <2>2. s # << >> /\ Len(s) \in DOMAIN s /\ i \in DOMAIN s /\ i <= Len(s)
    BY <1>1
  <2>3. s[i].at <= Last(s).at /\ s[i].at \in Nat /\ Last(s).at \in Nat
    BY <2>2 DEF Timed, Last
  <2>. QED  BY <2>2, <2>3
<1>4. r.at \in Nat
  OBVIOUS
<1>. HIDE DEF t
<1>5. \A i \in DOMAIN t : i \in 1..Len(s) \/ i = Len(s) + 1
  BY <1>1
<1>6. \A i \in DOMAIN t : t[i].at \in Nat
  BY <1>1, <1>2, <1>4, <1>5
<1>7. ASSUME NEW i \in DOMAIN t, NEW j \in DOMAIN t, i <= j
      PROVE  t[i].at <= t[j].at
  <2>1. CASE j \in 1..Len(s)
    <3>1. i \in 1..Len(s)
      BY <1>1, <1>5, <1>7, <2>1
    <3>. QED  BY <1>1, <1>2, <1>7, <2>1, <3>1 DEF Timed
  <2>2. CASE j = Len(s) + 1 /\ i \in 1..Len(s)
    BY <1>1, <1>2, <1>3, <2>2
  <2>3. CASE j = Len(s) + 1 /\ i = Len(s) + 1
    BY <1>1, <1>4, <2>3
  <2>. QED  BY <1>5, <2>1, <2>2, <2>3
<1>8. Timed(t)
  <2>1. Len(t) \in Nat
    BY <1>1
  <2>. QED  BY <1>1, <1>6, <1>7, <2>1 DEF Timed
<1>. QED  BY <1>1, <1>8 DEF t

-----------------------------------------------------------------------------
(***************************************************************************)
(* Places in a strict total order of a finite set: how many come before.   *)
(***************************************************************************)
Foregoing(S, prec, i) == {j \in S : <<j, i>> \in prec}

StrictlyOrders(prec, S) ==
    /\ \A i \in S : <<i, i>> \notin prec
    /\ \A i, j \in S : i # j => <<i, j>> \in prec \/ <<j, i>> \in prec
    /\ \A i, j, k \in S : <<i, j>> \in prec /\ <<j, k>> \in prec => <<i, k>> \in prec

LEMMA PlacesFollow ==
    ASSUME NEW S, IsFiniteSet(S), NEW prec, StrictlyOrders(prec, S),
           NEW i \in S, NEW j \in S, <<i, j>> \in prec
    PROVE  Cardinality(Foregoing(S, prec, i)) < Cardinality(Foregoing(S, prec, j))
<1>. DEFINE few == Foregoing(S, prec, i)
            many == Foregoing(S, prec, j)
<1>1. few \subseteq many /\ i \in many /\ i \notin few /\ many \subseteq S
  BY DEF Foregoing, StrictlyOrders
<1>. HIDE DEF few, many
<1>2. IsFiniteSet(many) /\ Cardinality(many) \in Nat
  BY <1>1, Subsets
<1>3. Cardinality(few) <= Cardinality(many) /\ Cardinality(few) \in Nat
  BY <1>1, <1>2, Subsets
<1>4. Cardinality(many) = Cardinality(few) => many = few
  BY <1>1, <1>2, FS_Subset
<1>. QED  BY <1>1, <1>2, <1>3, <1>4 DEF few, many

LEMMA PlacesInRange ==
    ASSUME NEW S, IsFiniteSet(S), NEW prec, StrictlyOrders(prec, S), NEW i \in S
    PROVE  Cardinality(S) \in Nat
           /\ Cardinality(Foregoing(S, prec, i)) \in 0..Cardinality(S) - 1
<1>. DEFINE few == Foregoing(S, prec, i)
<1>1. few \subseteq S /\ i \notin few
  BY DEF Foregoing, StrictlyOrders
<1>. HIDE DEF few
<1>2. Cardinality(few) <= Cardinality(S) /\ Cardinality(few) \in Nat /\ Cardinality(S) \in Nat
  BY <1>1, Subsets
<1>3. Cardinality(S) = Cardinality(few) => S = few
  BY <1>1, FS_Subset
<1>. QED  BY <1>1, <1>2, <1>3 DEF few

LEMMA EveryPlaceTaken ==
    ASSUME NEW S, IsFiniteSet(S), NEW prec, StrictlyOrders(prec, S),
           NEW n \in 0..Cardinality(S) - 1
    PROVE  \E i \in S : Cardinality(Foregoing(S, prec, i)) = n
<1>. DEFINE T == 0..Cardinality(S) - 1
            f == [i \in S |-> Cardinality(Foregoing(S, prec, i))]
<1>1. f \in [S -> T] /\ Cardinality(S) \in Nat
  <2>1. Cardinality(S) \in Nat
    BY FS_CardinalityType
  <2>. QED  BY <2>1, PlacesInRange
<1>2. \A i, j \in S : f[i] = f[j] => i = j
  <2>1. SUFFICES ASSUME NEW i \in S, NEW j \in S, i # j
                 PROVE  f[i] # f[j]
    OBVIOUS
  <2>2. f[i] < f[j] \/ f[j] < f[i]
    BY <2>1, PlacesFollow DEF StrictlyOrders
  <2>3. f[i] \in Int /\ f[j] \in Int
    BY <1>1
  <2>. QED  BY <2>2, <2>3
<1>3. f \in Injection(S, T)
  BY <1>1, <1>2 DEF Injection, IsInjective
<1>4. IsFiniteSet(T) /\ Cardinality(T) = Cardinality(S)
  <2>. DEFINE top == Cardinality(S) - 1
  <2>1. 0 \in Int /\ top \in Int
    BY <1>1
  <2>2. IsFiniteSet(0..top)
    BY <2>1, FS_Interval
  <2>3. Cardinality(0..top) = IF 0 > top THEN 0 ELSE top - 0 + 1
    BY <2>1, FS_Interval
  <2>. QED  BY <1>1, <2>1, <2>2, <2>3
<1>5. f \in Surjection(S, T)
  <2>. HIDE DEF f, T
  <2>1. Cardinality(S) = Cardinality(T) <=> f \in Surjection(S, T)
    BY <1>3, <1>4, FS_Injection
  <2>. QED  BY <1>4, <2>1
<1>. QED  BY <1>5 DEF Surjection

\* The one at a place.
LEMMA TheOneInPlace ==
    ASSUME NEW S, IsFiniteSet(S), NEW prec, StrictlyOrders(prec, S),
           NEW n \in 1..Cardinality(S)
    PROVE  LET one == CHOOSE i \in S : Cardinality(Foregoing(S, prec, i)) = n - 1
           IN /\ one \in S /\ Cardinality(Foregoing(S, prec, one)) = n - 1
              /\ \A i \in S : Cardinality(Foregoing(S, prec, i)) = n - 1 => i = one
<1>1. n - 1 \in 0..Cardinality(S) - 1 /\ n - 1 \in Int
  BY FS_CardinalityType
<1>2. \E i \in S : Cardinality(Foregoing(S, prec, i)) = n - 1
  BY <1>1, EveryPlaceTaken
<1>3. \A i, j \in S : Cardinality(Foregoing(S, prec, i)) = n - 1
                      /\ Cardinality(Foregoing(S, prec, j)) = n - 1 => i = j
  <2>1. SUFFICES ASSUME NEW i \in S, NEW j \in S, i # j,
                        Cardinality(Foregoing(S, prec, i)) = n - 1,
                        Cardinality(Foregoing(S, prec, j)) = n - 1
                 PROVE  FALSE
    OBVIOUS
  <2>2. <<i, j>> \in prec \/ <<j, i>> \in prec
    BY <2>1 DEF StrictlyOrders
  <2>3. \/ Cardinality(Foregoing(S, prec, i)) < Cardinality(Foregoing(S, prec, j))
        \/ Cardinality(Foregoing(S, prec, j)) < Cardinality(Foregoing(S, prec, i))
    BY <2>2, PlacesFollow
  <2>. QED  BY <1>1, <2>1, <2>3
<1>. QED  BY <1>2, <1>3

-----------------------------------------------------------------------------
(***************************************************************************)
(* The arms of an experiment: running sums of allocations, and their sum   *)
(* in whatever order they are taken.                                       *)
(***************************************************************************)
Arms(variants) ==
    /\ Len(variants) \in Nat
    /\ variants = [i \in 1..Len(variants) |-> variants[i]]
    /\ \A i \in 1..Len(variants) : variants[i].allocation \in Nat

CursorAt(f, n, variants) == IF n = 0 THEN 0 ELSE f[n - 1] + variants[n].allocation

CursorUpTo(f, m, variants) == f = [n \in 0..m |-> CursorAt(f, n, variants)]

LEMMA CursorExists ==
    ASSUME NEW variants, NEW m \in Nat
    PROVE  \E f : CursorUpTo(f, m, variants)
<1>. DEFINE Level(f, n) == CursorAt(f, n, variants)
            S == {k \in Nat : \E f : f = [n \in 0..k |-> Level(f, n)]}
<1>1. 0 \in S
  <2>. DEFINE f == [n \in 0..0 |-> Level(<< >>, 0)]
  <2>1. \A n \in 0..0 : Level(f, n) = Level(<< >>, 0)
    BY DEF CursorAt
  <2>2. f = [n \in 0..0 |-> Level(f, n)]
    BY <2>1
  <2>. QED  BY <2>2
<1>2. ASSUME NEW k \in Nat, k \in S
      PROVE  k + 1 \in S
  <2>1. PICK f : f = [n \in 0..k |-> Level(f, n)]
    BY <1>2
  <2>2. \A n \in 0..k : f[n] = Level(f, n)
    BY <2>1
  <2>. DEFINE g == [n \in 0..k + 1 |-> IF n = k + 1 THEN Level(f, n) ELSE f[n]]
  <2>3. \A n \in 0..k + 1 : g[n] = Level(f, n)
    BY <2>2
  <2>4. \A n \in 0..k : g[n] = f[n]
    OBVIOUS
  <2>. HIDE DEF g
  <2>5. \A n \in 0..k + 1 : Level(g, n) = Level(f, n)
    <3>1. ASSUME NEW n \in 0..k + 1, n # 0 PROVE g[n - 1] = f[n - 1]
      BY <2>4, <3>1
    <3>. QED  BY <3>1 DEF CursorAt
  <2>6. g = [n \in 0..k + 1 |-> Level(g, n)]
    <3>1. g = [n \in 0..k + 1 |-> g[n]]
      BY DEF g
    <3>. HIDE DEF Level
    <3>. QED  BY <2>3, <2>5, <3>1
  <2>. QED  BY <2>6
<1>3. m \in S
  BY <1>1, <1>2, Induction
<1>. QED  BY <1>3 DEF CursorUpTo

LEMMA CursorUnfolds ==
    ASSUME NEW variants, Len(variants) \in Nat
    PROVE  \A n \in 0..Len(variants) :
             Cursor(variants)[n] = CursorAt(Cursor(variants), n, variants)
<1>. DEFINE Full(f) == [n \in 0..Len(variants) |-> CursorAt(f, n, variants)]
            f0 == CHOOSE f : f = Full(f)
<1>1. Cursor(variants) = f0
  BY DEF Cursor, CursorAt
<1>2. \E f : f = Full(f)
  <2>1. Len(variants) \in Nat
    OBVIOUS
  <2>2. \E f : CursorUpTo(f, Len(variants), variants)
    BY <2>1, CursorExists
  <2>. QED  BY <2>2 DEF CursorUpTo
<1>3. f0 = Full(f0)
  BY <1>2
<1>. HIDE DEF f0
<1>. QED  BY <1>1, <1>3

\* A unit of every part of every allocation of the first n arms.
Units(variants, n) == {u \in (1..n) \X Nat : u[2] \in 1..variants[u[1]].allocation}

LEMMA CursorCounts ==
    ASSUME NEW variants, Arms(variants), NEW n \in 0..Len(variants)
    PROVE  /\ Cursor(variants)[n] \in Nat
           /\ IsFiniteSet(Units(variants, n))
           /\ Cardinality(Units(variants, n)) = Cursor(variants)[n]
<1>. DEFINE size == Len(variants)
            cursor == Cursor(variants)
            Fine(k) == /\ cursor[k] \in Nat
                       /\ IsFiniteSet(Units(variants, k))
                       /\ Cardinality(Units(variants, k)) = cursor[k]
            S == {k \in Nat : k <= size => Fine(k)}
<1>0. size \in Nat /\ \A k \in 0..size : cursor[k] = CursorAt(cursor, k, variants)
  BY CursorUnfolds DEF Arms
<1>. HIDE DEF size, cursor
<1>1. 0 \in S
  <2>1. Units(variants, 0) = {}
    BY DEF Units
  <2>2. cursor[0] = 0
    BY <1>0 DEF CursorAt
  <2>3. Fine(0)
    BY <2>1, <2>2, FS_EmptySet
  <2>. QED  BY <2>3
<1>2. ASSUME NEW k \in Nat, k \in S
      PROVE  k + 1 \in S
  <2>1. SUFFICES ASSUME k + 1 <= size PROVE Fine(k + 1)
    OBVIOUS
  <2>2. Fine(k)
    BY <1>0, <1>2, <2>1
  <2>. DEFINE a == variants[k + 1].allocation
              last == {k + 1} \X (1..a)
  <2>3. a \in Nat /\ cursor[k + 1] = cursor[k] + a
    <3>1. k + 1 \in 1..size /\ k + 1 \in 0..size /\ k + 1 # 0 /\ (k + 1) - 1 = k
      BY <1>0, <2>1
    <3>2. cursor[k + 1] = cursor[k] + a
      BY <1>0, <3>1 DEF CursorAt
    <3>. QED  BY <3>1, <3>2 DEF Arms, size
  <2>. HIDE DEF a
  <2>4. IsFiniteSet(last) /\ Cardinality(last) = a
    <3>1. 1 \in Int /\ a \in Int
      BY <2>3
    <3>2. IsFiniteSet(1..a)
      BY <3>1, FS_Interval
    <3>3. Cardinality(1..a) = a
      BY <2>3, <3>1, FS_Interval
    <3>4. IsFiniteSet({k + 1}) /\ Cardinality({k + 1}) = 1
      BY FS_Singleton
    <3>5. IsFiniteSet(last)
      BY <3>2, <3>4, FS_Product
    <3>6. Cardinality(last) = Cardinality({k + 1}) * Cardinality(1..a)
      BY <3>2, <3>4, FS_Product
    <3>. QED  BY <2>3, <3>3, <3>4, <3>5, <3>6
  <2>5. Units(variants, k + 1) = Units(variants, k) \cup last
    <3>1. \A i : i \in 1..k + 1 <=> i \in 1..k \/ i = k + 1
      OBVIOUS
    <3>2. ASSUME NEW u
          PROVE  u \in Units(variants, k + 1) <=> u \in Units(variants, k) \/ u \in last
      <4>1. u \in last <=> u \in {k + 1} \X Nat /\ u[2] \in 1..a
        BY <2>3
      <4>2. u \in {k + 1} \X Nat => u[1] = k + 1
        OBVIOUS
      <4>3. u \in (1..k + 1) \X Nat <=> u \in (1..k) \X Nat \/ u \in {k + 1} \X Nat
        BY <3>1
      <4>. HIDE DEF last
      <4>. QED  BY <4>1, <4>2, <4>3 DEF Units, a
    <3>. HIDE DEF last
    <3>. QED  BY <3>2
  <2>6. Units(variants, k) \cap last = {}
    <3>1. \A u \in Units(variants, k) : u[1] \in 1..k
      BY DEF Units
    <3>2. \A u \in last : u[1] = k + 1
      OBVIOUS
    <3>3. k + 1 \notin 1..k
      OBVIOUS
    <3>. HIDE DEF last
    <3>. QED  BY <3>1, <3>2, <3>3
  <2>. HIDE DEF last
  <2>. DEFINE few == Units(variants, k)
  <2>7. IsFiniteSet(few) /\ Cardinality(few) = cursor[k] /\ cursor[k] \in Nat
    BY <2>2
  <2>. HIDE DEF few
  <2>8. IsFiniteSet(few \cup last)
    BY <2>4, <2>7, FS_Union
  <2>9. Cardinality(few \cup last)
          = Cardinality(few) + Cardinality(last) - Cardinality(few \cap last)
    BY <2>4, <2>7, FS_Union
  <2>10. Cardinality(few \cap last) = 0
    BY <2>6, FS_EmptySet DEF few
  <2>11. Cardinality(few \cup last) = cursor[k + 1] /\ cursor[k + 1] \in Nat
    BY <2>3, <2>4, <2>7, <2>9, <2>10
  <2>. QED  BY <2>5, <2>8, <2>11 DEF few
<1>3. n \in S /\ n <= size
  <2>1. Nat \subseteq S
    BY <1>1, <1>2, Induction
  <2>. HIDE DEF S
  <2>. QED  BY <1>0, <2>1 DEF size
<1>. QED  BY <1>3 DEF cursor

LEMMA CursorGrows ==
    ASSUME NEW variants, Arms(variants), NEW j \in 0..Len(variants), NEW i \in 0..j
    PROVE  /\ Cursor(variants)[i] <= Cursor(variants)[j]
           /\ Cursor(variants)[i] \in Nat /\ Cursor(variants)[j] \in Nat
<1>0. i \in 0..Len(variants)
  BY DEF Arms
<1>1. /\ IsFiniteSet(Units(variants, j))
      /\ Cardinality(Units(variants, j)) = Cursor(variants)[j] /\ Cursor(variants)[j] \in Nat
      /\ Cardinality(Units(variants, i)) = Cursor(variants)[i] /\ Cursor(variants)[i] \in Nat
  BY <1>0, CursorCounts
<1>2. Units(variants, i) \subseteq Units(variants, j)
  <2>1. 1..i \subseteq 1..j
    OBVIOUS
  <2>. QED  BY <2>1 DEF Units
<1>. QED  BY <1>1, <1>2, Subsets

\* The sum does not depend on the order.
LEMMA TotalInAnyOrder ==
    ASSUME NEW vs, Arms(vs), NEW ws, Arms(ws), Len(ws) = Len(vs),
           NEW p \in [1..Len(vs) -> 1..Len(vs)],
           \A i, j \in 1..Len(vs) : p[i] = p[j] => i = j,
           \A j \in 1..Len(vs) : \E i \in 1..Len(vs) : p[i] = j,
           \A i \in 1..Len(vs) : ws[i] = vs[p[i]]
    PROVE  Total(ws) = Total(vs)
<1>. DEFINE size == Len(vs)
            S == Units(ws, size)
            T == Units(vs, size)
            f == [u \in S |-> <<p[u[1]], u[2]>>]
<1>1. size \in Nat /\ size \in 0..size
  BY DEF Arms
<1>2. IsFiniteSet(S) /\ Cardinality(S) = Total(ws) /\ Cardinality(T) = Total(vs)
  BY <1>1, CursorCounts DEF Total
<1>. HIDE DEF size
<1>3. \A u \in S : u[1] \in 1..size /\ u[2] \in Nat /\ u = <<u[1], u[2]>>
                   /\ u[2] \in 1..ws[u[1]].allocation
  BY DEF Units
<1>4. \A i \in 1..size : p[i] \in 1..size /\ ws[i] = vs[p[i]]
  BY DEF size
<1>5. f \in [S -> T]
  <2>1. ASSUME NEW u \in S PROVE f[u] \in T
    <3>1. <<p[u[1]], u[2]>> \in (1..size) \X Nat
      BY <1>3, <1>4
    <3>2. u[2] \in 1..vs[p[u[1]]].allocation
      BY <1>3, <1>4
    <3>. QED  BY <3>1, <3>2 DEF Units
  <2>. QED  BY <2>1
<1>6. \A u, v \in S : f[u] = f[v] => u = v
  <2>1. SUFFICES ASSUME NEW u \in S, NEW v \in S, f[u] = f[v]
                 PROVE  u = v
    OBVIOUS
  <2>2. p[u[1]] = p[v[1]] /\ u[2] = v[2]
    BY <2>1
  <2>3. u[1] = v[1]
    BY <1>3, <2>2 DEF size
  <2>. QED  BY <1>3, <2>2, <2>3
<1>7. \A t \in T : \E u \in S : f[u] = t
  <2>1. SUFFICES ASSUME NEW t \in T PROVE \E u \in S : f[u] = t
    OBVIOUS
  <2>2. t[1] \in 1..size /\ t[2] \in Nat /\ t = <<t[1], t[2]>> /\ t[2] \in 1..vs[t[1]].allocation
    BY DEF Units
  <2>3. PICK i \in 1..size : p[i] = t[1]
    BY <2>2 DEF size
  <2>. DEFINE u == <<i, t[2]>>
  <2>4. u \in S
    <3>1. u \in (1..size) \X Nat /\ u[1] = i /\ u[2] = t[2]
      BY <2>2
    <3>2. u[2] \in 1..ws[u[1]].allocation
      BY <1>4, <2>2, <2>3, <3>1
    <3>. QED  BY <3>1, <3>2 DEF Units
  <2>5. f[u] = <<p[i], t[2]>>
    BY <2>4
  <2>. QED  BY <2>2, <2>3, <2>4, <2>5
<1>8. f \in Bijection(S, T)
  BY <1>5, <1>6, <1>7 DEF Bijection, Injection, Surjection, IsInjective
<1>9. ExistsBijection(S, T)
  BY <1>8 DEF ExistsBijection
<1>10. Cardinality(T) = Cardinality(S)
  BY <1>2, <1>9, FS_Bijection
<1>. QED  BY <1>2, <1>10

(***************************************************************************)
(* The order of the arms, and the arm a bucket falls in.                   *)
(***************************************************************************)
Keyed(variants) ==
    Arms(variants) /\ \A i \in 1..Len(variants) : variants[i].key \in ToSet(KeyOrder)

Place(variants, i) == PositionOf(variants[i].key)

KeyPairs(variants) ==
    {p \in (1..Len(variants)) \X (1..Len(variants)) : Precedes(variants, p[1], p[2])}

LEMMA PlaceFound ==
    ASSUME NEW variants, Keyed(variants), NEW i \in 1..Len(variants)
    PROVE  Place(variants, i) \in Int /\ KeyOrder[Place(variants, i)] = variants[i].key
<1>1. KeyOrder \in Seq(ToSet(KeyOrder))
  BY AssignmentAssumption
<1>2. DOMAIN KeyOrder \subseteq Int
  BY <1>1
<1>3. \E n \in DOMAIN KeyOrder : KeyOrder[n] = variants[i].key
  BY DEF Keyed, ToSet
<1>. QED  BY <1>2, <1>3 DEF Place, PositionOf

LEMMA ArmsOrdered ==
    ASSUME NEW variants, Keyed(variants)
    PROVE  /\ IsFiniteSet(1..Len(variants)) /\ Cardinality(1..Len(variants)) = Len(variants)
           /\ DOMAIN variants = 1..Len(variants) /\ Len(variants) \in Nat
           /\ StrictlyOrders(KeyPairs(variants), 1..Len(variants))
           /\ \A i \in 1..Len(variants) :
                Ahead(variants, i) = Foregoing(1..Len(variants), KeyPairs(variants), i)
<1>. DEFINE size == Len(variants)
            S == 1..size
            at(i) == Place(variants, i)
<1>1. size \in Nat /\ DOMAIN variants = S
  BY DEF Keyed, Arms
<1>2. IsFiniteSet(S) /\ Cardinality(S) = size
  <2>1. 1 \in Int /\ size \in Int
    BY <1>1
  <2>2. IsFiniteSet(1..size)
    BY <2>1, FS_Interval
  <2>3. Cardinality(1..size) = IF 1 > size THEN 0 ELSE size - 1 + 1
    BY <2>1, FS_Interval
  <2>. QED  BY <1>1, <2>2, <2>3
<1>3. \A i, j \in S : <<i, j>> \in KeyPairs(variants)
                        <=> (at(i) < at(j) \/ (at(i) = at(j) /\ i < j))
  BY DEF KeyPairs, Precedes, Place
<1>4. \A i \in S : at(i) \in Int /\ i \in Int
  BY <1>1, PlaceFound
<1>. HIDE DEF at, size
<1>5. StrictlyOrders(KeyPairs(variants), S)
  <2>. HIDE DEF S
  <2>1. \A i \in S : <<i, i>> \notin KeyPairs(variants)
    BY <1>3, <1>4
  <2>2. \A i, j \in S : i # j => <<i, j>> \in KeyPairs(variants) \/ <<j, i>> \in KeyPairs(variants)
    BY <1>3, <1>4
  <2>3. \A i, j, k \in S : <<i, j>> \in KeyPairs(variants) /\ <<j, k>> \in KeyPairs(variants)
                             => <<i, k>> \in KeyPairs(variants)
    BY <1>3, <1>4
  <2>. QED  BY <2>1, <2>2, <2>3 DEF StrictlyOrders
<1>6. \A i \in S : Ahead(variants, i) = Foregoing(S, KeyPairs(variants), i)
  BY <1>1, <1>3 DEF Ahead, Foregoing, Precedes, Place, at
<1>. QED  BY <1>1, <1>2, <1>5, <1>6 DEF size

\* Which of the arms is the n-th.
Taken(variants) ==
    [n \in 1..Len(variants) |->
       CHOOSE i \in 1..Len(variants) : Cardinality(Ahead(variants, i)) = n - 1]

LEMMA TakenInPlace ==
    ASSUME NEW variants, Keyed(variants)
    PROVE  /\ Taken(variants) \in [1..Len(variants) -> 1..Len(variants)]
           /\ \A n \in 1..Len(variants), i \in 1..Len(variants) :
                Cardinality(Ahead(variants, i)) = n - 1 <=> i = Taken(variants)[n]
           /\ \A i \in 1..Len(variants) : \E n \in 1..Len(variants) : Taken(variants)[n] = i
           /\ Ordered(variants) = [n \in 1..Len(variants) |-> variants[Taken(variants)[n]]]
<1>. DEFINE size == Len(variants)
            S == 1..size
            prec == KeyPairs(variants)
<1>1. /\ IsFiniteSet(S) /\ Cardinality(S) = size /\ DOMAIN variants = S /\ size \in Nat
      /\ StrictlyOrders(prec, S)
      /\ \A i \in S : Ahead(variants, i) = Foregoing(S, prec, i)
  BY ArmsOrdered
<1>. HIDE DEF size, prec
<1>2. ASSUME NEW n \in 1..size
      PROVE  LET one == CHOOSE i \in S : Cardinality(Ahead(variants, i)) = n - 1
             IN /\ one \in S /\ Cardinality(Ahead(variants, one)) = n - 1
                /\ \A i \in S : Cardinality(Ahead(variants, i)) = n - 1 => i = one
  <2>1. n \in 1..Cardinality(S)
    BY <1>1
  <2>2. LET one == CHOOSE i \in S : Cardinality(Foregoing(S, prec, i)) = n - 1
        IN /\ one \in S /\ Cardinality(Foregoing(S, prec, one)) = n - 1
           /\ \A i \in S : Cardinality(Foregoing(S, prec, i)) = n - 1 => i = one
    <3>1. IsFiniteSet(S) /\ StrictlyOrders(prec, S)
      BY <1>1
    <3>. HIDE DEF S
    <3>. QED  BY <2>1, <3>1, TheOneInPlace
  <2>3. \E i \in S : Cardinality(Ahead(variants, i)) = n - 1
    BY <1>1, <2>2
  <2>4. \A i, j \in S : Cardinality(Ahead(variants, i)) = n - 1
                        /\ Cardinality(Ahead(variants, j)) = n - 1 => i = j
    BY <1>1, <2>2
  <2>. QED  BY <2>3, <2>4
<1>3. \A n \in 1..size : /\ Taken(variants)[n] \in S
                      /\ Cardinality(Ahead(variants, Taken(variants)[n])) = n - 1
                      /\ \A i \in S : Cardinality(Ahead(variants, i)) = n - 1
                           => i = Taken(variants)[n]
  BY <1>2 DEF Taken, size
<1>4. Taken(variants) \in [1..size -> S]
  <2>1. Taken(variants) = [n \in 1..size |-> Taken(variants)[n]]
    BY DEF Taken, size
  <2>. QED  BY <1>3, <2>1
<1>5. ASSUME NEW i \in S
      PROVE  \E n \in 1..size : Taken(variants)[n] = i
  <2>. DEFINE n == Cardinality(Ahead(variants, i)) + 1
  <2>1. Cardinality(Foregoing(S, prec, i)) \in 0..Cardinality(S) - 1
    BY <1>1, PlacesInRange
  <2>2. Cardinality(Ahead(variants, i)) \in 0..size - 1
    BY <1>1, <2>1
  <2>3. n \in 1..size /\ Cardinality(Ahead(variants, i)) = n - 1
    BY <1>1, <2>2
  <2>. HIDE DEF n
  <2>. QED  BY <1>3, <2>3
<1>6. Ordered(variants) = [n \in 1..size |-> variants[Taken(variants)[n]]]
  BY <1>1 DEF Ordered, Taken, size
<1>. QED  BY <1>3, <1>4, <1>5, <1>6 DEF size

LEMMA OrderedArms ==
    ASSUME NEW variants, Keyed(variants)
    PROVE  /\ Arms(Ordered(variants)) /\ Len(Ordered(variants)) = Len(variants)
           /\ Total(Ordered(variants)) = Total(variants)
<1>. DEFINE size == Len(variants)
            p == Taken(variants)
            ws == Ordered(variants)
<1>1. /\ size \in Nat /\ Arms(variants)
      /\ \A i \in 1..size : variants[i].allocation \in Nat
  BY DEF Keyed, Arms
<1>2. /\ p \in [1..size -> 1..size]
      /\ \A n \in 1..size, i \in 1..size : Cardinality(Ahead(variants, i)) = n - 1 <=> i = p[n]
      /\ \A i \in 1..size : \E n \in 1..size : p[n] = i
      /\ ws = [n \in 1..size |-> variants[p[n]]]
  BY TakenInPlace
<1>3. Len(ws) = size
  <2>. HIDE DEF p, ws, size
  <2>. QED  BY <1>1, <1>2
<1>4. \A n \in 1..size : ws[n] = variants[p[n]] /\ p[n] \in 1..size
  <2>. HIDE DEF p, ws, size
  <2>. QED  BY <1>2
<1>5. Arms(ws)
  <2>1. ws = [n \in 1..size |-> ws[n]]
    <3>. HIDE DEF p, ws, size
    <3>. QED  BY <1>2, <1>4
  <2>. HIDE DEF p, ws
  <2>. QED  BY <1>1, <1>3, <1>4, <2>1 DEF Arms
<1>6. \A m, n \in 1..size : p[m] = p[n] => m = n
  <2>. SUFFICES ASSUME NEW m \in 1..size, NEW n \in 1..size, p[m] = p[n]
                PROVE  m = n
    OBVIOUS
  <2>1. Cardinality(Ahead(variants, p[m])) = m - 1 /\ Cardinality(Ahead(variants, p[m])) = n - 1
    BY <1>2
  <2>2. m - 1 = n - 1 /\ m \in Int /\ n \in Int
    BY <2>1
  <2>. QED  BY <2>2
<1>. HIDE DEF p, ws
<1>7. Total(ws) = Total(variants)
  BY <1>1, <1>2, <1>3, <1>4, <1>5, <1>6, TotalInAnyOrder
<1>. QED  BY <1>3, <1>5, <1>7 DEF ws

\* Backwards, arms of different keys are in the same order.
LEMMA BackwardsTheSame ==
    ASSUME NEW variants, Keyed(variants), KeysSound(variants)
    PROVE  /\ Keyed(Reverse(variants)) /\ Len(Reverse(variants)) = Len(variants)
           /\ Total(Reverse(variants)) = Total(variants)
           /\ Ordered(Reverse(variants)) = Ordered(variants)
<1>. DEFINE size == Len(variants)
            S == 1..size
            ws == Reverse(variants)
            r == [i \in S |-> size - i + 1]
<1>1. /\ size \in Nat /\ Arms(variants) /\ DOMAIN variants = S
      /\ \A i \in S : variants[i].allocation \in Nat /\ variants[i].key \in ToSet(KeyOrder)
  BY DEF Keyed, Arms
<1>2. ws = [i \in S |-> variants[r[i]]]
  BY DEF Reverse
<1>. HIDE DEF size
<1>3. \A i \in S : r[i] \in S /\ r[r[i]] = i /\ i \in Int /\ r[i] = size - i + 1
  BY <1>1
<1>4. r \in [S -> S]
  BY <1>3
<1>. HIDE DEF r
<1>5. Len(ws) = size
  <2>. HIDE DEF ws
  <2>. QED  BY <1>1, <1>2
<1>6. \A i \in S : ws[i] = variants[r[i]]
  BY <1>2
<1>. HIDE DEF ws
<1>7. Keyed(ws)
  <2>1. ws = [i \in S |-> ws[i]]
    BY <1>2, <1>6
  <2>. QED  BY <1>1, <1>3, <1>5, <1>6, <2>1 DEF Keyed, Arms
<1>8. Total(ws) = Total(variants)
  <2>1. \A i, j \in S : r[i] = r[j] => i = j
    BY <1>3
  <2>2. \A j \in S : \E i \in S : r[i] = j
    BY <1>3
  <2>3. Arms(ws)
    BY <1>7 DEF Keyed
  <2>. QED  BY <1>1, <1>4, <1>5, <1>6, <2>1, <2>2, <2>3, TotalInAnyOrder DEF size
<1>9. \A i, j \in S : Precedes(ws, i, j) <=> Precedes(variants, r[i], r[j])
  <2>. SUFFICES ASSUME NEW i \in S, NEW j \in S
                PROVE  Precedes(ws, i, j) <=> Precedes(variants, r[i], r[j])
    OBVIOUS
  <2>. DEFINE x == Place(variants, r[i])
              y == Place(variants, r[j])
  <2>1. x \in Int /\ y \in Int /\ KeyOrder[x] = variants[r[i]].key
        /\ KeyOrder[y] = variants[r[j]].key
    BY <1>3, PlaceFound DEF size
  <2>2. Place(ws, i) = x /\ Place(ws, j) = y
    BY <1>6 DEF Place
  <2>3. Precedes(ws, i, j) <=> (x < y \/ (x = y /\ i < j))
    BY <2>2 DEF Precedes, Place
  <2>4. Precedes(variants, r[i], r[j]) <=> (x < y \/ (x = y /\ r[i] < r[j]))
    BY DEF Precedes, Place
  <2>. HIDE DEF x, y
  <2>5. x = y => r[i] = r[j]
    BY <1>1, <1>3, <2>1 DEF KeysSound
  <2>6. x = y => i = j
    BY <1>3, <2>5
  <2>7. ~(i < i) /\ ~(r[i] < r[i])
    BY <1>1, <1>3
  <2>. QED  BY <2>3, <2>4, <2>5, <2>6, <2>7
<1>10. /\ DOMAIN ws = S /\ DOMAIN variants = S /\ IsFiniteSet(S)
       /\ \A i \in S : Ahead(ws, i) \subseteq S
  <2>1. DOMAIN ws = S /\ DOMAIN variants = S /\ IsFiniteSet(S)
    BY <1>1, <1>2, ArmsOrdered DEF size
  <2>. QED  BY <2>1 DEF Ahead
<1>11. ASSUME NEW i \in S
       PROVE  Cardinality(Ahead(ws, i)) = Cardinality(Ahead(variants, r[i]))
  <2>. DEFINE A == Ahead(ws, i)
              B == Ahead(variants, r[i])
              f == [j \in A |-> r[j]]
  <2>1. A = {j \in S : Precedes(ws, j, i)} /\ B = {j \in S : Precedes(variants, j, r[i])}
    BY <1>10 DEF Ahead
  <2>. HIDE DEF A, B
  <2>2. f \in [A -> B]
    BY <1>3, <1>9, <2>1
  <2>3. \A j, k \in A : f[j] = f[k] => j = k
    BY <1>3, <2>1
  <2>4. \A k \in B : \E j \in A : f[j] = k
    <3>1. ASSUME NEW k \in B PROVE r[k] \in A /\ f[r[k]] = k
      <4>1. k \in S /\ Precedes(variants, r[r[k]], r[i]) /\ r[k] \in S
        BY <1>3, <2>1
      <4>2. r[k] \in A
        BY <1>9, <2>1, <4>1
      <4>. QED  BY <1>3, <4>1, <4>2
    <3>. QED  BY <3>1
  <2>5. f \in Bijection(A, B)
    BY <2>2, <2>3, <2>4 DEF Bijection, Injection, Surjection, IsInjective
  <2>6. ExistsBijection(A, B)
    BY <2>5 DEF ExistsBijection
  <2>7. IsFiniteSet(A)
    BY <1>10, <2>1, FS_Subset
  <2>8. Cardinality(B) = Cardinality(A)
    BY <2>6, <2>7, FS_Bijection
  <2>. QED  BY <2>8 DEF A, B
<1>12. ASSUME NEW n \in S
       PROVE  Ordered(ws)[n] = Ordered(variants)[n]
  <2>. DEFINE i == Taken(ws)[n]
  <2>1. i \in S /\ Cardinality(Ahead(ws, i)) = n - 1
    BY <1>5, <1>7, TakenInPlace
  <2>2. Cardinality(Ahead(variants, r[i])) = n - 1 /\ r[i] \in S
    BY <1>3, <1>11, <2>1
  <2>3. r[i] = Taken(variants)[n]
    BY <2>2, TakenInPlace DEF size
  <2>4. Ordered(ws)[n] = ws[i]
    <3>1. Ordered(ws) = [k \in S |-> ws[Taken(ws)[k]]]
      BY <1>5, <1>7, TakenInPlace
    <3>. QED  BY <3>1
  <2>5. Ordered(variants)[n] = variants[r[i]]
    BY <2>3, TakenInPlace DEF size
  <2>. QED  BY <1>6, <2>1, <2>4, <2>5
<1>13. Ordered(ws) = Ordered(variants)
  <2>1. Ordered(ws) = [n \in S |-> ws[Taken(ws)[n]]]
    BY <1>5, <1>7, TakenInPlace
  <2>2. Ordered(variants) = [n \in S |-> variants[Taken(variants)[n]]]
    BY TakenInPlace DEF size
  <2>3. \A n \in S : ws[Taken(ws)[n]] = variants[Taken(variants)[n]]
    BY <1>12, <2>1, <2>2
  <2>. QED  BY <2>1, <2>2, <2>3
<1>. QED  BY <1>5, <1>7, <1>8, <1>13 DEF size, ws

\* The arm of a bucket is the one whose share of the sums it lies in.
LEMMA ArmOfBucket ==
    ASSUME NEW variants, Keyed(variants), variants # << >>, Total(variants) = Whole,
           NEW b \in Bucket
    PROVE  LET cursor == Cursor(Ordered(variants))
           IN \E m \in 1..Len(variants) :
                /\ cursor[m - 1] <= b /\ b < cursor[m]
                /\ AssignVariant(b, variants) = Ordered(variants)[m].key
<1>. DEFINE size == Len(variants)
            ordered == Ordered(variants)
            cursor == Cursor(ordered)
            covering == {i \in DOMAIN ordered : Covers(b, cursor[i])}
            first == CHOOSE i \in covering : \A j \in covering : i <= j
<1>1. /\ size \in Nat /\ Arms(ordered) /\ Len(ordered) = size /\ DOMAIN ordered = 1..size
      /\ cursor[size] = Whole
  <2>1. Arms(ordered) /\ Len(ordered) = size /\ Total(ordered) = Whole
    BY OrderedArms
  <2>. QED  BY <2>1 DEF Arms, Total
<1>2. size # 0 /\ b \in Nat /\ b < Whole /\ Whole \in Nat
  <2>1. size # 0
    <3>1. variants = [i \in 1..size |-> variants[i]]
      BY DEF Keyed, Arms
    <3>2. ASSUME size = 0 PROVE variants = << >>
      <4>1. 1..size = {}
        BY <3>2
      <4>2. variants = [i \in {} |-> variants[i]]
        BY <3>1, <4>1
      <4>. QED  BY <4>2
    <3>. QED  BY <3>2
  <2>. QED  BY <2>1, AssignmentAssumption DEF Bucket
<1>3. AssignVariant(b, variants) = ordered[first].key
  BY DEF AssignVariant
<1>4. \A i \in 0..size : cursor[i] \in Nat
  BY <1>1, CursorCounts
<1>5. size \in covering /\ covering \subseteq 1..size
  BY <1>1, <1>2 DEF Covers
<1>. HIDE DEF covering, cursor, ordered, size
<1>6. first \in covering /\ \A j \in covering : first <= j
  <2>1. covering \in SUBSET Nat /\ covering # {}
    BY <1>1, <1>5
  <2>2. \E x \in covering : \A y \in covering : x <= y
    BY <2>1, LeastOf
  <2>. QED  BY <2>2
<1>. HIDE DEF first
<1>7. first \in 1..size /\ b < cursor[first]
  BY <1>1, <1>5, <1>6 DEF covering, Covers
<1>8. cursor[first - 1] <= b
  <2>1. CASE first = 1
    <3>1. Len(ordered) \in Nat /\ 0 \in 0..Len(ordered)
      BY <1>1
    <3>2. cursor[0] = 0
      BY <3>1, CursorUnfolds DEF CursorAt, cursor
    <3>. QED  BY <1>2, <2>1, <3>2
  <2>2. CASE first # 1
    <3>1. first - 1 \in 1..size /\ ~(first <= first - 1) /\ first - 1 \in 0..size
      BY <1>1, <1>7, <2>2
    <3>2. first - 1 \notin covering
      BY <1>6, <3>1
    <3>3. ~(b < cursor[first - 1])
      BY <1>1, <3>1, <3>2 DEF covering, Covers
    <3>. QED  BY <1>2, <1>4, <3>1, <3>3
  <2>. QED  BY <2>1, <2>2
<1>. QED  BY <1>3, <1>7, <1>8 DEF size, cursor, ordered

LEMMA ShareOfArm ==
    ASSUME NEW variants, Keyed(variants), KeysSound(variants), variants # << >>,
           Total(variants) = Whole, NEW i \in 1..Len(variants)
    PROVE  Cardinality({b \in Bucket : AssignVariant(b, variants) = variants[i].key})
             = variants[i].allocation
<1>. DEFINE size == Len(variants)
            ordered == Ordered(variants)
            cursor == Cursor(ordered)
            share == {b \in Bucket : AssignVariant(b, variants) = variants[i].key}
<1>1. /\ size \in Nat /\ Arms(ordered) /\ Len(ordered) = size /\ cursor[size] = Whole
      /\ DOMAIN variants = 1..size
  <2>1. Arms(ordered) /\ Len(ordered) = size /\ Total(ordered) = Whole
    BY OrderedArms
  <2>. QED  BY <2>1 DEF Arms, Total, Keyed
<1>2. PICK m \in 1..size : Taken(variants)[m] = i
  BY TakenInPlace
<1>3. \A n \in 1..size : ordered[n] = variants[Taken(variants)[n]] /\ Taken(variants)[n] \in 1..size
  <2>1. ordered = [n \in 1..size |-> variants[Taken(variants)[n]]]
    BY TakenInPlace
  <2>2. Taken(variants) \in [1..size -> 1..size]
    BY TakenInPlace
  <2>. HIDE DEF ordered
  <2>. QED  BY <2>1, <2>2
<1>4. \A n \in 1..size : ordered[n].key = variants[i].key => n = m
  <2>. SUFFICES ASSUME NEW n \in 1..size, ordered[n].key = variants[i].key
                PROVE  n = m
    OBVIOUS
  <2>1. Taken(variants)[n] = i
    BY <1>1, <1>3 DEF KeysSound
  <2>2. Cardinality(Ahead(variants, i)) = n - 1 /\ Cardinality(Ahead(variants, i)) = m - 1
    BY <1>2, <2>1, TakenInPlace
  <2>3. n - 1 = m - 1 /\ n \in Int /\ m \in Int
    BY <1>1, <2>2
  <2>. QED  BY <2>3
<1>5. ordered[m] = variants[i]
  BY <1>2, <1>3
<1>6. \A b \in Bucket : \E n \in 1..size : /\ cursor[n - 1] <= b /\ b < cursor[n]
                                        /\ AssignVariant(b, variants) = ordered[n].key
  BY ArmOfBucket
<1>7. \A n \in 0..size : cursor[n] \in Nat
  BY <1>1, CursorCounts
<1>8. \A k \in 0..size : \A j \in 0..k : cursor[j] <= cursor[k]
  BY <1>1, CursorGrows
<1>9. cursor[m] = cursor[m - 1] + variants[i].allocation /\ variants[i].allocation \in Nat
  <2>1. m \in 0..Len(ordered) /\ m # 0 /\ Len(ordered) \in Nat
    BY <1>1
  <2>2. cursor[m] = CursorAt(cursor, m, ordered)
    BY <2>1, CursorUnfolds
  <2>. QED  BY <1>5, <2>1, <2>2 DEF CursorAt, Keyed, Arms
<1>. HIDE DEF size, ordered, cursor
<1>10. m - 1 \in 0..size /\ m \in 0..size /\ size \in 0..size
  BY <1>1
<1>11. share = cursor[m - 1]..cursor[m] - 1
  <2>1. ASSUME NEW b \in share PROVE b \in cursor[m - 1]..cursor[m] - 1
    <3>1. b \in Bucket /\ AssignVariant(b, variants) = variants[i].key /\ b \in Int
      BY DEF Bucket
    <3>2. cursor[m - 1] <= b /\ b < cursor[m]
      BY <1>4, <1>6, <3>1
    <3>. QED  BY <1>7, <1>10, <3>1, <3>2
  <2>2. ASSUME NEW b \in cursor[m - 1]..cursor[m] - 1 PROVE b \in share
    <3>0. cursor[m - 1] \in Nat /\ cursor[m] \in Nat
      BY <1>7, <1>10
    <3>1. b \in Nat /\ cursor[m - 1] <= b /\ b < cursor[m]
      BY <3>0
    <3>2. cursor[m] <= Whole /\ Whole \in Nat
      BY <1>1, <1>8, <1>10, AssignmentAssumption
    <3>3. b \in Bucket
      BY <3>0, <3>1, <3>2 DEF Bucket
    <3>4. PICK n \in 1..size : /\ cursor[n - 1] <= b /\ b < cursor[n]
                            /\ AssignVariant(b, variants) = ordered[n].key
      BY <1>6, <3>3
    <3>5. n - 1 \in 0..size /\ n \in 0..size /\ cursor[n] \in Nat /\ cursor[n - 1] \in Nat
      BY <1>1, <1>7
    <3>6. ~(n <= m - 1)
      <4>1. ASSUME n <= m - 1 PROVE FALSE
        <5>1. n \in 0..m - 1
          BY <1>1, <4>1
        <5>2. cursor[n] <= cursor[m - 1]
          BY <1>8, <1>10, <5>1
        <5>. QED  BY <3>0, <3>1, <3>4, <3>5, <5>2
      <4>. QED  BY <4>1
    <3>7. ~(m <= n - 1)
      <4>1. ASSUME m <= n - 1 PROVE FALSE
        <5>1. m \in 0..n - 1
          BY <1>1, <4>1
        <5>2. cursor[m] <= cursor[n - 1]
          BY <1>8, <3>5, <5>1
        <5>. QED  BY <3>0, <3>1, <3>4, <3>5, <5>2
      <4>. QED  BY <4>1
    <3>8. n = m
      BY <1>1, <3>6, <3>7
    <3>. QED  BY <1>5, <3>3, <3>4, <3>8
  <2>. HIDE DEF share
  <2>. QED  BY <2>1, <2>2
<1>12. Cardinality(share) = variants[i].allocation
  <2>. DEFINE low == cursor[m - 1]
              high == cursor[m] - 1
  <2>1. low \in Int /\ high \in Int /\ high = low + variants[i].allocation - 1
        /\ variants[i].allocation \in Nat
    BY <1>7, <1>9, <1>10
  <2>2. share = low..high
    BY <1>11
  <2>. HIDE DEF low, high, share
  <2>3. Cardinality(low..high) = IF low > high THEN 0 ELSE high - low + 1
    BY <2>1, FS_Interval
  <2>. QED  BY <2>1, <2>2, <2>3
<1>. QED  BY <1>12

\* What is shown comes from a variant or is the site's own.
LEMMA ShownLegible ==
    ASSUME NEW variants, Keyed(variants), \A i \in DOMAIN variants : TextSound(variants[i].text),
           NEW b
    PROVE  ApplyVariant([f \in Field |-> "own"], ResolveVariant(b, variants)).reject_all # "blank"
<1>. DEFINE key == IF b = NoValue THEN NoValue ELSE AssignVariant(b, variants)
            I == {i \in 1..Len(variants) : variants[i].key = key}
            i0 == IF I # {} THEN Min(I) ELSE 0
            shown == ResolveVariant(b, variants)
<1>1. shown = IF key = NoValue \/ i0 = 0 THEN NoValue ELSE variants[i0]
  BY DEF ResolveVariant, SelectInSeq
<1>2. i0 # 0 => i0 \in 1..Len(variants)
  <2>1. I \subseteq Nat
    OBVIOUS
  <2>2. I # {} => Min(I) \in I
    <3>1. SUFFICES ASSUME I # {} PROVE Min(I) \in I
      OBVIOUS
    <3>2. \E x \in I : \A y \in I : x <= y
      BY <2>1, <3>1, LeastOf
    <3>. QED  BY <3>2 DEF Min
  <2>. QED  BY <2>2
<1>3. DOMAIN variants = 1..Len(variants)
  BY DEF Keyed, Arms
<1>. HIDE DEF i0, key
<1>4. shown = NoValue \/ TextSound(shown.text)
  BY <1>1, <1>2, <1>3
<1>5. "reject_all" \in Field
  BY DEF Field
<1>. HIDE DEF shown
<1>6. CASE shown = NoValue
  BY <1>5, <1>6 DEF ApplyVariant, shown
<1>7. CASE shown # NoValue
  <2>1. shown.text["reject_all"] # "blank"
    BY <1>4, <1>7 DEF TextSound, MustRemainLegible
  <2>2. ApplyVariant([f \in Field |-> "own"], shown)["reject_all"]
          = IF shown.text["reject_all"] = NoValue THEN "own" ELSE shown.text["reject_all"]
    BY <1>5, <1>7 DEF ApplyVariant
  <2>. QED  BY <2>1, <2>2 DEF shown
<1>. QED  BY <1>6, <1>7

LEMMA ArmsHold ==
    ASSUME input.of = "variants" => Keyed(input.variants)
    PROVE  ArmsHoldTheirShares
<1>. SUFFICES ASSUME input.of = "variants", Valid(input.variants)
              PROVE  ArmsHoldTheirShares
  BY DEF ArmsHoldTheirShares
<1>. DEFINE vs == input.variants
<1>1. /\ Keyed(vs) /\ KeysSound(vs) /\ Total(vs) = Whole /\ DOMAIN vs = 1..Len(vs)
      /\ \A i \in DOMAIN vs : TextSound(vs[i].text)
  BY DEF Valid, Keyed, Arms
<1>2. vs # << >> /\ Reverse(vs) # << >>
  <2>1. Len(vs) >= 2 /\ Len(<< >>) = 0
    BY DEF Valid
  <2>2. Len(Reverse(vs)) = Len(vs)
    BY <1>1, BackwardsTheSame
  <2>. QED  BY <2>1, <2>2
<1>. HIDE DEF vs
<1>3. \A i \in DOMAIN vs :
        Cardinality({b \in Bucket : AssignVariant(b, vs) = vs[i].key}) = vs[i].allocation
  BY <1>1, <1>2, ShareOfArm
<1>4. \A b : AssignVariant(b, Reverse(vs)) = AssignVariant(b, vs)
  <2>1. Total(Reverse(vs)) = Total(vs) /\ Ordered(Reverse(vs)) = Ordered(vs)
    BY <1>1, BackwardsTheSame
  <2>. QED  BY <1>2, <2>1 DEF AssignVariant
<1>5. \A b : ApplyVariant([f \in Field |-> "own"], ResolveVariant(b, vs)).reject_all # "blank"
  BY <1>1, ShownLegible
<1>. QED  BY <1>3, <1>4, <1>5 DEF ArmsHoldTheirShares, vs

-----------------------------------------------------------------------------
(***************************************************************************)
(* robots.txt: of the rules that match, the longest decides, and one that  *)
(* allows among the longest; and what is read of two groups.               *)
(***************************************************************************)
BestAt(f, n, rules, path) ==
    IF n = 0 THEN [length |-> -1, allows |-> TRUE] ELSE R!Better(rules[n], f[n - 1], path)

BestUpTo(f, m, rules, path) == f = [n \in 0..m |-> BestAt(f, n, rules, path)]

LEMMA BestExists ==
    ASSUME NEW rules, NEW path, NEW m \in Nat
    PROVE  \E f : BestUpTo(f, m, rules, path)
<1>. DEFINE Level(f, n) == BestAt(f, n, rules, path)
            S == {k \in Nat : \E f : f = [n \in 0..k |-> Level(f, n)]}
<1>1. 0 \in S
  <2>. DEFINE f == [n \in 0..0 |-> Level(<< >>, 0)]
  <2>1. \A n \in 0..0 : Level(f, n) = Level(<< >>, 0)
    BY DEF BestAt
  <2>2. f = [n \in 0..0 |-> Level(f, n)]
    BY <2>1
  <2>. QED  BY <2>2
<1>2. ASSUME NEW k \in Nat, k \in S
      PROVE  k + 1 \in S
  <2>1. PICK f : f = [n \in 0..k |-> Level(f, n)]
    BY <1>2
  <2>2. \A n \in 0..k : f[n] = Level(f, n)
    BY <2>1
  <2>. DEFINE g == [n \in 0..k + 1 |-> IF n = k + 1 THEN Level(f, n) ELSE f[n]]
  <2>3. \A n \in 0..k + 1 : g[n] = Level(f, n)
    BY <2>2
  <2>4. \A n \in 0..k : g[n] = f[n]
    OBVIOUS
  <2>. HIDE DEF g
  <2>5. \A n \in 0..k + 1 : Level(g, n) = Level(f, n)
    <3>1. ASSUME NEW n \in 0..k + 1, n # 0 PROVE g[n - 1] = f[n - 1]
      BY <2>4, <3>1
    <3>. QED  BY <3>1 DEF BestAt
  <2>6. g = [n \in 0..k + 1 |-> Level(g, n)]
    <3>1. g = [n \in 0..k + 1 |-> g[n]]
      BY DEF g
    <3>. HIDE DEF Level
    <3>. QED  BY <2>3, <2>5, <3>1
  <2>. QED  BY <2>6
<1>3. m \in S
  BY <1>1, <1>2, Induction
<1>. QED  BY <1>3 DEF BestUpTo

LEMMA BestUnfolds ==
    ASSUME NEW rules, NEW path, Len(rules) \in Nat
    PROVE  \A n \in 0..Len(rules) :
             R!Best(rules, path)[n] = BestAt(R!Best(rules, path), n, rules, path)
<1>. DEFINE Full(f) == [n \in 0..Len(rules) |-> BestAt(f, n, rules, path)]
            f0 == CHOOSE f : f = Full(f)
<1>1. R!Best(rules, path) = f0
  BY DEF R!Best, BestAt
<1>2. \E f : f = Full(f)
  <2>1. Len(rules) \in Nat
    OBVIOUS
  <2>2. \E f : BestUpTo(f, Len(rules), rules, path)
    BY <2>1, BestExists
  <2>. QED  BY <2>2 DEF BestUpTo
<1>3. f0 = Full(f0)
  BY <1>2
<1>. HIDE DEF f0
<1>. QED  BY <1>1, <1>3

RuleLike(rule) == rule.type \in {"allow", "disallow"} /\ Len(rule.path) \in Nat

\* What the best of a set of matching rules is.
Decides(best, matching) ==
    /\ best.length \in Int /\ best.allows \in BOOLEAN /\ best.length >= -1
    /\ \A r \in matching : RuleLike(r) /\ Len(r.path) <= best.length
    /\ matching = {} => best.length = -1 /\ best.allows
    /\ matching # {} =>
         /\ \E r \in matching : Len(r.path) = best.length
         /\ best.allows <=> \E r \in matching : Len(r.path) = best.length /\ r.type = "allow"

LEMMA OneMoreRule ==
    ASSUME NEW best, NEW matching, Decides(best, matching), NEW rule, RuleLike(rule), NEW path,
           R!PatternMatches(rule.path, path)
    PROVE  Decides(R!Better(rule, best, path), matching \cup {rule})
<1>. DEFINE n == Len(rule.path)
            better == R!Better(rule, best, path)
<1>1. n \in Nat /\ best.length \in Int /\ best.length >= -1 /\ best.allows \in BOOLEAN
  BY DEF RuleLike, Decides
<1>2. \A r \in matching : RuleLike(r) /\ Len(r.path) \in Nat /\ Len(r.path) <= best.length
  BY DEF RuleLike, Decides
<1>3. CASE n > best.length
  <2>1. better.length = n /\ better.allows = (rule.type = "allow")
    BY <1>3 DEF R!Better, R!Beats
  <2>. HIDE DEF better
  <2>2. \A r \in matching : Len(r.path) < n
    BY <1>1, <1>2, <1>3
  <2>3. \A r \in matching \cup {rule} : RuleLike(r) /\ Len(r.path) <= better.length
    <3>1. RuleLike(rule) /\ Len(rule.path) <= n
      BY <1>1
    <3>2. \A r \in matching : Len(r.path) <= n
      BY <1>1, <1>2, <2>2
    <3>. QED  BY <1>2, <2>1, <3>1, <3>2
  <2>4. \A r \in matching \cup {rule} : Len(r.path) = better.length => r = rule
    <3>1. \A r \in matching : Len(r.path) # n
      BY <1>1, <1>2, <2>2
    <3>. QED  BY <2>1, <3>1
  <2>5. rule \in matching \cup {rule} /\ Len(rule.path) = better.length
    BY <2>1
  <2>6. better.length \in Int /\ better.length >= -1 /\ better.allows \in BOOLEAN
    BY <1>1, <2>1
  <2>. HIDE DEF n
  <2>. QED  BY <2>1, <2>3, <2>4, <2>5, <2>6 DEF Decides, better
<1>4. CASE n = best.length /\ rule.type = "allow"
  <2>1. better.length = n /\ better.allows = TRUE
    BY <1>4 DEF R!Better, R!Beats
  <2>. HIDE DEF better
  <2>2. \A r \in matching \cup {rule} : RuleLike(r) /\ Len(r.path) <= better.length
    BY <1>1, <1>2, <1>4, <2>1
  <2>3. rule \in matching \cup {rule} /\ Len(rule.path) = better.length /\ rule.type = "allow"
    BY <1>4, <2>1
  <2>4. better.length \in Int /\ better.length >= -1 /\ better.allows \in BOOLEAN
    <3>1. better.length = best.length
      BY <1>4, <2>1
    <3>2. better.allows \in BOOLEAN
      BY <2>1
    <3>. QED  BY <1>1, <3>1, <3>2
  <2>. HIDE DEF n
  <2>. QED  BY <2>1, <2>2, <2>3, <2>4 DEF Decides, better
<1>5. CASE ~(n > best.length) /\ ~(n = best.length /\ rule.type = "allow")
  <2>1. better = best
    BY <1>5 DEF R!Better, R!Beats
  <2>2. n <= best.length /\ best.length # -1
    BY <1>1, <1>5
  <2>3. matching # {}
    BY <2>2 DEF Decides
  <2>4. /\ \E r \in matching : Len(r.path) = best.length
        /\ best.allows <=> \E r \in matching : Len(r.path) = best.length /\ r.type = "allow"
    BY <2>3 DEF Decides
  <2>5. \A r \in matching \cup {rule} : RuleLike(r) /\ Len(r.path) <= best.length
    BY <1>2, <2>2
  <2>6. ~(Len(rule.path) = best.length /\ rule.type = "allow")
    BY <1>5
  <2>. HIDE DEF n, better
  <2>. QED  BY <1>1, <2>1, <2>4, <2>5, <2>6 DEF Decides, better
<1>. QED  BY <1>3, <1>4, <1>5

Matching(rules, n, path) ==
    {r \in {rules[i] : i \in 1..n} : R!PatternMatches(r.path, path)}

LEMMA BestDecides ==
    ASSUME NEW rules, Len(rules) \in Nat, \A i \in 1..Len(rules) : RuleLike(rules[i]), NEW path
    PROVE  Decides(R!Best(rules, path)[Len(rules)], Matching(rules, Len(rules), path))
<1>. DEFINE size == Len(rules)
            best == R!Best(rules, path)
            S == {n \in Nat : n <= size => Decides(best[n], Matching(rules, n, path))}
<1>1. \A n \in 0..size : best[n] = BestAt(best, n, rules, path)
  BY BestUnfolds
<1>2. size \in Nat /\ \A i \in 1..size : RuleLike(rules[i])
  OBVIOUS
<1>. HIDE DEF size, best
<1>3. 0 \in S
  <2>1. best[0] = [length |-> -1, allows |-> TRUE]
    BY <1>1, <1>2 DEF BestAt
  <2>2. Matching(rules, 0, path) = {}
    BY DEF Matching
  <2>3. Decides([length |-> -1, allows |-> TRUE], {})
    BY DEF Decides
  <2>. QED  BY <2>1, <2>2, <2>3
<1>4. ASSUME NEW n \in Nat, n \in S
      PROVE  n + 1 \in S
  <2>1. SUFFICES ASSUME n + 1 <= size
                 PROVE  Decides(best[n + 1], Matching(rules, n + 1, path))
    OBVIOUS
  <2>2. n + 1 \in 0..size /\ n + 1 \in 1..size /\ n + 1 # 0 /\ (n + 1) - 1 = n /\ n <= size
    BY <1>2, <2>1
  <2>3. best[n + 1] = R!Better(rules[n + 1], best[n], path)
    BY <1>1, <2>2 DEF BestAt
  <2>4. Decides(best[n], Matching(rules, n, path)) /\ RuleLike(rules[n + 1])
    BY <1>2, <1>4, <2>2
  <2>5. {rules[i] : i \in 1..n + 1} = {rules[i] : i \in 1..n} \cup {rules[n + 1]}
    <3>1. 1..n + 1 = 1..n \cup {n + 1}
      OBVIOUS
    <3>. QED  BY <3>1
  <2>6. CASE R!PatternMatches(rules[n + 1].path, path)
    <3>1. Matching(rules, n + 1, path) = Matching(rules, n, path) \cup {rules[n + 1]}
      BY <2>5, <2>6 DEF Matching
    <3>. QED  BY <2>3, <2>4, <2>6, <3>1, OneMoreRule
  <2>7. CASE ~R!PatternMatches(rules[n + 1].path, path)
    <3>1. Matching(rules, n + 1, path) = Matching(rules, n, path)
      BY <2>5, <2>7 DEF Matching
    <3>2. best[n + 1] = best[n]
      BY <2>3, <2>7 DEF R!Better
    <3>. QED  BY <2>4, <3>1, <3>2
  <2>. QED  BY <2>6, <2>7
<1>5. size \in S
  BY <1>2, <1>3, <1>4, Induction
<1>. QED  BY <1>2, <1>5 DEF size, best

LEMMA BackwardsAllowsTheSame ==
    ASSUME NEW rules \in Seq(RobotsRule), NEW path
    PROVE  R!IsAllowed(Reverse(rules), path) = R!IsAllowed(rules, path)
<1>. DEFINE size == Len(rules)
            ws == Reverse(rules)
<1>1. size \in Nat /\ \A i \in 1..size : RuleLike(rules[i])
  BY RobotsAssumption DEF RuleLike
<1>2. ws = [i \in 1..size |-> rules[size - i + 1]]
  BY DEF Reverse
<1>3. Len(ws) = size
  <2>. HIDE DEF ws, size
  <2>. QED  BY <1>1, <1>2
<1>4. \A i \in 1..size : size - i + 1 \in 1..size /\ size - (size - i + 1) + 1 = i
  BY <1>1
<1>. HIDE DEF ws, size
<1>5. \A i \in 1..size : ws[i] = rules[size - i + 1]
  BY <1>2
<1>6. {ws[i] : i \in 1..size} = {rules[i] : i \in 1..size}
  <2>. DEFINE A == {ws[i] : i \in 1..size}
              B == {rules[i] : i \in 1..size}
  <2>1. \A i \in 1..size : rules[i] \in B /\ ws[i] \in A
    OBVIOUS
  <2>2. \A x \in A : \E i \in 1..size : x = ws[i]
    OBVIOUS
  <2>3. \A x \in B : \E i \in 1..size : x = rules[i]
    OBVIOUS
  <2>. HIDE DEF A, B
  <2>4. ASSUME NEW i \in 1..size PROVE ws[i] \in B
    BY <1>4, <1>5, <2>1
  <2>5. ASSUME NEW i \in 1..size PROVE rules[i] \in A
    <3>1. ws[size - i + 1] = rules[size - (size - i + 1) + 1] /\ ws[size - i + 1] \in A
      BY <1>4, <1>5, <2>1
    <3>. QED  BY <1>4, <3>1
  <2>6. A \subseteq B
    BY <2>2, <2>4
  <2>7. B \subseteq A
    BY <2>3, <2>5
  <2>8. A = B
    BY <2>6, <2>7
  <2>. QED  BY <2>8 DEF A, B
<1>7. Matching(ws, size, path) = Matching(rules, size, path)
  BY <1>6 DEF Matching
<1>8. Decides(R!Best(rules, path)[size], Matching(rules, size, path))
  BY <1>1, BestDecides DEF size
<1>9. Decides(R!Best(ws, path)[size], Matching(rules, size, path))
  <2>1. \A i \in 1..Len(ws) : RuleLike(ws[i])
    BY <1>1, <1>3, <1>4, <1>5
  <2>. QED  BY <1>1, <1>3, <1>7, <2>1, BestDecides
<1>10. \A a, b, matching : Decides(a, matching) /\ Decides(b, matching) => a.allows = b.allows
  <2>. SUFFICES ASSUME NEW a, NEW b, NEW matching, Decides(a, matching), Decides(b, matching)
                PROVE  a.allows = b.allows
    OBVIOUS
  <2>1. CASE matching = {}
    BY <2>1 DEF Decides
  <2>2. CASE matching # {}
    <3>1. PICK r \in matching : Len(r.path) = a.length
      BY <2>2 DEF Decides
    <3>2. PICK q \in matching : Len(q.path) = b.length
      BY <2>2 DEF Decides
    <3>3. a.length <= b.length /\ b.length <= a.length /\ a.length \in Int /\ b.length \in Int
      BY <3>1, <3>2 DEF Decides
    <3>4. a.length = b.length
      BY <3>3
    <3>. QED  BY <2>2, <3>4 DEF Decides
  <2>. QED  BY <2>1, <2>2
<1>. QED  BY <1>3, <1>8, <1>9, <1>10 DEF R!IsAllowed, size, ws

ReadAt(f, n, lines) ==
    IF n = 0 THEN [groups |-> << >>, lastWasAgent |-> FALSE] ELSE R!ReadLine(f[n - 1], lines[n])

ReadUpTo(f, m, lines) == f = [n \in 0..m |-> ReadAt(f, n, lines)]

LEMMA ReadExists ==
    ASSUME NEW lines, NEW m \in Nat
    PROVE  \E f : ReadUpTo(f, m, lines)
<1>. DEFINE Level(f, n) == ReadAt(f, n, lines)
            S == {k \in Nat : \E f : f = [n \in 0..k |-> Level(f, n)]}
<1>1. 0 \in S
  <2>. DEFINE f == [n \in 0..0 |-> Level(<< >>, 0)]
  <2>1. \A n \in 0..0 : Level(f, n) = Level(<< >>, 0)
    BY DEF ReadAt
  <2>2. f = [n \in 0..0 |-> Level(f, n)]
    BY <2>1
  <2>. QED  BY <2>2
<1>2. ASSUME NEW k \in Nat, k \in S
      PROVE  k + 1 \in S
  <2>1. PICK f : f = [n \in 0..k |-> Level(f, n)]
    BY <1>2
  <2>2. \A n \in 0..k : f[n] = Level(f, n)
    BY <2>1
  <2>. DEFINE g == [n \in 0..k + 1 |-> IF n = k + 1 THEN Level(f, n) ELSE f[n]]
  <2>3. \A n \in 0..k + 1 : g[n] = Level(f, n)
    BY <2>2
  <2>4. \A n \in 0..k : g[n] = f[n]
    OBVIOUS
  <2>. HIDE DEF g
  <2>5. \A n \in 0..k + 1 : Level(g, n) = Level(f, n)
    <3>1. ASSUME NEW n \in 0..k + 1, n # 0 PROVE g[n - 1] = f[n - 1]
      BY <2>4, <3>1
    <3>. QED  BY <3>1 DEF ReadAt
  <2>6. g = [n \in 0..k + 1 |-> Level(g, n)]
    <3>1. g = [n \in 0..k + 1 |-> g[n]]
      BY DEF g
    <3>. HIDE DEF Level
    <3>. QED  BY <2>3, <2>5, <3>1
  <2>. QED  BY <2>6
<1>3. m \in S
  BY <1>1, <1>2, Induction
<1>. QED  BY <1>3 DEF ReadUpTo

LEMMA ReadUnfolds ==
    ASSUME NEW lines, Len(lines) \in Nat
    PROVE  \A n \in 0..Len(lines) : R!Read(lines)[n] = ReadAt(R!Read(lines), n, lines)
<1>. DEFINE Full(f) == [n \in 0..Len(lines) |-> ReadAt(f, n, lines)]
            f0 == CHOOSE f : f = Full(f)
<1>1. R!Read(lines) = f0
  BY DEF R!Read, ReadAt
<1>2. \E f : f = Full(f)
  <2>1. Len(lines) \in Nat
    OBVIOUS
  <2>2. \E f : ReadUpTo(f, Len(lines), lines)
    BY <2>1, ReadExists
  <2>. QED  BY <2>2 DEF ReadUpTo
<1>3. f0 = Full(f0)
  BY <1>2
<1>. HIDE DEF f0
<1>. QED  BY <1>1, <1>3

\* What one line makes of a group begun, or not, after the groups before it.
Begun(before, agents, rules) == Append(before, [agents |-> agents, rules |-> rules])

LEMMA AgentLineReads ==
    ASSUME NEW Z, NEW before \in Seq(Z), NEW value
    PROVE  /\ R!AgentLine([groups |-> before, lastWasAgent |-> FALSE], value)
                = [groups |-> Begun(before, {value}, << >>), lastWasAgent |-> TRUE]
           /\ \A agents :
                R!AgentLine([groups |-> Begun(before, agents, << >>), lastWasAgent |-> TRUE], value)
                  = [groups |-> Begun(before, agents \cup {value}, << >>), lastWasAgent |-> TRUE]
<1>1. ASSUME NEW agents, NEW groups, groups = Begun(before, agents, << >>)
      PROVE  /\ groups # << >>
             /\ [groups EXCEPT ![Len(groups)].agents = @ \cup {value}]
                  = Begun(before, agents \cup {value}, << >>)
  <2>. DEFINE n == Len(before)
              new == [agents |-> agents \cup {value}, rules |-> << >>]
  <2>0. n \in Nat /\ before = [i \in 1..n |-> before[i]]
    OBVIOUS
  <2>1. /\ Len(groups) = n + 1 /\ DOMAIN groups = 1..n + 1
        /\ groups[n + 1] = [agents |-> agents, rules |-> << >>]
        /\ \A i \in 1..n : groups[i] = before[i]
    BY <1>1 DEF Begun
  <2>2. Begun(before, agents \cup {value}, << >>)
          = [i \in 1..n + 1 |-> IF i = n + 1 THEN new ELSE before[i]]
    BY DEF Begun
  <2>. DEFINE old == [agents |-> agents, rules |-> << >>]
  <2>3. [groups[n + 1] EXCEPT !.agents = @ \cup {value}] = new
    <3>1. [old EXCEPT !.agents = @ \cup {value}] = new
      <4>. DEFINE grown == agents \cup {value}
      <4>1. old.agents = agents
        OBVIOUS
      <4>. HIDE DEF grown
      <4>2. [old EXCEPT !.agents = grown] = [agents |-> grown, rules |-> << >>]
        OBVIOUS
      <4>. QED  BY <4>1, <4>2 DEF grown
    <3>2. groups[n + 1] = old
      BY <2>1
    <3>. HIDE DEF old, new, n
    <3>. QED  BY <3>1, <3>2
  <2>4. [groups EXCEPT ![Len(groups)].agents = @ \cup {value}]
          = [i \in 1..n + 1 |-> IF i = n + 1 THEN new ELSE groups[i]]
    <3>. HIDE DEF new, n
    <3>. QED  BY <2>1, <2>3
  <2>5. \A i \in 1..n + 1 : i # n + 1 => groups[i] = before[i]
    <3>1. \A i \in 1..n + 1 : i # n + 1 => i \in 1..n
      BY <2>0
    <3>. QED  BY <2>1, <3>1
  <2>6. groups # << >>
    <3>1. Len(groups) # 0
      BY <2>0, <2>1
    <3>. QED  BY <3>1
  <2>. HIDE DEF new, n
  <2>. QED  BY <2>2, <2>4, <2>5, <2>6
<1>2. Begun(before, {}, << >>) = Append(before, [agents |-> {}, rules |-> << >>])
  BY DEF Begun
<1>3. {} \cup {value} = {value}
  OBVIOUS
<1>4. R!AgentLine([groups |-> before, lastWasAgent |-> FALSE], value)
        = [groups |-> Begun(before, {} \cup {value}, << >>), lastWasAgent |-> TRUE]
  BY <1>1, <1>2 DEF R!AgentLine, R!BeginsGroup
<1>5. ASSUME NEW agents
      PROVE  R!AgentLine([groups |-> Begun(before, agents, << >>), lastWasAgent |-> TRUE], value)
               = [groups |-> Begun(before, agents \cup {value}, << >>), lastWasAgent |-> TRUE]
  BY <1>1 DEF R!AgentLine, R!BeginsGroup
<1>. QED  BY <1>3, <1>4, <1>5

\* A rule with an empty path is none.
RulesOf(rule) == IF rule.path = << >> THEN << >> ELSE <<[type |-> rule.type, path |-> rule.path]>>

LEMMA RuleLineReads ==
    ASSUME NEW Z, NEW before \in Seq(Z), NEW agents, NEW rule, RuleLike(rule)
    PROVE  R!OtherLine([groups |-> Begun(before, agents, << >>), lastWasAgent |-> TRUE],
                       [field |-> rule.type, value |-> rule.path])
             = [groups |-> Begun(before, agents, RulesOf(rule)), lastWasAgent |-> FALSE]
<1>. DEFINE n == Len(before)
            groups == Begun(before, agents, << >>)
            one == [type |-> rule.type, path |-> rule.path]
            new == [agents |-> agents, rules |-> <<one>>]
<1>0. n \in Nat /\ before = [i \in 1..n |-> before[i]]
  OBVIOUS
<1>1. /\ Len(groups) = n + 1 /\ DOMAIN groups = 1..n + 1
      /\ groups[n + 1] = [agents |-> agents, rules |-> << >>]
      /\ \A i \in 1..n : groups[i] = before[i]
  BY DEF Begun
<1>2. groups # << >>
  <2>1. Len(groups) # 0
    BY <1>0, <1>1
  <2>. QED  BY <2>1
<1>3. Begun(before, agents, <<one>>) = [i \in 1..n + 1 |-> IF i = n + 1 THEN new ELSE before[i]]
  BY DEF Begun
<1>. HIDE DEF groups
<1>4. Append(<< >>, one) = <<one>>
  OBVIOUS
<1>5. [groups[n + 1] EXCEPT !.rules = Append(@, one)] = new
  BY <1>1, <1>4
<1>6. [groups EXCEPT ![Len(groups)].rules = Append(@, one)]
        = [i \in 1..n + 1 |-> IF i = n + 1 THEN new ELSE groups[i]]
  <2>. HIDE DEF new, n, one
  <2>. QED  BY <1>1, <1>5
<1>7. \A i \in 1..n + 1 : i # n + 1 => groups[i] = before[i]
  <2>1. \A i \in 1..n + 1 : i # n + 1 => i \in 1..n
    BY <1>0
  <2>. QED  BY <1>1, <2>1
<1>8. [groups EXCEPT ![Len(groups)].rules = Append(@, one)] = Begun(before, agents, <<one>>)
  <2>. HIDE DEF new, n, one
  <2>. QED  BY <1>3, <1>6, <1>7
<1>. HIDE DEF n, new
<1>9. CASE rule.path = << >>
  BY <1>9 DEF R!OtherLine, RulesOf, groups
<1>10. CASE rule.path # << >>
  <2>1. R!OtherLine([groups |-> groups, lastWasAgent |-> TRUE],
                    [field |-> rule.type, value |-> rule.path])
          = [groups |-> [groups EXCEPT ![Len(groups)].rules = Append(@, one)],
             lastWasAgent |-> FALSE]
    BY <1>2, <1>10 DEF R!OtherLine, RuleLike
  <2>2. RulesOf(rule) = <<one>>
    BY <1>10 DEF RulesOf
  <2>. QED  BY <1>8, <2>1, <2>2 DEF groups
<1>. QED  BY <1>9, <1>10

\* The lines of a group, wherever they begin, are read as the group.
AgentLines(agents) == {[field |-> "user-agent", value |-> a] : a \in agents}
LinesOf(g) ==
    SetToSeq(AgentLines(g.agents)) \o <<[field |-> g.rule.type, value |-> g.rule.path]>>
GroupOf(g) == [agents |-> g.agents, rules |-> RulesOf(g.rule)]

Posable(g) ==
    IsFiniteSet(g.agents) /\ g.agents # {} /\ RuleLike(g.rule)

LEMMA SetInSequence ==
    ASSUME NEW S, IsFiniteSet(S)
    PROVE  /\ SetToSeq(S) \in [1..Cardinality(S) -> S] /\ Cardinality(S) \in Nat
           /\ {SetToSeq(S)[i] : i \in 1..Cardinality(S)} = S
<1>. DEFINE n == Cardinality(S)
            places == 1..n
            s == SetToSeq(S)
<1>1. n \in Nat /\ Bijection(places, S) # {}
  BY FS_CardinalityType DEF ExistsBijection
<1>2. PICK f : f \in Bijection(places, S)
  BY <1>1
<1>3. f \in [places -> S] /\ IsInjective(f)
  BY <1>2 DEF Bijection, Injection
<1>4. s \in [places -> S] /\ IsInjective(s)
  <2>1. s = CHOOSE g \in [places -> S] : IsInjective(g)
    BY DEF SetToSeq
  <2>. HIDE DEF s, places
  <2>. QED  BY <1>3, <2>1
<1>5. s \in Injection(places, S)
  BY <1>4 DEF Injection
<1>6. IsFiniteSet(places) /\ Cardinality(places) = Cardinality(S)
  <2>1. 1 \in Int /\ n \in Int
    BY <1>1
  <2>2. IsFiniteSet(1..n)
    BY <2>1, FS_Interval
  <2>3. Cardinality(1..n) = IF 1 > n THEN 0 ELSE n - 1 + 1
    BY <2>1, FS_Interval
  <2>. QED  BY <1>1, <2>2, <2>3
<1>. HIDE DEF places, s
<1>7. s \in Surjection(places, S)
  <2>1. Cardinality(places) = Cardinality(S) <=> s \in Surjection(places, S)
    BY <1>5, FS_Injection
  <2>. QED  BY <1>6, <2>1
<1>8. \A x \in S : \E i \in places : s[i] = x
  BY <1>7 DEF Surjection
<1>. QED  BY <1>1, <1>4, <1>8 DEF places, s

LEMMA LinesOfAre ==
    ASSUME NEW g, Posable(g)
    PROVE  LET k == Cardinality(AgentLines(g.agents))
           IN /\ k \in Nat \ {0} /\ Len(LinesOf(g)) = k + 1
              /\ LinesOf(g) \in Seq(ToSet(LinesOf(g)))
              /\ LinesOf(g)[k + 1] = [field |-> g.rule.type, value |-> g.rule.path]
              /\ \A i \in 1..k : LinesOf(g)[i].field = "user-agent"
              /\ {LinesOf(g)[i].value : i \in 1..k} = g.agents
<1>. DEFINE A == AgentLines(g.agents)
            Line(a) == [field |-> "user-agent", value |-> a]
            k == Cardinality(A)
            s == SetToSeq(A)
            last == [field |-> g.rule.type, value |-> g.rule.path]
            f == [a \in g.agents |-> Line(a)]
<1>1. IsFiniteSet(A) /\ A # {}
  <2>1. f \in Surjection(g.agents, A)
    BY DEF AgentLines, Surjection
  <2>. HIDE DEF A, f
  <2>2. IsFiniteSet(A)
    BY <2>1, FS_Surjection DEF Posable
  <2>3. A # {}
    BY DEF A, AgentLines, Posable
  <2>. QED  BY <2>2, <2>3
<1>2. s \in [1..k -> A] /\ k \in Nat /\ {s[i] : i \in 1..k} = A
  BY <1>1, SetInSequence
<1>3. k # 0
  BY <1>1, FS_EmptySet
<1>4. LinesOf(g) = s \o <<last>>
  BY DEF LinesOf
<1>5. \A x \in A : x.field = "user-agent" /\ x.value \in g.agents
  BY DEF AgentLines
<1>6. \A a \in g.agents : Line(a) \in A /\ Line(a).value = a
  BY DEF AgentLines
<1>. HIDE DEF A, k, s, last, f, Line
<1>7. /\ Len(s \o <<last>>) = k + 1 /\ (s \o <<last>>)[k + 1] = last
      /\ \A i \in 1..k : (s \o <<last>>)[i] = s[i]
      /\ s \o <<last>> \in Seq(A \cup {last})
  <2>1. s \in Seq(A) /\ Len(s) = k
    BY <1>2
  <2>. QED  BY <1>2, <2>1
<1>8. \A t, Z : t \in Seq(Z) => t \in Seq(ToSet(t))
  BY DEF ToSet
<1>9. /\ \A i \in 1..k : LinesOf(g)[i].field = "user-agent"
      /\ {LinesOf(g)[i].value : i \in 1..k} = g.agents
  <2>1. \A i \in 1..k : LinesOf(g)[i] = s[i] /\ s[i] \in A
    BY <1>2, <1>4, <1>7
  <2>2. \A i \in 1..k : LinesOf(g)[i].value \in g.agents
    BY <1>5, <2>1
  <2>3. \A a \in g.agents : \E i \in 1..k : LinesOf(g)[i].value = a
    <3>1. ASSUME NEW a \in g.agents PROVE \E i \in 1..k : LinesOf(g)[i].value = a
      <4>1. PICK i \in 1..k : s[i] = Line(a)
        BY <1>2, <1>6
      <4>. QED  BY <1>6, <2>1, <4>1
    <3>. QED  BY <3>1
  <2>. QED  BY <1>5, <2>1, <2>2, <2>3
<1>. QED  BY <1>2, <1>3, <1>4, <1>7, <1>8, <1>9 DEF k, last, A, Line

HeldAt(lines, p, g) ==
    /\ p + Len(LinesOf(g)) <= Len(lines)
    /\ \A i \in 1..Len(LinesOf(g)) : lines[p + i] = LinesOf(g)[i]

ReadTo(lines, p, groups) == R!Read(lines)[p] = [groups |-> groups, lastWasAgent |-> FALSE]

LEMMA GroupRead ==
    ASSUME NEW g, Posable(g), NEW lines, Len(lines) \in Nat, NEW p \in Nat, HeldAt(lines, p, g),
           NEW Z, NEW before \in Seq(Z), ReadTo(lines, p, before)
    PROVE  ReadTo(lines, p + Len(LinesOf(g)), Append(before, GroupOf(g)))
<1>. DEFINE own == LinesOf(g)
            k == Cardinality(AgentLines(g.agents))
            read == R!Read(lines)
            Named(j) == {own[i].value : i \in 1..j}
            Reads(j) == read[p + j] = [groups |-> Begun(before, Named(j), << >>),
                                       lastWasAgent |-> TRUE]
            S == {j \in Nat : j + 1 <= k => Reads(j + 1)}
<1>1. /\ k \in Nat \ {0} /\ Len(own) = k + 1
      /\ own[k + 1] = [field |-> g.rule.type, value |-> g.rule.path]
      /\ \A i \in 1..k : own[i].field = "user-agent"
      /\ Named(k) = g.agents
  BY LinesOfAre
<1>2. \A n \in 0..Len(lines) : read[n] = ReadAt(read, n, lines)
  BY ReadUnfolds
<1>3. \A i \in 1..k + 1 : lines[p + i] = own[i] /\ p + k + 1 <= Len(lines)
  BY <1>1 DEF HeldAt
<1>4. read[p] = [groups |-> before, lastWasAgent |-> FALSE]
  BY DEF ReadTo
<1>. HIDE DEF own, read, k
<1>5. ASSUME NEW i \in 1..k + 1
      PROVE  read[p + i] = R!ReadLine(read[p + i - 1], own[i])
  <2>1. p + i \in 0..Len(lines) /\ p + i # 0 /\ (p + i) - 1 = p + i - 1
    BY <1>1, <1>3
  <2>. QED  BY <1>2, <1>3, <2>1 DEF ReadAt
<1>6. ASSUME NEW i \in 1..k
      PROVE  read[p + i] = R!AgentLine(read[p + i - 1], own[i].value)
  <2>1. i \in 1..k + 1 /\ own[i].field = "user-agent"
    BY <1>1
  <2>. QED  BY <1>5, <2>1 DEF R!ReadLine
<1>7. 0 \in S
  <2>1. 1 \in 1..k /\ p + 1 - 1 = p
    BY <1>1
  <2>2. read[p + 1] = R!AgentLine(read[p], own[1].value)
    BY <1>6, <2>1
  <2>3. read[p + 1] = [groups |-> Begun(before, {own[1].value}, << >>), lastWasAgent |-> TRUE]
    BY <1>4, <2>2, AgentLineReads
  <2>4. Named(1) = {own[1].value}
    <3>1. 1..1 = {1}
      OBVIOUS
    <3>. QED  BY <3>1
  <2>5. 0 + 1 = 1
    OBVIOUS
  <2>6. Reads(1)
    BY <2>3, <2>4
  <2>. QED  BY <2>5, <2>6
<1>8. ASSUME NEW j \in Nat, j \in S
      PROVE  j + 1 \in S
  <2>1. SUFFICES ASSUME (j + 1) + 1 <= k PROVE Reads((j + 1) + 1)
    OBVIOUS
  <2>2. Reads(j + 1)
    <3>1. j + 1 <= k
      BY <1>1, <2>1
    <3>. QED  BY <1>8, <3>1
  <2>. DEFINE i == (j + 1) + 1
  <2>3. i \in 1..k /\ p + i - 1 = p + (j + 1)
    BY <1>1, <2>1
  <2>4. Named(i) = Named(j + 1) \cup {own[i].value}
    <3>1. 1..i = 1..j + 1 \cup {i}
      OBVIOUS
    <3>. HIDE DEF i
    <3>. QED  BY <3>1
  <2>. HIDE DEF i, Named
  <2>5. read[p + i] = R!AgentLine(read[p + (j + 1)], own[i].value)
    BY <1>6, <2>3
  <2>6. read[p + i] = [groups |-> Begun(before, Named(j + 1) \cup {own[i].value}, << >>),
                       lastWasAgent |-> TRUE]
    <3>1. \A agents, value :
            R!AgentLine([groups |-> Begun(before, agents, << >>), lastWasAgent |-> TRUE], value)
              = [groups |-> Begun(before, agents \cup {value}, << >>), lastWasAgent |-> TRUE]
      BY AgentLineReads
    <3>. QED  BY <2>2, <2>5, <3>1
  <2>7. Reads(i)
    BY <2>4, <2>6
  <2>. QED  BY <2>7 DEF i
<1>9. Reads(k)
  <2>1. Nat \subseteq S
    BY <1>7, <1>8, Induction
  <2>2. k - 1 \in Nat /\ (k - 1) + 1 = k /\ (k - 1) + 1 <= k
    BY <1>1
  <2>3. k - 1 \in S
    BY <2>1, <2>2
  <2>. HIDE DEF Reads
  <2>4. Reads((k - 1) + 1)
    BY <2>2, <2>3
  <2>. QED  BY <2>2, <2>4
<1>10. read[p + k] = [groups |-> Begun(before, g.agents, << >>), lastWasAgent |-> TRUE]
  BY <1>1, <1>9
<1>11. read[p + (k + 1)] = R!OtherLine(read[p + k], own[k + 1])
  <2>1. k + 1 \in 1..k + 1 /\ p + (k + 1) - 1 = p + k
    BY <1>1
  <2>2. own[k + 1].field # "user-agent"
    BY <1>1 DEF Posable, RuleLike
  <2>. QED  BY <1>5, <2>1, <2>2 DEF R!ReadLine
<1>12. RuleLike(g.rule)
  BY DEF Posable
<1>13. R!OtherLine([groups |-> Begun(before, g.agents, << >>), lastWasAgent |-> TRUE],
                   [field |-> g.rule.type, value |-> g.rule.path])
         = [groups |-> Begun(before, g.agents, RulesOf(g.rule)), lastWasAgent |-> FALSE]
  BY <1>12, RuleLineReads
<1>14. read[p + (k + 1)] = [groups |-> Begun(before, g.agents, RulesOf(g.rule)),
                            lastWasAgent |-> FALSE]
  BY <1>1, <1>10, <1>11, <1>13
<1>. QED  BY <1>1, <1>14 DEF own, read, Begun, GroupOf, ReadTo

LEMMA TwoGroupsRead ==
    ASSUME NEW groups, Posable(groups[1]), Posable(groups[2])
    PROVE  R!Groups(Lines(groups)) = <<GroupOf(groups[1]), GroupOf(groups[2])>>
<1>. DEFINE a == LinesOf(groups[1])
            b == LinesOf(groups[2])
            lines == Lines(groups)
            Z == {GroupOf(groups[1])}
            one == <<GroupOf(groups[1])>>
<1>1. /\ a \in Seq(ToSet(a)) /\ b \in Seq(ToSet(b))
      /\ lines = a \o b
  <2>1. lines = a \o b
    BY DEF Lines, LinesOf, AgentLines
  <2>. QED  BY <2>1, LinesOfAre
<1>. HIDE DEF a, b, lines
<1>2. /\ Len(lines) = Len(a) + Len(b) /\ Len(a) \in Nat /\ Len(b) \in Nat
      /\ \A i \in 1..Len(a) : lines[i] = a[i]
      /\ \A i \in 1..Len(b) : lines[Len(a) + i] = b[i]
  <2>1. a \in Seq(ToSet(a) \cup ToSet(b)) /\ b \in Seq(ToSet(a) \cup ToSet(b))
    BY <1>1
  <2>. QED  BY <1>1, <2>1
<1>3. Len(lines) \in Nat
  BY <1>2
<1>4. ReadTo(lines, 0, << >>)
  <2>1. 0 \in 0..Len(lines)
    BY <1>3
  <2>. QED  BY <1>3, <2>1, ReadUnfolds DEF ReadAt, ReadTo
<1>5. /\ << >> \in Seq(Z) /\ one \in Seq(Z) /\ Append(<< >>, GroupOf(groups[1])) = one
      /\ Append(one, GroupOf(groups[2])) = <<GroupOf(groups[1]), GroupOf(groups[2])>>
  <2>1. ASSUME NEW x, NEW y
        PROVE  Append(<< >>, x) = <<x>> /\ Append(<<x>>, y) = <<x, y>>
    <3>1. << >> \in Seq({x}) /\ <<x>> \in Seq({x, y}) /\ Len(<<x>>) = 1 /\ <<x>>[1] = x
      OBVIOUS
    <3>2. Append(<< >>, x) = <<x>>
      BY <3>1
    <3>3. Append(<<x>>, y) = [i \in 1..2 |-> IF i = 2 THEN y ELSE <<x>>[i]]
      BY <3>1
    <3>4. \A i \in 1..2 : (IF i = 2 THEN y ELSE <<x>>[i]) = <<x, y>>[i]
      <4>1. \A i \in 1..2 : i = 1 \/ i = 2
        OBVIOUS
      <4>. QED  BY <3>1, <4>1
    <3>5. <<x, y>> = [i \in 1..2 |-> <<x, y>>[i]]
      OBVIOUS
    <3>. QED  BY <3>2, <3>3, <3>4, <3>5
  <2>2. GroupOf(groups[1]) \in Z
    OBVIOUS
  <2>3. << >> \in Seq(Z) /\ one \in Seq(Z)
    OBVIOUS
  <2>. QED  BY <2>1, <2>3
<1>. HIDE DEF Z, one
<1>6. ReadTo(lines, Len(a), one)
  <2>1. HeldAt(lines, 0, groups[1])
    <3>1. 0 + Len(a) <= Len(lines) /\ \A i \in 1..Len(a) : lines[0 + i] = a[i]
      BY <1>2
    <3>. QED  BY <3>1 DEF HeldAt, a
  <2>2. ReadTo(lines, 0 + Len(LinesOf(groups[1])), Append(<< >>, GroupOf(groups[1])))
    BY <1>3, <1>4, <1>5, <2>1, GroupRead
  <2>3. 0 + Len(a) = Len(a)
    BY <1>2
  <2>. QED  BY <1>5, <2>2, <2>3 DEF a
<1>7. ReadTo(lines, Len(a) + Len(b), Append(one, GroupOf(groups[2])))
  <2>1. HeldAt(lines, Len(a), groups[2])
    <3>1. Len(a) + Len(b) <= Len(lines)
      BY <1>2
    <3>. QED  BY <1>2, <3>1 DEF HeldAt, b
  <2>2. ReadTo(lines, Len(a) + Len(LinesOf(groups[2])), Append(one, GroupOf(groups[2])))
    BY <1>2, <1>3, <1>5, <1>6, <2>1, GroupRead
  <2>. QED  BY <2>2 DEF b
<1>. QED  BY <1>2, <1>5, <1>7 DEF R!Groups, lines, ReadTo

\* The group that names the scanner, whichever of the two it is.
LEMMA NamedIsChosen ==
    ASSUME NEW groups, Posable(groups[1]), Posable(groups[2]), NEW n \in 1..2,
           \A i \in 1..2 : groups[i].agents \cap Ours # {} <=> i = n
    PROVE  R!FetchRobots("fetched", Lines(groups)) = RulesOf(groups[n].rule)
<1>. DEFINE read == <<GroupOf(groups[1]), GroupOf(groups[2])>>
            I == {i \in 1..Len(read) : read[i].agents \cap Ours # {}}
            named == IF I # {} THEN R!Min(I) ELSE 0
<1>1. R!Groups(Lines(groups)) = read
  BY TwoGroupsRead
<1>2. Len(read) = 2 /\ \A i \in 1..2 : read[i] = GroupOf(groups[i])
  OBVIOUS
<1>. HIDE DEF read
<1>3. \A i \in 1..2 : read[i].agents = groups[i].agents /\ read[i].rules = RulesOf(groups[i].rule)
  BY <1>2 DEF GroupOf
<1>4. I = {n}
  BY <1>2, <1>3
<1>5. R!Min(I) = n
  BY <1>4 DEF R!Min
<1>6. named = n /\ n # 0 /\ n \in 1..2
  BY <1>4, <1>5
<1>7. named = R!SelectInSeq(read, LAMBDA g : g.agents \cap Ours # {})
  BY DEF R!SelectInSeq
<1>. HIDE DEF named
<1>8. R!Chosen(read) = read[n].rules
  BY <1>6, <1>7 DEF R!Chosen
<1>. QED  BY <1>1, <1>3, <1>8 DEF R!FetchRobots, R!ParseRobots

RobotsPosed ==
    /\ input.rules \in Seq(RobotsRule)
    /\ \/ input.groups = << >>
       \/ input.groups \in [1..2 -> [agents : (SUBSET AgentNames) \ {{}}, rule : RobotsRule]]

LEMMA AnyOrderOfRules ==
    ASSUME input.of = "robots" => RobotsPosed
    PROVE  RulesInAnyOrder
<1>. DEFINE groups == input.groups
            Names(i) == groups[i].agents \cap Ours # {}
            named == {i \in DOMAIN groups : Names(i)}
<1>1. SUFFICES ASSUME input.of = "robots", RobotsPosed, NEW path \in Paths
               PROVE  /\ R!IsAllowed(Reverse(input.rules), path) = R!IsAllowed(input.rules, path)
                      /\ Cardinality(named) = 1 =>
                           R!FetchRobots("fetched", Lines(groups))
                             = R!FetchRobots("fetched", Lines(Reverse(groups)))
  BY DEF RulesInAnyOrder
<1>2. R!IsAllowed(Reverse(input.rules), path) = R!IsAllowed(input.rules, path)
  BY <1>1, BackwardsAllowsTheSame DEF RobotsPosed
<1>3. ASSUME Cardinality(named) = 1
      PROVE  R!FetchRobots("fetched", Lines(groups))
               = R!FetchRobots("fetched", Lines(Reverse(groups)))
  <2>1. groups \in [1..2 -> [agents : (SUBSET AgentNames) \ {{}}, rule : RobotsRule]]
    <3>1. ASSUME groups = << >> PROVE FALSE
      <4>1. named = {}
        BY <3>1
      <4>. QED  BY <1>3, <4>1, FS_EmptySet
    <3>. QED  BY <1>1, <3>1 DEF RobotsPosed
  <2>2. Posable(groups[1]) /\ Posable(groups[2])
    <3>1. ASSUME NEW i \in 1..2 PROVE Posable(groups[i])
      <4>1. groups[i] \in [agents : (SUBSET AgentNames) \ {{}}, rule : RobotsRule]
        BY <2>1
      <4>2. groups[i].agents \in SUBSET AgentNames /\ groups[i].agents # {}
            /\ groups[i].rule \in RobotsRule
        BY <4>1
      <4>3. IsFiniteSet(groups[i].agents)
        BY <4>2, RobotsAssumption, FS_Subset
      <4>. QED  BY <4>2, <4>3, RobotsAssumption DEF Posable, RuleLike
    <3>. QED  BY <3>1
  <2>3. PICK n \in 1..2 : \A i \in 1..2 : Names(i) <=> i = n
    <3>1. named \subseteq 1..2 /\ named = {i \in 1..2 : Names(i)}
      BY <2>1
    <3>2. IsFiniteSet(named)
      <4>1. 1 \in Int /\ 2 \in Int
        OBVIOUS
      <4>2. IsFiniteSet(1..2)
        BY <4>1, FS_Interval
      <4>. HIDE DEF named
      <4>. QED  BY <3>1, <4>2, FS_Subset
    <3>. HIDE DEF named
    <3>3. PICK n : named = {n}
      BY <1>3, <3>2, FS_Singleton
    <3>. QED  BY <3>1, <3>3
  <2>4. Reverse(groups)[1] = groups[2] /\ Reverse(groups)[2] = groups[1]
    <3>1. Len(groups) = 2
      BY <2>1
    <3>2. Reverse(groups) = [i \in 1..2 |-> groups[(2 - i) + 1]]
      BY <3>1 DEF Reverse
    <3>3. Reverse(groups)[1] = groups[(2 - 1) + 1] /\ Reverse(groups)[2] = groups[(2 - 2) + 1]
      BY <3>2
    <3>. QED  BY <3>3
  <2>. HIDE DEF groups
  <2>. DEFINE turned == Reverse(groups)
  <2>5. R!FetchRobots("fetched", Lines(groups)) = RulesOf(groups[n].rule)
    BY <2>2, <2>3, NamedIsChosen
  <2>6. 3 - n \in 1..2 /\ \A i \in 1..2 : 3 - i \in 1..2 /\ turned[i] = groups[3 - i]
    <3>1. \A i \in 1..2 : i = 1 \/ i = 2
      OBVIOUS
    <3>. QED  BY <2>4, <3>1
  <2>7. \A i \in 1..2 : turned[i].agents \cap Ours # {} <=> i = 3 - n
    <3>1. \A i \in 1..2 : turned[i].agents \cap Ours # {} <=> 3 - i = n
      BY <2>3, <2>6
    <3>. QED  BY <3>1
  <2>8. Posable(turned[1]) /\ Posable(turned[2])
    BY <2>2, <2>4
  <2>. HIDE DEF turned
  <2>9. R!FetchRobots("fetched", Lines(turned)) = RulesOf(turned[3 - n].rule)
    BY <2>6, <2>7, <2>8, NamedIsChosen
  <2>10. turned[3 - n] = groups[n]
    <3>1. 3 - (3 - n) = n
      OBVIOUS
    <3>. QED  BY <2>6, <3>1
  <2>. QED  BY <2>5, <2>9, <2>10 DEF turned
<1>. QED  BY <1>2, <1>3

-----------------------------------------------------------------------------
(***************************************************************************)
(* Two scans: one entry for each identity, listed in a strict order.       *)
(***************************************************************************)
Identities(items) == {r.id : r \in ToSet(items)}

LEMMA RowsIndexed ==
    ASSUME NEW items \in Seq(Row)
    PROVE  /\ IsFiniteSet(Identities(items)) /\ DOMAIN D!Index(items) = Identities(items)
           /\ \A id \in Identities(items) :
                D!Index(items)[id] \in Row /\ D!Index(items)[id].id = id
<1>. DEFINE size == Len(items)
            I(id) == {i \in 1..size : items[i].id = id}
            at(id) == IF I(id) # {} THEN D!Min(I(id)) ELSE 0
            name == [i \in 1..size |-> items[i].id]
<1>1. size \in Nat /\ DOMAIN items = 1..size /\ \A i \in 1..size : items[i] \in Row
  OBVIOUS
<1>2. Identities(items) = {items[i].id : i \in 1..size}
  BY <1>1 DEF Identities, ToSet
<1>3. D!Index(items) = [id \in Identities(items) |-> items[at(id)]]
  BY <1>1, <1>2 DEF D!Index, D!SelectInSeq
<1>4. ASSUME NEW id \in Identities(items)
      PROVE  at(id) \in 1..size /\ items[at(id)].id = id
  <2>1. I(id) \in SUBSET Nat /\ I(id) # {}
    BY <1>1, <1>2
  <2>2. \E x \in I(id) : \A y \in I(id) : x <= y
    BY <2>1, LeastOf
  <2>3. D!Min(I(id)) \in I(id)
    BY <2>2 DEF D!Min
  <2>. QED  BY <2>1, <2>3
<1>5. IsFiniteSet(Identities(items))
  <2>1. name \in Surjection(1..size, Identities(items))
    BY <1>2 DEF Surjection
  <2>2. 1 \in Int /\ size \in Int
    BY <1>1
  <2>3. IsFiniteSet(1..size)
    BY <2>2, FS_Interval
  <2>. HIDE DEF name, size
  <2>. QED  BY <2>1, <2>3, FS_Surjection
<1>. HIDE DEF at
<1>. QED  BY <1>1, <1>3, <1>4, <1>5

\* The entry of an identity that is in one of the scans.
EntryOf(previous, current, id) ==
    IF id \notin DOMAIN previous THEN D!Entry(id, "new", {})
    ELSE IF id \notin DOMAIN current THEN D!Entry(id, "removed", {})
    ELSE D!Entry(id, D!StatusOf(previous[id], current[id]),
                 D!ChangedFields(previous[id], current[id]))

LEMMA OneEntryEach ==
    ASSUME NEW before, NEW after
    PROVE  LET previous == D!Index(before)
               current == D!Index(after)
               ids == DOMAIN previous \cup DOMAIN current
           IN /\ D!DiffCollection(before, after) = {EntryOf(previous, current, id) : id \in ids}
              /\ \A id : EntryOf(previous, current, id).id = id
              /\ \A id : EntryOf(previous, current, id).status
                           \in {"new", "changed", "removed", "unchanged"}
<1>. DEFINE previous == D!Index(before)
            current == D!Index(after)
            ids == DOMAIN previous \cup DOMAIN current
            E == {EntryOf(previous, current, id) : id \in ids}
            A == {D!Entry(id, "new", {}) : id \in DOMAIN current \ DOMAIN previous}
            B == {D!Entry(id, "removed", {}) : id \in DOMAIN previous \ DOMAIN current}
            C == {D!Entry(id, D!StatusOf(previous[id], current[id]),
                          D!ChangedFields(previous[id], current[id])) :
                    id \in DOMAIN current \cap DOMAIN previous}
<1>1. D!DiffCollection(before, after) = A \cup B \cup C
  BY DEF D!DiffCollection
<1>. HIDE DEF previous, current
<1>2. \A id \in DOMAIN current \ DOMAIN previous :
        id \in ids /\ EntryOf(previous, current, id) = D!Entry(id, "new", {})
  BY DEF EntryOf
<1>3. \A id \in DOMAIN previous \ DOMAIN current :
        id \in ids /\ EntryOf(previous, current, id) = D!Entry(id, "removed", {})
  BY DEF EntryOf
<1>4. \A id \in DOMAIN current \cap DOMAIN previous :
        id \in ids /\ EntryOf(previous, current, id)
                        = D!Entry(id, D!StatusOf(previous[id], current[id]),
                                  D!ChangedFields(previous[id], current[id]))
  BY DEF EntryOf
<1>5. A \subseteq E /\ B \subseteq E /\ C \subseteq E
  BY <1>2, <1>3, <1>4
<1>6. E \subseteq A \cup B \cup C
  <2>1. ASSUME NEW id \in ids PROVE EntryOf(previous, current, id) \in A \cup B \cup C
    <3>1. CASE id \in DOMAIN current \ DOMAIN previous
      BY <1>2, <3>1
    <3>2. CASE id \in DOMAIN previous \ DOMAIN current
      BY <1>3, <3>2
    <3>3. CASE id \in DOMAIN current \cap DOMAIN previous
      BY <1>4, <3>3
    <3>. QED  BY <3>1, <3>2, <3>3
  <2>. QED  BY <2>1
<1>7. A \cup B \cup C = E
  <2>. HIDE DEF A, B, C, E
  <2>. QED  BY <1>5, <1>6
<1>8. \A id : EntryOf(previous, current, id).id = id
  BY DEF EntryOf, D!Entry
<1>9. \A id : EntryOf(previous, current, id).status \in {"new", "changed", "removed", "unchanged"}
  <2>1. \A old, new : D!StatusOf(old, new) \in {"changed", "unchanged"}
    BY DEF D!StatusOf
  <2>. QED  BY <2>1 DEF EntryOf, D!Entry
<1>. QED  BY <1>1, <1>7, <1>8, <1>9 DEF previous, current

ByName == {p \in {r.id : r \in Row} \X {r.id : r \in Row} : p[1].name < p[2].name}

Sooner(x, y) ==
    \/ D!Rank[x.status] < D!Rank[y.status]
    \/ D!Rank[x.status] = D!Rank[y.status] /\ <<x.id, y.id>> \in ByName

LEMMA EntriesOrdered ==
    ASSUME NEW before \in Seq(Row), NEW after \in Seq(Row)
    PROVE  LET entries == D!DiffCollection(before, after)
           IN /\ IsFiniteSet(entries)
              /\ StrictlyOrders({p \in entries \X entries : Sooner(p[1], p[2])}, entries)
<1>. DEFINE previous == D!Index(before)
            current == D!Index(after)
            ids == Identities(before) \cup Identities(after)
            entries == D!DiffCollection(before, after)
            prec == {p \in entries \X entries : Sooner(p[1], p[2])}
            f == [id \in ids |-> EntryOf(previous, current, id)]
<1>1. DOMAIN previous \cup DOMAIN current = ids /\ IsFiniteSet(ids)
  <2>1. IsFiniteSet(Identities(before)) /\ IsFiniteSet(Identities(after))
    BY RowsIndexed
  <2>2. IsFiniteSet(Identities(before) \cup Identities(after))
    BY <2>1, FS_Union
  <2>. QED  BY <2>2, RowsIndexed
<1>2. entries = {EntryOf(previous, current, id) : id \in ids}
  BY <1>1, OneEntryEach
<1>3. \A id : /\ EntryOf(previous, current, id).id = id
              /\ EntryOf(previous, current, id).status
                   \in {"new", "changed", "removed", "unchanged"}
  BY OneEntryEach
<1>4. \A id \in ids : id \in {r.id : r \in Row}
  BY DEF Identities, ToSet
<1>5. \A a, b \in {r.id : r \in Row} : /\ a.name \in Int /\ b.name \in Int
                                       /\ a.name = b.name => a = b
  BY RowAssumption
<1>. HIDE DEF previous, current, entries, ids
<1>6. IsFiniteSet(entries)
  <2>1. f \in Surjection(ids, entries)
    BY <1>2 DEF Surjection
  <2>. HIDE DEF f
  <2>. QED  BY <1>1, <2>1, FS_Surjection
<1>7. \A e \in entries : D!Rank[e.status] \in Int
  BY <1>2, <1>3 DEF D!Rank
<1>8. \A e \in entries : e.id \in {r.id : r \in Row} /\ e.id.name \in Int
  BY <1>2, <1>3, <1>4, <1>5
<1>9. \A x, y \in entries : x.id.name = y.id.name => x = y
  <2>1. \A x, y \in entries : x.id.name = y.id.name => x.id = y.id
    BY <1>5, <1>8
  <2>2. \A x, y \in entries : x.id = y.id => x = y
    BY <1>2, <1>3
  <2>. QED  BY <2>1, <2>2
<1>10. \A x, y \in entries : <<x.id, y.id>> \in ByName <=> x.id.name < y.id.name
  BY <1>8 DEF ByName
<1>11. \A x, y \in entries : <<x, y>> \in prec <=> Sooner(x, y)
  OBVIOUS
<1>. HIDE DEF prec
<1>12. \A x, y \in entries :
         <<x, y>> \in prec
           <=> \/ D!Rank[x.status] < D!Rank[y.status]
               \/ D!Rank[x.status] = D!Rank[y.status] /\ x.id.name < y.id.name
  BY <1>10, <1>11 DEF Sooner
<1>13. \A x \in entries : <<x, x>> \notin prec
  BY <1>7, <1>8, <1>12
<1>14. \A x, y \in entries : x # y => <<x, y>> \in prec \/ <<y, x>> \in prec
  BY <1>7, <1>8, <1>9, <1>12
<1>15. \A x, y, z \in entries : <<x, y>> \in prec /\ <<y, z>> \in prec => <<x, z>> \in prec
  <2>. DEFINE rank(x) == D!Rank[x.status]
              name(x) == x.id.name
  <2>1. \A x \in entries : rank(x) \in Int /\ name(x) \in Int
    BY <1>7, <1>8
  <2>2. \A x, y \in entries : <<x, y>> \in prec
                               <=> (rank(x) < rank(y) \/ (rank(x) = rank(y) /\ name(x) < name(y)))
    BY <1>12
  <2>. HIDE DEF rank, name
  <2>. QED  BY <2>1, <2>2
<1>16. StrictlyOrders(prec, entries)
  BY <1>13, <1>14, <1>15 DEF StrictlyOrders
<1>. QED  BY <1>6, <1>16 DEF prec, entries

\* What is listed is what was found.
LEMMA EntriesListed ==
    ASSUME NEW before \in Seq(Row), NEW after \in Seq(Row)
    PROVE  ToSet(D!DiffScans(before, after, ByName).entries) = D!DiffCollection(before, after)
<1>. DEFINE entries == D!DiffCollection(before, after)
            prec == {p \in entries \X entries : Sooner(p[1], p[2])}
            size == Cardinality(entries)
            list == D!DiffScans(before, after, ByName).entries
            one(n) == CHOOSE e \in entries : Cardinality(Foregoing(entries, prec, e)) = n - 1
<1>1. IsFiniteSet(entries) /\ StrictlyOrders(prec, entries) /\ size \in Nat
  <2>1. IsFiniteSet(entries) /\ StrictlyOrders(prec, entries)
    BY EntriesOrdered
  <2>. QED  BY <2>1, FS_CardinalityType
<1>2. \A e \in entries : Foregoing(entries, prec, e) = {d \in entries : Sooner(d, e)}
  BY DEF Foregoing
<1>3. list = [n \in 1..size |->
                CHOOSE e \in entries : Cardinality({d \in entries : Sooner(d, e)}) = n - 1]
  BY DEF D!DiffScans, Sooner, D!Cardinality, Cardinality
<1>. HIDE DEF entries, prec, list, size
<1>4. ASSUME NEW n \in 1..size
      PROVE  list[n] \in entries /\ Cardinality(Foregoing(entries, prec, list[n])) = n - 1
  <2>1. n \in 1..Cardinality(entries)
    BY DEF size
  <2>2. \E e \in entries : Cardinality(Foregoing(entries, prec, e)) = n - 1
    <3>1. one(n) \in entries /\ Cardinality(Foregoing(entries, prec, one(n))) = n - 1
      BY <1>1, <2>1, TheOneInPlace
    <3>. HIDE DEF one
    <3>. QED  BY <3>1
  <2>3. \E e \in entries : Cardinality({d \in entries : Sooner(d, e)}) = n - 1
    BY <1>2, <2>2
  <2>4. /\ list[n] \in entries
        /\ Cardinality({d \in entries : Sooner(d, list[n])}) = n - 1
    BY <1>3, <2>3
  <2>. QED  BY <1>2, <2>4
<1>5. ASSUME NEW e \in entries
      PROVE  \E n \in 1..size : list[n] = e
  <2>. DEFINE n == Cardinality(Foregoing(entries, prec, e)) + 1
  <2>1. Cardinality(Foregoing(entries, prec, e)) \in 0..size - 1
    BY <1>1, PlacesInRange DEF size
  <2>2. n \in 1..size /\ Cardinality(Foregoing(entries, prec, e)) = n - 1
    BY <1>1, <2>1
  <2>3. n \in 1..Cardinality(entries)
    BY <2>2 DEF size
  <2>. HIDE DEF n
  <2>4. \A d \in entries : Cardinality(Foregoing(entries, prec, d)) = n - 1
          => d = one(n)
    BY <1>1, <2>3, TheOneInPlace
  <2>5. list[n] = one(n) /\ e = one(n)
    <3>. HIDE DEF one
    <3>. QED  BY <1>4, <2>2, <2>4
  <2>. QED  BY <2>2, <2>5
<1>6. DOMAIN list = 1..size
  BY <1>3
<1>7. ToSet(list) = entries
  BY <1>4, <1>5, <1>6 DEF ToSet
<1>. QED  BY <1>7 DEF list, entries

LEMMA TotalsCount ==
    ASSUME NEW before, NEW after, NEW status \in {"changed", "unchanged"}
    PROVE  D!DiffScans(before, after, ByName).totals[status]
             = Cardinality({e \in D!DiffCollection(before, after) : e.status = status})
<1>. DEFINE entries == D!DiffCollection(before, after)
            those == {e \in entries : e.status = status}
<1>1. \A S : D!Cardinality(S) = Cardinality(S)
  BY DEF D!Cardinality, Cardinality
<1>2. D!DiffScans(before, after, ByName).totals = D!Tally(entries)
  BY DEF D!DiffScans
<1>3. D!Tally(entries)[status] = D!Cardinality(those)
  BY DEF D!Tally, D!Rank
<1>. HIDE DEF those
<1>. QED  BY <1>1, <1>2, <1>3 DEF those

\* The other way round, an entry is the same or its opposite.
LEMMA EntryFlipped ==
    ASSUME NEW before \in Seq(Row), NEW after \in Seq(Row),
           NEW id \in Identities(before) \cup Identities(after)
    PROVE  EntryOf(D!Index(after), D!Index(before), id)
             = Flipped(EntryOf(D!Index(before), D!Index(after), id))
<1>. DEFINE previous == D!Index(before)
            current == D!Index(after)
<1>1. /\ DOMAIN previous = Identities(before) /\ DOMAIN current = Identities(after)
      /\ \A i \in DOMAIN previous : previous[i] \in Row /\ previous[i].id = i
      /\ \A i \in DOMAIN current : current[i] \in Row /\ current[i].id = i
  BY RowsIndexed
<1>. HIDE DEF previous, current
<1>2. \A i, fields : /\ Flipped(D!Entry(i, "new", fields)) = D!Entry(i, "removed", fields)
                     /\ Flipped(D!Entry(i, "removed", fields)) = D!Entry(i, "new", fields)
  BY DEF Flipped, D!Entry
<1>3. \A i, fields, status : status \in {"changed", "unchanged"} =>
        Flipped(D!Entry(i, status, fields)) = D!Entry(i, status, fields)
  BY DEF Flipped, D!Entry
<1>4. CASE id \notin DOMAIN previous
  <2>1. id \in DOMAIN current
    BY <1>1, <1>4
  <2>2. /\ EntryOf(previous, current, id) = D!Entry(id, "new", {})
        /\ EntryOf(current, previous, id) = D!Entry(id, "removed", {})
    BY <1>4, <2>1 DEF EntryOf
  <2>. QED  BY <1>2, <2>2 DEF previous, current
<1>5. CASE id \notin DOMAIN current
  <2>1. id \in DOMAIN previous
    BY <1>1, <1>5
  <2>2. /\ EntryOf(previous, current, id) = D!Entry(id, "removed", {})
        /\ EntryOf(current, previous, id) = D!Entry(id, "new", {})
    BY <1>5, <2>1 DEF EntryOf
  <2>. QED  BY <1>2, <2>2 DEF previous, current
<1>6. CASE id \in DOMAIN previous /\ id \in DOMAIN current
  <2>. DEFINE old == previous[id]
              new == current[id]
  <2>1. DOMAIN old.material = DOMAIN new.material
    BY <1>1, <1>6, RowAssumption
  <2>2. D!ChangedFields(old, new) = D!ChangedFields(new, old)
    BY <2>1 DEF D!ChangedFields
  <2>3. D!StatusOf(old, new) = D!StatusOf(new, old)
        /\ D!StatusOf(old, new) \in {"changed", "unchanged"}
    BY <2>2 DEF D!StatusOf
  <2>4. EntryOf(current, previous, id)
          = D!Entry(id, D!StatusOf(new, old), D!ChangedFields(new, old))
    BY <1>6 DEF EntryOf
  <2>5. EntryOf(previous, current, id)
          = D!Entry(id, D!StatusOf(old, new), D!ChangedFields(old, new))
    BY <1>6 DEF EntryOf
  <2>. HIDE DEF old, new
  <2>. QED  BY <1>3, <2>2, <2>3, <2>4, <2>5 DEF previous, current
<1>. QED  BY <1>4, <1>5, <1>6 DEF previous, current

LEMMA CollectionFlipped ==
    ASSUME NEW before \in Seq(Row), NEW after \in Seq(Row)
    PROVE  /\ D!DiffCollection(after, before)
                = {Flipped(e) : e \in D!DiffCollection(before, after)}
           /\ {e \in D!DiffCollection(after, before) : e.status = "changed"}
                = {e \in D!DiffCollection(before, after) : e.status = "changed"}
<1>. DEFINE ids == Identities(before) \cup Identities(after)
            There(id) == EntryOf(D!Index(before), D!Index(after), id)
            Back(id) == EntryOf(D!Index(after), D!Index(before), id)
            there == D!DiffCollection(before, after)
            back == D!DiffCollection(after, before)
<1>0. DOMAIN D!Index(before) = Identities(before) /\ DOMAIN D!Index(after) = Identities(after)
  BY RowsIndexed
<1>1. there = {There(id) : id \in ids}
  BY <1>0, OneEntryEach
<1>2. back = {Back(id) : id \in ids}
  <2>1. back = {Back(id) : id \in Identities(after) \cup Identities(before)}
    BY <1>0, OneEntryEach
  <2>2. Identities(after) \cup Identities(before) = ids
    OBVIOUS
  <2>. HIDE DEF Back, back
  <2>. QED  BY <2>1, <2>2
<1>3. \A id \in ids : Back(id) = Flipped(There(id))
  BY EntryFlipped
<1>4. \A id : /\ There(id).status \in {"new", "changed", "removed", "unchanged"}
              /\ There(id) = D!Entry(There(id).id, There(id).status, There(id).changedFields)
  <2>1. \A id : There(id).status \in {"new", "changed", "removed", "unchanged"}
    BY OneEntryEach
  <2>2. \A id : \E status, fields : There(id) = D!Entry(id, status, fields)
    BY DEF EntryOf
  <2>3. \A id, status, fields : LET e == D!Entry(id, status, fields)
                                IN e = D!Entry(e.id, e.status, e.changedFields)
    BY DEF D!Entry
  <2>. HIDE DEF There
  <2>. QED  BY <2>1, <2>2, <2>3
<1>. HIDE DEF there, back, There, Back, ids
<1>5. back = {Flipped(e) : e \in there}
  BY <1>1, <1>2, <1>3
<1>6. \A id \in ids : /\ (Back(id).status = "changed" <=> There(id).status = "changed")
                      /\ There(id).status = "changed" => Back(id) = There(id)
  <2>1. ASSUME NEW e, e.status \in {"new", "changed", "removed", "unchanged"},
               e = D!Entry(e.id, e.status, e.changedFields)
        PROVE  /\ (Flipped(e).status = "changed" <=> e.status = "changed")
               /\ e.status = "changed" => Flipped(e) = e
    <3>. DEFINE turned == CASE e.status = "new" -> "removed"
                            [] e.status = "removed" -> "new"
                            [] OTHER -> e.status
    <3>1. turned = "changed" <=> e.status = "changed"
      BY <2>1
    <3>2. e.status = "changed" => turned = e.status
      OBVIOUS
    <3>3. Flipped(e) = [e EXCEPT !.status = turned]
      BY DEF Flipped
    <3>. HIDE DEF turned
    <3>4. "status" \in DOMAIN e /\ e = [x \in DOMAIN e |-> e[x]]
      BY <2>1 DEF D!Entry
    <3>5. Flipped(e).status = turned
      BY <3>3, <3>4
    <3>6. turned = e.status => [e EXCEPT !.status = turned] = e
      BY <3>4
    <3>. QED  BY <3>1, <3>2, <3>3, <3>5, <3>6
  <2>. QED  BY <1>3, <1>4, <2>1
<1>7. {e \in back : e.status = "changed"} = {e \in there : e.status = "changed"}
  BY <1>1, <1>2, <1>6
<1>. QED  BY <1>5, <1>7 DEF there, back

\* The same resources, seen more or less often.
LEMMA RecountedUnchanged ==
    ASSUME NEW before \in Seq(Row)
    PROVE  LET recounted == [i \in DOMAIN before |-> [before[i] EXCEPT !.volume = 1 - @]]
           IN Cardinality({e \in D!DiffCollection(before, recounted) : e.status = "unchanged"})
                = Cardinality(Identities(before))
<1>. DEFINE size == Len(before)
            recounted == [i \in DOMAIN before |-> [before[i] EXCEPT !.volume = 1 - @]]
            previous == D!Index(before)
            current == D!Index(recounted)
            entries == D!DiffCollection(before, recounted)
            ids == Identities(before)
            Those(id) == {i \in 1..size : before[i].id = id}
            at(id) == IF Those(id) # {} THEN D!Min(Those(id)) ELSE 0
            f == [id \in ids |-> D!Entry(id, "unchanged", {})]
<1>1. size \in Nat /\ DOMAIN before = 1..size /\ \A i \in 1..size : before[i] \in Row
  OBVIOUS
<1>2. /\ recounted = [i \in 1..size |-> recounted[i]] /\ DOMAIN recounted = 1..size
      /\ Len(recounted) = size
  BY <1>1
<1>3. \A i \in 1..size : recounted[i].id = before[i].id
                      /\ recounted[i].material = before[i].material
  <2>1. SUFFICES ASSUME NEW i \in 1..size
                 PROVE  recounted[i].id = before[i].id
                        /\ recounted[i].material = before[i].material
    OBVIOUS
  <2>2. DOMAIN before[i] = {"id", "material", "volume"}
    BY <1>1, RowAssumption
  <2>3. recounted[i] = [before[i] EXCEPT !.volume = 1 - @]
    BY <1>1
  <2>. HIDE DEF recounted
  <2>. QED  BY <2>2, <2>3
<1>. HIDE DEF recounted
<1>4. ids = {before[i].id : i \in 1..size} /\ IsFiniteSet(ids)
  <2>1. ids = {before[i].id : i \in 1..size}
    BY <1>1 DEF Identities, ToSet
  <2>. QED  BY <2>1, RowsIndexed
<1>5. previous = [id \in ids |-> before[at(id)]]
  BY <1>1, <1>4 DEF D!Index, D!SelectInSeq
<1>6. current = [id \in ids |-> recounted[at(id)]]
  <2>1. {recounted[i].id : i \in DOMAIN recounted} = ids
    BY <1>2, <1>3, <1>4
  <2>2. \A id : {i \in 1..Len(recounted) : recounted[i].id = id} = Those(id)
    BY <1>2, <1>3
  <2>3. \A id : D!SelectInSeq(recounted, LAMBDA x : x.id = id) = at(id)
    BY <2>2 DEF D!SelectInSeq
  <2>. HIDE DEF at, ids
  <2>. QED  BY <2>1, <2>3 DEF D!Index
<1>7. \A id \in ids : at(id) \in 1..size
  <2>1. ASSUME NEW id \in ids PROVE at(id) \in 1..size
    <3>1. Those(id) \in SUBSET Nat /\ Those(id) # {}
      BY <1>1, <1>4
    <3>2. \E x \in Those(id) : \A y \in Those(id) : x <= y
      BY <3>1, LeastOf
    <3>3. D!Min(Those(id)) \in Those(id)
      BY <3>2 DEF D!Min
    <3>. QED  BY <3>1, <3>3
  <2>. QED  BY <2>1
<1>. HIDE DEF previous, current, at, ids
<1>8. \A id \in ids : EntryOf(previous, current, id) = D!Entry(id, "unchanged", {})
  <2>1. SUFFICES ASSUME NEW id \in ids
                 PROVE  EntryOf(previous, current, id) = D!Entry(id, "unchanged", {})
    OBVIOUS
  <2>2. id \in DOMAIN previous /\ id \in DOMAIN current
        /\ previous[id].material = current[id].material
    BY <1>3, <1>5, <1>6, <1>7
  <2>3. D!ChangedFields(previous[id], current[id]) = {}
    BY <2>2 DEF D!ChangedFields
  <2>. QED  BY <2>2, <2>3 DEF EntryOf, D!StatusOf
<1>9. entries = {EntryOf(previous, current, id) : id \in ids}
  <2>1. DOMAIN previous \cup DOMAIN current = ids
    BY <1>5, <1>6
  <2>. QED  BY <2>1, OneEntryEach DEF previous, current
<1>10. entries = {D!Entry(id, "unchanged", {}) : id \in ids}
  BY <1>8, <1>9
<1>. HIDE DEF entries
<1>11. \A e \in entries : e.status = "unchanged"
  BY <1>10 DEF D!Entry
<1>12. {e \in entries : e.status = "unchanged"} = entries
  BY <1>11
<1>13. f \in Bijection(ids, entries)
  <2>1. f \in [ids -> entries]
    BY <1>10
  <2>2. \A a, b \in ids : f[a] = f[b] => a = b
    BY DEF D!Entry
  <2>3. \A e \in entries : \E id \in ids : f[id] = e
    BY <1>10
  <2>. QED  BY <2>1, <2>2, <2>3 DEF Bijection, Injection, Surjection, IsInjective
<1>14. ExistsBijection(ids, entries)
  BY <1>13 DEF ExistsBijection
<1>15. Cardinality(entries) = Cardinality(ids)
  BY <1>4, <1>14, FS_Bijection
<1>. QED  BY <1>12, <1>15 DEF entries, ids, recounted

LEMMA ComparedEitherWay ==
    ASSUME input.of = "scans" => input.before \in Seq(Row) /\ input.after \in Seq(Row)
    PROVE  ScansEitherWay
<1>. SUFFICES ASSUME input.of = "scans", input.before \in Seq(Row), input.after \in Seq(Row)
              PROVE  ScansEitherWay
  BY DEF ScansEitherWay
<1>. DEFINE before == input.before
            after == input.after
            recounted == [i \in DOMAIN before |-> [before[i] EXCEPT !.volume = 1 - @]]
            there == D!DiffScans(before, after, ByName)
            back == D!DiffScans(after, before, ByName)
<1>. HIDE DEF before, after
<1>0. before \in Seq(Row) /\ after \in Seq(Row)
  BY DEF before, after
<1>1. ToSet(back.entries) = {Flipped(e) : e \in ToSet(there.entries)}
  <2>1. ToSet(back.entries) = D!DiffCollection(after, before)
        /\ ToSet(there.entries) = D!DiffCollection(before, after)
    BY <1>0, EntriesListed
  <2>. QED  BY <1>0, <2>1, CollectionFlipped
<1>2. back.totals["changed"] = there.totals["changed"]
  <2>1. /\ back.totals["changed"]
             = Cardinality({e \in D!DiffCollection(after, before) : e.status = "changed"})
        /\ there.totals["changed"]
             = Cardinality({e \in D!DiffCollection(before, after) : e.status = "changed"})
    BY TotalsCount
  <2>2. {e \in D!DiffCollection(after, before) : e.status = "changed"}
          = {e \in D!DiffCollection(before, after) : e.status = "changed"}
    BY <1>0, CollectionFlipped
  <2>. QED  BY <2>1, <2>2
<1>3. D!DiffScans(before, recounted, ByName).totals["unchanged"] = Cardinality(Identities(before))
  <2>1. D!DiffScans(before, recounted, ByName).totals["unchanged"]
          = Cardinality({e \in D!DiffCollection(before, recounted) : e.status = "unchanged"})
    BY TotalsCount
  <2>2. Cardinality({e \in D!DiffCollection(before, recounted) : e.status = "unchanged"})
          = Cardinality(Identities(before))
    BY <1>0, RecountedUnchanged
  <2>. QED  BY <2>1, <2>2
<1>. QED  BY <1>1, <1>2, <1>3 DEF ScansEitherWay, ByName, Identities, before, after

-----------------------------------------------------------------------------
(***************************************************************************)
(* The inputs that are posed: matrices of rules as model.ts records them,  *)
(* with a caller or with what operators decided; recommendations for a     *)
(* request; rules for a payload; arms with keys of their own order; rules  *)
(* and groups of robots.txt; the rows of two scans; and requests in the    *)
(* order of their times.                                                   *)
(***************************************************************************)
Posed ==
    /\ input.of = "policy" => /\ input.rules \subseteq Rule
                              /\ Activity(input.activity)
    /\ input.of = "advice" => /\ input.rules \subseteq Rule
                              /\ OneEach(input.overrides)
    /\ input.of = "request" => input.recommendations \in Seq(Recommendation)
    /\ input.of = "payload" => /\ input.payload \in Payload
                               /\ input.config.rules \in Seq(RedactionRule)
    /\ input.of = "variants" => Keyed(input.variants)
    /\ input.of = "robots" => RobotsPosed
    /\ input.of = "scans" => input.before \in Seq(Row) /\ input.after \in Seq(Row)
    /\ input.of = "requests" => /\ input.requests \in Seq([key : Key, at : Nat])
                                /\ Timed(input.requests)

LEMMA RulesDrawn ==
    ASSUME NEW s \in UpTo(Rule, MaxRules)
    PROVE  ToSet(s) \subseteq Rule
<1>1. PICK k \in 0..MaxRules : s \in [1..k -> Rule]
  BY DEF UpTo
<1>. QED  BY <1>1 DEF ToSet

LEMMA SequenceDrawn ==
    ASSUME NEW S, NEW n, NEW s \in UpTo(S, n)
    PROVE  s \in Seq(S)
<1>1. PICK k \in 0..n : s \in [1..k -> S]
  BY DEF UpTo
<1>2. k \in Nat
  OBVIOUS
<1>. QED  BY <1>1, <1>2

LEMMA InitPosed == Init => Posed
BY DEF Init, Posed

LEMMA StepPosed == Posed /\ Kept /\ [Next]_input => Posed'
<1>. SUFFICES ASSUME Posed, Kept, [Next]_input
              PROVE  Posed'
  OBVIOUS
<1>1. CASE AskPolicy
  <2>1. PICK rules \in {ToSet(s) : s \in UpTo(Rule, MaxRules)}, asserted \in SUBSET Condition,
             age \in {TRUE, FALSE, NoValue}, derived \in BOOLEAN :
          input' = [of |-> "policy", rules |-> rules,
                    activity |-> [jurisdictions |-> {}, actors |-> {"controller"}, asOf |-> 1,
                                  purposes |-> {"ads"}, dataCategories |-> {}, contexts |-> {},
                                  asserted |-> asserted, subjectIsChild |-> age,
                                  includeDerived |-> derived]]
    BY <1>1 DEF AskPolicy
  <2>2. rules \subseteq Rule
    BY RulesDrawn
  <2>3. input'.of = "policy" /\ input'.rules = rules /\ Activity(input'.activity)
    BY <2>1 DEF Activity
  <2>. QED  BY <2>2, <2>3 DEF Posed
<1>2. CASE AskAdvice
  <2>1. PICK rules \in {ToSet(s) : s \in UpTo(Rule, MaxRules)}, overrides \in SUBSET Override :
          /\ \A o, q \in overrides : o.vendor = q.vendor => o = q
          /\ input' = [of |-> "advice", rules |-> rules, overrides |-> overrides]
    BY <1>2 DEF AskAdvice
  <2>2. rules \subseteq Rule
    BY RulesDrawn
  <2>. QED  BY <2>1, <2>2 DEF Posed, OneEach
<1>3. CASE SendRequest
  <2>1. PICK recommendations \in UpTo(Recommendation, 2) :
             input'.of = "request" /\ input'.recommendations = recommendations
    BY <1>3 DEF SendRequest
  <2>2. recommendations \in Seq(Recommendation)
    BY SequenceDrawn
  <2>. QED  BY <2>1, <2>2 DEF Posed
<1>4. CASE SendPayload
  <2>1. PICK payload \in Payload, rules \in UpTo(RedactionRule, 2) :
             /\ input'.of = "payload" /\ input'.payload = payload
             /\ input'.config.rules = rules
    BY <1>4 DEF SendPayload
  <2>2. rules \in Seq(RedactionRule)
    BY SequenceDrawn
  <2>. QED  BY <2>1, <2>2 DEF Posed
<1>5. CASE SubmitVariants
  <2>1. PICK n \in 2..Len(KeyOrder) :
        \E keys \in [1..n -> ToSet(KeyOrder)], allocations \in [1..n -> 0..Whole], blank \in 0..n :
          input' = [of |-> "variants",
                    variants |-> [i \in 1..n |->
                       [key |-> keys[i], allocation |-> allocations[i], isControl |-> i = 1,
                        text |-> [body |-> "copy", manage |-> NoValue,
                                  reject_all |-> IF i = blank THEN "blank" ELSE NoValue]]]]
    BY <1>5 DEF SubmitVariants
  <2>2. PICK keys \in [1..n -> ToSet(KeyOrder)], allocations \in [1..n -> 0..Whole],
             blank \in 0..n :
          input' = [of |-> "variants",
                    variants |-> [i \in 1..n |->
                       [key |-> keys[i], allocation |-> allocations[i], isControl |-> i = 1,
                        text |-> [body |-> "copy", manage |-> NoValue,
                                  reject_all |-> IF i = blank THEN "blank" ELSE NoValue]]]]
    BY <2>1
  <2>. DEFINE variants == [i \in 1..n |->
                             [key |-> keys[i], allocation |-> allocations[i], isControl |-> i = 1,
                              text |-> [body |-> "copy", manage |-> NoValue,
                                        reject_all |-> IF i = blank THEN "blank" ELSE NoValue]]]
  <2>3. input'.of = "variants" /\ input'.variants = variants
    BY <2>2
  <2>4. n \in Nat /\ \A i \in 1..n : keys[i] \in ToSet(KeyOrder) /\ allocations[i] \in Nat
    <3>1. n \in Nat /\ 0..Whole \subseteq Nat
      OBVIOUS
    <3>. QED  BY <3>1
  <2>5. Len(variants) = n /\ variants = [i \in 1..n |-> variants[i]]
    BY <2>4
  <2>6. \A i \in 1..n : variants[i].key = keys[i] /\ variants[i].allocation = allocations[i]
    OBVIOUS
  <2>. HIDE DEF variants
  <2>7. Keyed(variants)
    BY <2>4, <2>5, <2>6 DEF Keyed, Arms
  <2>. QED  BY <2>3, <2>7 DEF Posed
<1>6. CASE ReadRobots
  <2>1. input'.of = "robots"
    BY <1>6 DEF ReadRobots
  <2>2. /\ input'.rules \in Seq(RobotsRule)
        /\ \/ input'.groups = << >>
           \/ input'.groups \in [1..2 -> [agents : (SUBSET AgentNames) \ {{}}, rule : RobotsRule]]
    <3>1. CASE \E rules \in UpTo(RobotsRule, 3) :
                 input' = [of |-> "robots", rules |-> rules, groups |-> << >>]
      BY <3>1, SequenceDrawn
    <3>2. CASE \E groups \in [1..2 -> [agents : (SUBSET AgentNames) \ {{}}, rule : RobotsRule]] :
                 input' = [of |-> "robots", rules |-> << >>, groups |-> groups]
      <4>1. << >> \in Seq(RobotsRule)
        OBVIOUS
      <4>. QED  BY <3>2, <4>1
    <3>. QED  BY <1>6, <3>1, <3>2 DEF ReadRobots
  <2>. QED  BY <2>1, <2>2 DEF Posed, RobotsPosed
<1>7. CASE CompareScans
  <2>1. PICK before \in UpTo(Row, MaxRows), after \in UpTo(Row, MaxRows) :
          input' = [of |-> "scans", before |-> before, after |-> after]
    BY <1>7 DEF CompareScans
  <2>2. before \in Seq(Row) /\ after \in Seq(Row)
    BY SequenceDrawn
  <2>. QED  BY <2>1, <2>2 DEF Posed
<1>8. CASE ReceiveRequest
  <2>. DEFINE so_far == IF input.of = "none" THEN << >> ELSE input.requests
              last == IF so_far = << >> THEN 0 ELSE Last(so_far).at
  <2>1. PICK key \in Key, gap \in 0..MaxGap :
          input' = [of |-> "requests",
                    requests |-> Append(so_far, [key |-> key, at |-> last + gap])]
    BY <1>8 DEF ReceiveRequest
  <2>2. so_far \in Seq([key : Key, at : Nat]) /\ Timed(so_far)
    <3>1. << >> \in Seq([key : Key, at : Nat]) /\ Timed(<< >>)
      BY DEF Timed
    <3>. QED  BY <1>8, <3>1 DEF ReceiveRequest, Posed
  <2>. HIDE DEF so_far
  <2>3. last \in Nat /\ (so_far # << >> => last = Last(so_far).at)
    <3>1. ASSUME so_far # << >>
          PROVE  Last(so_far).at \in Nat
      BY <2>2, <3>1 DEF Last, Timed
    <3>. QED  BY <3>1
  <2>4. [key |-> key, at |-> last + gap] \in [key : Key, at : Nat] /\ last + gap >= last
    BY <2>3
  <2>. HIDE DEF last
  <2>5. LET s == Append(so_far, [key |-> key, at |-> last + gap])
        IN s \in Seq([key : Key, at : Nat]) /\ Timed(s)
    BY <2>2, <2>3, <2>4, TimedAppended
  <2>6. input'.of = "requests"
        /\ input'.requests = Append(so_far, [key |-> key, at |-> last + gap])
    BY <2>1
  <2>. QED  BY <2>5, <2>6 DEF Posed, Timed
<1>9. CASE Deploy \/ Decide \/ Tamper
  <2>1. input'.of = "proofs"
    <3>1. CASE input.of = "none"
      BY <1>9, <3>1 DEF Deploy, Decide, Tamper
    <3>2. CASE input.of = "proofs"
      <4>1. "of" \in DOMAIN input
        BY <3>2 DEF Kept
      <4>. QED  BY <1>9, <3>2, <4>1 DEF Deploy, Decide, Tamper
    <3>. QED  BY <1>9, <3>1, <3>2 DEF Deploy, Decide, Tamper
  <2>. QED  BY <2>1 DEF Posed
<1>10. CASE UNCHANGED input
  BY <1>10 DEF Posed, RobotsPosed
<1>. QED  BY <1>1, <1>2, <1>3, <1>4, <1>5, <1>6, <1>7, <1>8, <1>9, <1>10 DEF Next

LEMMA AlwaysPosed == Spec => []Posed
BY InitPosed, StepPosed, AlwaysKept, PTL DEF Spec

LEMMA PosedNeverLooser == Posed => WiderNeverLooser
<1>. SUFFICES ASSUME Posed
              PROVE  WiderNeverLooser
  OBVIOUS
<1>1. ASSUME input.of = "policy", NEW wide \in SUBSET Signal, NEW narrow \in SUBSET wide
      PROVE  \/ Silent(DecisionFor(narrow).decision)
             \/ Rank(DecisionFor(wide).decision.outcome)
                  <= Rank(DecisionFor(narrow).decision.outcome)
  <2>1. Matrix(input.rules) /\ Activity(input.activity)
    BY <1>1, MatrixAssumption DEF Posed, Matrix
  <2>2. {} \in SUBSET {}
    OBVIOUS
  <2>. QED  BY <2>1, <2>2, WiderIsNoLooser DEF DecisionFor
<1>2. ASSUME input.of = "advice", NEW wide \in SUBSET Signal, NEW narrow \in SUBSET wide
      PROVE  Grows(narrow, wide)
  <2>1. Matrix(input.rules)
    BY <1>2, MatrixAssumption DEF Posed, Matrix
  <2>2. Where(narrow) \in SUBSET Where(wide)
    BY DEF Where, Jurisdictions
  <2>3. LET n == GeneratePolicy(Where(narrow), input.rules, Technology, input.overrides, {}, 1)
            w == GeneratePolicy(Where(wide), input.rules, Technology, input.overrides, {}, 1)
        IN /\ \A few \in n.recommendations : \E many \in w.recommendations :
                /\ many.vendor = few.vendor
                /\ IF few.overridden THEN many.action = few.action
                   ELSE Strictness(few.action) <= Strictness(many.action)
           /\ AvailableRights(Where(narrow), input.rules, 1).indicated
                \subseteq AvailableRights(Where(wide), input.rules, 1).indicated
    BY <2>1, <2>2, WiderAdviceIsNoLooser
  <2>. QED  BY <2>3 DEF Grows, NoneLooser, Offered, Advice
<1>. QED  BY <1>1, <1>2 DEF WiderNeverLooser

(***************************************************************************)
(* "Union, not winner-take-all" (policy/resolve.ts:9), as it is asked of   *)
(* the engine and of what is made of its answers: one more observation of  *)
(* where the visitor is never loosens a verdict some rule gave, nor what   *)
(* is recommended for a vendor no operator decided about, nor takes a      *)
(* control away.                                                           *)
(***************************************************************************)
THEOREM WiderNeverLoosens == Spec => []WiderNeverLooser
BY AlwaysPosed, PosedNeverLooser, PTL

LEMMA PosedPermits ==
    ASSUME Posed
    PROVE  PolicyPositivelyPermits
<1>1. ASSUME input.of = "policy", NEW signals \in SUBSET Signal,
             DecisionFor(signals).decision.outcome = "ALLOW"
      PROVE  LET answer == DecisionFor(signals)
             IN /\ answer.decision.open = {} /\ answer.decision.obligations = {}
                /\ \E rule \in input.rules :
                     Exempting(rule, answer.resolution.jurisdictions)
                /\ answer.decision.regimes
                     \subseteq answer.resolution.regimes \cup answer.resolution.derivedRegimes
  <2>. DEFINE answer == DecisionFor(signals)
  <2>1. Matrix(input.rules) /\ Activity(input.activity)
    BY <1>1, MatrixAssumption DEF Posed, Matrix
  <2>2. answer = ResolveContext(signals, {}, input.activity, Regions, input.rules)
    BY DEF DecisionFor
  <2>. HIDE DEF answer
  <2>3. answer.decision.outcome = "ALLOW"
    BY <1>1 DEF answer
  <2>4. /\ answer.decision.open = {} /\ answer.decision.obligations = {}
        /\ \E rule \in input.rules :
              /\ ExemptsGate(rule, input.activity)
              /\ rule.regions \cap answer.resolution.jurisdictions # {}
        /\ answer.decision.regimes
              \subseteq answer.resolution.regimes \cup answer.resolution.derivedRegimes
    BY <2>1, <2>2, <2>3, OnlyPermissionAllows
  <2>5. \A rule : ExemptsGate(rule, input.activity)
                  /\ rule.regions \cap answer.resolution.jurisdictions # {}
                    => Exempting(rule, answer.resolution.jurisdictions)
    BY DEF ExemptsGate, Exempting
  <2>. QED  BY <2>4, <2>5 DEF answer
<1>. QED  BY <1>1 DEF PolicyPositivelyPermits

\* A vendor an operator decided about has one line, unless it was seen twice.
LEMMA OneLineEach ==
    ASSUME NEW decision, NEW overrides, OneEach(overrides), NEW o \in overrides,
           ~SeenTwice(o.vendor)
    PROVE  \A l, m \in Advised(decision, Technology, overrides) :
             l.vendor = o.vendor /\ m.vendor = o.vendor => l = m
<1>1. ASSUME NEW l \in Advised(decision, Technology, overrides), l.vendor = o.vendor
      PROVE  \/ \E t \in Technology : t.vendor = o.vendor /\ l = Seen(t, decision, overrides)
             \/ /\ \A t \in Technology : t.vendor # o.vendor
                /\ l = CarriedOn([vendor |-> o.vendor, category |-> "unclassified",
                                  confidence |-> "low"], decision, overrides)
  <2>1. CASE \E t \in Technology : l = Seen(t, decision, overrides)
    <3>1. PICK t \in Technology : l = Seen(t, decision, overrides)
      BY <2>1
    <3>2. l.vendor = t.vendor
      BY <3>1, OneLine DEF LineSays
    <3>. QED  BY <1>1, <3>1, <3>2
  <2>2. CASE \E t \in Unseen(overrides, Technology) : l = CarriedOn(t, decision, overrides)
    <3>1. PICK t \in Unseen(overrides, Technology) : l = CarriedOn(t, decision, overrides)
      BY <2>2
    <3>2. l.vendor = t.vendor
      BY <3>1, OneLine DEF LineSays
    <3>3. PICK q \in overrides :
             /\ t = [vendor |-> q.vendor, category |-> "unclassified", confidence |-> "low"]
             /\ \A s \in Technology : s.vendor # q.vendor
      BY DEF Unseen
    <3>4. q.vendor = o.vendor
      BY <1>1, <3>2, <3>3
    <3>. QED  BY <3>1, <3>3, <3>4
  <2>. QED  BY <2>1, <2>2 DEF Advised
<1>2. \A s, t \in Technology : s.vendor = o.vendor /\ t.vendor = o.vendor => s = t
  BY DEF SeenTwice
<1>. QED  BY <1>1, <1>2

LEMMA PosedAdvises ==
    ASSUME Posed
    PROVE  AdviceNeverPermits
<1>1. ASSUME input.of = "advice", NEW signals \in SUBSET Signal
      PROVE  LET lines == Advice(signals).recommendations
                 decision == Evaluate(WebsiteContext(Where(signals), {}, 1), input.rules)
             IN /\ \A o \in input.overrides :
                     LET of == {l \in lines : l.vendor = o.vendor}
                     IN /\ {<<l.action, l.purpose>> : l \in of} = {<<o.action, o.purpose>>}
                        /\ Cardinality(of) = 1 \/ SeenTwice(o.vendor)
                /\ \A l \in lines : l.action = "allow" =>
                     l.overridden \/ \E t \in Technology :
                                       t.vendor = l.vendor /\ t.category \in Essential
                /\ Silent(decision) => Offered(signals) \subseteq {"complaint"}
  <2>. DEFINE found == Evaluate(WebsiteContext(Where(signals),
                                  {"cookies", "terminal_equipment", "tracking"}, 1), input.rules)
              lines == Advice(signals).recommendations
              decision == Evaluate(WebsiteContext(Where(signals), {}, 1), input.rules)
  <2>1. Matrix(input.rules) /\ OneEach(input.overrides)
    BY <1>1, MatrixAssumption DEF Posed, Matrix
  <2>2. lines = PolicyUnder(found, Technology, input.overrides, {}).recommendations
    BY DEF Advice, GeneratePolicy
  <2>3. lines = Advised(found, Technology, input.overrides)
    BY <2>2, PolicyIsAdvice
  <2>. HIDE DEF lines, found
  <2>4. /\ \A o \in input.overrides :
             /\ \E l \in lines : l.vendor = o.vendor
             /\ \A l \in lines : l.vendor = o.vendor => l.action = o.action /\ l.purpose = o.purpose
        /\ \A l \in lines : l.action = "allow" /\ ~l.overridden =>
             \E t \in Technology : t.vendor = l.vendor /\ t.category \in Essential
    BY <2>1, <2>2, OverridesAlwaysWin
  <2>5. ASSUME NEW o \in input.overrides
        PROVE  LET of == {l \in lines : l.vendor = o.vendor}
               IN /\ {<<l.action, l.purpose>> : l \in of} = {<<o.action, o.purpose>>}
                  /\ Cardinality(of) = 1 \/ SeenTwice(o.vendor)
    <3>. DEFINE of == {l \in lines : l.vendor = o.vendor}
    <3>1. PICK l \in of : TRUE
      BY <2>4
    <3>2. \A m \in of : m.action = o.action /\ m.purpose = o.purpose
      BY <2>4
    <3>3. {<<m.action, m.purpose>> : m \in of} = {<<o.action, o.purpose>>}
      <4>. HIDE DEF of
      <4>. QED  BY <3>1, <3>2
    <3>4. ASSUME ~SeenTwice(o.vendor)
          PROVE  Cardinality(of) = 1
      <4>1. \A m \in of : m = l
        BY <2>1, <2>3, <3>1, <3>4, OneLineEach
      <4>2. of = {l}
        <5>. HIDE DEF of
        <5>. QED  BY <3>1, <4>1
      <4>. QED  BY <4>2, FS_Singleton
    <3>. QED  BY <3>3, <3>4
  <2>6. Silent(decision) => Offered(signals) \subseteq {"complaint"}
    <3>1. NoValue # FALSE
      BY NullAssumption
    <3>. QED  BY <2>1, <3>1, SilenceOffersNothing DEF Offered
  <2>. QED  BY <2>4, <2>5, <2>6 DEF lines
<1>. QED  BY <1>1 DEF AdviceNeverPermits

(***************************************************************************)
(* Nothing that is missing permits anything.  No answer of the engine, no  *)
(* line of advice and no control is given where no rule or operator says   *)
(* so (policy/evaluate.ts:12-14, api/lib/autopilot.ts:18-36, api/lib/      *)
(* rights.ts:162-166); nothing leaves for a host every enforced vendor of  *)
(* which is blocked or gated by what was not granted (shared/consent-      *)
(* firewall.ts:96-187); and of what leaves, nothing lies under a key a     *)
(* rule declares but what the rule put there (shared/redaction.ts:15-20):  *)
(* for every matrix, every set of recommendations and every body the walk  *)
(* comes to the end of.                                                    *)
(***************************************************************************)
THEOREM SilencePermitsNothing ==
    ASSUME NullIsNoFunction
    PROVE  Spec => []SilenceNeverPermits
<1>1. Posed => PolicyPositivelyPermits /\ AdviceNeverPermits
  BY PosedPermits, PosedAdvises
<1>2. Posed => NothingLeavesUngranted /\ DeclaredFieldsStay
  BY NothingLeaves, DeclaredStays DEF Posed
<1>3. Posed => SilenceNeverPermits
  BY <1>1, <1>2 DEF SilenceNeverPermits
<1>. QED  BY <1>3, AlwaysPosed, PTL

(***************************************************************************)
(* The rate limiter keeps its promises however many keys ask, in whatever  *)
(* order and at whatever times: its table stays within MAX_TRACKED_KEYS, a *)
(* key is refused only after rule.limit of its requests were let through   *)
(* within rule.windowMs, and no span of one window's length lets twice the *)
(* limit through unless live windows were evicted in it (api/lib/rate-     *)
(* limit.ts:94-150).                                                       *)
(***************************************************************************)
THEOREM WindowsAlwaysHold == Spec => []WindowsHold
<1>1. Posed => WindowsHold
  <2>. SUFFICES ASSUME input.of = "requests", Timed(input.requests)
                PROVE  WindowsHold
    BY DEF Posed, WindowsHold
  <2>. DEFINE requests == input.requests
  <2>. QED  BY TimedHolds DEF WindowsHold
<1>. QED  BY <1>1, AlwaysPosed, PTL

(***************************************************************************)
(* What must not matter does not, for any number of arms, rules and rows:  *)
(* an experiment that validates gives every arm its share of the buckets   *)
(* in whatever order the arms come, and hides no words of refusal (shared/ *)
(* experiment.ts:316-345, sdk/src/experiment.ts); the order of robots.txt  *)
(* rules, and of the group that names the scanner and the other, does not  *)
(* decide what may be fetched (crawler/src/robots.ts:55-147); and two scans*)
(* differ by the same resources whichever is first, and not by how often   *)
(* these were seen (crawler/src/diff.ts:190-262).                          *)
(***************************************************************************)
THEOREM OrderNeverDecides == Spec => []OrderDecidesNothing
<1>1. Posed => ArmsHoldTheirShares
  BY ArmsHold DEF Posed
<1>2. Posed => RulesInAnyOrder
  BY AnyOrderOfRules DEF Posed
<1>3. Posed => ScansEitherWay
  BY ComparedEitherWay DEF Posed
<1>4. Posed => OrderDecidesNothing
  BY <1>1, <1>2, <1>3 DEF OrderDecidesNothing
<1>. QED  BY <1>4, AlwaysPosed, PTL
=============================================================================
