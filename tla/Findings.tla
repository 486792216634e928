------------------------------ MODULE Findings ------------------------------
(***************************************************************************)
(* What the intelligence endpoints find by holding a scan against the      *)
(* approved configuration (api/lib/intelligence.ts): what runs without     *)
(* being accounted for, and what changed since the scan before.            *)
(*                                                                         *)
(* A technology is [id, name, category], a request [host, third], a        *)
(* component seen by real browsers [host, third, vendor, category, page],  *)
(* a recommendation [id, vendor, action, purpose]; all of them come in     *)
(* sequences.  Evidence and remedies are wording.                          *)
(***************************************************************************)
EXTENDS Integers, Sequences, SequencesExt

CONSTANTS
    NoValue,   \* null
    SpeltIn    \* {<<name, host>>}: the host contains the name in small letters, blanks left out

Infrastructure == {"cdn", "fonts", "hosting", "security", "consent_management"}
GatedActions == {"require_consent", "block"}

FirstOf(s, Test(_)) == LET i == SelectInSeq(s, Test) IN IF i = 0 THEN NoValue ELSE s[i]

(* Mutant: only the id is looked at. *)
RecommendationById(approved, id, vendor) == FirstOf(approved, LAMBDA r : r.id = id)

(* recommendationFor: by detector id, else by the vendor's name. *)
RecommendationFor(approved, id, vendor) ==
    LET byId == FirstOf(approved, LAMBDA r : r.id = id)
    IN IF byId # NoValue \/ vendor = NoValue THEN byId
       ELSE FirstOf(approved, LAMBDA r : r.vendor = vendor)

SeverityFor(reason) ==
    CASE reason = "blocked_but_observed" -> "critical"
      [] reason \in {"not_configured", "no_purpose"} -> "medium"
      [] reason = "unclassified_behaviour" -> "low"

(* Both lists end sorted, the worst first; where the code goes on to sort  *)
(* shadow trackers of one severity by host, they stay as found here.       *)
WorstFirst(findings) ==
    LET order == <<"critical", "high", "medium", "low", "info">>
    IN FlattenSeq([i \in DOMAIN order |-> SelectSeq(findings, LAMBDA f : f.severity = order[i])])

-----------------------------------------------------------------------------
TechnologyReason(tech, rec) ==
    IF rec = NoValue
    THEN IF tech.category = "unclassified" THEN "unclassified_behaviour"
         ELSE IF tech.category \in Infrastructure THEN NoValue ELSE "not_configured"
    ELSE IF rec.action = "block" THEN "blocked_but_observed"
    ELSE IF rec.action \in GatedActions /\ rec.purpose = NoValue THEN "no_purpose"
    ELSE NoValue

RuntimeReason(component, rec) ==
    IF ~component.third \/ component.category \in Infrastructure THEN NoValue
    ELSE IF rec = NoValue
    THEN IF component.vendor = NoValue THEN "unclassified_behaviour" ELSE "not_configured"
    ELSE IF rec.action = "block" THEN "blocked_but_observed" ELSE NoValue

(* A technology is given the first third-party host that spells its name.  *)
ScanFinding(tech, input) ==
    LET rec == RecommendationFor(input.approved, tech.id, tech.name)
        reason == TechnologyReason(tech, rec)
        request == FirstOf(input.results.requests,
                           LAMBDA r : r.third /\ <<tech.name, r.host>> \in SpeltIn)
    IN IF reason = NoValue THEN << >>
       ELSE <<[id |-> tech.id, host |-> IF request = NoValue THEN tech.name ELSE request.host,
               vendor |-> IF rec = NoValue THEN tech.name ELSE rec.vendor,
               reason |-> reason, severity |-> SeverityFor(reason), pages |-> << >>]>>

RuntimeFinding(component, input) ==
    LET rec == RecommendationFor(input.approved, component.host, component.vendor)
        reason == RuntimeReason(component, rec)
    IN IF reason = NoValue THEN << >>
       ELSE <<[id |-> component.host, host |-> component.host, vendor |-> component.vendor,
               reason |-> reason, severity |-> SeverityFor(reason),
               pages |-> <<component.page>>]>>

OncePerId(findings) ==
    FoldLeft(LAMBDA kept, f : IF \E g \in ToSet(kept) : g.id = f.id THEN kept ELSE Append(kept, f),
             << >>, findings)

DetectShadowTrackers(input) ==
    LET technologies == IF input.results = NoValue THEN << >> ELSE input.results.technologies
        found == [i \in DOMAIN technologies |-> ScanFinding(technologies[i], input)]
                 \o [i \in DOMAIN input.runtime |-> RuntimeFinding(input.runtime[i], input)]
    IN WorstFirst(OncePerId(FlattenSeq(found)))

-----------------------------------------------------------------------------
Drift(kind, id, vendor, severity) ==
    [id |-> <<kind, id>>, kind |-> kind, host |-> vendor, vendor |-> vendor,
     pages |-> << >>, severity |-> severity]

Absent(technologies, id) == \A t \in ToSet(technologies) : t.id # id

Map(Op(_), s) == [i \in DOMAIN s |-> Op(s[i])]

Added(input, previous) ==
    Map(LAMBDA t : Drift("tracker_added", t.id, t.name,
                         IF RecommendationFor(input.approved, t.id, t.name) = NoValue
                         THEN "high" ELSE "medium"),
        SelectSeq(input.results.technologies, LAMBDA t : Absent(previous, t.id)))

Removed(input, previous) ==
    Map(LAMBDA t : Drift("tracker_removed", t.id, t.name, "info"),
        SelectSeq(previous, LAMBDA t : Absent(input.results.technologies, t.id)))

(* What one approved recommendation says of the site, found by id alone.   *)
PolicyDrift(rec, input, previous) ==
    LET observed == ~Absent(input.results.technologies, rec.id)
        When(condition, kind, severity) ==
            IF condition THEN <<Drift(kind, rec.id, rec.vendor, severity)>> ELSE << >>
    IN When(rec.action = "block" /\ observed, "blocked_still_active", "critical")
       \o When(rec.action \in GatedActions /\ rec.purpose = NoValue /\ observed,
               "consent_required_unconfigured", "high")
       \o When(~observed /\ input.baseline # NoValue /\ Absent(previous, rec.id),
               "policy_ahead_of_site", "low")

DetectDrift(input) ==
    IF input.results = NoValue THEN << >>
    ELSE LET previous == IF input.baseline = NoValue THEN << >> ELSE input.baseline.technologies
             changes == IF input.baseline = NoValue THEN << >>
                        ELSE Added(input, previous) \o Removed(input, previous)
         IN WorstFirst(changes \o FlattenSeq(Map(LAMBDA r : PolicyDrift(r, input, previous),
                                                 input.approved)))
=============================================================================
