----------------------------- MODULE Simulation -----------------------------
(***************************************************************************)
(* "What if" (api/lib/simulation.ts): a scenario's changes are made to a   *)
(* copy of the site's evidence, the policy engine and the intelligence     *)
(* engine run over it again, and what differs is reported.  Names are      *)
(* compared without case and stand in small letters here; scores of        *)
(* quality and the wording of findings are left out.                       *)
(***************************************************************************)
EXTENDS Integers, Sequences, SequencesExt

CONSTANTS NoValue, SpeltIn,
          Slug   \* the detector id autopilot gives to a name

P == INSTANCE Recommendations
I == INSTANCE Findings

Actions == {"allow", "require_consent", "block"}
Modes == {"off", "observe", "enforce"}

(* A change leaves what its operation does not need at NoValue. *)
Change(operation) ==
    [operation |-> operation, tracker |-> NoValue, vendor |-> NoValue, category |-> NoValue,
     jurisdiction |-> NoValue, action |-> NoValue, mode |-> NoValue]

CopyEvidence(evidence) ==
    [technologies |-> IF evidence.results = NoValue THEN << >>
                      ELSE [i \in DOMAIN evidence.results.technologies |->
                              [name |-> evidence.results.technologies[i].name,
                               category |-> evidence.results.technologies[i].category]],
     jurisdictions |-> evidence.jurisdictions, overrides |-> << >>, mode |-> NoValue,
     added |-> << >>, removed |-> << >>, unsupported |-> << >>]

Unsupported(h, change) == [h EXCEPT !.unsupported = Append(@, change)]

Named(h, name) == \E t \in ToSet(h.technologies) : t.name = name

(* Mutant: what is not there is taken out without a word. *)
RemovedSilently(h, change) ==
    [h EXCEPT !.technologies = SelectSeq(@, LAMBDA t : t.name # change.tracker)]

Removed(h, change) ==
    IF ~Named(h, change.tracker) THEN Unsupported(h, change)
    ELSE [h EXCEPT !.technologies = SelectSeq(@, LAMBDA t : t.name # change.tracker),
                   !.removed = Append(@, change.tracker)]

Reclassified(h, change) ==
    IF ~Named(h, change.tracker) THEN Unsupported(h, change)
    ELSE [h EXCEPT !.technologies =
             [i \in DOMAIN @ |-> IF @[i].name = change.tracker
                                 THEN [@[i] EXCEPT !.category = change.category] ELSE @[i]]]

Added(h, change) ==
    LET name == IF change.vendor = NoValue THEN change.tracker ELSE change.vendor
    IN [h EXCEPT !.technologies = Append(@, [name |-> name, category |-> change.category]),
                 !.added = Append(@, name)]

(* What an operation cannot do without. *)
Complete(change) ==
    CASE change.operation \in {"add_tracker", "reclassify_tracker"} ->
           change.tracker # NoValue /\ change.category # NoValue
      [] change.operation = "remove_tracker" -> change.tracker # NoValue
      [] change.operation \in {"add_jurisdiction", "remove_jurisdiction"} ->
           change.jurisdiction # NoValue
      [] change.operation = "set_enforcement" ->
           change.tracker # NoValue /\ change.action \in Actions
      [] change.operation = "set_enforcement_mode" -> change.mode \in Modes
      [] OTHER -> FALSE

Apply(h, change) ==
    IF ~Complete(change) THEN Unsupported(h, change) ELSE
    CASE change.operation = "add_tracker" -> Added(h, change)
      [] change.operation = "remove_tracker" -> Removed(h, change)
      [] change.operation = "reclassify_tracker" -> Reclassified(h, change)
      [] change.operation = "add_jurisdiction" ->
           [h EXCEPT !.jurisdictions = IF change.jurisdiction \in ToSet(@) THEN @
                                       ELSE Append(@, change.jurisdiction)]
      [] change.operation = "remove_jurisdiction" ->
           [h EXCEPT !.jurisdictions = SelectSeq(@, LAMBDA j : j # change.jurisdiction)]
      [] change.operation = "set_enforcement" ->
           [h EXCEPT !.overrides = Append(@, <<change.tracker, change.action>>)]
      [] change.operation = "set_enforcement_mode" -> [h EXCEPT !.mode = change.mode]

-----------------------------------------------------------------------------
(* generatePolicy over an inventory, with no operator's decisions.  How    *)
(* confident a line is plays no part in what follows.                      *)
Identified(line) ==
    [id |-> Slug[line.vendor], vendor |-> line.vendor, action |-> line.action,
     purpose |-> line.purpose]

Policy(technologies, jurisdictions, rules) ==
    LET context == P!WebsiteContext(ToSet(jurisdictions),
                                    {"cookies", "terminal_equipment", "tracking"}, 1)
        requirement == P!ConsentRequirement(P!Evaluate(context, rules))
        Line(t) == P!BuildOne([vendor |-> t.name, category |-> t.category, confidence |-> "low"],
                              TRUE, {}, requirement)
    IN [i \in DOMAIN technologies |-> Identified(Line(technologies[i]))]

(* The last action set under a vendor's name, else under its id, is laid   *)
(* over what the engine says.                                              *)
Overridden(rec, overrides) ==
    LET SetFor(key) == SelectLastInSeq(overrides, LAMBDA o : o[1] = key)
        at == IF SetFor(rec.vendor) # 0 THEN SetFor(rec.vendor) ELSE SetFor(rec.id)
    IN IF at = 0 THEN rec ELSE [rec EXCEPT !.action = overrides[at][2]]

AllOverridden(policy, overrides) ==
    [i \in DOMAIN policy |-> Overridden(policy[i], overrides)]

ActionsIn(recs) == [v \in {r.vendor : r \in ToSet(recs)} |->
                      recs[SelectLastInSeq(recs, LAMBDA r : r.vendor = v)].action]

Gating(recs) == Len(SelectSeq(recs, LAMBDA r : r.action \in I!GatedActions))

(* What is told of the inventory h and the policy recs a scenario leads to. *)
Compared(evidence, h, recs) ==
    LET Under(approved) == [results |-> evidence.results, baseline |-> evidence.baseline,
                            runtime |-> evidence.runtime, approved |-> approved]
        before == ActionsIn(evidence.approved)
        known == {f.id : f \in ToSet(I!DetectShadowTrackers(Under(evidence.approved)))}
        Was(vendor) == IF vendor \in DOMAIN before THEN before[vendor] ELSE NoValue
        requirements == SelectSeq([i \in DOMAIN recs |->
                                     [vendor |-> recs[i].vendor, from |-> Was(recs[i].vendor),
                                      to |-> recs[i].action]],
                                  LAMBDA r : r.from # r.to)
    IN [recommendations |-> recs,
        unsupported |-> h.unsupported, added |-> h.added, removed |-> h.removed,
        trackers |-> Len(h.technologies) - Len(CopyEvidence(evidence).technologies),
        requirements |-> requirements,
        purposes |-> {r.purpose : r \in {q \in ToSet(recs) :
                        q.vendor \notin DOMAIN before
                        \/ \E x \in ToSet(requirements) : x.vendor = q.vendor}} \ {NoValue},
        jurisdictions |-> h.jurisdictions,
        enforcement |-> IF h.mode # NoValue THEN h.mode
                        ELSE IF evidence.version = NoValue THEN "not configured" ELSE "observe",
        rules |-> [before |-> Gating(evidence.approved), after |-> Gating(recs)],
        drift |-> [before |-> Len(I!DetectDrift(Under(evidence.approved))),
                   after |-> Len(I!DetectDrift(Under(recs)))],
        newShadow |-> SelectSeq(I!DetectShadowTrackers(Under(recs)),
                                LAMBDA f : f.id \notin known)]

Hypothesis(evidence, changes) == FoldLeft(Apply, CopyEvidence(evidence), changes)

SimulateWithDerived(evidence, h, rules) ==
    Compared(evidence, h, AllOverridden(Policy(h.technologies, h.jurisdictions, rules), h.overrides))

Simulate(evidence, changes, rules) ==
    SimulateWithDerived(evidence, Hypothesis(evidence, changes), rules)
=============================================================================
