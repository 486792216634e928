---------------------------- MODULE Experiments -----------------------------
(***************************************************************************)
(* The consent experiments of a site, composed with its policy approvals:  *)
(* the management routes under api/v1/experiments, api/lib/experiments.ts  *)
(* and database/experiments.ts, and the browsers that are served an        *)
(* experiment and whose decisions are counted against its arms.            *)
(*                                                                         *)
(* A call reads the experiment, then asks the database what else it needs, *)
(* then writes; the calls of several operators interleave at every one of  *)
(* these round trips, and no write looks at what was read before it.  An   *)
(* arm set is one value: what its arms are called is the same in all, and  *)
(* what they show differs.  Rows are in the order of their creation.       *)
(***************************************************************************)
EXTENDS PolicyApproval, Sequences

CONSTANTS MaxExperiments,  \* experiments that may be created
          Call,            \* management calls in progress
          Browser,         \* pages that loaded the site's configuration
          Arms,            \* sets of variants an operator may submit
          Sound,           \* those validateVariants has no problem with
          Opening, Closing, \* the dates an operator may give a window
          MaxCalls,        \* requests of operators in all, approvals among them
          MaxTime,         \* the clock
          None             \* no experiment, no policy version, no date

ASSUME ExperimentConstants ==
    /\ MaxExperiments \in Nat /\ MaxCalls \in Nat /\ MaxTime \in Nat
    /\ Sound \subseteq Arms
    /\ (Opening \cup Closing) \ {None} \subseteq Nat
    /\ None \notin Approver \cup Arms \cup Nat

VARIABLES experiment,  \* the rows, by the number they were created under
          call,        \* call[c]: where the call stands and what it holds
          calls,       \* calls started
          shown,       \* shown[b]: the experiment b's page runs
          counted,     \* decisions attributed to an arm
          raced,       \* some write was made after another call's write
          now

expVars == <<experiment, call, calls, shown, counted, raced, now>>
vars == <<policyVars, expVars>>

Status == {"DRAFT", "SCHEDULED", "RUNNING", "PAUSED", "COMPLETED", "ARCHIVED"}

TRANSITIONS == [DRAFT     |-> {"SCHEDULED", "RUNNING", "ARCHIVED"},
                SCHEDULED |-> {"RUNNING", "DRAFT", "ARCHIVED"},
                RUNNING   |-> {"PAUSED", "COMPLETED"},
                PAUSED    |-> {"RUNNING", "COMPLETED", "ARCHIVED"},
                COMPLETED |-> {"ARCHIVED"},
                ARCHIVED  |-> {}]

Experiment == 1 .. MaxExperiments
ExperimentRow == [status : Status, arms : Arms, policy : Approver \cup {None},
                  opens : Opening \cup {None}, closes : Closing \cup {None}]

(* A call's definition holds None in the fields a PATCH leaves alone.  A   *)
(* PATCH that clears a date or the policy version is left out: it is       *)
(* checked like one that leaves them alone, and no property reads them.    *)
Definition == [arms : Arms \cup {None}, policy : Approver \cup {None},
               opens : Opening \cup {None}, closes : Closing \cup {None}]

(* kind: the route.  subject: the experiment it names.  stale: another     *)
(* call wrote since this one began.                                        *)
CallState == [pc : {"idle", "policy", "serving", "write"},
              kind : {"create", "edit", "move"}, subject : Experiment \cup {None},
              def : Definition, target : Status, stale : BOOLEAN]

Nothing == [arms |-> None, policy |-> None, opens |-> None, closes |-> None]
Idle == [pc |-> "idle", kind |-> "move", subject |-> None, def |-> Nothing,
         target |-> "DRAFT", stale |-> FALSE]

Created == DOMAIN experiment

TypeOK == /\ PolicyTypeOK
          /\ Created \in {1 .. n : n \in 0 .. MaxExperiments}
          /\ \A e \in Created : experiment[e] \in ExperimentRow
          /\ call \in [Call -> CallState]
          /\ calls \in 0 .. MaxCalls
          /\ shown \in [Browser -> [subject : Experiment \cup {None}, arms : Arms \cup {None}]]
          /\ counted \subseteq [subject : Experiment, seen : Arms, stored : Arms]
          /\ raced \in BOOLEAN
          /\ now \in 0 .. MaxTime

Init == /\ PolicyInit
        /\ experiment = << >>
        /\ call = [c \in Call |-> Idle]
        /\ calls = 0
        /\ shown = [b \in Browser |-> [subject |-> None, arms |-> None]]
        /\ counted = {}
        /\ raced = FALSE
        /\ now = 0

-----------------------------------------------------------------------------
(* What is served. *)

(* isServing: running, begun, and not yet over; the end is exclusive. *)
IsServing(e) == LET x == experiment[e] IN
    /\ x.status = "RUNNING"
    /\ x.opens = None \/ x.opens <= now
    /\ x.closes = None \/ now < x.closes

(* getServingExperiment: the oldest of those serving. *)
Serving == LET S == {e \in Created : IsServing(e)} IN
    IF S = {} THEN None ELSE Min(S)

(* GET /api/v1/consent/config reads the experiment to run. *)
LoadConfig(b) ==
    /\ shown' = [shown EXCEPT ![b] =
           IF Serving = None THEN [subject |-> None, arms |-> None]
           ELSE [subject |-> Serving, arms |-> experiment[Serving].arms]]
    /\ UNCHANGED <<policyVars, experiment, call, calls, counted, raced, now>>

(* POST /api/v1/consent names the experiment the page runs; it is counted  *)
(* only while that one is being served.                                    *)
Attributed(b) == /\ shown[b].subject # None
                 /\ shown[b].subject = Serving

Decide(b) ==
    /\ Attributed(b)
    /\ counted' = counted \cup {[subject |-> Serving, seen |-> shown[b].arms,
                                 stored |-> experiment[Serving].arms]}
    /\ UNCHANGED <<policyVars, experiment, call, calls, shown, raced, now>>

-----------------------------------------------------------------------------
(* The management calls. *)

CanTransition(from, to) == to \in TRANSITIONS[from]

(* Mutant: a paused experiment may be edited, being served to nobody. *)
IsEditableUnserved(status) == status \in {"DRAFT", "SCHEDULED", "PAUSED"}
IsEditable(status) == status \in {"DRAFT", "SCHEDULED"}

(* Where checkExperiment goes first: it asks for the approved version only *)
(* when a version is named, and for the experiment served only to start.   *)
ChecksFrom(def, starting) == IF def.policy # None THEN "policy"
                             ELSE IF starting THEN "serving" ELSE "write"

(* Problems with the variants refuse the call whatever the queries after   *)
(* them would say; a refused call changes nothing.                         *)
Begin(c, kind, e, def, target, pc) ==
    /\ call[c].pc = "idle"
    /\ calls < MaxCalls
    /\ calls' = calls + 1
    /\ call' = [call EXCEPT ![c] = [pc |-> pc, kind |-> kind, subject |-> e, def |-> def,
                                    target |-> target, stale |-> FALSE]]
    /\ UNCHANGED <<policyVars, experiment, shown, counted, raced, now>>

(* POST /experiments.  An operator names a version the console shows as    *)
(* approved; it may be superseded before the check.                        *)
AskCreate(c) ==
    \E arms \in Sound, policyVersion \in Approved \cup {None},
       opens \in Opening \cup {None}, closes \in Closing \cup {None} :
        LET def == [arms |-> arms, policy |-> policyVersion, opens |-> opens, closes |-> closes]
        IN Begin(c, "create", None, def, "DRAFT", ChecksFrom(def, FALSE))

(* Mutant: the variants of an edit are left to the check at the start. *)
EditSoundLater(e, def) == TRUE

(* validateVariants of an edit: the new variants, or those it leaves. *)
EditSound(e, def) == (IF def.arms = None THEN experiment[e].arms ELSE def.arms) \in Sound

(* PATCH /experiments/{id}.  A change of the window alone is not checked. *)
AskEdit(c) ==
    \E e \in Created, arms \in Arms \cup {None}, policyVersion \in Approved \cup {None},
       opens \in Opening \cup {None}, closes \in Closing \cup {None} :
        LET def == [arms |-> arms, policy |-> policyVersion, opens |-> opens, closes |-> closes]
        IN /\ def # Nothing
           /\ IsEditable(experiment[e].status)
           /\ EditSound(e, def)
           /\ Begin(c, "edit", e, def, "DRAFT", ChecksFrom(def, FALSE))

(* POST /experiments/{id}/status: the transition is checked on the status  *)
(* read here, and a start on the variants and the version read here.       *)
AskMove(c) ==
    \E e \in Created, target \in Status :
        /\ CanTransition(experiment[e].status, target)
        /\ target = "RUNNING" => experiment[e].arms \in Sound
        /\ Begin(c, "move", e, [Nothing EXCEPT !.policy = experiment[e].policy], target,
                 IF target = "RUNNING"
                 THEN ChecksFrom([Nothing EXCEPT !.policy = experiment[e].policy], TRUE)
                 ELSE "write")

Starting(c) == call[c].kind = "move" /\ call[c].target = "RUNNING"

(* checkExperiment's first query: the version named is the approved one. *)
CheckPolicy(c) ==
    /\ call[c].pc = "policy"
    /\ call' = IF call[c].def.policy \in Approved
               THEN [call EXCEPT ![c].pc = IF Starting(c) THEN "serving" ELSE "write"]
               ELSE [call EXCEPT ![c] = Idle]
    /\ UNCHANGED <<policyVars, experiment, calls, shown, counted, raced, now>>

(* checkExperiment's second query: nothing else is being served. *)
MayStart(e) == Serving \in {None, e}

CheckServing(c) ==
    /\ call[c].pc = "serving"
    /\ call' = IF MayStart(call[c].subject) THEN [call EXCEPT ![c].pc = "write"]
               ELSE [call EXCEPT ![c] = Idle]
    /\ UNCHANGED <<policyVars, experiment, calls, shown, counted, raced, now>>

(* createExperiment, updateExperiment and setExperimentStatus write        *)
(* whatever the row has become since it was read.                          *)
Given(new, old) == IF new = None THEN old ELSE new

Edited(row, def) == [status |-> row.status, arms |-> Given(def.arms, row.arms),
                     policy |-> Given(def.policy, row.policy),
                     opens |-> Given(def.opens, row.opens),
                     closes |-> Given(def.closes, row.closes)]

Write(c) ==
    LET m == call[c]
    IN /\ m.pc = "write"
       /\ experiment' =
             IF m.kind = "create"
             THEN Append(experiment, [status |-> "DRAFT", arms |-> m.def.arms,
                      policy |-> m.def.policy, opens |-> m.def.opens, closes |-> m.def.closes])
             ELSE IF m.kind = "edit"
             THEN [experiment EXCEPT ![m.subject] = Edited(@, m.def)]
             ELSE [experiment EXCEPT ![m.subject].status = m.target]
       /\ m.kind = "create" => Len(experiment) < MaxExperiments
       /\ call' = [d \in Call |-> IF d = c THEN Idle
                                  ELSE [call[d] EXCEPT !.stale = (@ \/ call[d].pc # "idle")]]
       /\ raced' = (raced \/ m.stale)
       /\ UNCHANGED <<policyVars, calls, shown, counted, now>>

Tick == /\ now < MaxTime
        /\ now' = now + 1
        /\ UNCHANGED <<policyVars, experiment, call, calls, shown, counted, raced>>

(* POST /sites/{id}/consent-policy, beside the calls on experiments. *)
AskApproval(a) ==
    /\ Approve(a)
    /\ calls' = IF At(a, "asked") THEN calls + 1 ELSE calls
    /\ calls' <= MaxCalls
    /\ UNCHANGED <<experiment, call, shown, counted, raced, now>>

Next == \/ \E a \in Approver : AskApproval(a)
        \/ \E c \in Call : \/ AskCreate(c) \/ AskEdit(c) \/ AskMove(c)
                           \/ CheckPolicy(c) \/ CheckServing(c) \/ Write(c)
        \/ \E b \in Browser : LoadConfig(b) \/ Decide(b)
        \/ Tick

Spec == Init /\ [][Next]_vars

-----------------------------------------------------------------------------

(* Whatever calls race on an experiment, a browser is only ever shown arms *)
(* validateVariants accepts: starting trusts the variants it read, so no   *)
(* other write may put worse ones in their place                           *)
(* (api/lib/experiments.ts:99-109, the PATCH route's :75-106).  A row has  *)
(* the fields its writes gave it, whole.                                   *)
ShownIsSound ==
    /\ TypeOK
    /\ \A b \in Browser : shown[b].subject # None => shown[b].arms \in Sound

(* While the calls on a site follow one another, a decision is counted     *)
(* against the arms its visitor was shown, whatever pages stay open across *)
(* pauses, edits and restarts (api/lib/experiments.ts:156-163).            *)
CountedAsShown == \A d \in counted : d.seen # d.stored => raced

(* Two experiments are never served at once                                *)
(* (database/experiments.ts:261, api/lib/experiments.ts:128-141).          *)
OneServing == \A d, e \in Created : IsServing(d) /\ IsServing(e) => d = e
=============================================================================
