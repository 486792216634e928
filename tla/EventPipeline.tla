--------------------------- MODULE EventPipeline ---------------------------
(***************************************************************************)
(* Analytics events on their way from the pages of one browser             *)
(* (sdk/src/client.ts) to the ingestion endpoint                           *)
(* (api/app/api/v1/events/route.ts).                                       *)
(*                                                                         *)
(* Each page keeps a queue in memory, a timer and at most one flush:       *)
(*                                                                         *)
(*   idle -> asking -> sent -> ok, refused or failed -> idle               *)
(*                                                                         *)
(* "asking" is the await of a consent session, after the consent check and *)
(* before fetch. Pages share one persisted queue, the localStorage entry.  *)
(* A request may be lost, answered late, processed although nobody waits   *)
(* for it any more, or have its answer lost; requests overtake each other. *)
(*                                                                         *)
(* Queues are sets: which events the caps of the persisted queue evict is  *)
(* left open. Events are numbered as they are built, which is the order of *)
(* their event_time; an event belongs to the session of the tab that built *)
(* it, which outlives the page. The tabs have a session to begin with, so  *)
(* that init() queues page_view alone; session_start is one more Track.    *)
(***************************************************************************)
EXTENDS Integers, Sequences, FiniteSets, FiniteSetsExt

CONSTANTS
  Page,          \* tabs, each showing one page of the site at a time
  MaxBatch,      \* maxBatchSize
  MaxPersisted,  \* maxPersistedEvents
  MaxAttempts,   \* maxRetryAttempts
  MaxEvents,     \* bound: events built
  MaxLoads,      \* bound: page loads
  MaxDecisions,  \* bound: changes of what a page's consent check answers
  MaxStray,      \* bound: requests on the wire that nobody waits for
  Nobody         \* no page awaits the answer

ASSUME PipelineAssumption ==
  /\ MaxBatch \in Nat \ {0} /\ MaxPersisted \in Nat \ {0}
  /\ MaxAttempts \in Nat
  /\ MaxEvents \in Nat /\ MaxLoads \in Nat /\ MaxDecisions \in Nat
  /\ MaxStray \in Nat
  /\ Nobody \notin Page

VARIABLES
  up,         \* the tabs whose page is loaded
  allows,     \* what each page's consentCheck("analytics") answers now
  queue,      \* eventQueue
  batch,      \* the batch of the flush in progress
  phase,      \* the flush in progress
  timer,      \* flushTimer is set
  attempts,   \* retryCounts
  kept,       \* localStorage, shared by the pages
  wire,       \* requests on their way to the API
  stored,     \* the events table
  session,    \* the sessions table, one row per tab
  origin,     \* the tab that built each event
  loads,      \* page loads so far (bound)
  decisions,  \* changes of a consent check so far (bound)
  took        \* history: what a page queued or restored and was not refused

page == <<queue, batch, phase, timer, attempts, took>>
server == <<stored, session>>
bounds == <<origin, loads, decisions>>
vars == <<up, allows, page, kept, wire, server, bounds>>

Event == 1..MaxEvents

Answers == {"ok", "refused", "failed"}

Request == [to: Page \cup {Nobody}, events: SUBSET Event]

\* A request with the events es that nobody waits for.
Stray(es) == [to |-> Nobody, events |-> es]

NoRow == [started |-> 0, last |-> 0]

-----------------------------------------------------------------------------
(* The two queues.                                                          *)

\* What slice(-maxPersistedEvents) may leave of the events es.
Capped(es) ==
  IF Cardinality(es) <= MaxPersisted THEN {es} ELSE kSubset(MaxPersisted, es)

\* persistQueue: localStorage may hold keep after the events es are merged in.
Persist(es, keep) == keep \in Capped(kept \cup es)

\* dropBatch, all but its effect on localStorage.
Forget(p, es) ==
  /\ queue' = [queue EXCEPT ![p] = @ \ es]
  /\ attempts' = [attempts EXCEPT ![p] =
                    [e \in Event |-> IF e \in es THEN 0 ELSE @[e]]]
  /\ took' = [took EXCEPT ![p] = @ \ es]

\* Mutant of Take: only maxBatchSize events go, and the queue is emptied.
TakeTruncated(p, es) ==
  /\ \E some \in kSubset(MaxBatch, es) \cup {es} :
       /\ Cardinality(some) <= MaxBatch
       /\ batch' = [batch EXCEPT ![p] = some]
  /\ phase' = [phase EXCEPT ![p] = "asking"]
  /\ queue' = [queue EXCEPT ![p] = {}]
  /\ timer' = [timer EXCEPT ![p] = FALSE]

\* flushQueue takes the events es, with consent just read.
Take(p, es) ==
  /\ batch' = [batch EXCEPT ![p] = es]
  /\ phase' = [phase EXCEPT ![p] = "asking"]
  /\ queue' = [queue EXCEPT ![p] = {}]
  /\ timer' = [timer EXCEPT ![p] = FALSE]

\* queueEvent with a new event, on a page whose queue is es.
Enqueue(p, es) ==
  LET e == Len(origin) + 1
      now == es \cup {e}
  IN /\ Len(origin) < MaxEvents
     /\ origin' = Append(origin, p)
     /\ Persist(now, kept')
     /\ took' = [took EXCEPT ![p] = @ \cup now]
     /\ IF Cardinality(now) >= MaxBatch /\ phase[p] = "idle"
          THEN Take(p, now)
          ELSE /\ queue' = [queue EXCEPT ![p] = now]
               /\ timer' = [timer EXCEPT ![p] = TRUE]
               /\ UNCHANGED <<batch, phase>>

-----------------------------------------------------------------------------
(* A page.                                                                  *)

\* The constructor and init(): the persisted queue is restored, page_view is
\* queued if the consent check registered by then allows it.
Load(p) ==
  /\ p \notin up /\ loads < MaxLoads
  /\ up' = up \cup {p}
  /\ loads' = loads + 1
  /\ \E answer \in BOOLEAN : allows' = [allows EXCEPT ![p] = answer]
  /\ IF allows'[p]
       THEN Enqueue(p, kept)
       ELSE /\ queue' = [queue EXCEPT ![p] = kept]
            /\ timer' = [timer EXCEPT ![p] = kept # {}]
            /\ took' = [took EXCEPT ![p] = kept]
            /\ UNCHANGED <<batch, phase, kept, origin>>
  /\ UNCHANGED <<attempts, wire, server, decisions>>

\* track() and the automatic events.
Track(p) ==
  /\ p \in up /\ allows[p]
  /\ Enqueue(p, queue[p])
  /\ UNCHANGED <<up, allows, attempts, wire, server, loads, decisions>>

\* The visitor decides, or the integrator replaces the check.
Decide(p) ==
  /\ p \in up /\ decisions < MaxDecisions
  /\ allows' = [allows EXCEPT ![p] = ~@]
  /\ decisions' = decisions + 1
  /\ UNCHANGED <<up, page, kept, wire, server, origin, loads>>

\* The timer of scheduleFlush. A flush already in progress, or an empty
\* queue, makes it a no-op.
TimerFires(p) ==
  /\ p \in up /\ timer[p]
  /\ \/ /\ phase[p] # "idle" \/ queue[p] = {}
        /\ timer' = [timer EXCEPT ![p] = FALSE]
        /\ UNCHANGED <<queue, batch, phase, attempts, took, kept>>
     \/ /\ phase[p] = "idle" /\ queue[p] # {} /\ ~allows[p]
        /\ timer' = [timer EXCEPT ![p] = FALSE]
        /\ Forget(p, queue[p])
        /\ kept' = kept \ queue[p]
        /\ UNCHANGED <<batch, phase>>
     \/ /\ phase[p] = "idle" /\ queue[p] # {} /\ allows[p]
        /\ Take(p, queue[p])
        /\ UNCHANGED <<attempts, took, kept>>
  /\ UNCHANGED <<up, allows, wire, server, bounds>>

\* consentSessionHeaders() has resolved, with a token or without: fetch.
Send(p) ==
  /\ phase[p] = "asking"
  /\ phase' = [phase EXCEPT ![p] = "sent"]
  /\ wire' = wire \cup {[to |-> p, events |-> batch[p]]}
  /\ UNCHANGED <<up, allows, queue, batch, timer, attempts, took, kept,
                 server, bounds>>

\* Mutant of EndFlush: nothing is scheduled.
EndFlushUnscheduled(p, es) ==
  /\ phase' = [phase EXCEPT ![p] = "idle"]
  /\ batch' = [batch EXCEPT ![p] = {}]
  /\ timer' = timer

\* The finally of flushQueue: es is the queue it finds.
EndFlush(p, es) ==
  /\ phase' = [phase EXCEPT ![p] = "idle"]
  /\ batch' = [batch EXCEPT ![p] = {}]
  /\ timer' = [timer EXCEPT ![p] = @ \/ es # {}]

\* response.ok: the persisted queue is removed, whatever it holds by now.
Delivered(p) ==
  /\ phase[p] = "ok"
  /\ kept' = {}
  /\ EndFlush(p, queue[p])
  /\ UNCHANGED <<up, allows, queue, attempts, took, wire, server, bounds>>

\* 403: consent is not granted for this site.
Refused(p) ==
  /\ phase[p] = "refused"
  /\ Forget(p, batch[p])
  /\ kept' = kept \ batch[p]
  /\ EndFlush(p, queue[p] \ batch[p])
  /\ UNCHANGED <<up, allows, wire, server, bounds>>

\* Mutant of CountAttempt: retryCounts is read and never written.
CountAttemptForgotten(p) == attempts' = attempts

\* Each event of the batch has been tried once more.
CountAttempt(p) ==
  attempts' = [attempts EXCEPT ![p] =
                 [e \in Event |-> IF e \in batch[p] THEN @[e] + 1 ELSE @[e]]]

\* Mutant of AttemptsLeft: one more attempt.
AttemptsLeftOffByOne(n) == n <= MaxAttempts + 1

\* n attempts leave another.
AttemptsLeft(n) == n <= MaxAttempts

\* Anything else: what has attempts left goes back in front of the queue,
\* the rest only to localStorage.
Failed(p) ==
  /\ phase[p] = "failed"
  /\ CountAttempt(p)
  /\ LET retryable == {e \in batch[p] : AttemptsLeft(attempts'[p][e])}
         exhausted == batch[p] \ retryable
     IN /\ queue' = [queue EXCEPT ![p] = retryable \cup @]
        /\ \E keep \in IF retryable = {} THEN {kept}
                       ELSE Capped(kept \cup queue'[p]) :
             kept' \in IF exhausted = {} THEN {keep}
                       ELSE Capped(keep \cup exhausted)
        /\ EndFlush(p, queue'[p])
  /\ UNCHANGED <<up, allows, took, wire, server, bounds>>

\* flushBeacon, for the pending events es: the same gate, no await, and
\* nobody to hear the answer. The requests already on the wire become fs.
Beacon(p, es, fs) ==
  IF allows[p]
    THEN IF es = {}
           THEN wire' = fs /\ kept' = kept
           ELSE /\ Persist(es, kept')
                /\ wire' = fs \cup {Stray(es)}
    ELSE wire' = fs /\ kept' = kept \ es

\* The bound MaxStray, on the next wire.
StrayBounded == Cardinality({r \in wire' : r.to = Nobody}) <= MaxStray

\* The page is hidden, and lives on.
Hide(p) ==
  /\ p \in up
  /\ \E es \in Capped(kept \cup queue[p]) :
       /\ Beacon(p, es, wire)
       /\ IF allows[p]
            THEN UNCHANGED <<queue, attempts, took>>
            ELSE Forget(p, es)
  /\ StrayBounded
  /\ UNCHANGED <<up, allows, batch, phase, timer, server, bounds>>

\* A page that is gone keeps nothing in memory.
Gone(p) ==
  /\ up' = up \ {p}
  /\ queue' = [queue EXCEPT ![p] = {}]
  /\ batch' = [batch EXCEPT ![p] = {}]
  /\ phase' = [phase EXCEPT ![p] = "idle"]
  /\ timer' = [timer EXCEPT ![p] = FALSE]
  /\ attempts' = [attempts EXCEPT ![p] = [e \in Event |-> 0]]
  /\ took' = [took EXCEPT ![p] = {}]

\* The requests on the wire when p no longer waits for an answer.
Orphaned(p) == {IF r.to = p THEN Stray(r.events) ELSE r : r \in wire}

\* beforeunload, then the page is gone.
Close(p) ==
  /\ p \in up
  /\ \E es \in Capped(kept \cup queue[p]) : Beacon(p, es, Orphaned(p))
  /\ StrayBounded
  /\ Gone(p)
  /\ UNCHANGED <<allows, server, bounds>>

\* The page goes without its hooks: a crash, or a tab discarded in the
\* background.
Crash(p) ==
  /\ p \in up
  /\ wire' = Orphaned(p)
  /\ StrayBounded
  /\ Gone(p)
  /\ UNCHANGED <<allows, kept, server, bounds>>

-----------------------------------------------------------------------------
(* The API and the network.                                                 *)

\* The page waiting for r hears answer.
Answer(r, answer) ==
  phase' = IF r.to = Nobody THEN phase ELSE [phase EXCEPT ![r.to] = answer]

ServerUnchanged ==
  UNCHANGED <<up, allows, queue, batch, timer, attempts, took, kept, bounds>>

\* Mutant of SessionAfter: updateMany without its guard.
SessionAfterAnyOrder(p, es) ==
  LET mine == {e \in es : origin[e] = p}
      row == IF session[p] = NoRow
               THEN [started |-> Min(mine), last |-> Max(mine)]
               ELSE session[p]
  IN IF mine = {} THEN session[p] ELSE [row EXCEPT !.last = Max(mine)]

\* The row of tab p after persistBatch of the events es: createMany with
\* skipDuplicates, then updateMany guarded by lt.
SessionAfter(p, es) ==
  LET mine == {e \in es : origin[e] = p}
      row == IF session[p] = NoRow
               THEN [started |-> Min(mine), last |-> Max(mine)]
               ELSE session[p]
  IN IF mine = {} THEN session[p]
     ELSE [row EXCEPT !.last = IF @ < Max(mine) THEN Max(mine) ELSE @]

\* 202: the transaction of persistBatch. Its answer may be lost.
Ingest(r) ==
  /\ stored' = stored \cup r.events
  /\ session' = [p \in Page |-> SessionAfter(p, r.events)]
  /\ wire' = wire \ {r}
  /\ \E answer \in {"ok", "failed"} : Answer(r, answer)
  /\ ServerUnchanged

\* Nothing is stored: 403 of enforceAnalyticsConsent, or any other failure,
\* from a request that never arrives to a 500.
Reject(r) ==
  /\ wire' = wire \ {r}
  /\ \E answer \in {"refused", "failed"} : Answer(r, answer)
  /\ ServerUnchanged
  /\ UNCHANGED server

\* The browser gives up on a request that may still arrive.
GiveUp(r) ==
  /\ r.to # Nobody
  /\ wire' = (wire \ {r}) \cup {Stray(r.events)}
  /\ StrayBounded
  /\ Answer(r, "failed")
  /\ ServerUnchanged
  /\ UNCHANGED server

-----------------------------------------------------------------------------
(* The specification.                                                       *)

Init ==
  /\ up = {}
  /\ allows = [p \in Page |-> FALSE]
  /\ queue = [p \in Page |-> {}]
  /\ batch = [p \in Page |-> {}]
  /\ phase = [p \in Page |-> "idle"]
  /\ timer = [p \in Page |-> FALSE]
  /\ attempts = [p \in Page |-> [e \in Event |-> 0]]
  /\ took = [p \in Page |-> {}]
  /\ kept = {}
  /\ wire = {}
  /\ stored = {}
  /\ session = [p \in Page |-> NoRow]
  /\ origin = <<>>
  /\ loads = 0
  /\ decisions = 0

Settle(p) == Delivered(p) \/ Refused(p) \/ Failed(p)

Arrive(r) == Ingest(r) \/ Reject(r) \/ GiveUp(r)

Next ==
  \/ \E p \in Page :
       \/ Load(p) \/ Track(p) \/ Decide(p)
       \/ TimerFires(p) \/ Send(p) \/ Settle(p)
       \/ Hide(p) \/ Close(p) \/ Crash(p)
  \/ \E r \in wire : Arrive(r)

Spec == Init /\ [][Next]_vars

\* Timers fire and promises settle: a browser's fetch ends, if only in an
\* error. Nothing makes a visitor act, a request arrive or the API answer well.
Fairness ==
  \A p \in Page :
    /\ WF_vars(TimerFires(p))
    /\ WF_vars(Send(p))
    /\ WF_vars(Settle(p))
    /\ WF_vars(\E r \in wire : r.to = p /\ Arrive(r))

FairSpec == Spec /\ Fairness

-----------------------------------------------------------------------------
(* Properties.                                                              *)

\* Every variable has its type; localStorage stays within its cap.
TypeOK ==
  /\ up \subseteq Page
  /\ allows \in [Page -> BOOLEAN]
  /\ queue \in [Page -> SUBSET Event]
  /\ batch \in [Page -> SUBSET Event]
  /\ phase \in [Page -> {"idle", "asking", "sent"} \cup Answers]
  /\ timer \in [Page -> BOOLEAN]
  /\ attempts \in [Page -> [Event -> Nat]]
  /\ took \in [Page -> SUBSET Event]
  /\ kept \subseteq Event /\ Cardinality(kept) <= MaxPersisted
  /\ wire \subseteq Request
  /\ stored \subseteq Event
  /\ session \in [Page -> [started: Nat, last: Nat]]
  /\ origin \in Seq(Page) /\ Len(origin) <= MaxEvents
  /\ loads \in Nat
  /\ decisions \in Nat

\* A loaded page never sits on a queue with neither a flush in progress nor a
\* timer to start one, whatever the order of events, timers and answers
\* (queueEvent and flushQueue, client.ts:254-283 and 375-379).
DrainScheduled ==
  \A p \in up : queue[p] # {} /\ phase[p] = "idle" => timer[p]

\* A loaded page does not lose an event it queued or restored: until the API
\* has stored it, consent refused it or its attempts are used up, it is in the
\* memory queue or in the batch of the flush, even when requests fail while
\* other events are queued (flushQueue, client.ts:319-379).
KeepsWhatItTook ==
  \A p \in up : \A e \in took[p] :
    e \in queue[p] \cup batch[p] \cup stored \/ attempts[p][e] > MaxAttempts

\* A page does not hammer the endpoint: an event whose attempts are used up
\* comes back neither into its queue nor into a batch before the next page
\* load, although the event stays in localStorage (client.ts:352-372).
RetriesBounded ==
  \A p \in Page : \A e \in queue[p] \cup batch[p] : attempts[p][e] <= MaxAttempts

\* Replayed, late and overtaken batches leave a session row that agrees with
\* its events: it exists when one of them is stored, starts at one of them and
\* was last active at the newest (persistBatch, events/route.ts:240-290).
SessionMatchesEvents ==
  \A p \in Page :
    LET mine == {e \in stored : origin[e] = p}
    IN /\ session[p] = NoRow <=> mine = {}
       /\ mine # {} => session[p].started \in mine /\ session[p].last = Max(mine)

\* "The consent check is re-read at the moment of sending" (docs/sdk-api.md:296,
\* and the comment at client.ts:297): a page's request leaves it while its check
\* allows. It does not hold: the batch is taken with the check, and fetch is
\* called only when the await of a consent session after it has ended.
SentWithConsent ==
  [][\A r \in wire' \ wire : r.to # Nobody => allows[r.to]]_vars

\* A page left open gets rid of what it has to send once nothing new comes, even
\* if the API never answers: every retry is scheduled, and the attempts are
\* finite (scheduleFlush and flushQueue, client.ts:274-283, 351-379).
QueueEmpties ==
  \A p \in Page : []<>(p \in up => queue[p] = {} /\ phase[p] = "idle")
=============================================================================
