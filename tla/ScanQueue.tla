----------------------------- MODULE ScanQueue -----------------------------
(***************************************************************************)
(* The scan queue (database/scans.ts), the workers that drain it           *)
(* (crawler/src/worker.ts) and the operators that cancel                   *)
(* (api/app/api/v1/scans/[scanId]/route.ts).                               *)
(*                                                                         *)
(* A worker is a process that loops over                                   *)
(*                                                                         *)
(*   find -> claim -> fetch -> crawl -> persist -> find                    *)
(*                               |__________|____-> fail -> find           *)
(*                                                                         *)
(* with one database call per step. A call is answered; or takes effect    *)
(* and its answer is lost; or fails without effect. A worker may also be   *)
(* killed. Progress counters are written behind the worker's back, so      *)
(* those writes are in flight on their own.                                *)
(***************************************************************************)
EXTENDS Integers

CONSTANTS
  Scan,              \* scans, numbered in the order they are created
  Worker,            \* worker processes
  Bounded,           \* the ones run with maxScans
  Canceller,         \* executions of DELETE /api/v1/scans/{scanId}
  MaxScans,          \* maxScans of a bounded worker
  MaxClaimFailures,  \* MAX_CLAIM_FAILURES
  MaxPages,          \* limits.maxPages
  Concurrency,       \* limits.concurrency
  PageCap,           \* PERSIST_CAPS.pages
  MaxFaults,         \* bound: lost answers, failed calls and killed workers
  None               \* no scan

ASSUME QueueAssumption ==
  /\ Scan \subseteq Nat
  /\ Bounded \subseteq Worker
  /\ MaxScans \in Nat /\ MaxClaimFailures \in Nat
  /\ MaxPages \in Nat \ {0} /\ Concurrency \in Nat \ {0} /\ PageCap \in Nat
  /\ MaxFaults \in Nat
  /\ None \notin Scan

VARIABLES
  row,        \* the scans rows, each with the number of its scan_pages rows
  worker,     \* the workers: control state and the locals of runWorker, runScan
  writes,     \* calls of recordScanProgress in flight
  canceller,  \* the calls of DELETE in progress
  faults,     \* how many faults have happened (bound)
  struck      \* history: the scans whose worker met one

queueVars == <<row, worker, writes, canceller, faults, struck>>

Pending == {"queued", "running"}
Finished == {"completed", "failed", "cancelled"}

ScanRow == [status: Pending \cup Finished \cup {"absent"}, pages: Nat, stored: Nat]

Stopped == {"stopped", "threw", "killed"}

WorkerState ==
  [pc: {"find", "claim", "fetch", "crawl", "persist", "fail"} \cup Stopped,
   scan: Scan \cup {None},
   aborted: BOOLEAN,    \* options.signal
   done: Nat,           \* runWorker's "completed", of a bounded worker
   failures: Nat,       \* consecutiveClaimFailures, of a bounded worker
   open: 0..Concurrency,  \* pages of the batch still being visited
   visited: 0..MaxPages,  \* pages.length
   counted: Nat]        \* pagesScanned + pagesFailed, as the events report them

Write == [scan: Scan, pages: Nat]

CancellerState ==
  [pc: {"start", "accepted", "conflict"}, scan: Scan \cup {None}]

QueueTypeOK ==
  /\ row \in [Scan -> ScanRow]
  /\ worker \in [Worker -> WorkerState]
  /\ writes \subseteq Write
  /\ canceller \in [Canceller -> CancellerState]
  /\ faults \in Nat
  /\ struck \subseteq Scan

Idle ==
  [pc |-> "find", scan |-> None, aborted |-> FALSE, done |-> 0,
   failures |-> 0, open |-> 0, visited |-> 0, counted |-> 0]

\* A worker whose process is over.
Ended(how) == [Idle EXCEPT !.pc = how]

QueueInit ==
  /\ row = [s \in Scan |-> [status |-> "absent", pages |-> 0, stored |-> 0]]
  /\ worker = [w \in Worker |-> Idle]
  /\ writes = {}
  /\ canceller = [c \in Canceller |-> [pc |-> "start", scan |-> None]]
  /\ faults = 0
  /\ struck = {}

(***************************************************************************)
(* Database calls.                                                         *)
(***************************************************************************)

\* "lost": it took effect and its answer did not arrive; the caller cannot tell
\* that from "failed".
Reply == {"answered", "lost", "failed"}

\* A fault meets worker w, and with it the scan that w works on.
Fault(w) ==
  /\ faults < MaxFaults
  /\ faults' = faults + 1
  /\ struck' = struck \cup ({worker[w].scan} \cap Scan)

Spend(w, reply) ==
  IF reply = "answered" THEN UNCHANGED <<faults, struck>> ELSE Fault(w)

\* POST /api/v1/sites/{siteId}/scans.
CreateScan(s) ==
  /\ row[s].status = "absent"
  /\ \A q \in Scan : row[q].status = "absent" => s <= q
  /\ row' = [row EXCEPT ![s].status = "queued"]
  /\ UNCHANGED <<worker, writes, canceller, faults, struck>>

(***************************************************************************)
(* runWorker: the claim.                                                   *)
(***************************************************************************)

Oldest(s) ==
  /\ row[s].status = "queued"
  /\ \A q \in Scan : row[q].status = "queued" => s <= q

Enough(w) == w \in Bounded /\ worker[w].done >= MaxScans

\* The loop goes round, or ends because it was told to or has done its share.
Continues(w) == ~worker[w].aborted /\ ~Enough(w)

EndLoop(w) ==
  /\ worker[w].pc = "find" /\ ~Continues(w)
  /\ worker' = [worker EXCEPT ![w] = Ended("stopped")]
  /\ UNCHANGED <<row, writes, canceller, faults, struck>>

\* claimNextScan returned null: a bounded run ends, any other sleeps and goes on.
NoScan(w) ==
  IF w \in Bounded THEN Ended("stopped")
  ELSE [worker[w] EXCEPT !.pc = "find", !.scan = None, !.failures = 0]

\* Mutation for QueueDrains: a failed claim ends the worker.
ClaimFailedFatal(w) == Ended("threw")

\* It threw: sleep and try again, except that a bounded run gives up in the end.
ClaimFailed(w) ==
  LET n == IF w \in Bounded THEN worker[w].failures + 1 ELSE 0 IN
  IF w \in Bounded /\ n >= MaxClaimFailures THEN Ended("threw")
  ELSE [worker[w] EXCEPT !.pc = "find", !.scan = None, !.failures = n]

\* The first statement of claimNextScan reads the oldest queued row.
FindCandidate(w) ==
  /\ worker[w].pc = "find" /\ Continues(w)
  /\ \E s \in Scan :
       /\ Oldest(s)
       /\ worker' = [worker EXCEPT ![w].pc = "claim", ![w].scan = s]
  /\ UNCHANGED <<row, writes, canceller, faults, struck>>

FindNothing(w) ==
  /\ worker[w].pc = "find" /\ Continues(w)
  /\ \A s \in Scan : row[s].status # "queued"
  /\ worker' = [worker EXCEPT ![w] = NoScan(w)]
  /\ UNCHANGED <<row, writes, canceller, faults, struck>>

FindFails(w) ==
  /\ worker[w].pc = "find" /\ Continues(w)
  /\ Fault(w)
  /\ worker' = [worker EXCEPT ![w] = ClaimFailed(w)]
  /\ UNCHANGED <<row, writes, canceller>>

\* Mutation for OneWorkerEach: the update names the row by id alone.
ClaimableAlways(s) == TRUE

\* The condition of the updateMany.
Claimable(s) == row[s].status = "queued"

\* The second takes the row, if it is still queued.
Claim(w) ==
  /\ worker[w].pc = "claim"
  /\ LET s == worker[w].scan IN
     \E reply \in Reply :
       /\ Spend(w, reply)
       /\ row' = IF reply # "failed" /\ Claimable(s)
                 THEN [row EXCEPT ![s].status = "running"] ELSE row
       /\ worker' = [worker EXCEPT ![w] =
            IF reply # "answered" THEN ClaimFailed(w)
            ELSE IF Claimable(s)  THEN [@ EXCEPT !.pc = "fetch"]
            ELSE NoScan(w)]
  /\ UNCHANGED <<writes, canceller>>

\* The third reads it back, and the crawl begins with counters of its own.
Fetch(w) ==
  /\ worker[w].pc = "fetch"
  /\ \E reply \in {"answered", "failed"} :
       /\ Spend(w, reply)
       /\ worker' = [worker EXCEPT ![w] =
            IF reply = "answered"
            THEN [@ EXCEPT !.pc = "crawl", !.failures = 0, !.open = 0,
                           !.visited = 0, !.counted = 0]
            ELSE ClaimFailed(w)]
  /\ UNCHANGED <<row, writes, canceller>>

(***************************************************************************)
(* runScan: the crawl.                                                     *)
(***************************************************************************)

Least(a, b) == IF a <= b THEN a ELSE b

\* A batch is never larger than what the page limit leaves; the first one is the
\* start URL alone.
BatchLimit(w) ==
  IF worker[w].visited = 0 THEN 1 ELSE Least(Concurrency, MaxPages - worker[w].visited)

\* The head of the crawl loop: no signal, pages left, and links to follow.
TakeBatch(w) ==
  /\ worker[w].pc = "crawl" /\ worker[w].open = 0 /\ ~worker[w].aborted
  /\ worker[w].visited < MaxPages
  /\ \E n \in 1..BatchLimit(w) : worker' = [worker EXCEPT ![w].open = n]
  /\ UNCHANGED <<row, writes, canceller, faults, struck>>

\* Mutation for ProgressForward: progressInFlight is not looked at.
MayPublishAlways(s) == TRUE

\* One write at a time per scan.
MayPublish(s) == \A x \in writes : x.scan # s

\* A page of the batch is done. Some pages end with no event (skipped, or too
\* many redirects); the others are counted, and may be published.
VisitPage(w) ==
  /\ worker[w].pc = "crawl" /\ worker[w].open > 0
  /\ \E event, publish \in BOOLEAN :
       LET s == worker[w].scan
           n == IF event THEN worker[w].counted + 1 ELSE worker[w].counted IN
       /\ publish => event /\ MayPublish(s)
       /\ worker' = [worker EXCEPT ![w].open = @ - 1, ![w].visited = @ + 1,
                                   ![w].counted = n]
       /\ writes' = IF publish THEN writes \cup {[scan |-> s, pages |-> n]} ELSE writes
  /\ UNCHANGED <<row, canceller, faults, struck>>

\* Mutation for CompletedIsWhole: progress is written whatever the status.
AcceptsProgressAlways(s) == row[s].status # "absent"

\* The condition of recordScanProgress.
AcceptsProgress(s) == row[s].status = "running"

RecordProgress(x) ==
  /\ x \in writes
  /\ writes' = writes \ {x}
  /\ row' = IF AcceptsProgress(x.scan)
            THEN [row EXCEPT ![x.scan].pages = x.pages] ELSE row
  /\ UNCHANGED <<worker, canceller, faults, struck>>

\* A failed progress write is swallowed.
LoseProgress(x) ==
  /\ x \in writes
  /\ writes' = writes \ {x}
  /\ UNCHANGED <<row, worker, canceller, faults, struck>>

\* No more pages, or a limit, or the signal: the result is complete as it is.
EndCrawl(w) ==
  /\ worker[w].pc = "crawl" /\ worker[w].open = 0
  /\ worker' = [worker EXCEPT ![w].pc = "persist"]
  /\ UNCHANGED <<row, writes, canceller, faults, struck>>

\* A ScanFatalError before the first page, or crawl_failed after the last.
CrawlFails(w) ==
  /\ worker[w].pc = "crawl" /\ worker[w].open = 0
  /\ worker' = [worker EXCEPT ![w].pc = "fail"]
  /\ UNCHANGED <<row, writes, canceller, faults, struck>>

(***************************************************************************)
(* runScan: the outcome.                                                   *)
(***************************************************************************)

\* Back to the loop; only a bounded worker looks at its count.
NextRound(w) ==
  [worker[w] EXCEPT !.pc = "find", !.scan = None, !.open = 0, !.visited = 0,
                    !.counted = 0, !.done = IF w \in Bounded THEN @ + 1 ELSE 0]

\* persistScanResult: one transaction, whatever the row's status. The result's
\* totals count every page; the pages stored are capped.
PersistResult(w) ==
  /\ worker[w].pc = "persist"
  /\ LET s == worker[w].scan
         n == worker[w].visited IN
     \E reply \in Reply :
       /\ Spend(w, reply)
       /\ row' = IF reply = "failed" THEN row
                 ELSE [row EXCEPT ![s] = [status |-> "completed", pages |-> n,
                                          stored |-> Least(n, PageCap)]]
       /\ worker' = [worker EXCEPT ![w] =
            IF reply = "answered" THEN NextRound(w) ELSE [@ EXCEPT !.pc = "fail"]]
  /\ UNCHANGED <<writes, canceller>>

\* Mutation for EveryScanEnds: the failure is logged, the row left as it is.
MarkedFailedNever(r) == r

\* markScanFailed, whatever the row's status. Its own failure is swallowed.
MarkedFailed(r) == [r EXCEPT !.status = "failed"]

MarkFailed(w) ==
  /\ worker[w].pc = "fail"
  /\ \E reply \in Reply :
       /\ Spend(w, reply)
       /\ row' = IF reply = "failed" THEN row
                 ELSE [row EXCEPT ![worker[w].scan] = MarkedFailed(@)]
  /\ worker' = [worker EXCEPT ![w] = NextRound(w)]
  /\ UNCHANGED <<writes, canceller>>

(***************************************************************************)
(* Signals, and workers killed where they stand.                           *)
(***************************************************************************)

\* SIGINT, SIGTERM.
Abort(w) ==
  /\ worker[w].pc \notin Stopped /\ ~worker[w].aborted
  /\ worker' = [worker EXCEPT ![w].aborted = TRUE]
  /\ UNCHANGED <<row, writes, canceller, faults, struck>>

Kill(w) ==
  /\ worker[w].pc \notin Stopped
  /\ Fault(w)
  /\ worker' = [worker EXCEPT ![w] = Ended("killed")]
  /\ UNCHANGED <<row, writes, canceller>>

(***************************************************************************)
(* DELETE /api/v1/scans/{scanId}.                                          *)
(***************************************************************************)

\* The condition of cancelScan's updateMany.
Cancellable(s) == row[s].status \in Pending

\* The look-up before it only refuses scans that do not exist.
CancelScan(c) ==
  /\ canceller[c].pc = "start"
  /\ \E s \in Scan :
       /\ row[s].status # "absent"
       /\ row' = IF Cancellable(s)
                 THEN [row EXCEPT ![s].status = "cancelled"] ELSE row
       /\ canceller' = [canceller EXCEPT ![c] =
            IF Cancellable(s) THEN [pc |-> "accepted", scan |-> None]
            ELSE [pc |-> "conflict", scan |-> s]]
  /\ UNCHANGED <<worker, writes, faults, struck>>

Run(w) ==
  \/ EndLoop(w) \/ FindCandidate(w) \/ FindNothing(w) \/ FindFails(w)
  \/ Claim(w) \/ Fetch(w)
  \/ TakeBatch(w) \/ VisitPage(w) \/ EndCrawl(w) \/ CrawlFails(w)
  \/ PersistResult(w) \/ MarkFailed(w)

QueueNext ==
  \/ \E s \in Scan : CreateScan(s)
  \/ \E w \in Worker : Run(w) \/ Abort(w) \/ Kill(w)
  \/ \E x \in writes : RecordProgress(x) \/ LoseProgress(x)
  \/ \E c \in Canceller : CancelScan(c)

QueueSpec == QueueInit /\ [][QueueNext]_queueVars

\* A worker that lives goes on: every wait in it is a timer, a call with an
\* answer or an error, or a page visit under a timeout. Nothing makes signals,
\* kills, new scans or cancellations happen.
FairQueueSpec == QueueSpec /\ \A w \in Worker : WF_queueVars(Run(w))

(***************************************************************************)
(* Properties.                                                             *)
(***************************************************************************)

Holds(w, s) ==
  worker[w].scan = s /\ worker[w].pc \in {"fetch", "crawl", "persist", "fail"}

\* Two workers never perform the same scan, whatever they read before they
\* claimed (the conditional update of claimNextScan).
OneWorkerEach ==
  \A v, w \in Worker, s \in Scan : Holds(v, s) /\ Holds(w, s) => v = w

\* A scan that reads completed has all of its pages, up to the cap, and the
\* totals of its result: no progress write that was still in flight replaces
\* them. One that has not ended shows no observations (persistScanResult and
\* recordScanProgress against each other).
CompletedIsWhole ==
  \A s \in Scan :
    /\ row[s].status = "completed" => row[s].stored = Least(row[s].pages, PageCap)
    /\ row[s].status \in Pending => row[s].stored = 0

\* A caller told that a scan can no longer be cancelled was told the truth for
\* good: the scan has ended and no worker's late step revives it (the 409 of
\* DELETE, against claims and outcomes).
ConflictIsFinal ==
  \A c \in Canceller :
    canceller[c].pc = "conflict" => row[canceller[c].scan].status \in Finished

\* The counters a progress screen polls never go backwards, over progress
\* writes, the final totals and a failure after them (progressInFlight).
ProgressForward ==
  [][\A s \in Scan : row'[s].pages >= row[s].pages]_queueVars

\* The queue is empty again and again while a worker without a scan limit is
\* left, whatever its calls met: a queued scan, which never comes back to the
\* queue, is taken or cancelled. Only a signal or a kill ends such a worker, a
\* failed claim does not (runWorker, "Why claiming is allowed to fail").
QueueDrains ==
  []<>(\/ \A s \in Scan : row[s].status # "queued"
       \/ \A w \in Worker \ Bounded : worker[w].pc \in {"stopped", "killed"})

\* Every scan that was claimed, which happens once, ends, unless a fault struck
\* the very worker that had it (runScan never throws and records every failure of
\* the crawl).
EveryScanEnds == []<>(\A s \in Scan : row[s].status = "running" => s \in struck)

\* What the documentation says of cancelling: a running crawl notices, so a
\* cancelled scan stays cancelled.
CancelledStays ==
  [][\A s \in Scan : row[s].status = "cancelled" => row'[s].status = "cancelled"]_queueVars
=============================================================================
