--------------------------- MODULE Scanner_proofs ---------------------------
(***************************************************************************)
(* Proofs about the scanner: ScanQueue, for every number of scans, workers *)
(* and cancellers and every number of faults; and Crawl, for every site,   *)
(* every set of URLs and hrefs and all limits.                             *)
(***************************************************************************)
EXTENDS ScanQueue, Crawl, SequenceTheorems, WellFoundedInduction, TLAPS

(***************************************************************************)
(*                              The scan queue                             *)
(***************************************************************************)

(***************************************************************************)
(* The inductive invariant.                                                *)
(***************************************************************************)

Holding == {"fetch", "crawl", "persist", "fail"}

\* What a worker in state v knows: the scan it works on left the queue, and its
\* counters are ahead of everything that was published or is on its way.
Fine(v) ==
  /\ v.pc \in Holding =>
       v.scan \in Scan /\ row[v.scan].status \notin {"absent", "queued"}
  /\ v.pc = "claim" => v.scan \in Scan /\ row[v.scan].status # "absent"
  /\ v.pc = "fetch" => row[v.scan].pages = 0 /\ \A x \in writes : x.scan # v.scan
  /\ v.pc \in {"crawl", "persist"} =>
       /\ v.visited + v.open <= MaxPages
       /\ v.counted <= v.visited
       /\ row[v.scan].pages <= v.counted
       /\ \A x \in writes : x.scan = v.scan => x.pages <= v.counted

WorkersFine == \A w \in Worker : Fine(worker[w])

\* At most one write is on its way to a scan, it was claimed before, and the
\* write would not take a running scan back.
WritesFine ==
  /\ \A x, y \in writes : x.scan = y.scan => x = y
  /\ \A x \in writes : row[x.scan].status \notin {"absent", "queued"}
  /\ \A x \in writes : row[x.scan].status = "running" => row[x.scan].pages <= x.pages

RowsFine ==
  \A s \in Scan :
    /\ row[s].status \in {"absent", "queued"} => row[s].pages = 0
    /\ row[s].status = "absent" => row[s].stored = 0

ConflictsFine == \A c \in Canceller : canceller[c].pc = "conflict" => canceller[c].scan \in Scan

QueueInv ==
  /\ QueueTypeOK /\ WorkersFine /\ WritesFine /\ RowsFine /\ ConflictsFine
  /\ OneWorkerEach /\ CompletedIsWhole /\ ConflictIsFinal

LEMMA InitInv == QueueInit => QueueInv
<1>. SUFFICES ASSUME QueueInit PROVE QueueInv
  OBVIOUS
<1>. USE QueueAssumption DEF QueueInit
<1>1. QueueTypeOK
  BY DEF QueueTypeOK, ScanRow, Pending, Finished, Idle, WorkerState, Stopped, CancellerState, Write
<1>2. WorkersFine
  BY DEF WorkersFine, Fine, Idle, Holding
<1>3. WritesFine /\ RowsFine /\ ConflictsFine
  BY DEF WritesFine, RowsFine, ConflictsFine
<1>4. OneWorkerEach
  BY DEF OneWorkerEach, Holds, Idle
<1>5. CompletedIsWhole /\ ConflictIsFinal
  BY DEF CompletedIsWhole, ConflictIsFinal
<1>. QED
  BY <1>1, <1>2, <1>3, <1>4, <1>5 DEF QueueInv

(***************************************************************************)
(* Lemmas on the states of a worker.                                       *)
(***************************************************************************)

LEMMA Zeros == 0 \in 0..Concurrency /\ 0 \in 0..MaxPages /\ 0 \in Nat
  BY QueueAssumption

LEMMA IdleType == Idle \in WorkerState /\ \A how \in Stopped : Ended(how) \in WorkerState
<1>1. Idle \in WorkerState
  BY QueueAssumption DEF Idle, WorkerState
<1>2. ASSUME NEW how \in Stopped PROVE Ended(how) \in WorkerState
  BY <1>1, <1>2 DEF Ended, WorkerState
<1>. QED
  BY <1>1, <1>2

\* A fault, or none, keeps the bookkeeping typed.
LEMMA FaultType ==
  ASSUME QueueTypeOK, NEW w \in Worker, Fault(w)
  PROVE  faults' \in Nat /\ struck' \subseteq Scan
  BY DEF Fault, QueueTypeOK

LEMMA SpendType ==
  ASSUME QueueTypeOK, NEW w \in Worker, NEW reply, Spend(w, reply)
  PROVE  faults' \in Nat /\ struck' \subseteq Scan
  BY FaultType DEF Spend, QueueTypeOK

\* The states a worker leaves its loop with, or returns to it with, hold no scan.
LEMMA FreeStates ==
  ASSUME QueueTypeOK, NEW w \in Worker
  PROVE  /\ NoScan(w) \in WorkerState /\ NoScan(w).pc \in {"find", "stopped"}
         /\ ClaimFailed(w) \in WorkerState /\ ClaimFailed(w).pc \in {"find", "threw"}
         /\ NextRound(w) \in WorkerState /\ NextRound(w).pc = "find"
<1>1. worker[w] \in WorkerState
  BY DEF QueueTypeOK
<1>2. NoScan(w) \in WorkerState /\ NoScan(w).pc \in {"find", "stopped"}
  BY <1>1, IdleType DEF NoScan, Ended, Idle, Stopped, WorkerState
<1>3. ClaimFailed(w) \in WorkerState /\ ClaimFailed(w).pc \in {"find", "threw"}
  <2>1. PICK n \in Nat : n = IF w \in Bounded THEN worker[w].failures + 1 ELSE 0
    BY <1>1 DEF WorkerState
  <2>2. CASE w \in Bounded /\ n >= MaxClaimFailures
    <3>1. ClaimFailed(w) = Ended("threw")
      BY <2>1, <2>2 DEF ClaimFailed
    <3>. QED
      BY <3>1, IdleType DEF Ended, Idle, Stopped
  <2>3. CASE ~(w \in Bounded /\ n >= MaxClaimFailures)
    <3>1. ClaimFailed(w) = [worker[w] EXCEPT !.pc = "find", !.scan = None, !.failures = n]
      BY <2>1, <2>3 DEF ClaimFailed
    <3>. QED
      BY <1>1, <3>1 DEF WorkerState
  <2>. QED
    BY <2>2, <2>3
<1>4. NextRound(w) \in WorkerState /\ NextRound(w).pc = "find"
  <2>1. PICK n \in Nat : n = IF w \in Bounded THEN worker[w].done + 1 ELSE 0
    BY <1>1 DEF WorkerState
  <2>2. NextRound(w) = [worker[w] EXCEPT !.pc = "find", !.scan = None, !.open = 0,
                                         !.visited = 0, !.counted = 0, !.done = n]
    BY <2>1 DEF NextRound
  <2>3. NextRound(w).pc = "find"
    BY <1>1, <2>2 DEF WorkerState
  <2>4. PICK v : v = [worker[w] EXCEPT !.pc = "find", !.scan = None, !.done = n]
    OBVIOUS
  <2>5. v \in WorkerState
    BY <1>1, <2>4 DEF WorkerState
  <2>6. NextRound(w) = [v EXCEPT !.open = 0, !.visited = 0, !.counted = 0]
    BY <1>1, <2>2, <2>4 DEF WorkerState
  <2>. QED
    BY <2>3, <2>5, <2>6, Zeros DEF WorkerState
<1>. QED
  BY <1>2, <1>3, <1>4

\* A step that changes one worker and no row, and gives it no scan that it did
\* not hold, keeps the invariant.
LEMMA WorkerOnly ==
  ASSUME QueueInv, NEW w \in Worker, NEW v \in WorkerState, Fine(v),
         v.pc \in Holding => worker[w].pc \in Holding /\ v.scan = worker[w].scan,
         worker' = [worker EXCEPT ![w] = v],
         UNCHANGED <<row, writes, canceller>>,
         faults' \in Nat, struck' \subseteq Scan
  PROVE  QueueInv'
<1>. USE DEF QueueInv
<1>1. QueueTypeOK'
  BY DEF QueueTypeOK
<1>2. \A u \in Worker : worker'[u] = IF u = w THEN v ELSE worker[u]
  BY DEF QueueTypeOK
<1>3. WorkersFine'
  BY <1>2 DEF WorkersFine, Fine
<1>4. WritesFine' /\ RowsFine' /\ ConflictsFine'
  BY DEF WritesFine, RowsFine, ConflictsFine
<1>5. OneWorkerEach'
  BY <1>2 DEF OneWorkerEach, Holds, Holding
<1>6. CompletedIsWhole' /\ ConflictIsFinal'
  BY DEF CompletedIsWhole, ConflictIsFinal
<1>. QED
  BY <1>1, <1>3, <1>4, <1>5, <1>6

(***************************************************************************)
(* The steps of a worker that change no row.                               *)
(***************************************************************************)

LEMMA FreeIsFine ==
  ASSUME NEW v, v.pc \in {"find"} \cup Stopped
  PROVE  Fine(v) /\ v.pc \notin Holding
  BY DEF Fine, Holding, Stopped

LEMMA QuietSteps ==
  ASSUME QueueInv, NEW w \in Worker,
         \/ EndLoop(w) \/ FindCandidate(w) \/ FindNothing(w) \/ FindFails(w)
         \/ Fetch(w) \/ TakeBatch(w) \/ EndCrawl(w) \/ CrawlFails(w)
         \/ Abort(w) \/ Kill(w)
  PROVE  QueueInv'
<1>. USE QueueAssumption
<1>0. QueueTypeOK /\ worker[w] \in WorkerState /\ Fine(worker[w])
      /\ faults \in Nat /\ struck \subseteq Scan
  BY DEF QueueInv, QueueTypeOK, WorkersFine
<1>1. CASE EndLoop(w)
  <2>1. Ended("stopped") \in WorkerState /\ Ended("stopped").pc = "stopped"
    BY IdleType DEF Ended, Idle, Stopped
  <2>. QED
    BY <1>0, <1>1, <2>1, FreeIsFine, WorkerOnly DEF EndLoop, Stopped
<1>2. CASE FindCandidate(w)
  <2>1. PICK s \in Scan : Oldest(s) /\ worker' = [worker EXCEPT ![w].pc = "claim", ![w].scan = s]
    BY <1>2 DEF FindCandidate
  <2>2. PICK v : v = [worker[w] EXCEPT !.pc = "claim", !.scan = s]
    OBVIOUS
  <2>3. v \in WorkerState /\ v.pc = "claim" /\ v.scan = s
    BY <1>0, <2>2 DEF WorkerState
  <2>4. worker' = [worker EXCEPT ![w] = v]
    BY <2>1, <2>2
  <2>5. Fine(v) /\ v.pc \notin Holding
    BY <2>1, <2>3 DEF Fine, Holding, Oldest
  <2>. QED
    BY <1>0, <1>2, <2>3, <2>4, <2>5, WorkerOnly DEF FindCandidate
<1>3. CASE FindNothing(w)
  BY <1>0, <1>3, FreeStates, FreeIsFine, WorkerOnly DEF FindNothing, Stopped
<1>4. CASE FindFails(w)
  BY <1>0, <1>4, FreeStates, FreeIsFine, FaultType, WorkerOnly DEF FindFails, Stopped
<1>5. CASE Fetch(w)
  <2>1. PICK reply \in {"answered", "failed"} :
          /\ Spend(w, reply)
          /\ worker' = [worker EXCEPT ![w] =
               IF reply = "answered"
               THEN [worker[w] EXCEPT !.pc = "crawl", !.failures = 0, !.open = 0,
                                      !.visited = 0, !.counted = 0]
               ELSE ClaimFailed(w)]
    BY <1>5 DEF Fetch
  <2>2. CASE reply = "answered"
    <3>1. PICK v : v = [worker[w] EXCEPT !.pc = "crawl", !.failures = 0, !.open = 0,
                                         !.visited = 0, !.counted = 0]
      OBVIOUS
    <3>a. v.pc = "crawl" /\ v.scan = worker[w].scan
      BY <1>0, <3>1 DEF WorkerState
    <3>b. v.open = 0 /\ v.visited = 0 /\ v.counted = 0
      BY <1>0, <3>1 DEF WorkerState
    <3>c. PICK u : u = [worker[w] EXCEPT !.pc = "crawl", !.failures = 0]
      OBVIOUS
    <3>d. u \in WorkerState
      BY <1>0, <3>c DEF WorkerState
    <3>e. v = [u EXCEPT !.open = 0, !.visited = 0, !.counted = 0]
      BY <1>0, <3>1, <3>c DEF WorkerState
    <3>2. v \in WorkerState
      BY <3>d, <3>e, Zeros DEF WorkerState
    <3>3. Fine(v)
      BY <1>0, <1>5, <3>a, <3>b DEF Fine, Holding, Fetch
    <3>4. worker' = [worker EXCEPT ![w] = v]
      BY <2>1, <2>2, <3>1
    <3>. QED
      BY <1>0, <1>5, <2>1, <3>a, <3>2, <3>3, <3>4, SpendType, WorkerOnly DEF Fetch, Holding
  <2>3. CASE reply = "failed"
    BY <1>0, <1>5, <2>1, <2>3, FreeStates, FreeIsFine, SpendType, WorkerOnly DEF Fetch, Stopped
  <2>. QED
    BY <2>1, <2>2, <2>3
<1>6. CASE TakeBatch(w)
  <2>1. PICK n \in 1..BatchLimit(w) : worker' = [worker EXCEPT ![w].open = n]
    BY <1>6 DEF TakeBatch
  <2>2. n \in 0..Concurrency /\ worker[w].visited + n <= MaxPages
    BY <1>0, <1>6, <2>1 DEF BatchLimit, Least, TakeBatch, WorkerState
  <2>3. PICK v : v = [worker[w] EXCEPT !.open = n]
    OBVIOUS
  <2>4. v \in WorkerState /\ v.pc = "crawl" /\ v.scan = worker[w].scan
        /\ v.open = n /\ v.visited = worker[w].visited /\ v.counted = worker[w].counted
    BY <1>0, <1>6, <2>2, <2>3 DEF WorkerState, TakeBatch
  <2>5. Fine(v)
    BY <1>0, <1>6, <2>2, <2>4 DEF Fine, Holding, TakeBatch
  <2>6. worker' = [worker EXCEPT ![w] = v]
    BY <2>1, <2>3
  <2>. QED
    BY <1>0, <1>6, <2>4, <2>5, <2>6, WorkerOnly DEF TakeBatch, Holding
<1>7. CASE EndCrawl(w)
  <2>1. PICK v : v = [worker[w] EXCEPT !.pc = "persist"]
    OBVIOUS
  <2>2. v \in WorkerState /\ v.pc = "persist" /\ v.scan = worker[w].scan
        /\ v.open = worker[w].open /\ v.visited = worker[w].visited
        /\ v.counted = worker[w].counted
    BY <1>0, <2>1 DEF WorkerState
  <2>3. Fine(v)
    BY <1>0, <1>7, <2>2 DEF Fine, Holding, EndCrawl
  <2>4. worker' = [worker EXCEPT ![w] = v]
    BY <1>7, <2>1 DEF EndCrawl
  <2>. QED
    BY <1>0, <1>7, <2>2, <2>3, <2>4, WorkerOnly DEF EndCrawl, Holding
<1>8. CASE CrawlFails(w)
  <2>1. PICK v : v = [worker[w] EXCEPT !.pc = "fail"]
    OBVIOUS
  <2>2. v \in WorkerState /\ v.pc = "fail" /\ v.scan = worker[w].scan
    BY <1>0, <2>1 DEF WorkerState
  <2>3. Fine(v)
    BY <1>0, <1>8, <2>2 DEF Fine, Holding, CrawlFails
  <2>4. worker' = [worker EXCEPT ![w] = v]
    BY <1>8, <2>1 DEF CrawlFails
  <2>. QED
    BY <1>0, <1>8, <2>2, <2>3, <2>4, WorkerOnly DEF CrawlFails, Holding
<1>9. CASE Abort(w)
  <2>1. PICK v : v = [worker[w] EXCEPT !.aborted = TRUE]
    OBVIOUS
  <2>2. v \in WorkerState /\ v.pc = worker[w].pc /\ v.scan = worker[w].scan
        /\ v.open = worker[w].open /\ v.visited = worker[w].visited
        /\ v.counted = worker[w].counted
    BY <1>0, <2>1 DEF WorkerState
  <2>3. Fine(v)
    BY <1>0, <2>2 DEF Fine
  <2>4. worker' = [worker EXCEPT ![w] = v]
    BY <1>9, <2>1 DEF Abort
  <2>. QED
    BY <1>0, <1>9, <2>2, <2>3, <2>4, WorkerOnly DEF Abort
<1>10. CASE Kill(w)
  <2>1. Ended("killed") \in WorkerState /\ Ended("killed").pc = "killed"
    BY IdleType DEF Ended, Idle, Stopped
  <2>. QED
    BY <1>0, <1>10, <2>1, FreeIsFine, FaultType, WorkerOnly DEF Kill, Stopped
<1>. QED
  BY <1>1, <1>2, <1>3, <1>4, <1>5, <1>6, <1>7, <1>8, <1>9, <1>10

(***************************************************************************)
(* The steps that change a row, or a write on its way.                     *)
(***************************************************************************)

LEMMA CreateStep ==
  ASSUME QueueInv, NEW s \in Scan, CreateScan(s)
  PROVE  QueueInv'
<1>. USE DEF QueueInv, CreateScan
<1>1. /\ row'[s].status = "queued" /\ row'[s].pages = row[s].pages
      /\ row'[s].stored = row[s].stored
      /\ \A q \in Scan : q # s => row'[q] = row[q]
  BY DEF QueueTypeOK, ScanRow
<1>2. row' \in [Scan -> ScanRow]
  BY DEF QueueTypeOK, ScanRow, Pending
<1>3. QueueTypeOK'
  BY <1>2 DEF QueueTypeOK
<1>4. WorkersFine'
  BY <1>1 DEF WorkersFine, Fine, Holding
<1>5. WritesFine' /\ RowsFine' /\ ConflictsFine'
  BY <1>1 DEF WritesFine, RowsFine, ConflictsFine, QueueTypeOK, Write
<1>6. OneWorkerEach'
  BY DEF OneWorkerEach, Holds
<1>7. CompletedIsWhole' /\ ConflictIsFinal'
  BY <1>1 DEF CompletedIsWhole, ConflictIsFinal, RowsFine, ConflictsFine, Pending, Finished
<1>. QED
  BY <1>3, <1>4, <1>5, <1>6, <1>7

\* A claim that takes effect finds the row queued, so nobody holds it and
\* nothing was published for it.
LEMMA ClaimStep ==
  ASSUME QueueInv, NEW w \in Worker, Claim(w)
  PROVE  QueueInv'
<1>0. QueueTypeOK /\ worker[w] \in WorkerState /\ Fine(worker[w]) /\ worker[w].pc = "claim"
  BY DEF QueueInv, QueueTypeOK, WorkersFine, Claim
<1>1. PICK s \in Scan : s = worker[w].scan /\ row[s].status # "absent"
  BY <1>0 DEF Fine
<1>2. PICK reply \in Reply :
        /\ Spend(w, reply)
        /\ row' = IF reply # "failed" /\ Claimable(s)
                  THEN [row EXCEPT ![s].status = "running"] ELSE row
        /\ worker' = [worker EXCEPT ![w] =
             IF reply # "answered" THEN ClaimFailed(w)
             ELSE IF Claimable(s)  THEN [worker[w] EXCEPT !.pc = "fetch"]
             ELSE NoScan(w)]
  BY <1>1 DEF Claim
<1>3. UNCHANGED <<writes, canceller>> /\ faults' \in Nat /\ struck' \subseteq Scan
  BY <1>0, <1>2, SpendType DEF Claim
<1>4. PICK v : /\ v \in WorkerState
               /\ worker' = [worker EXCEPT ![w] = v]
               /\ \/ v.pc \in {"find"} \cup Stopped
                  \/ v.pc = "fetch" /\ v.scan = s /\ reply = "answered" /\ Claimable(s)
  <2>1. CASE reply # "answered"
    <3>1. worker' = [worker EXCEPT ![w] = ClaimFailed(w)]
      BY <1>2, <2>1
    <3>. QED
      BY <1>0, <3>1, FreeStates DEF Stopped
  <2>2. CASE reply = "answered" /\ Claimable(s)
    <3>1. PICK v : v = [worker[w] EXCEPT !.pc = "fetch"]
      OBVIOUS
    <3>2. v \in WorkerState /\ v.pc = "fetch" /\ v.scan = s
      BY <1>0, <1>1, <3>1 DEF WorkerState
    <3>3. worker' = [worker EXCEPT ![w] = v]
      BY <1>2, <2>2, <3>1
    <3>. QED
      BY <2>2, <3>2, <3>3
  <2>3. CASE reply = "answered" /\ ~Claimable(s)
    <3>1. worker' = [worker EXCEPT ![w] = NoScan(w)]
      BY <1>2, <2>3
    <3>. QED
      BY <1>0, <3>1, FreeStates DEF Stopped
  <2>. QED
    BY <2>1, <2>2, <2>3
<1>5. CASE reply # "failed" /\ Claimable(s)
  <2>1. row' = [row EXCEPT ![s].status = "running"] /\ row[s].status = "queued"
    BY <1>2, <1>5 DEF Claimable
  <2>2. /\ row'[s].status = "running" /\ row'[s].pages = row[s].pages
        /\ row'[s].stored = row[s].stored
        /\ \A q \in Scan : q # s => row'[q] = row[q]
    BY <1>0, <2>1 DEF QueueTypeOK, ScanRow
  <2>3. row' \in [Scan -> ScanRow]
    BY <1>0, <2>1 DEF QueueTypeOK, ScanRow, Pending
  <2>4. QueueTypeOK'
    BY <1>0, <1>3, <1>4, <2>3 DEF QueueTypeOK
  <2>5. \A u \in Worker : worker'[u] = IF u = w THEN v ELSE worker[u]
    BY <1>0, <1>4 DEF QueueTypeOK
  <2>6. \A u \in Worker : ~Holds(u, s)
    BY <2>1 DEF QueueInv, WorkersFine, Fine, Holds, Holding
  <2>7. row[s].pages = 0 /\ \A x \in writes : x.scan # s
    BY <2>1 DEF QueueInv, RowsFine, WritesFine
  <2>8. WorkersFine'
    <3>1. ASSUME NEW u \in Worker PROVE Fine(worker[u])'
      <4>1. CASE u = w
        BY <1>3, <1>4, <2>2, <2>5, <2>7, <4>1 DEF Fine, Holding, Stopped
      <4>2. CASE u # w
        <5>1. worker'[u] = worker[u] /\ Fine(worker[u])
          BY <2>5, <4>2 DEF QueueInv, WorkersFine
        <5>2. worker[u].scan # s \/ worker[u].pc \notin Holding
          BY <2>6 DEF Holds, Holding
        <5>. QED
          BY <1>3, <2>2, <5>1, <5>2 DEF Fine, Holding
      <4>. QED
        BY <4>1, <4>2
    <3>. QED
      BY <3>1 DEF WorkersFine
  <2>9. WritesFine' /\ RowsFine' /\ ConflictsFine'
    BY <1>0, <1>3, <2>2, <2>7 DEF QueueInv, WritesFine, RowsFine, ConflictsFine, QueueTypeOK, Write
  <2>10. OneWorkerEach'
    BY <1>4, <2>5, <2>6 DEF QueueInv, OneWorkerEach, Holds, Stopped
  <2>11. CompletedIsWhole' /\ ConflictIsFinal'
    BY <1>3, <2>1, <2>2
    DEF QueueInv, CompletedIsWhole, ConflictIsFinal, ConflictsFine, Pending, Finished
  <2>. QED
    BY <2>4, <2>8, <2>9, <2>10, <2>11 DEF QueueInv
<1>6. CASE ~(reply # "failed" /\ Claimable(s))
  <2>1. row' = row /\ v.pc \in {"find"} \cup Stopped
    BY <1>2, <1>4, <1>6
  <2>. QED
    BY <1>3, <1>4, <2>1, FreeIsFine, WorkerOnly
<1>. QED
  BY <1>5, <1>6

\* A page counted is published only when no write of the scan is on its way.
LEMMA VisitStep ==
  ASSUME QueueInv, NEW w \in Worker, VisitPage(w)
  PROVE  QueueInv'
<1>0. /\ QueueTypeOK /\ worker[w] \in WorkerState /\ Fine(worker[w])
      /\ worker[w].pc = "crawl" /\ worker[w].open > 0
      /\ UNCHANGED <<row, canceller, faults, struck>>
  BY DEF QueueInv, QueueTypeOK, WorkersFine, VisitPage
<1>1. PICK s \in Scan : s = worker[w].scan /\ row[s].status \notin {"absent", "queued"}
  BY <1>0 DEF Fine, Holding
<1>2. PICK event, publish \in BOOLEAN, n \in Nat :
        /\ n \in {worker[w].counted, worker[w].counted + 1}
        /\ n <= worker[w].visited + 1
        /\ publish => MayPublish(s)
        /\ worker' = [worker EXCEPT ![w].open = worker[w].open - 1,
                                    ![w].visited = worker[w].visited + 1, ![w].counted = n]
        /\ writes' = IF publish THEN writes \cup {[scan |-> s, pages |-> n]} ELSE writes
  <2>1. PICK event, publish \in BOOLEAN :
          LET n == IF event THEN worker[w].counted + 1 ELSE worker[w].counted IN
          /\ publish => event /\ MayPublish(s)
          /\ worker' = [worker EXCEPT ![w].open = worker[w].open - 1,
                          ![w].visited = worker[w].visited + 1, ![w].counted = n]
          /\ writes' = IF publish THEN writes \cup {[scan |-> s, pages |-> n]} ELSE writes
    BY <1>1 DEF VisitPage
  <2>2. worker[w].counted \in Nat /\ worker[w].visited \in Nat
        /\ worker[w].counted <= worker[w].visited
    BY <1>0 DEF Fine, WorkerState
  <2>3. PICK n \in Nat : n = IF event THEN worker[w].counted + 1 ELSE worker[w].counted
    BY <2>2
  <2>4. n \in {worker[w].counted, worker[w].counted + 1} /\ n <= worker[w].visited + 1
    BY <2>2, <2>3
  <2>. QED
    BY <2>1, <2>3, <2>4
<1>3. worker[w].open - 1 \in 0..Concurrency /\ worker[w].visited + 1 \in 0..MaxPages
  BY <1>0, QueueAssumption DEF Fine, WorkerState
<1>4. PICK v : v = [worker[w] EXCEPT !.open = worker[w].open - 1,
                                     !.visited = worker[w].visited + 1, !.counted = n]
  OBVIOUS
<1>5. v \in WorkerState
  BY <1>0, <1>3, <1>4 DEF WorkerState
<1>6. v.pc = "crawl" /\ v.scan = s
  BY <1>0, <1>1, <1>4 DEF WorkerState
<1>7. v.open = worker[w].open - 1 /\ v.visited = worker[w].visited + 1 /\ v.counted = n
  BY <1>0, <1>4 DEF WorkerState
<1>8. worker' = [worker EXCEPT ![w] = v]
  BY <1>2, <1>4
<1>9. \A u \in Worker : worker'[u] = IF u = w THEN v ELSE worker[u]
  BY <1>0, <1>8 DEF QueueTypeOK
<1>10. \A x \in writes' : x \in writes \/ x = [scan |-> s, pages |-> n]
  BY <1>2
<1>11. /\ worker[w].visited + worker[w].open <= MaxPages
       /\ row[s].pages <= worker[w].counted
       /\ \A x \in writes : x.scan = s => x.pages <= worker[w].counted
  BY <1>0, <1>1 DEF Fine
<1>12. /\ worker[w].counted \in Nat /\ worker[w].visited \in Nat /\ worker[w].open \in Nat
       /\ row[s].pages \in Nat /\ \A x \in writes : x.pages \in Nat /\ x.scan \in Scan
  BY <1>0 DEF WorkerState, QueueTypeOK, ScanRow, Write
<1>13. QueueTypeOK'
  <2>1. writes' \subseteq Write
    BY <1>0, <1>2 DEF QueueTypeOK, Write
  <2>. QED
    BY <1>0, <1>5, <1>8, <2>1 DEF QueueTypeOK
<1>14. WorkersFine'
  <2>1. ASSUME NEW u \in Worker PROVE Fine(worker[u])'
    <3>1. CASE u = w
      <4>1. v.visited + v.open <= MaxPages /\ v.counted <= v.visited /\ row[s].pages <= v.counted
        BY <1>2, <1>7, <1>11, <1>12
      <4>2. \A x \in writes' : x.scan = s => x.pages <= v.counted
        BY <1>2, <1>7, <1>10, <1>11, <1>12
      <4>. QED
        BY <1>0, <1>1, <1>6, <1>9, <3>1, <4>1, <4>2 DEF Fine, Holding
    <3>2. CASE u # w
      <4>1. worker'[u] = worker[u] /\ Fine(worker[u])
        BY <1>9, <3>2 DEF QueueInv, WorkersFine
      <4>2. worker[u].scan # s \/ worker[u].pc \notin Holding
        BY <1>0, <1>1, <3>2 DEF QueueInv, OneWorkerEach, Holds, Holding
      <4>. QED
        BY <1>0, <1>10, <4>1, <4>2 DEF Fine, Holding
    <3>. QED
      BY <3>1, <3>2
  <2>. QED
    BY <2>1 DEF WorkersFine
<1>15. WritesFine'
  <2>1. CASE publish
    <3>1. \A x \in writes : x.scan # s
      BY <1>2, <2>1 DEF MayPublish
    <3>2. row[s].pages <= n
      BY <1>2, <1>11, <1>12
    <3>. QED
      BY <1>0, <1>1, <1>10, <3>1, <3>2 DEF QueueInv, WritesFine
  <2>2. CASE ~publish
    BY <1>0, <1>2, <2>2 DEF QueueInv, WritesFine
  <2>. QED
    BY <2>1, <2>2
<1>16. RowsFine' /\ ConflictsFine' /\ CompletedIsWhole' /\ ConflictIsFinal'
  BY <1>0 DEF QueueInv, RowsFine, ConflictsFine, CompletedIsWhole, ConflictIsFinal
<1>17. OneWorkerEach'
  BY <1>0, <1>1, <1>6, <1>9 DEF QueueInv, OneWorkerEach, Holds
<1>. QED
  BY <1>13, <1>14, <1>15, <1>16, <1>17 DEF QueueInv

LEMMA WriteSteps ==
  ASSUME QueueInv, NEW x \in writes, RecordProgress(x) \/ LoseProgress(x)
  PROVE  QueueInv'
<1>0. /\ QueueTypeOK /\ writes' = writes \ {x}
      /\ UNCHANGED <<worker, canceller, faults, struck>>
      /\ x.scan \in Scan /\ x.pages \in Nat
  BY DEF QueueInv, QueueTypeOK, Write, RecordProgress, LoseProgress
<1>1. CASE RecordProgress(x) /\ AcceptsProgress(x.scan)
  <2>1. PICK s \in Scan : s = x.scan /\ row[s].status = "running"
    BY <1>0, <1>1 DEF AcceptsProgress
  <2>2. row' = [row EXCEPT ![s].pages = x.pages]
    BY <1>1, <2>1 DEF RecordProgress
  <2>3. /\ row'[s].status = "running" /\ row'[s].pages = x.pages
        /\ row'[s].stored = row[s].stored
        /\ \A q \in Scan : q # s => row'[q] = row[q]
    BY <1>0, <2>1, <2>2 DEF QueueTypeOK, ScanRow
  <2>4. row' \in [Scan -> ScanRow]
    BY <1>0, <2>2 DEF QueueTypeOK, ScanRow
  <2>5. QueueTypeOK'
    BY <1>0, <2>4 DEF QueueTypeOK
  <2>6. WorkersFine'
    <3>1. ASSUME NEW w \in Worker PROVE Fine(worker[w])'
      <4>1. Fine(worker[w])
        BY DEF QueueInv, WorkersFine
      <4>2. CASE worker[w].scan = s
        BY <1>0, <2>1, <2>3, <4>1, <4>2 DEF Fine, Holding
      <4>3. CASE worker[w].scan # s
        BY <1>0, <2>3, <4>1, <4>3 DEF Fine, Holding
      <4>. QED
        BY <4>2, <4>3
    <3>. QED
      BY <3>1 DEF WorkersFine
  <2>7. WritesFine'
    BY <1>0, <2>1, <2>3 DEF QueueInv, WritesFine, QueueTypeOK, Write
  <2>8. RowsFine' /\ ConflictsFine'
    BY <1>0, <2>3 DEF QueueInv, RowsFine, ConflictsFine
  <2>9. OneWorkerEach'
    BY <1>0 DEF QueueInv, OneWorkerEach, Holds
  <2>10. CompletedIsWhole' /\ ConflictIsFinal'
    BY <1>0, <2>1, <2>3
    DEF QueueInv, CompletedIsWhole, ConflictIsFinal, ConflictsFine, Pending, Finished
  <2>. QED
    BY <2>5, <2>6, <2>7, <2>8, <2>9, <2>10 DEF QueueInv
<1>2. CASE LoseProgress(x) \/ ~AcceptsProgress(x.scan)
  <2>1. row' = row
    BY <1>2 DEF RecordProgress, LoseProgress
  <2>2. QueueTypeOK' /\ WorkersFine' /\ WritesFine'
    BY <1>0, <2>1 DEF QueueInv, QueueTypeOK, WorkersFine, Fine, WritesFine
  <2>3. RowsFine' /\ ConflictsFine' /\ OneWorkerEach'
    BY <1>0, <2>1 DEF QueueInv, RowsFine, ConflictsFine, OneWorkerEach, Holds
  <2>4. CompletedIsWhole' /\ ConflictIsFinal'
    BY <1>0, <2>1 DEF QueueInv, CompletedIsWhole, ConflictIsFinal
  <2>. QED
    BY <2>2, <2>3, <2>4 DEF QueueInv
<1>. QED
  BY <1>1, <1>2

\* An outcome: the holder of a scan ends it, and keeps it only in order to fail it.
LEMMA OutcomeStep ==
  ASSUME QueueInv, NEW w \in Worker, NEW s \in Scan, NEW r \in ScanRow, NEW v \in WorkerState,
         worker[w].scan = s, worker[w].pc \in Holding,
         r.status \in {"completed", "failed"},
         r.status = "completed" => r.stored = Least(r.pages, PageCap),
         row' = [row EXCEPT ![s] = r],
         v.pc = "find" \/ (v.pc = "fail" /\ v.scan = s),
         worker' = [worker EXCEPT ![w] = v],
         UNCHANGED <<writes, canceller>>, faults' \in Nat, struck' \subseteq Scan
  PROVE  QueueInv'
<1>1. /\ \A u \in Worker : worker'[u] = IF u = w THEN v ELSE worker[u]
      /\ \A q \in Scan : row'[q] = IF q = s THEN r ELSE row[q]
  BY DEF QueueInv, QueueTypeOK
<1>2. QueueTypeOK'
  BY DEF QueueInv, QueueTypeOK
<1>3. WorkersFine'
  <2>1. ASSUME NEW u \in Worker PROVE Fine(worker[u])'
    <3>1. Fine(worker[u])
      BY DEF QueueInv, WorkersFine
    <3>2. CASE u = w
      BY <1>1, <3>2 DEF Fine, Holding
    <3>3. CASE u # w /\ worker[u].scan = s
      <4>1. worker[u].pc \notin Holding
        BY <3>3 DEF QueueInv, OneWorkerEach, Holds, Holding
      <4>. QED
        BY <1>1, <3>1, <3>3, <4>1 DEF Fine, Holding
    <3>4. CASE u # w /\ worker[u].scan # s
      BY <1>1, <3>1, <3>4 DEF Fine, Holding
    <3>. QED
      BY <3>2, <3>3, <3>4
  <2>. QED
    BY <2>1 DEF WorkersFine
<1>4. WritesFine' /\ RowsFine' /\ ConflictsFine'
  BY <1>1 DEF QueueInv, WritesFine, RowsFine, ConflictsFine, QueueTypeOK, Write
<1>5. OneWorkerEach'
  BY <1>1 DEF QueueInv, OneWorkerEach, Holds, Holding
<1>6. CompletedIsWhole' /\ ConflictIsFinal'
  BY <1>1 DEF QueueInv, CompletedIsWhole, ConflictIsFinal, ConflictsFine, Pending, Finished
<1>. QED
  BY <1>2, <1>3, <1>4, <1>5, <1>6 DEF QueueInv

LEMMA PersistStep ==
  ASSUME QueueInv, NEW w \in Worker, PersistResult(w)
  PROVE  QueueInv'
<1>0. /\ QueueTypeOK /\ worker[w] \in WorkerState /\ Fine(worker[w])
      /\ worker[w].pc = "persist" /\ UNCHANGED <<writes, canceller>>
  BY DEF QueueInv, QueueTypeOK, WorkersFine, PersistResult
<1>1. PICK s \in Scan, n \in Nat : s = worker[w].scan /\ n = worker[w].visited
  BY <1>0 DEF Fine, Holding, WorkerState
<1>2. PICK r : r = [status |-> "completed", pages |-> n, stored |-> Least(n, PageCap)]
  OBVIOUS
<1>3. r \in ScanRow /\ r.status = "completed" /\ r.stored = Least(r.pages, PageCap)
  BY <1>1, <1>2, QueueAssumption DEF ScanRow, Finished, Least
<1>4. PICK reply \in Reply :
        /\ Spend(w, reply)
        /\ row' = IF reply = "failed" THEN row ELSE [row EXCEPT ![s] = r]
        /\ worker' = [worker EXCEPT ![w] =
             IF reply = "answered" THEN NextRound(w) ELSE [worker[w] EXCEPT !.pc = "fail"]]
  BY <1>1, <1>2 DEF PersistResult
<1>5. faults' \in Nat /\ struck' \subseteq Scan
  BY <1>0, <1>4, SpendType
<1>6. PICK v : v = [worker[w] EXCEPT !.pc = "fail"]
  OBVIOUS
<1>7. v \in WorkerState /\ v.pc = "fail" /\ v.scan = s
  BY <1>0, <1>1, <1>6 DEF WorkerState
<1>8. CASE reply = "answered"
  <2>1. PICK u \in WorkerState : u = NextRound(w) /\ u.pc = "find"
    BY <1>0, FreeStates
  <2>2. row' = [row EXCEPT ![s] = r] /\ worker' = [worker EXCEPT ![w] = u]
    BY <1>4, <1>8, <2>1
  <2>. QED
    BY <1>0, <1>1, <1>3, <1>5, <2>1, <2>2, OutcomeStep DEF Holding
<1>9. CASE reply = "lost"
  <2>1. row' = [row EXCEPT ![s] = r] /\ worker' = [worker EXCEPT ![w] = v]
    BY <1>4, <1>6, <1>9
  <2>. QED
    BY <1>0, <1>1, <1>3, <1>5, <1>7, <2>1, OutcomeStep DEF Holding
<1>10. CASE reply = "failed"
  <2>1. row' = row /\ worker' = [worker EXCEPT ![w] = v]
    BY <1>4, <1>6, <1>10
  <2>2. Fine(v)
    BY <1>0, <1>1, <1>7 DEF Fine, Holding
  <2>. QED
    BY <1>0, <1>1, <1>5, <1>7, <2>1, <2>2, WorkerOnly DEF Holding
<1>. QED
  BY <1>8, <1>9, <1>10 DEF Reply

LEMMA FailStep ==
  ASSUME QueueInv, NEW w \in Worker, MarkFailed(w)
  PROVE  QueueInv'
<1>0. /\ QueueTypeOK /\ worker[w] \in WorkerState /\ Fine(worker[w])
      /\ worker[w].pc = "fail" /\ UNCHANGED <<writes, canceller>>
      /\ worker' = [worker EXCEPT ![w] = NextRound(w)]
  BY DEF QueueInv, QueueTypeOK, WorkersFine, MarkFailed
<1>1. PICK s \in Scan : s = worker[w].scan
  BY <1>0 DEF Fine, Holding
<1>2. PICK r : r = [row[s] EXCEPT !.status = "failed"]
  OBVIOUS
<1>3. r \in ScanRow /\ r.status = "failed"
  BY <1>0, <1>2 DEF QueueTypeOK, ScanRow, Finished
<1>4. PICK reply \in Reply :
        /\ Spend(w, reply)
        /\ row' = IF reply = "failed" THEN row ELSE [row EXCEPT ![s] = r]
  BY <1>1, <1>2 DEF MarkFailed, MarkedFailed
<1>5. faults' \in Nat /\ struck' \subseteq Scan
  BY <1>0, <1>4, SpendType
<1>6. CASE reply = "failed"
  <2>1. row' = row
    BY <1>4, <1>6
  <2>2. Fine(NextRound(w)) /\ NextRound(w).pc \notin Holding
    BY <1>0, FreeStates, FreeIsFine
  <2>. QED
    BY <1>0, <1>5, <2>1, <2>2, FreeStates, WorkerOnly
<1>7. CASE reply # "failed"
  <2>1. PICK u \in WorkerState : u = NextRound(w) /\ u.pc = "find"
    BY <1>0, FreeStates
  <2>2. row' = [row EXCEPT ![s] = r] /\ worker' = [worker EXCEPT ![w] = u]
    BY <1>0, <1>4, <1>7, <2>1
  <2>. QED
    BY <1>0, <1>1, <1>3, <1>5, <2>1, <2>2, OutcomeStep DEF Holding
<1>. QED
  BY <1>6, <1>7

LEMMA CancelStep ==
  ASSUME QueueInv, NEW c \in Canceller, CancelScan(c)
  PROVE  QueueInv'
<1>0. QueueTypeOK /\ UNCHANGED <<worker, writes, faults, struck>>
  BY DEF QueueInv, CancelScan
<1>1. PICK s \in Scan :
        /\ row[s].status # "absent"
        /\ row' = IF Cancellable(s)
                  THEN [row EXCEPT ![s].status = "cancelled"] ELSE row
        /\ canceller' = [canceller EXCEPT ![c] =
             IF Cancellable(s) THEN [pc |-> "accepted", scan |-> None]
             ELSE [pc |-> "conflict", scan |-> s]]
  BY DEF CancelScan
<1>2. PICK d : d = IF Cancellable(s) THEN [pc |-> "accepted", scan |-> None]
                   ELSE [pc |-> "conflict", scan |-> s]
  OBVIOUS
<1>3. d \in CancellerState /\ (d.pc = "conflict" => d.scan = s /\ ~Cancellable(s))
  BY <1>2 DEF CancellerState
<1>4. \A b \in Canceller : canceller'[b] = IF b = c THEN d ELSE canceller[b]
  BY <1>0, <1>1, <1>2 DEF QueueTypeOK
<1>5. canceller' \in [Canceller -> CancellerState]
  BY <1>0, <1>1, <1>2, <1>3 DEF QueueTypeOK
<1>6. /\ row' \in [Scan -> ScanRow]
      /\ \A q \in Scan : /\ row'[q].pages = row[q].pages /\ row'[q].stored = row[q].stored
                         /\ row'[q].status = row[q].status \/ row'[q].status = "cancelled"
      /\ \A q \in Scan : row[q].status = "absent" => row'[q].status = "absent"
  <2>1. CASE Cancellable(s)
    BY <1>0, <1>1, <2>1 DEF QueueTypeOK, ScanRow, Finished, Cancellable, Pending
  <2>2. CASE ~Cancellable(s)
    BY <1>0, <1>1, <2>2 DEF QueueTypeOK
  <2>. QED
    BY <2>1, <2>2
<1>7. QueueTypeOK'
  BY <1>0, <1>5, <1>6 DEF QueueTypeOK
<1>8. WorkersFine'
  <2>1. ASSUME NEW w \in Worker PROVE Fine(worker[w])'
    <3>1. Fine(worker[w])
      BY DEF QueueInv, WorkersFine
    <3>. QED
      BY <1>0, <1>6, <3>1 DEF Fine, Holding
  <2>. QED
    BY <2>1 DEF WorkersFine
<1>9. WritesFine'
  BY <1>0, <1>6 DEF QueueInv, WritesFine, QueueTypeOK, Write
<1>10. RowsFine'
  BY <1>6 DEF QueueInv, RowsFine
<1>11. ConflictsFine'
  BY <1>3, <1>4 DEF QueueInv, ConflictsFine
<1>12. OneWorkerEach'
  BY <1>0 DEF QueueInv, OneWorkerEach, Holds
<1>13. CompletedIsWhole'
  BY <1>6 DEF QueueInv, CompletedIsWhole, Pending
<1>14. ConflictIsFinal'
  <2>1. \A q \in Scan : row[q].status \in Finished => row'[q].status \in Finished
    BY <1>6 DEF Finished
  <2>2. ~Cancellable(s) => row[s].status \in Finished
    BY <1>0, <1>1 DEF Cancellable, QueueTypeOK, ScanRow
  <2>. QED
    BY <1>3, <1>4, <2>1, <2>2 DEF QueueInv, ConflictIsFinal, ConflictsFine
<1>. QED
  BY <1>7, <1>8, <1>9, <1>10, <1>11, <1>12, <1>13, <1>14 DEF QueueInv

(***************************************************************************)
(* The theorems.                                                           *)
(***************************************************************************)

LEMMA NextInv == QueueInv /\ [QueueNext]_queueVars => QueueInv'
<1>. SUFFICES ASSUME QueueInv, [QueueNext]_queueVars PROVE QueueInv'
  OBVIOUS
<1>1. CASE \E s \in Scan : CreateScan(s)
  BY <1>1, CreateStep
<1>2. ASSUME NEW w \in Worker, Run(w) \/ Abort(w) \/ Kill(w) PROVE QueueInv'
  BY <1>2, QuietSteps, ClaimStep, VisitStep, PersistStep, FailStep DEF Run
<1>3. CASE \E x \in writes : RecordProgress(x) \/ LoseProgress(x)
  BY <1>3, WriteSteps
<1>4. CASE \E c \in Canceller : CancelScan(c)
  BY <1>4, CancelStep
<1>5. CASE UNCHANGED queueVars
  BY <1>5
  DEF queueVars, QueueInv, QueueTypeOK, WorkersFine, Fine, WritesFine, RowsFine, ConflictsFine,
      OneWorkerEach, Holds, CompletedIsWhole, ConflictIsFinal
<1>. QED
  BY <1>1, <1>2, <1>3, <1>4, <1>5 DEF QueueNext

LEMMA Invariant == QueueSpec => []QueueInv
  BY InitInv, NextInv, PTL DEF QueueSpec

\* Rows, workers and writes keep their declared types; in particular a crawl
\* never visits more pages than its limit.
THEOREM QueueTypeCorrect == QueueSpec => []QueueTypeOK
<1>1. QueueInv => QueueTypeOK
  BY DEF QueueInv
<1>. QED
  BY Invariant, <1>1, PTL

\* However many workers race for the queue, no scan is performed by two of them.
THEOREM NoScanShared == QueueSpec => []OneWorkerEach
<1>1. QueueInv => OneWorkerEach
  BY DEF QueueInv
<1>. QED
  BY Invariant, <1>1, PTL

\* A completed scan has its pages and its totals, whatever progress write is late.
THEOREM CompletedStaysWhole == QueueSpec => []CompletedIsWhole
<1>1. QueueInv => CompletedIsWhole
  BY DEF QueueInv
<1>. QED
  BY Invariant, <1>1, PTL

\* A refusal to cancel is never belied by a later step.
THEOREM RefusalStands == QueueSpec => []ConflictIsFinal
<1>1. QueueInv => ConflictIsFinal
  BY DEF QueueInv
<1>. QED
  BY Invariant, <1>1, PTL
\* No step takes the counters of a scan back: a write on its way to a running
\* scan carries at least what the row shows, and a worker's total at least what
\* it published.
LEMMA StepForward ==
  ASSUME QueueInv, [QueueNext]_queueVars, NEW s \in Scan
  PROVE  row'[s].pages >= row[s].pages
<1>0. /\ row \in [Scan -> ScanRow] /\ row[s].pages \in Nat /\ row[s].pages >= row[s].pages
      /\ \A w \in Worker : Fine(worker[w]) /\ worker[w] \in WorkerState
      /\ \A x \in writes : x.scan \in Scan /\ x.pages \in Nat
  BY DEF QueueInv, QueueTypeOK, ScanRow, Write, WorkersFine
<1>1. ASSUME NEW q \in Scan, CreateScan(q) PROVE row'[s].pages >= row[s].pages
  BY <1>0, <1>1 DEF CreateScan, ScanRow
<1>2. ASSUME NEW w \in Worker, Claim(w) PROVE row'[s].pages >= row[s].pages
  <2>1. row' = row \/ row' = [row EXCEPT ![worker[w].scan].status = "running"]
    BY <1>2 DEF Claim
  <2>. QED
    BY <1>0, <2>1 DEF ScanRow
<1>3. ASSUME NEW w \in Worker, PersistResult(w) PROVE row'[s].pages >= row[s].pages
  <2>1. PICK q \in Scan, n \in Nat :
          q = worker[w].scan /\ n = worker[w].visited /\ row[q].pages <= n
    BY <1>0, <1>3 DEF PersistResult, Fine, Holding, WorkerState, ScanRow
  <2>2. PICK r : r = [status |-> "completed", pages |-> n, stored |-> Least(n, PageCap)]
    OBVIOUS
  <2>3. r.pages = n
    BY <2>2
  <2>4. row' = row \/ row' = [row EXCEPT ![q] = r]
    BY <1>3, <2>1, <2>2 DEF PersistResult
  <2>. QED
    BY <1>0, <2>1, <2>3, <2>4
<1>4. ASSUME NEW w \in Worker, MarkFailed(w) PROVE row'[s].pages >= row[s].pages
  <2>1. row' = row \/ row' = [row EXCEPT ![worker[w].scan] = MarkedFailed(@)]
    BY <1>4 DEF MarkFailed
  <2>. QED
    BY <1>0, <2>1 DEF MarkedFailed, ScanRow
<1>5. ASSUME NEW x \in writes, RecordProgress(x) PROVE row'[s].pages >= row[s].pages
  <2>1. row' = row \/ (AcceptsProgress(x.scan) /\ row' = [row EXCEPT ![x.scan].pages = x.pages])
    BY <1>5 DEF RecordProgress
  <2>2. AcceptsProgress(x.scan) => row[x.scan].pages <= x.pages
    BY DEF QueueInv, WritesFine, AcceptsProgress
  <2>. QED
    BY <1>0, <2>1, <2>2 DEF ScanRow
<1>6. ASSUME NEW c \in Canceller, CancelScan(c) PROVE row'[s].pages >= row[s].pages
  <2>1. row' = row \/ \E q \in Scan : row' = [row EXCEPT ![q].status = "cancelled"]
    BY <1>6 DEF CancelScan
  <2>. QED
    BY <1>0, <2>1 DEF ScanRow
<1>7. ASSUME row' = row PROVE row'[s].pages >= row[s].pages
  BY <1>0, <1>7
<1>8. ASSUME NEW w \in Worker, Run(w) \/ Abort(w) \/ Kill(w), ~Claim(w), ~PersistResult(w), ~MarkFailed(w)
      PROVE  row' = row
  BY <1>8
  DEF Run, Abort, Kill, EndLoop, FindCandidate, FindNothing, FindFails, Fetch, TakeBatch,
      VisitPage, EndCrawl, CrawlFails
<1>9. ASSUME UNCHANGED queueVars PROVE row' = row
  BY <1>9 DEF queueVars
<1>10. ASSUME NEW x \in writes, LoseProgress(x) PROVE row' = row
  BY <1>10 DEF LoseProgress
<1>. QED
  BY <1>1, <1>2, <1>3, <1>4, <1>5, <1>6, <1>7, <1>8, <1>9, <1>10 DEF QueueNext

\* The counters a progress screen polls never go backwards.
THEOREM CountersGrow == QueueSpec => ProgressForward
<1>1. QueueInv /\ [QueueNext]_queueVars => [\A s \in Scan : row'[s].pages >= row[s].pages]_queueVars
  BY StepForward
<1>. QED
  BY Invariant, <1>1, PTL DEF QueueSpec, ProgressForward

-----------------------------------------------------------------------------
(***************************************************************************)
(*                                 A crawl                                 *)
(***************************************************************************)

(***************************************************************************)
(* Induction over the naturals, without an operator for a parameter, and   *)
(* what it says of functions defined by recursion over 0..n.               *)
(***************************************************************************)
LEMMA LeastNatural ==
    ASSUME NEW T \in SUBSET Nat, T # {}
    PROVE  \E x \in T : \A y \in T : x <= y
<1>. DEFINE R == OpToRel(<, Nat)
<1>1. IsWellFoundedOn(R, Nat)
  BY NatLessThanWellFounded
<1>2. \A x, y \in Nat : <<y, x>> \in R <=> y < x
  BY DEF OpToRel
<1>. HIDE DEF R
<1>3. PICK x \in T : \A y \in T : ~(<<y, x>> \in R)
  BY <1>1, WFMin
<1>4. \A y \in T : ~(y < x)
  BY <1>2, <1>3
<1>. QED  BY <1>4

LEMMA Induction ==
    ASSUME NEW S, 0 \in S, \A n \in Nat : n \in S => n + 1 \in S
    PROVE  Nat \subseteq S
<1>. DEFINE T == Nat \ S
<1>1. SUFFICES ASSUME T # {} PROVE FALSE
  OBVIOUS
<1>2. PICK x \in T : \A y \in T : x <= y
  BY <1>1, LeastNatural
<1>3. x # 0 /\ x - 1 \in Nat /\ x - 1 \in S
  BY <1>2
<1>. QED  BY <1>2, <1>3

\* The functions over 0..n with a given first value and a step for each number up to n.
Unfoldings(n, S, base, step) ==
    {g \in [0..n -> S] : g[0] = base /\ \A k \in 1..n : g[k] = step[k][g[k - 1]]}

\* There is one.
LEMMA Recursion ==
    ASSUME NEW n \in Nat, NEW S, NEW base \in S, NEW step \in [1..n -> [S -> S]]
    PROVE  Unfoldings(n, S, base, step) # {}
<1>. DEFINE Upto(m) == \E g \in [0..m -> S] :
                         g[0] = base /\ \A k \in 1..m : g[k] = step[k][g[k - 1]]
            Done == {m \in Nat : m <= n => Upto(m)}
<1>1. 0 \in Done
  <2>. DEFINE g == [k \in 0..0 |-> base]
  <2>1. g \in [0..0 -> S] /\ g[0] = base
    OBVIOUS
  <2>2. \A k \in 1..0 : g[k] = step[k][g[k - 1]]
    OBVIOUS
  <2>. HIDE DEF g
  <2>. QED  BY <2>1, <2>2
<1>2. ASSUME NEW m \in Nat, m \in Done
      PROVE  m + 1 \in Done
  <2>1. SUFFICES ASSUME m + 1 <= n PROVE Upto(m + 1)
    OBVIOUS
  <2>2. PICK g \in [0..m -> S] : g[0] = base /\ \A k \in 1..m : g[k] = step[k][g[k - 1]]
    BY <1>2, <2>1
  <2>. DEFINE h == [k \in 0..m + 1 |-> IF k <= m THEN g[k] ELSE step[m + 1][g[m]]]
  <2>3. g[m] \in S /\ step[m + 1][g[m]] \in S
    BY <2>1
  <2>4. h \in [0..m + 1 -> S]
    BY <2>3
  <2>5. \A k \in 0..m : h[k] = g[k]
    OBVIOUS
  <2>6. h[m + 1] = step[m + 1][g[m]]
    OBVIOUS
  <2>. HIDE DEF h
  <2>7. \A k \in 1..m + 1 : h[k] = step[k][h[k - 1]]
    BY <2>2, <2>5, <2>6
  <2>. QED  BY <2>2, <2>4, <2>5, <2>7
<1>3. n \in Done
  BY <1>1, <1>2, Induction
<1>4. \E g \in [0..n -> S] : g[0] = base /\ \A k \in 1..n : g[k] = step[k][g[k - 1]]
  BY <1>3
<1>. QED  BY <1>4 DEF Unfoldings

(***************************************************************************)
(* The state of a crawl.                                                   *)
(***************************************************************************)
Load == UNION {UNION {s.loads[u] : u \in Url} : s \in Site}
Item == [url : Url, depth : Nat]
Captured == [path : Seq(STRING), status : Load \cup {Nowhere}, failed : BOOLEAN]
VisitState ==
    [url : Url, depth : Nat, pc : {"new", "open", "over"}, rendered : BOOLEAN, skipped : BOOLEAN,
     sent : SUBSET Load, settled : SUBSET [load : Load, ok : BOOLEAN], captured : Seq(Captured),
     keys : Nat, read : BOOLEAN, links : Seq(Url), signals : SUBSET {"script", "dialog"}]
PageState == [url : Url, depth : Nat, links : Seq(Url)]
LimitName == {"cancelled", "maxDuration", "maxPages", "maxRequests", "maxScripts",
              "maxStorageItems", "maxCookies", "queueBound"}
CrawlState ==
    [pc : {"loop", "visiting", "cookies", "done"}, site : Site, limits : Limits,
     queue : Seq(Item), seen : SUBSET Url, discovered : Nat, batch : Seq(VisitState),
     pages : Seq(PageState), skipped : Nat, consentOn : Url \cup {Nowhere},
     requests : Nat, scripts : Nat, keys : Nat, cookies : Nat,
     limit : LimitName \cup {Nowhere},
     lost : SUBSET {"request", "unrecorded", "script", "key", "inline", "link", "cookie"}]

LEMMA LoadTyped ==
    ASSUME NEW r \in Load
    PROVE  /\ r.path \in Seq(STRING) /\ r.query \in Seq(STRING)
           /\ r.http \in BOOLEAN /\ r.script \in BOOLEAN /\ r.consent \in BOOLEAN
           /\ r # Nowhere
BY CrawlAssumption DEF Load

LEMMA LimitsTyped ==
    ASSUME NEW l \in Limits
    PROVE  /\ l.pages \in Nat \ {0} /\ l.concurrency \in Nat \ {0}
           /\ l.depth \in Nat /\ l.requests \in Nat /\ l.scripts \in Nat /\ l.keys \in Nat
           /\ l.cookies \in Nat
BY CrawlAssumption

LEMMA Fields ==
    ASSUME NEW c \in CrawlState
    PROVE  /\ c.site \in Site /\ c.limits \in Limits /\ c.queue \in Seq(Item)
           /\ c.seen \subseteq Url
           /\ c.discovered \in Nat /\ c.batch \in Seq(VisitState) /\ c.pages \in Seq(PageState)
           /\ c.requests \in Nat /\ c.scripts \in Nat /\ c.keys \in Nat
           /\ c.limit \in LimitName \cup {Nowhere}
           /\ c.lost \subseteq {"request", "unrecorded", "script", "key", "inline", "link", "cookie"}
BY DEF CrawlState

LEMMA BatchTyped ==
    ASSUME NEW c \in CrawlState, NEW i \in DOMAIN c.batch
    PROVE  /\ i \in Nat \ {0} /\ c.batch[i] \in VisitState
           /\ c.batch[i].url \in Url /\ c.batch[i].depth \in Nat
<1>1. c.batch[i] \in VisitState /\ i \in Nat \ {0}
  BY Fields
<1>. QED  BY <1>1 DEF VisitState

-----------------------------------------------------------------------------
(***************************************************************************)
(* The links of a page.                                                    *)
(***************************************************************************)
LEMMA AddAnchorTyped ==
    ASSUME NEW links \in Seq(Url), NEW url \in Url, NEW href \in Href
    PROVE  AddAnchor(links, url, href) \in Seq(Url)
<1>1. Resolve[<<url, href>>] \in Url \cup {Nowhere}
  BY CrawlAssumption
<1>. QED  BY <1>1 DEF AddAnchor

LEMMA AcceptedTyped ==
    ASSUME NEW url \in Url, NEW hrefs \in Seq(Href)
    PROVE  Accepted(url, hrefs) \in Seq(Url)
<1>. DEFINE n == Len(hrefs)
            step == [k \in 1..n |-> [l \in Seq(Url) |-> AddAnchor(l, url, hrefs[k])]]
            After(f) == [k \in 0..n |-> IF k = 0 THEN << >> ELSE AddAnchor(f[k - 1], url, hrefs[k])]
            links == CHOOSE f : f = After(f)
<1>1. n \in Nat /\ << >> \in Seq(Url) /\ \A k \in 1..n : hrefs[k] \in Href
  OBVIOUS
<1>2. Accepted(url, hrefs) = links[n]
  BY DEF Accepted
<1>. HIDE DEF n
<1>3. step \in [1..n -> [Seq(Url) -> Seq(Url)]]
  BY <1>1, AddAnchorTyped
<1>4. \A k \in 1..n, l \in Seq(Url) : step[k][l] = AddAnchor(l, url, hrefs[k])
  OBVIOUS
<1>. HIDE DEF step
<1>5. PICK g \in Unfoldings(n, Seq(Url), << >>, step) : TRUE
  <2>. DEFINE Lists == Seq(Url)
              none == << >>
  <2>1. n \in Nat /\ none \in Lists /\ step \in [1..n -> [Lists -> Lists]]
    BY <1>1, <1>3
  <2>. HIDE DEF Lists, none
  <2>2. Unfoldings(n, Lists, none, step) # {}
    BY <2>1, Recursion
  <2>. QED  BY <2>2 DEF Lists, none
<1>6. \A k \in 1..n : g[k] = AddAnchor(g[k - 1], url, hrefs[k])
  <2>1. ASSUME NEW k \in 1..n PROVE k \in Int /\ k # 0 /\ k - 1 \in 0..n
    BY <1>1
  <2>. QED  BY <1>4, <1>5, <2>1 DEF Unfoldings
<1>7. g = After(g)
  <2>1. \A k \in 0..n : After(g)[k] = g[k]
    BY <1>1, <1>5, <1>6 DEF Unfoldings
  <2>2. After(g) = [k \in 0..n |-> After(g)[k]] /\ g = [k \in 0..n |-> g[k]]
    BY <1>5 DEF Unfoldings
  <2>. HIDE DEF After
  <2>. QED  BY <2>1, <2>2
<1>8. links = After(links)
  BY <1>7
<1>. HIDE DEF links
<1>9. \A k \in 0..n : links[k] = IF k = 0 THEN << >> ELSE AddAnchor(links[k - 1], url, hrefs[k])
  BY <1>8
<1>10. 0 \in 0..n
  BY <1>1
<1>10a. links[0] = << >>
  BY <1>9, <1>10
<1>11. \A k \in 1..n : links[k] = AddAnchor(links[k - 1], url, hrefs[k])
  BY <1>1, <1>9
<1>. DEFINE Good == {k \in Nat : k <= n => links[k] \in Seq(Url)}
<1>12. 0 \in Good
  BY <1>1, <1>10a
<1>13. ASSUME NEW k \in Nat, k \in Good
       PROVE  k + 1 \in Good
  <2>1. SUFFICES ASSUME k + 1 <= n PROVE links[k + 1] \in Seq(Url)
    OBVIOUS
  <2>2. k + 1 \in 1..n /\ links[k] \in Seq(Url)
    BY <1>1, <1>13, <2>1
  <2>3. links[k + 1] = AddAnchor(links[k], url, hrefs[k + 1])
    BY <1>11, <2>2
  <2>. QED  BY <1>1, <2>2, <2>3, AddAnchorTyped
<1>. HIDE DEF Good
<1>14. n \in Good
  BY <1>1, <1>12, <1>13, Induction
<1>. USE DEF Good
<1>. QED  BY <1>1, <1>2, <1>14
-----------------------------------------------------------------------------
(***************************************************************************)
(* Numbers.                                                                *)
(***************************************************************************)
LEMMA MinOfTwo ==
    ASSUME NEW x \in Int, NEW y \in Int
    PROVE  /\ Min({x, y}) \in {x, y} /\ Min({x, y}) <= x /\ Min({x, y}) <= y
           /\ Min({x, y}) \in Int
<1>1. \E z \in {x, y} : \A w \in {x, y} : z <= w
  <2>1. CASE x <= y
    BY <2>1
  <2>2. CASE y <= x
    BY <2>2
  <2>. QED  BY <2>1, <2>2
<1>2. Min({x, y}) \in {x, y} /\ \A w \in {x, y} : Min({x, y}) <= w
  BY <1>1 DEF Min
<1>. QED  BY <1>2

LEMMA MaxOfTwo ==
    ASSUME NEW x \in Int, NEW y \in Int
    PROVE  Max({x, y}) \in {x, y} /\ x <= Max({x, y}) /\ y <= Max({x, y}) /\ Max({x, y}) \in Int
<1>1. \E z \in {x, y} : \A w \in {x, y} : w <= z
  <2>1. CASE x <= y
    BY <2>1
  <2>2. CASE y <= x
    BY <2>2
  <2>. QED  BY <2>1, <2>2
<1>2. Max({x, y}) \in {x, y} /\ \A w \in {x, y} : w <= Max({x, y})
  BY <1>1 DEF Max
<1>. QED  BY <1>2

-----------------------------------------------------------------------------
(***************************************************************************)
(* What a step of one visit leaves alone.                                  *)
(***************************************************************************)
InBudget(c) ==
    c.requests <= c.limits.requests /\ c.scripts <= c.limits.scripts /\ c.keys <= c.limits.keys

SameFrontier(c, d) ==
    /\ d.site = c.site /\ d.limits = c.limits /\ d.queue = c.queue /\ d.seen = c.seen
    /\ d.discovered = c.discovered /\ d.pages = c.pages /\ d.pc = c.pc

\* The first limit to cost something is named, an inline script costs nothing.
Loses(c, d) ==
    \/ d.limit = c.limit /\ d.lost \in {c.lost, c.lost \cup {"inline"}}
    \/ /\ d.limit # Nowhere /\ d.limit \in {c.limit} \cup (LimitName \ {"maxPages"})
       /\ \E w \in {"request", "unrecorded", "script", "key"} : d.lost = c.lost \cup {w}

OneVisit(i, v) ==
    /\ crawl' \in CrawlState /\ v \in VisitState
    /\ crawl'.batch = [crawl.batch EXCEPT ![i] = v]
    /\ v.url = crawl.batch[i].url /\ v.depth = crawl.batch[i].depth
    /\ SameFrontier(crawl, crawl') /\ Loses(crawl, crawl')
    /\ InBudget(crawl) => InBudget(crawl')

\* All that is not the batch, the limit or what was lost is the same.
Alike(c, d) ==
    /\ d \in CrawlState /\ SameFrontier(c, d) /\ d.batch = c.batch
    /\ d.requests = c.requests /\ d.scripts = c.scripts /\ d.keys = c.keys

Spent(c, limit, w) == [Noted(c, limit) EXCEPT !.lost = @ \cup {w}]

LEMMA SpentTyped ==
    ASSUME NEW c \in CrawlState, NEW limit \in LimitName \ {"maxPages"},
           NEW w \in {"request", "unrecorded", "script", "key"}
    PROVE  Alike(c, Spent(c, limit, w)) /\ Loses(c, Spent(c, limit, w))
<1>. DEFINE e == Noted(c, limit)
            d == Spent(c, limit, w)
<1>1. limit # Nowhere
  BY CrawlAssumption DEF LimitName
<1>2. /\ e \in CrawlState /\ SameFrontier(c, e) /\ e.batch = c.batch /\ e.lost = c.lost
      /\ e.requests = c.requests /\ e.scripts = c.scripts /\ e.keys = c.keys
      /\ e.limit # Nowhere /\ e.limit \in {c.limit, limit}
  BY <1>1 DEF Noted, CrawlState, SameFrontier
<1>. HIDE DEF e
<1>3. d = [e EXCEPT !.lost = @ \cup {w}]
  BY DEF e, Spent
<1>. HIDE DEF d
<1>3a. e.lost \cup {w} \in SUBSET {"request", "unrecorded", "script", "key", "inline", "link", "cookie"}
  BY <1>2 DEF CrawlState
<1>4. d \in CrawlState /\ d.lost = c.lost \cup {w} /\ d.limit = e.limit
  BY <1>2, <1>3, <1>3a DEF CrawlState
<1>5. SameFrontier(c, d)
  BY <1>2, <1>3 DEF CrawlState, SameFrontier
<1>6. d.batch = c.batch /\ d.requests = c.requests /\ d.scripts = c.scripts /\ d.keys = c.keys
  BY <1>2, <1>3 DEF CrawlState
<1>. QED  BY <1>2, <1>4, <1>5, <1>6 DEF Loses, Alike, d

WithVisit(c, i, v) == [c EXCEPT !.batch[i] = v]

LEMMA WithVisitTyped ==
    ASSUME NEW c \in CrawlState, NEW i \in DOMAIN c.batch, NEW v \in VisitState
    PROVE  LET d == WithVisit(c, i, v)
           IN /\ d \in CrawlState /\ d.batch = [c.batch EXCEPT ![i] = v] /\ SameFrontier(c, d)
              /\ d.limit = c.limit /\ d.lost = c.lost
              /\ d.requests = c.requests /\ d.scripts = c.scripts /\ d.keys = c.keys
<1>. DEFINE bs == [c.batch EXCEPT ![i] = v]
            d == WithVisit(c, i, v)
<1>1. c.batch \in Seq(VisitState) /\ i \in 1..Len(c.batch)
  BY DEF CrawlState
<1>2. bs \in Seq(VisitState)
  BY <1>1, ExceptSeq
<1>3. d = [c EXCEPT !.batch = bs]
  BY DEF WithVisit
<1>. HIDE DEF bs, d
<1>4. d \in CrawlState /\ d.batch = bs
  BY <1>2, <1>3 DEF CrawlState
<1>5. SameFrontier(c, d) /\ d.limit = c.limit /\ d.lost = c.lost
  BY <1>3 DEF CrawlState, SameFrontier
<1>6. d.requests = c.requests /\ d.scripts = c.scripts /\ d.keys = c.keys
  BY <1>3 DEF CrawlState
<1>. QED  BY <1>4, <1>5, <1>6 DEF bs, d

\* The visits of a step that only moves the visit itself on.
LEMMA OwnStep ==
    ASSUME crawl \in CrawlState, NEW i \in DOMAIN crawl.batch, NEW v \in VisitState,
           v.url = crawl.batch[i].url, v.depth = crawl.batch[i].depth,
           crawl' = WithVisit(crawl, i, v)
    PROVE  OneVisit(i, v)
<1>1. /\ crawl' \in CrawlState /\ crawl'.batch = [crawl.batch EXCEPT ![i] = v]
      /\ SameFrontier(crawl, crawl') /\ crawl'.limit = crawl.limit /\ crawl'.lost = crawl.lost
      /\ crawl'.requests = crawl.requests /\ crawl'.scripts = crawl.scripts
      /\ crawl'.keys = crawl.keys
  BY WithVisitTyped
<1>2. crawl'.limits = crawl.limits
  BY <1>1 DEF SameFrontier
<1>. QED  BY <1>1, <1>2 DEF OneVisit, InBudget, Loses

LEMMA OpenPageStep ==
    ASSUME crawl \in CrawlState, NEW i, OpenPage(i)
    PROVE  \E v : OneVisit(i, v) /\ v.sent = crawl.batch[i].sent
                  /\ v.settled = crawl.batch[i].settled /\ v.captured = crawl.batch[i].captured
<1>. DEFINE b == crawl.batch[i]
<1>1. b \in VisitState /\ i \in DOMAIN crawl.batch
  BY DEF OpenPage, Visiting, CrawlState
<1>2. CASE b.url \in crawl.site.forbidden
  <2>. DEFINE v == [b EXCEPT !.pc = "over", !.skipped = TRUE]
  <2>1. /\ v \in VisitState /\ v.url = b.url /\ v.depth = b.depth
        /\ v.sent = b.sent /\ v.settled = b.settled /\ v.captured = b.captured
    BY <1>1 DEF VisitState
  <2>2. crawl' = WithVisit(crawl, i, v)
    BY <1>1, <1>2 DEF OpenPage, WithVisit
  <2>. HIDE DEF v
  <2>. QED  BY <1>1, <2>1, <2>2, OwnStep
<1>3. CASE b.url \notin crawl.site.forbidden
  <2>1. PICK pc \in {"open", "over"} : crawl' = [crawl EXCEPT !.batch[i].pc = pc]
    BY <1>3 DEF OpenPage
  <2>. DEFINE v == [b EXCEPT !.pc = pc]
  <2>2. /\ v \in VisitState /\ v.url = b.url /\ v.depth = b.depth
        /\ v.sent = b.sent /\ v.settled = b.settled /\ v.captured = b.captured
    BY <1>1 DEF VisitState
  <2>3. crawl' = WithVisit(crawl, i, v)
    BY <1>1, <2>1 DEF WithVisit
  <2>. HIDE DEF v
  <2>. QED  BY <1>1, <2>2, <2>3, OwnStep
<1>. QED  BY <1>2, <1>3
LEMMA LoadsTyped ==
    ASSUME crawl \in CrawlState, NEW i \in DOMAIN crawl.batch
    PROVE  Loads(i) \subseteq Load /\ Landed(i) \in Url \cup {Nowhere}
<1>1. crawl.batch[i].url \in Url /\ crawl.site \in Site
  BY BatchTyped, Fields
<1>2. Landed(i) \in Url \cup {Nowhere}
  BY <1>1, CrawlAssumption DEF Landed
<1>. QED  BY <1>1, <1>2 DEF Loads, Load

Counted(c, requests, scripts) == [c EXCEPT !.requests = requests, !.scripts = scripts]

LEMMA CountedTyped ==
    ASSUME NEW c \in CrawlState, NEW requests \in Nat, NEW scripts \in Nat
    PROVE  LET d == Counted(c, requests, scripts)
           IN /\ d \in CrawlState /\ d.batch = c.batch /\ SameFrontier(c, d)
              /\ d.limit = c.limit /\ d.lost = c.lost
              /\ d.requests = requests /\ d.scripts = scripts /\ d.keys = c.keys
BY DEF Counted, CrawlState, SameFrontier

SendsLoad(b, v) ==
    \E r \in Load \ b.sent :
        /\ v.sent = b.sent \cup {r} /\ v.settled = b.settled
        /\ v.captured \in {b.captured,
                           Append(b.captured,
                                  [path |-> r.path, status |-> Nowhere, failed |-> FALSE])}

LEMMA SendLoadStep ==
    ASSUME crawl \in CrawlState, NEW i, SendLoad(i)
    PROVE  \E v : OneVisit(i, v) /\ SendsLoad(crawl.batch[i], v)
<1>. DEFINE b == crawl.batch[i]
<1>1. b \in VisitState /\ i \in DOMAIN crawl.batch
  BY DEF SendLoad, Visiting, CrawlState
<1>2. PICK r \in Loads(i) \ b.sent :
        crawl' = Capture([crawl EXCEPT !.batch[i].sent = @ \cup {r}], i, r)
  BY DEF SendLoad
<1>3. /\ r \in Load \ b.sent /\ r.path \in Seq(STRING)
      /\ r.http \in BOOLEAN /\ r.script \in BOOLEAN
  BY <1>1, <1>2, LoadsTyped, LoadTyped
<1>. DEFINE b1 == [b EXCEPT !.sent = @ \cup {r}]
            c1 == WithVisit(crawl, i, b1)
            entry == [path |-> r.path, status |-> Nowhere, failed |-> FALSE]
<1>4. [crawl EXCEPT !.batch[i].sent = @ \cup {r}] = c1
  BY <1>1 DEF WithVisit
<1>5. /\ b1 \in VisitState /\ b1.url = b.url /\ b1.depth = b.depth
      /\ b1.sent = b.sent \cup {r} /\ b1.settled = b.settled /\ b1.captured = b.captured
  BY <1>1, <1>3 DEF VisitState
<1>6. entry \in Captured
  BY <1>3 DEF Captured
<1>. HIDE DEF b1
<1>7. /\ c1 \in CrawlState /\ c1.batch = [crawl.batch EXCEPT ![i] = b1] /\ SameFrontier(crawl, c1)
      /\ c1.limit = crawl.limit /\ c1.lost = crawl.lost
      /\ c1.requests = crawl.requests /\ c1.scripts = crawl.scripts /\ c1.keys = crawl.keys
  BY <1>1, <1>5, WithVisitTyped
<1>8. crawl' = Capture(c1, i, r)
  BY <1>2, <1>4
<1>. HIDE DEF c1, entry
<1>9. CASE c1.requests >= c1.limits.requests
  <2>. DEFINE w == IF r.http THEN "request" ELSE "unrecorded"
  <2>1. crawl' = Spent(c1, "maxRequests", w)
    BY <1>8, <1>9 DEF Capture, Spent
  <2>2. Alike(c1, crawl') /\ Loses(c1, crawl')
    <3>1. w \in {"request", "unrecorded", "script", "key"}
      OBVIOUS
    <3>. HIDE DEF w
    <3>. QED  BY <1>7, <2>1, <3>1, SpentTyped DEF LimitName
  <2>3. SameFrontier(crawl, crawl')
    BY <1>7, <2>2 DEF Alike, SameFrontier
  <2>4. Loses(crawl, crawl')
    BY <1>7, <2>2 DEF Loses
  <2>5. InBudget(crawl) => InBudget(crawl')
    BY <1>7, <2>2, <2>3 DEF InBudget, Alike, SameFrontier
  <2>6. OneVisit(i, b1)
    BY <1>5, <1>7, <2>2, <2>3, <2>4, <2>5 DEF OneVisit, Alike
  <2>. QED  BY <1>3, <1>5, <2>6 DEF SendsLoad
<1>10. CASE ~(c1.requests >= c1.limits.requests) /\ ~r.http
  <2>1. crawl' = c1
    BY <1>8, <1>10 DEF Capture
  <2>2. SameFrontier(crawl, crawl') /\ Loses(crawl, crawl')
    BY <1>7, <2>1 DEF Loses
  <2>3. InBudget(crawl) => InBudget(crawl')
    BY <1>7, <2>1, <2>2 DEF InBudget, SameFrontier
  <2>4. OneVisit(i, b1)
    BY <1>5, <1>7, <2>1, <2>2, <2>3 DEF OneVisit
  <2>. QED  BY <1>3, <1>5, <2>4 DEF SendsLoad
<1>11. CASE ~(c1.requests >= c1.limits.requests) /\ r.http
  <2>. DEFINE full == r.script /\ c1.scripts >= c1.limits.scripts
              c2 == IF full THEN Spent(c1, "maxScripts", "script") ELSE c1
              scripts == IF r.script /\ ~full THEN c1.scripts + 1 ELSE c1.scripts
              v == [b1 EXCEPT !.captured = Append(@, entry),
                              !.signals = IF r.consent THEN @ \cup {"script"} ELSE @]
  <2>1. Alike(c1, c2) /\ Loses(c1, c2)
    <3>1. CASE full
      BY <1>7, <3>1, SpentTyped DEF LimitName
    <3>2. CASE ~full
      BY <1>7, <3>2 DEF Alike, Loses, SameFrontier
    <3>. QED  BY <3>1, <3>2
  <2>2. /\ v \in VisitState /\ v.url = b.url /\ v.depth = b.depth
        /\ v.sent = b.sent \cup {r} /\ v.settled = b.settled
        /\ v.captured = Append(b.captured, entry)
    <3>1. Append(b1.captured, entry) \in Seq(Captured)
      BY <1>5, <1>6 DEF VisitState
    <3>. QED  BY <1>5, <3>1 DEF VisitState
  <2>3. c1.requests \in Nat /\ c1.scripts \in Nat /\ scripts \in Nat /\ c1.requests + 1 \in Nat
    BY <1>7, SMTT(20) DEF CrawlState
  <2>4. crawl' = Counted(WithVisit(c2, i, v), c1.requests + 1, scripts)
    <3>1. /\ c2 \in CrawlState /\ c2.requests = c1.requests /\ c2.scripts = c1.scripts
          /\ i \in DOMAIN c2.batch /\ c2.batch[i] = b1
      BY <1>1, <1>7, <2>1 DEF Alike
    <3>2. crawl' = [c2 EXCEPT
               !.requests = @ + 1,
               !.scripts = IF r.script /\ ~full THEN @ + 1 ELSE @,
               !.batch[i].captured = Append(@, entry),
               !.batch[i].signals = IF r.consent THEN @ \cup {"script"} ELSE @]
      BY <1>8, <1>11 DEF Capture, Spent, entry
    <3>. HIDE DEF c2, full
    <3>. QED  BY <3>1, <3>2, ZenonT(40) DEF Counted, WithVisit
  <2>. DEFINE c3 == WithVisit(c2, i, v)
  <2>. HIDE DEF c2, v, scripts
  <2>5. /\ c3 \in CrawlState /\ c3.batch = [c2.batch EXCEPT ![i] = v] /\ SameFrontier(c2, c3)
        /\ c3.limit = c2.limit /\ c3.lost = c2.lost /\ c3.keys = c2.keys
    BY <1>1, <1>7, <2>1, <2>2, WithVisitTyped DEF Alike
  <2>. HIDE DEF c3
  <2>6. /\ crawl' \in CrawlState /\ crawl'.batch = c3.batch /\ SameFrontier(c3, crawl')
        /\ crawl'.limit = c3.limit /\ crawl'.lost = c3.lost
        /\ crawl'.requests = c1.requests + 1 /\ crawl'.scripts = scripts /\ crawl'.keys = c3.keys
    <3>. DEFINE requests == c1.requests + 1
    <3>1. crawl' = Counted(c3, requests, scripts)
      BY <2>4 DEF c3
    <3>2. requests \in Nat
      BY <2>3
    <3>. HIDE DEF requests
    <3>2a. c3 \in CrawlState /\ scripts \in Nat
      BY <2>3, <2>5
    <3>3. /\ crawl' \in CrawlState /\ crawl'.batch = c3.batch /\ SameFrontier(c3, crawl')
          /\ crawl'.limit = c3.limit /\ crawl'.lost = c3.lost
          /\ crawl'.requests = requests /\ crawl'.scripts = scripts /\ crawl'.keys = c3.keys
      BY <3>1, <3>2, <3>2a, CountedTyped, SMTT(20)
    <3>. QED  BY <3>3 DEF requests
  <2>7. crawl'.batch = [crawl.batch EXCEPT ![i] = v]
    BY <1>7, <2>1, <2>5, <2>6 DEF Alike
  <2>8. SameFrontier(crawl, crawl')
    BY <1>7, <2>1, <2>5, <2>6 DEF Alike, SameFrontier
  <2>9. Loses(crawl, crawl')
    BY <1>7, <2>1, <2>5, <2>6 DEF Loses
  <2>10. InBudget(crawl) => InBudget(crawl')
    <3>1. /\ c1.limits = crawl.limits /\ crawl'.limits = crawl.limits /\ crawl.limits \in Limits
          /\ crawl'.keys = crawl.keys
      BY <1>7, <2>1, <2>5, <2>6, <2>8, Fields DEF SameFrontier, Alike
    <3>2. crawl.limits.requests \in Nat /\ crawl.limits.scripts \in Nat
      BY <3>1, LimitsTyped
    <3>3. crawl'.requests <= crawl.limits.requests
      BY <1>11, <2>3, <2>6, <3>1, <3>2
    <3>4. crawl.scripts <= crawl.limits.scripts => scripts <= crawl.limits.scripts
      BY <1>3, <1>7, <2>3, <3>1, <3>2 DEF scripts
    <3>. QED  BY <2>6, <3>1, <3>3, <3>4 DEF InBudget
  <2>. QED  BY <1>3, <2>2, <2>6, <2>7, <2>8, <2>9, <2>10 DEF OneVisit, SendsLoad, entry
<1>. QED  BY <1>9, <1>10, <1>11
Settles(b, v) ==
    \E r \in b.sent, ok \in BOOLEAN :
        /\ \A s \in b.settled : s.load # r
        /\ v.sent = b.sent /\ v.settled = b.settled \cup {[load |-> r, ok |-> ok]}
        /\ LET at == IF ok THEN AnsweredAt(b.captured, r) ELSE FailedAt(b.captured, r)
           IN v.captured = IF at = 0 THEN b.captured
                           ELSE IF ok THEN [b.captured EXCEPT ![at].status = r]
                           ELSE [b.captured EXCEPT ![at].failed = TRUE]

LEMMA FirstTyped ==
    ASSUME NEW T \in SUBSET (Nat \ {0})
    PROVE  IF T = {} THEN First(T) = 0 ELSE First(T) \in T
<1>1. CASE T = {}
  BY <1>1 DEF First
<1>2. CASE T # {}
  <2>1. \E x \in T : \A y \in T : x <= y
    BY <1>2, LeastNatural
  <2>2. Min(T) \in T
    BY <2>1 DEF Min
  <2>. QED  BY <1>2, <2>2 DEF First
<1>. QED  BY <1>1, <1>2

\* The entry an answer, or a failure, is taken for; 0 when there is none.
LEMMA AnsweredAtTyped ==
    ASSUME NEW captured \in Seq(Captured), NEW r
    PROVE  LET at == AnsweredAt(captured, r)
               Fits(k) == captured[k].status = Nowhere
                          /\ IsPrefix(captured[k].path, r.path \o r.query)
           IN IF at = 0 THEN \A k \in DOMAIN captured : ~Fits(k)
              ELSE at \in DOMAIN captured /\ Fits(at)
<1>. DEFINE T == {k \in DOMAIN captured : captured[k].status = Nowhere
                                          /\ IsPrefix(captured[k].path, r.path \o r.query)}
<1>1. AnsweredAt(captured, r) = First(T)
  BY DEF AnsweredAt, StartsWith
<1>2. T \in SUBSET (Nat \ {0})
  OBVIOUS
<1>3. IF T = {} THEN First(T) = 0 ELSE First(T) \in T
  BY <1>2, FirstTyped
<1>. QED  BY <1>1, <1>2, <1>3

LEMMA FailedAtTyped ==
    ASSUME NEW captured \in Seq(Captured), NEW r
    PROVE  LET at == FailedAt(captured, r)
               Fits(k) == IsPrefix(captured[k].path, r.path \o r.query)
           IN IF at = 0 THEN \A k \in DOMAIN captured : ~Fits(k)
              ELSE at \in DOMAIN captured /\ Fits(at)
<1>. DEFINE T == {k \in DOMAIN captured : IsPrefix(captured[k].path, r.path \o r.query)}
<1>1. FailedAt(captured, r) = First(T)
  BY DEF FailedAt, StartsWith
<1>2. T \in SUBSET (Nat \ {0})
  OBVIOUS
<1>3. IF T = {} THEN First(T) = 0 ELSE First(T) \in T
  BY <1>2, FirstTyped
<1>. QED  BY <1>1, <1>2, <1>3

LEMMA LoadSettlesStep ==
    ASSUME crawl \in CrawlState, NEW i, LoadSettles(i)
    PROVE  \E v : OneVisit(i, v) /\ Settles(crawl.batch[i], v)
<1>. DEFINE b == crawl.batch[i]
<1>1. b \in VisitState /\ i \in DOMAIN crawl.batch
  BY DEF LoadSettles, Visiting, CrawlState
<1>2. PICK r \in b.sent \ {s.load : s \in b.settled}, ok \in BOOLEAN :
         LET captured == b.captured
             at == IF ok THEN AnsweredAt(captured, r) ELSE FailedAt(captured, r)
             marked == IF at = 0 THEN captured
                       ELSE IF ok THEN [captured EXCEPT ![at].status = r]
                       ELSE [captured EXCEPT ![at].failed = TRUE]
         IN crawl' = [crawl EXCEPT !.batch[i].settled = @ \cup {[load |-> r, ok |-> ok]},
                                   !.batch[i].captured = marked]
  BY DEF LoadSettles
<1>. DEFINE at == IF ok THEN AnsweredAt(b.captured, r) ELSE FailedAt(b.captured, r)
            marked == IF at = 0 THEN b.captured
                      ELSE IF ok THEN [b.captured EXCEPT ![at].status = r]
                      ELSE [b.captured EXCEPT ![at].failed = TRUE]
            v == [b EXCEPT !.settled = @ \cup {[load |-> r, ok |-> ok]}, !.captured = marked]
<1>3. b.captured \in Seq(Captured) /\ r \in Load /\ b.settled \in SUBSET [load : Load, ok : BOOLEAN]
  BY <1>1, <1>2 DEF VisitState
<1>4. at \in 0..Len(b.captured)
  BY <1>3, AnsweredAtTyped, FailedAtTyped, SMTT(20)
<1>. HIDE DEF at
<1>5. marked \in Seq(Captured)
  <2>1. CASE at = 0
    BY <1>3, <2>1
  <2>2. CASE at # 0
    <3>1. at \in 1..Len(b.captured) /\ b.captured[at] \in Captured
      BY <1>3, <1>4, <2>2
    <3>2. /\ [b.captured[at] EXCEPT !.status = r] \in Captured
          /\ [b.captured[at] EXCEPT !.failed = TRUE] \in Captured
      BY <1>3, <3>1 DEF Captured
    <3>. DEFINE w == [b.captured[at] EXCEPT !.status = r]
                x == [b.captured[at] EXCEPT !.failed = TRUE]
    <3>. HIDE DEF w, x
    <3>3. [b.captured EXCEPT ![at] = w] \in Seq(Captured)
          /\ [b.captured EXCEPT ![at] = x] \in Seq(Captured)
      BY <1>3, <3>1, <3>2, ExceptSeq DEF w, x
    <3>. QED  BY <2>2, <3>1, <3>3 DEF w, x
  <2>. QED  BY <2>1, <2>2
<1>5a. b.settled \cup {[load |-> r, ok |-> ok]} \in SUBSET [load : Load, ok : BOOLEAN]
  BY <1>2, <1>3
<1>. HIDE DEF marked
<1>6. /\ v \in VisitState /\ v.url = b.url /\ v.depth = b.depth /\ v.sent = b.sent
      /\ v.settled = b.settled \cup {[load |-> r, ok |-> ok]} /\ v.captured = marked
  BY <1>1, <1>5, <1>5a DEF VisitState
<1>7. crawl' = WithVisit(crawl, i, v)
  BY <1>1, <1>2 DEF WithVisit, marked, at
<1>. HIDE DEF v
<1>8. OneVisit(i, v)
  BY <1>1, <1>6, <1>7, OwnStep
<1>9. Settles(b, v)
  BY <1>2, <1>6 DEF Settles, marked, at
<1>. QED  BY <1>8, <1>9

LEMMA FailPageStep ==
    ASSUME crawl \in CrawlState, NEW i, FailPage(i)
    PROVE  \E v : OneVisit(i, v) /\ v.sent = crawl.batch[i].sent
                  /\ v.settled = crawl.batch[i].settled /\ v.captured = crawl.batch[i].captured
<1>. DEFINE b == crawl.batch[i]
            v == [b EXCEPT !.pc = "over"]
<1>1. b \in VisitState /\ i \in DOMAIN crawl.batch
  BY DEF FailPage, Visiting, CrawlState
<1>2. /\ v \in VisitState /\ v.url = b.url /\ v.depth = b.depth
      /\ v.sent = b.sent /\ v.settled = b.settled /\ v.captured = b.captured
  BY <1>1 DEF VisitState
<1>3. crawl' = WithVisit(crawl, i, v)
  BY <1>1 DEF FailPage, WithVisit
<1>. HIDE DEF v
<1>. QED  BY <1>1, <1>2, <1>3, OwnStep
Stored(c, keys) == [c EXCEPT !.keys = keys]

LEMMA StoredTyped ==
    ASSUME NEW c \in CrawlState, NEW keys \in Nat
    PROVE  LET d == Stored(c, keys)
           IN /\ d \in CrawlState /\ d.batch = c.batch /\ SameFrontier(c, d)
              /\ d.limit = c.limit /\ d.lost = c.lost
              /\ d.requests = c.requests /\ d.scripts = c.scripts /\ d.keys = keys
BY DEF Stored, CrawlState, SameFrontier

LEMMA ReadStorageStep ==
    ASSUME crawl \in CrawlState, InBudget(crawl), NEW i, ReadStorage(i)
    PROVE  \E v : OneVisit(i, v) /\ v.sent = crawl.batch[i].sent
                  /\ v.settled = crawl.batch[i].settled /\ v.captured = crawl.batch[i].captured
<1>. DEFINE b == crawl.batch[i]
            found == IF Landed(i) = Nowhere THEN 0 ELSE crawl.site.keys[Landed(i)]
            room == crawl.limits.keys - crawl.keys
            read == Min({found, room})
            noted == IF found > room THEN Spent(crawl, "maxStorageItems", "key") ELSE crawl
            v == [b EXCEPT !.keys = read, !.read = TRUE]
            c == WithVisit(noted, i, v)
            keys == crawl.keys + read
<1>1. b \in VisitState /\ i \in DOMAIN crawl.batch
  BY DEF ReadStorage, Visiting, CrawlState
<1>2. found \in Nat
  <2>1. crawl.site.keys \in [Url -> Nat]
    BY Fields, CrawlAssumption
  <2>2. Landed(i) \in Url \cup {Nowhere}
    BY <1>1, LoadsTyped
  <2>. QED  BY <2>1, <2>2
<1>3. crawl.limits.keys \in Nat /\ crawl.keys \in Nat /\ room \in Nat
  BY Fields, LimitsTyped DEF InBudget
<1>4. crawl' = Stored(c, keys)
  <2>1. noted.keys = crawl.keys
    BY SpentTyped DEF Alike, LimitName
  <2>2. crawl' = [noted EXCEPT !.keys = @ + read, !.batch[i].keys = read, !.batch[i].read = TRUE]
    BY DEF ReadStorage, Spent
  <2>3. noted.batch[i] = b /\ noted \in CrawlState /\ i \in DOMAIN noted.batch
    BY <1>1, SpentTyped DEF Alike, LimitName
  <2>. HIDE DEF noted, read
  <2>. QED  BY <2>1, <2>2, <2>3 DEF Stored, WithVisit
<1>5. Alike(crawl, noted) /\ Loses(crawl, noted)
  <2>1. CASE found > room
    BY <2>1, SpentTyped DEF LimitName
  <2>2. CASE ~(found > room)
    BY <2>2 DEF Alike, Loses, SameFrontier
  <2>. QED  BY <2>1, <2>2
<1>6. crawl.keys + room = crawl.limits.keys
  BY <1>3
<1>. HIDE DEF found, room
<1>7. read \in Nat /\ read <= room
  <2>1. found \in Int /\ room \in Int
    BY <1>2, <1>3
  <2>2. read \in {found, room} /\ read <= room
    BY <2>1, MinOfTwo
  <2>. QED  BY <1>2, <1>3, <2>2
<1>. HIDE DEF read, noted
<1>8. keys \in Nat /\ keys <= crawl.limits.keys
  BY <1>3, <1>6, <1>7
<1>9. /\ v \in VisitState /\ v.url = b.url /\ v.depth = b.depth
      /\ v.sent = b.sent /\ v.settled = b.settled /\ v.captured = b.captured
  BY <1>1, <1>7 DEF VisitState
<1>. HIDE DEF v, keys
<1>10. noted \in CrawlState /\ i \in DOMAIN noted.batch
  BY <1>1, <1>5 DEF Alike
<1>11. /\ c \in CrawlState /\ c.batch = [noted.batch EXCEPT ![i] = v] /\ SameFrontier(noted, c)
       /\ c.limit = noted.limit /\ c.lost = noted.lost
       /\ c.requests = noted.requests /\ c.scripts = noted.scripts
  BY <1>9, <1>10, WithVisitTyped
<1>. HIDE DEF c
<1>12. /\ crawl' \in CrawlState /\ crawl'.batch = c.batch /\ SameFrontier(c, crawl')
       /\ crawl'.limit = c.limit /\ crawl'.lost = c.lost
       /\ crawl'.requests = c.requests /\ crawl'.scripts = c.scripts /\ crawl'.keys = keys
  BY <1>4, <1>8, <1>11, StoredTyped
<1>13. SameFrontier(crawl, crawl')
  BY <1>5, <1>11, <1>12 DEF SameFrontier, Alike
<1>14. Loses(crawl, crawl')
  BY <1>5, <1>11, <1>12 DEF Loses
<1>15. InBudget(crawl')
  BY <1>5, <1>8, <1>11, <1>12, <1>13 DEF InBudget, SameFrontier, Alike
<1>. QED  BY <1>5, <1>9, <1>11, <1>12, <1>13, <1>14, <1>15 DEF OneVisit, Alike

Inlined(c, scripts, lost) == [c EXCEPT !.scripts = scripts, !.lost = lost]

LEMMA InlinedTyped ==
    ASSUME NEW c \in CrawlState, NEW scripts \in Nat,
           NEW lost \in SUBSET {"request", "unrecorded", "script", "key", "inline", "link", "cookie"}
    PROVE  LET d == Inlined(c, scripts, lost)
           IN /\ d \in CrawlState /\ d.batch = c.batch /\ SameFrontier(c, d)
              /\ d.limit = c.limit /\ d.lost = lost
              /\ d.requests = c.requests /\ d.scripts = scripts /\ d.keys = c.keys
BY DEF Inlined, CrawlState, SameFrontier

LEMMA RenderPageStep ==
    ASSUME crawl \in CrawlState, NEW i, RenderPage(i)
    PROVE  \E v : OneVisit(i, v) /\ v.sent = crawl.batch[i].sent
                  /\ v.settled = crawl.batch[i].settled /\ v.captured = crawl.batch[i].captured
<1>. DEFINE b == crawl.batch[i]
            at == Landed(i)
            inline == at \in crawl.site.inline
            room == crawl.scripts < crawl.limits.scripts
            scripts == IF inline /\ room THEN crawl.scripts + 1 ELSE crawl.scripts
            lost == IF inline /\ ~room THEN crawl.lost \cup {"inline"} ELSE crawl.lost
            signals == IF at \in crawl.site.dialog THEN b.signals \cup {"dialog"} ELSE b.signals
            links == IF at = Nowhere THEN << >> ELSE Accepted(b.url, crawl.site.links[at])
            v == [b EXCEPT !.signals = signals, !.links = links, !.rendered = TRUE, !.pc = "over"]
            c == WithVisit(crawl, i, v)
<1>1. b \in VisitState /\ i \in DOMAIN crawl.batch /\ b.url \in Url
  BY BatchTyped DEF RenderPage, Visiting
<1>2. links \in Seq(Url)
  <2>1. CASE at = Nowhere
    BY <2>1
  <2>2. CASE at # Nowhere
    <3>1. at \in Url
      BY <1>1, <2>2, LoadsTyped
    <3>2. crawl.site.links[at] \in Seq(Href)
      BY <3>1, Fields, CrawlAssumption
    <3>. QED  BY <1>1, <2>2, <3>2, AcceptedTyped
  <2>. QED  BY <2>1, <2>2
<1>3. crawl' = Inlined(c, scripts, lost)
  <2>1. crawl' = [crawl EXCEPT !.scripts = scripts, !.lost = lost, !.batch[i] = v]
    BY DEF RenderPage
  <2>. HIDE DEF scripts, lost, v
  <2>. QED  BY <1>1, <2>1 DEF Inlined, WithVisit
<1>4. scripts \in Nat /\ (crawl.scripts <= crawl.limits.scripts => scripts <= crawl.limits.scripts)
  BY Fields, LimitsTyped
<1>5. /\ lost \in SUBSET {"request", "unrecorded", "script", "key", "inline", "link", "cookie"}
      /\ lost \in {crawl.lost, crawl.lost \cup {"inline"}}
  BY Fields
<1>6. signals \in SUBSET {"script", "dialog"}
  BY <1>1 DEF VisitState
<1>. HIDE DEF links, scripts, lost, signals
<1>7. /\ v \in VisitState /\ v.url = b.url /\ v.depth = b.depth
      /\ v.sent = b.sent /\ v.settled = b.settled /\ v.captured = b.captured
  BY <1>1, <1>2, <1>6 DEF VisitState
<1>. HIDE DEF v
<1>8. /\ c \in CrawlState /\ c.batch = [crawl.batch EXCEPT ![i] = v] /\ SameFrontier(crawl, c)
      /\ c.limit = crawl.limit /\ c.lost = crawl.lost
      /\ c.requests = crawl.requests /\ c.keys = crawl.keys
  BY <1>1, <1>7, WithVisitTyped
<1>. HIDE DEF c
<1>9. /\ crawl' \in CrawlState /\ crawl'.batch = c.batch /\ SameFrontier(c, crawl')
      /\ crawl'.limit = c.limit /\ crawl'.lost = lost
      /\ crawl'.requests = c.requests /\ crawl'.scripts = scripts /\ crawl'.keys = c.keys
  BY <1>3, <1>4, <1>5, <1>8, InlinedTyped
<1>10. SameFrontier(crawl, crawl')
  BY <1>8, <1>9 DEF SameFrontier
<1>11. Loses(crawl, crawl')
  BY <1>5, <1>8, <1>9 DEF Loses
<1>12. InBudget(crawl) => InBudget(crawl')
  BY <1>4, <1>8, <1>9, <1>10 DEF InBudget, SameFrontier
<1>. QED  BY <1>7, <1>8, <1>9, <1>10, <1>11, <1>12 DEF OneVisit

-----------------------------------------------------------------------------
(***************************************************************************)
(* The answers of one visit.                                               *)
(***************************************************************************)
Alone(v, r) == \A s \in v.sent \ {r} : Apart(r, s)

Own(v, r) ==
    \A k \in DOMAIN v.captured : v.captured[k].path = r.path =>
        /\ \A l \in DOMAIN v.captured : v.captured[l].path = r.path => l = k
        /\ v.captured[k].status = (IF [load |-> r, ok |-> TRUE] \in v.settled THEN r ELSE Nowhere)
        /\ v.captured[k].failed = TRUE <=> [load |-> r, ok |-> FALSE] \in v.settled

\* Every entry is that of a request that was sent; a request settles once; and
\* one whose URL is no other's prefix has at most one entry, in the right state.
AnswersOf(v) ==
    /\ \A k \in DOMAIN v.captured : \E s \in v.sent : s.path = v.captured[k].path
    /\ \A s \in v.settled : s.load \in v.sent
    /\ \A s, t \in v.settled : s.load = t.load => s.ok = t.ok
    /\ \A r \in v.sent : Alone(v, r) => Own(v, r)

LEMMA PrefixOfConcat ==
    ASSUME NEW p \in Seq(STRING), NEW q \in Seq(STRING)
    PROVE  IsPrefix(p, p \o q)
<1>. DEFINE t == p \o q
<1>1. t \in Seq(STRING) /\ Len(t) = Len(p) + Len(q) /\ \A k \in 1..Len(p) : t[k] = p[k]
  BY ConcatProperties
<1>. HIDE DEF t
<1>2. SubSeq(p, 1, Len(p)) = SubSeq(t, 1, Len(p))
  BY <1>1
<1>. QED  BY <1>1, <1>2 DEF IsPrefix, t

LEMMA PathIsPrefix ==
    ASSUME NEW r \in Load
    PROVE  IsPrefix(r.path, r.path \o r.query)
BY LoadTyped, PrefixOfConcat

LEMMA ApartPaths ==
    ASSUME NEW r \in Load, NEW s \in Load, Apart(r, s)
    PROVE  /\ s.path # r.path
           /\ ~IsPrefix(s.path, r.path \o r.query) /\ ~IsPrefix(r.path, s.path \o s.query)
BY PathIsPrefix DEF Apart

LEMMA AnswersNew ==
    ASSUME NEW item
    PROVE  AnswersOf(Visit(item))
BY DEF Visit, AnswersOf

LEMMA AnswersKept ==
    ASSUME NEW b, NEW v, AnswersOf(b),
           v.sent = b.sent, v.settled = b.settled, v.captured = b.captured
    PROVE  AnswersOf(v)
BY DEF AnswersOf, Alone, Own

LEMMA AnswersSent ==
    ASSUME NEW b \in VisitState, NEW v \in VisitState, AnswersOf(b), SendsLoad(b, v)
    PROVE  AnswersOf(v)
<1>1. PICK q \in Load \ b.sent :
        /\ v.sent = b.sent \cup {q} /\ v.settled = b.settled
        /\ v.captured \in {b.captured,
                           Append(b.captured,
                                  [path |-> q.path, status |-> Nowhere, failed |-> FALSE])}
  BY DEF SendsLoad
<1>. DEFINE entry == [path |-> q.path, status |-> Nowhere, failed |-> FALSE]
<1>2. b.captured \in Seq(Captured) /\ b.sent \subseteq Load
  BY DEF VisitState
<1>3. entry \in Captured
  BY <1>1, LoadTyped DEF Captured
<1>4. entry.path = q.path /\ entry.status = Nowhere /\ entry.failed = FALSE
  OBVIOUS
<1>. HIDE DEF entry
<1>5. \A k \in DOMAIN v.captured :
        \/ k \in DOMAIN b.captured /\ v.captured[k] = b.captured[k]
        \/ /\ v.captured = Append(b.captured, entry) /\ k = Len(b.captured) + 1
           /\ v.captured[k] = entry
  <2>1. CASE v.captured = b.captured
    BY <2>1
  <2>2. CASE v.captured = Append(b.captured, entry)
    BY <1>2, <1>3, <2>2
  <2>. QED  BY <1>1, <2>1, <2>2 DEF entry
<1>6. \A k \in DOMAIN v.captured : \E s \in v.sent : s.path = v.captured[k].path
  BY <1>1, <1>4, <1>5 DEF AnswersOf
<1>7. /\ \A s \in v.settled : s.load \in v.sent
      /\ \A s, t \in v.settled : s.load = t.load => s.ok = t.ok
  BY <1>1 DEF AnswersOf
<1>8. ASSUME NEW r \in v.sent, Alone(v, r)
      PROVE  Own(v, r)
  <2>1. CASE r = q
    <3>1. \A s \in b.sent : s.path # q.path
      BY <1>1, <1>2, <1>8, <2>1, ApartPaths DEF Alone
    <3>2. \A k \in DOMAIN b.captured : b.captured[k].path # q.path
      BY <3>1 DEF AnswersOf
    <3>3. \A ok \in BOOLEAN : [load |-> q, ok |-> ok] \notin v.settled
      BY <1>1 DEF AnswersOf
    <3>4. ASSUME NEW k \in DOMAIN v.captured, v.captured[k].path = r.path
          PROVE  /\ v.captured[k] = entry
                 /\ \A l \in DOMAIN v.captured : v.captured[l].path = r.path => l = k
      BY <1>5, <2>1, <3>2, <3>4
    <3>5. /\ [load |-> r, ok |-> TRUE] \notin v.settled
          /\ [load |-> r, ok |-> FALSE] \notin v.settled
      BY <2>1, <3>3
    <3>. QED  BY <1>4, <3>4, <3>5 DEF Own
  <2>2. CASE r # q
    <3>1. r \in b.sent /\ r \in Load /\ q \in Load
      BY <1>1, <1>2, <2>2
    <3>2. Alone(b, r) /\ Apart(r, q)
      BY <1>1, <1>8, <2>2 DEF Alone
    <3>3. Own(b, r)
      BY <3>1, <3>2 DEF AnswersOf
    <3>4. entry.path # r.path
      BY <1>4, <3>1, <3>2, ApartPaths
    <3>5. \A m \in DOMAIN v.captured : v.captured[m].path = r.path =>
            m \in DOMAIN b.captured /\ v.captured[m] = b.captured[m]
      BY <1>5, <3>4
    <3>6. ASSUME NEW k \in DOMAIN v.captured, v.captured[k].path = r.path
          PROVE  /\ \A l \in DOMAIN v.captured : v.captured[l].path = r.path => l = k
                 /\ v.captured[k].status = (IF [load |-> r, ok |-> TRUE] \in b.settled
                                            THEN r ELSE Nowhere)
                 /\ v.captured[k].failed = TRUE <=> [load |-> r, ok |-> FALSE] \in b.settled
      <4>1. k \in DOMAIN b.captured /\ v.captured[k] = b.captured[k]
        BY <3>5, <3>6
      <4>2. b.captured[k].path = r.path
        BY <3>6, <4>1
      <4>3. \A l \in DOMAIN v.captured : v.captured[l].path = r.path => l = k
        BY <3>3, <3>5, <4>1, <4>2 DEF Own
      <4>. QED  BY <3>3, <4>1, <4>2, <4>3 DEF Own
    <3>. QED  BY <1>1, <3>6 DEF Own
  <2>. QED  BY <2>1, <2>2
<1>. QED  BY <1>6, <1>7, <1>8 DEF AnswersOf

LEMMA AnswersSettled ==
    ASSUME NEW b \in VisitState, NEW v \in VisitState, AnswersOf(b), Settles(b, v)
    PROVE  AnswersOf(v)
<1>1. PICK q \in b.sent, ok \in BOOLEAN :
        /\ \A s \in b.settled : s.load # q
        /\ v.sent = b.sent /\ v.settled = b.settled \cup {[load |-> q, ok |-> ok]}
        /\ LET at == IF ok THEN AnsweredAt(b.captured, q) ELSE FailedAt(b.captured, q)
           IN v.captured = IF at = 0 THEN b.captured
                           ELSE IF ok THEN [b.captured EXCEPT ![at].status = q]
                           ELSE [b.captured EXCEPT ![at].failed = TRUE]
  BY DEF Settles
<1>. DEFINE at == IF ok THEN AnsweredAt(b.captured, q) ELSE FailedAt(b.captured, q)
            Fits(k) == /\ IsPrefix(b.captured[k].path, q.path \o q.query)
                       /\ ok => b.captured[k].status = Nowhere
<1>2. b.captured \in Seq(Captured) /\ b.sent \subseteq Load /\ q \in Load
  BY <1>1 DEF VisitState
<1>3. IF at = 0 THEN \A k \in DOMAIN b.captured : ~Fits(k) ELSE at \in DOMAIN b.captured /\ Fits(at)
  BY <1>2, AnsweredAtTyped, FailedAtTyped
<1>4. v.captured = IF at = 0 THEN b.captured
                   ELSE IF ok THEN [b.captured EXCEPT ![at].status = q]
                   ELSE [b.captured EXCEPT ![at].failed = TRUE]
  BY <1>1
<1>. HIDE DEF at
<1>5. DOMAIN v.captured = DOMAIN b.captured
  BY <1>4
<1>6. \A k \in DOMAIN b.captured : b.captured[k] \in Captured
  BY <1>2
<1>7. \A k \in DOMAIN b.captured :
        /\ v.captured[k].path = b.captured[k].path
        /\ k # at => v.captured[k] = b.captured[k]
  BY <1>4, <1>6 DEF Captured
<1>8. at # 0 => v.captured[at].status = (IF ok THEN q ELSE b.captured[at].status)
                /\ v.captured[at].failed = (IF ok THEN b.captured[at].failed ELSE TRUE)
  BY <1>3, <1>4, <1>6 DEF Captured
<1>9. \A r : \A o \in BOOLEAN :
        [load |-> r, ok |-> o] \in v.settled
          <=> [load |-> r, ok |-> o] \in b.settled \/ (r = q /\ o = ok)
  BY <1>1
<1>10. \A k \in DOMAIN v.captured : \E s \in v.sent : s.path = v.captured[k].path
  BY <1>1, <1>5, <1>7 DEF AnswersOf
<1>11. /\ \A s \in v.settled : s.load \in v.sent
       /\ \A s, t \in v.settled : s.load = t.load => s.ok = t.ok
  BY <1>1 DEF AnswersOf
<1>12. ASSUME NEW r \in v.sent, Alone(v, r)
       PROVE  Own(v, r)
  <2>1. Alone(b, r) /\ r \in b.sent /\ Own(b, r)
    BY <1>1, <1>12 DEF Alone, AnswersOf
  <2>2. CASE r # q
    <3>1. ~IsPrefix(r.path, q.path \o q.query)
      BY <1>1, <1>2, <2>1, <2>2, ApartPaths DEF Alone
    <3>2. at # 0 => b.captured[at].path # r.path
      BY <1>3, <3>1
    <3>3. \A o \in BOOLEAN : [load |-> r, ok |-> o] \in v.settled
                                 <=> [load |-> r, ok |-> o] \in b.settled
      BY <1>9, <2>2
    <3>4. \A k \in DOMAIN b.captured : v.captured[k].path = r.path => v.captured[k] = b.captured[k]
      BY <1>2, <1>7, <3>2
    <3>. QED  BY <1>5, <1>7, <2>1, <3>3, <3>4 DEF Own
  <2>3. CASE r = q
    <3>1. at # 0 => b.captured[at].path = q.path
      <4>1. SUFFICES ASSUME at # 0 PROVE b.captured[at].path = q.path
        OBVIOUS
      <4>2. PICK s \in b.sent : s.path = b.captured[at].path
        BY <1>3, <4>1 DEF AnswersOf
      <4>3. s # q => Apart(q, s) /\ s \in Load
        BY <1>2, <2>1, <2>3, <4>2 DEF Alone
      <4>. QED  BY <1>2, <1>3, <4>1, <4>2, <4>3, ApartPaths
    <3>2. \A o \in BOOLEAN : [load |-> q, ok |-> o] \notin b.settled
      BY <1>1
    <3>3. IsPrefix(q.path, q.path \o q.query)
      BY <1>2, PathIsPrefix
    <3>4. ASSUME NEW k \in DOMAIN b.captured, b.captured[k].path = q.path
          PROVE  at = k
      <4>1. Fits(k)
        BY <2>1, <2>3, <3>2, <3>3, <3>4 DEF Own
      <4>. QED  BY <1>3, <2>1, <2>3, <3>1, <3>4, <4>1 DEF Own
    <3>5. \A o \in BOOLEAN : [load |-> q, ok |-> o] \in v.settled <=> o = ok
      BY <1>9, <3>2
    <3>6. ASSUME NEW k \in DOMAIN v.captured, v.captured[k].path = q.path
          PROVE  /\ \A l \in DOMAIN v.captured : v.captured[l].path = q.path => l = k
                 /\ v.captured[k].status = (IF [load |-> q, ok |-> TRUE] \in v.settled
                                            THEN q ELSE Nowhere)
                 /\ v.captured[k].failed = TRUE <=> [load |-> q, ok |-> FALSE] \in v.settled
      <4>1. k \in DOMAIN b.captured /\ b.captured[k].path = q.path /\ at = k /\ at # 0
        BY <1>2, <1>5, <1>7, <3>4, <3>6
      <4>2. b.captured[k].status = Nowhere /\ b.captured[k].failed # TRUE
        BY <2>1, <2>3, <3>2, <4>1 DEF Own
      <4>3. \A l \in DOMAIN v.captured : v.captured[l].path = q.path => l = k
        BY <1>5, <1>7, <3>4, <4>1
      <4>. QED  BY <1>8, <3>5, <4>1, <4>2, <4>3
    <3>. QED  BY <2>3, <3>6 DEF Own
  <2>. QED  BY <2>2, <2>3
<1>. QED  BY <1>10, <1>11, <1>12 DEF AnswersOf

-----------------------------------------------------------------------------
(***************************************************************************)
(* The frontier: F lists what was found, in the order it was, while k of   *)
(* the results of the batch b are collected.                               *)
(***************************************************************************)
View(c, b, k, F) ==
    /\ F \in Seq(Item) /\ Len(F) = Len(c.pages) + (Len(b) - k) + Len(c.queue)
    /\ \A j \in 1..Len(c.pages) : F[j].url = c.pages[j].url /\ F[j].depth = c.pages[j].depth
    /\ \A j \in k + 1..Len(b) : F[Len(c.pages) + j - k].url = b[j].url
                                /\ F[Len(c.pages) + j - k].depth = b[j].depth
    /\ \A j \in 1..Len(c.queue) : F[Len(c.pages) + (Len(b) - k) + j] = c.queue[j]

\* Each URL once, nearer before farther, and from the m-th on at most one apart.
Ordered(F, m) ==
    /\ \A i, j \in DOMAIN F : F[i].url = F[j].url => i = j
    /\ \A i, j \in DOMAIN F : i <= j => F[i].depth <= F[j].depth
    /\ \A i, j \in DOMAIN F : m <= i => F[j].depth <= F[i].depth + 1

\* What is found is what was seen, each by a link of a page one step nearer.
Linked(c, item) ==
    \E j \in DOMAIN c.pages : item.url \in ToSet(c.pages[j].links)
                              /\ item.depth = c.pages[j].depth + 1

Reached(c, F) ==
    /\ \E i \in DOMAIN F : F[i].url = Start
    /\ \A i \in DOMAIN F : F[i].url \in c.seen
    /\ \A u \in c.seen : \E i \in DOMAIN F : F[i].url = u
    /\ \A i \in DOMAIN F : F[i].depth <= c.limits.depth /\ (F[i].depth = 0 <=> F[i].url = Start)
    /\ \A i \in DOMAIN F : F[i].depth > 0 => Linked(c, F[i])

\* A link of a page that is collected leads no farther than the page's depth
\* and one, and is known unless it is too deep or the queue's bound was met.
LinkFollowed(c, F, link, depth) ==
    /\ \A i \in DOMAIN F : F[i].url = link => F[i].depth <= depth
    /\ link \in c.seen \/ depth > c.limits.depth \/ "link" \in c.lost

Followed(c, F, n) ==
    \A j \in 1..n : \A link \in ToSet(c.pages[j].links) :
        LinkFollowed(c, F, link, c.pages[j].depth + 1)

Full(c) == "link" \in c.lost => c.discovered >= 4 * c.limits.pages

Frontier(c, b, k, F) ==
    /\ View(c, b, k, F) /\ Ordered(F, Len(c.pages) + 1) /\ Reached(c, F)
    /\ Followed(c, F, Len(c.pages)) /\ Full(c)

\* While the links L of the page collected last, at depth - 1, have been added.
Adding(c, b, k, F, L, depth) ==
    /\ View(c, b, k, F) /\ Ordered(F, Len(c.pages)) /\ Reached(c, F)
    /\ Followed(c, F, Len(c.pages) - 1) /\ Full(c)
    /\ \A link \in L : LinkFollowed(c, F, link, depth)

Tell(c) ==
    /\ c.limit = Nowhere => c.lost \subseteq {"inline"}
    /\ c.limit # Nowhere => c.lost \ {"inline"} # {}
    /\ c.limit # "maxPages"

Kept(c, d) ==
    /\ d \in CrawlState /\ d.pc = c.pc /\ d.site = c.site /\ d.limits = c.limits
    /\ d.batch = c.batch /\ d.requests = c.requests /\ d.scripts = c.scripts /\ d.keys = c.keys
    /\ Tell(c) => Tell(d)

-----------------------------------------------------------------------------
LEMMA ViewKept ==
    ASSUME NEW c, NEW d, NEW b, NEW k, NEW F, View(c, b, k, F),
           d.pages = c.pages, d.queue = c.queue
    PROVE  View(d, b, k, F)
BY DEF View

LEMMA PagesTyped ==
    ASSUME NEW c \in CrawlState, NEW j \in DOMAIN c.pages
    PROVE  /\ j \in Nat \ {0} /\ c.pages[j] \in PageState
           /\ c.pages[j].url \in Url /\ c.pages[j].depth \in Nat /\ c.pages[j].links \in Seq(Url)
<1>1. c.pages[j] \in PageState /\ j \in Nat \ {0}
  BY Fields
<1>. QED  BY <1>1 DEF PageState

LEMMA ItemsTyped ==
    ASSUME NEW F \in Seq(Item), NEW i \in DOMAIN F
    PROVE  i \in Nat \ {0} /\ F[i] \in Item /\ F[i].url \in Url /\ F[i].depth \in Nat
<1>1. F[i] \in Item /\ i \in Nat \ {0}
  OBVIOUS
<1>. QED  BY <1>1 DEF Item

\* The three outcomes of a link.
Refused(c) == [Noted(c, "queueBound") EXCEPT !.lost = @ \cup {"link"}]
Queued(c, link, depth) ==
    [c EXCEPT !.seen = @ \cup {link}, !.discovered = @ + 1,
              !.queue = Append(@, [url |-> link, depth |-> depth])]

LEMMA RefusedTyped ==
    ASSUME NEW c \in CrawlState
    PROVE  LET d == Refused(c)
           IN /\ Kept(c, d) /\ d.pages = c.pages /\ d.queue = c.queue /\ d.seen = c.seen
              /\ d.discovered = c.discovered /\ d.lost = c.lost \cup {"link"}
<1>. DEFINE e == Noted(c, "queueBound")
            d == Refused(c)
<1>1. "queueBound" # Nowhere
  BY CrawlAssumption
<1>2. e \in CrawlState /\ e.limit # Nowhere /\ e.limit \in {c.limit, "queueBound"}
  BY <1>1 DEF Noted, CrawlState, LimitName
<1>3. /\ e.pc = c.pc /\ e.site = c.site /\ e.limits = c.limits /\ e.batch = c.batch
      /\ e.requests = c.requests /\ e.scripts = c.scripts /\ e.keys = c.keys
      /\ e.pages = c.pages /\ e.queue = c.queue /\ e.seen = c.seen
      /\ e.discovered = c.discovered /\ e.lost = c.lost
  BY DEF Noted, CrawlState
<1>. HIDE DEF e
<1>4. d = [e EXCEPT !.lost = @ \cup {"link"}]
  BY DEF e, Refused
<1>5. e.lost \cup {"link"} \in SUBSET {"request", "unrecorded", "script", "key", "inline", "link", "cookie"}
  BY <1>2, Fields
<1>. HIDE DEF d
<1>6. d \in CrawlState /\ d.limit = e.limit /\ d.lost = c.lost \cup {"link"}
  BY <1>2, <1>3, <1>4, <1>5 DEF CrawlState
<1>7. /\ d.pc = c.pc /\ d.site = c.site /\ d.limits = c.limits /\ d.batch = c.batch
      /\ d.requests = c.requests /\ d.scripts = c.scripts /\ d.keys = c.keys
      /\ d.pages = c.pages /\ d.queue = c.queue /\ d.seen = c.seen
      /\ d.discovered = c.discovered
  BY <1>2, <1>3, <1>4 DEF CrawlState
<1>8. Tell(c) => Tell(d)
  BY <1>2, <1>6 DEF Tell
<1>. QED  BY <1>6, <1>7, <1>8 DEF Kept, d

LEMMA QueuedTyped ==
    ASSUME NEW c \in CrawlState, NEW link \in Url, NEW depth \in Nat
    PROVE  LET d == Queued(c, link, depth)
           IN /\ Kept(c, d) /\ d.pages = c.pages /\ d.seen = c.seen \cup {link}
              /\ d.queue = Append(c.queue, [url |-> link, depth |-> depth])
              /\ d.discovered = c.discovered + 1 /\ d.lost = c.lost
<1>. DEFINE d == Queued(c, link, depth)
            seen == c.seen \cup {link}
            queue == Append(c.queue, [url |-> link, depth |-> depth])
            discovered == c.discovered + 1
<1>1. seen \in SUBSET Url /\ queue \in Seq(Item) /\ discovered \in Nat
  <2>. DEFINE item == [url |-> link, depth |-> depth]
  <2>1. item \in Item
    BY DEF Item
  <2>. HIDE DEF item
  <2>2. Append(c.queue, item) \in Seq(Item)
    BY <2>1, Fields
  <2>. QED  BY <2>2, Fields DEF item
<1>2. d = [c EXCEPT !.seen = seen, !.discovered = discovered, !.queue = queue]
  BY DEF Queued
<1>. HIDE DEF seen, queue, discovered, d
<1>3. d \in CrawlState /\ d.seen = seen /\ d.queue = queue /\ d.discovered = discovered
  BY <1>1, <1>2 DEF CrawlState
<1>4. /\ d.pc = c.pc /\ d.site = c.site /\ d.limits = c.limits /\ d.batch = c.batch
      /\ d.requests = c.requests /\ d.scripts = c.scripts /\ d.keys = c.keys
      /\ d.pages = c.pages /\ d.lost = c.lost /\ d.limit = c.limit
  BY <1>2 DEF CrawlState
<1>. QED  BY <1>3, <1>4 DEF Kept, Tell, d, seen, queue, discovered

LEMMA AddLinkCases ==
    ASSUME NEW c, NEW link, NEW depth
    PROVE  \/ (link \in c.seen \/ depth > c.limits.depth) /\ AddLink(c, link, depth) = c
           \/ /\ link \notin c.seen /\ ~(depth > c.limits.depth)
              /\ c.discovered >= 4 * c.limits.pages /\ AddLink(c, link, depth) = Refused(c)
           \/ /\ link \notin c.seen /\ ~(depth > c.limits.depth)
              /\ ~(c.discovered >= 4 * c.limits.pages)
              /\ AddLink(c, link, depth) = Queued(c, link, depth)
BY DEF AddLink, Refused, Queued

LEMMA AddLinkKept ==
    ASSUME NEW c \in CrawlState, NEW link \in Url, NEW depth \in Nat
    PROVE  Kept(c, AddLink(c, link, depth)) /\ AddLink(c, link, depth).pages = c.pages
<1>1. CASE AddLink(c, link, depth) = c
  BY <1>1 DEF Kept
<1>2. CASE AddLink(c, link, depth) = Refused(c)
  BY <1>2, RefusedTyped
<1>3. CASE AddLink(c, link, depth) = Queued(c, link, depth)
  <2>1. LET d == Queued(c, link, depth) IN Kept(c, d) /\ d.pages = c.pages
    BY QueuedTyped
  <2>. QED  BY <1>3, <2>1
<1>. QED  BY <1>1, <1>2, <1>3, AddLinkCases

LEMMA AddingKnown ==
    ASSUME NEW c \in CrawlState, NEW b \in Seq(VisitState), NEW k \in 0..Len(b), NEW F,
           NEW L, NEW link \in Url, NEW depth \in Nat, Adding(c, b, k, F, L, depth),
           Len(c.pages) > 0, depth = c.pages[Len(c.pages)].depth + 1
    PROVE  /\ Len(c.pages) \in DOMAIN F /\ F[Len(c.pages)].depth + 1 = depth
           /\ \A i \in DOMAIN F : F[i].depth <= depth
<1>. DEFINE P == Len(c.pages)
<1>1. F \in Seq(Item) /\ c.pages \in Seq(PageState) /\ P \in Nat \ {0} /\ c.queue \in Seq(Item)
  BY Fields DEF Adding, View
<1>2. Len(b) \in Nat /\ Len(c.queue) \in Nat /\ k \in Nat /\ k <= Len(b)
  BY <1>1
<1>3. View(c, b, k, F) /\ P \in 1..P
  BY <1>1 DEF Adding
<1>4. Len(F) = P + (Len(b) - k) + Len(c.queue)
  BY <1>3 DEF View
<1>5. F[P].depth = c.pages[P].depth
  BY <1>3 DEF View
<1>. HIDE DEF P
<1>6. P \in 1..Len(F) /\ DOMAIN F = 1..Len(F)
  <2>. DEFINE m == Len(b) - k
              q == Len(c.queue)
  <2>1. m \in Nat /\ q \in Nat /\ Len(F) \in Nat
    BY <1>1, <1>2
  <2>. HIDE DEF m, q
  <2>2. P <= Len(F)
    <3>1. Len(F) = P + m + q
      BY <1>4 DEF m, q
    <3>. QED  BY <1>1, <2>1, <3>1
  <2>. QED  BY <1>1, <2>1, <2>2
<1>7. \A i, j \in DOMAIN F : P <= i => F[j].depth <= F[i].depth + 1
  BY DEF Adding, Ordered, P
<1>8. F[P].depth + 1 = depth
  BY <1>5 DEF P
<1>9. \A i \in DOMAIN F : F[i].depth <= depth
  BY <1>6, <1>7, <1>8
<1>. QED  BY <1>6, <1>8, <1>9 DEF P

LEMMA AddingRefused ==
    ASSUME NEW c \in CrawlState, NEW b \in Seq(VisitState), NEW k \in 0..Len(b), NEW F,
           NEW L, NEW link \in Url, NEW depth \in Nat, Adding(c, b, k, F, L, depth),
           Len(c.pages) > 0, depth = c.pages[Len(c.pages)].depth + 1,
           c.discovered >= 4 * c.limits.pages
    PROVE  Adding(Refused(c), b, k, F, L \cup {link}, depth)
<1>. DEFINE d == Refused(c)
<1>1. /\ d.pages = c.pages /\ d.queue = c.queue /\ d.seen = c.seen /\ d.limits = c.limits
      /\ d.discovered = c.discovered /\ d.lost = c.lost \cup {"link"}
  BY RefusedTyped DEF Kept
<1>. HIDE DEF d
<1>2. View(d, b, k, F)
  BY <1>1 DEF Adding, View
<1>3. Ordered(F, Len(d.pages))
  BY <1>1 DEF Adding
<1>4. Reached(d, F)
  BY <1>1 DEF Adding, Reached, Linked
<1>5. Followed(d, F, Len(d.pages) - 1)
  BY <1>1 DEF Adding, Followed, LinkFollowed
<1>6. Full(d)
  BY <1>1 DEF Full
<1>7. \A i \in DOMAIN F : F[i].depth <= depth
  BY AddingKnown
<1>8. \A l \in L \cup {link} : LinkFollowed(d, F, l, depth)
  BY <1>1, <1>7 DEF Adding, LinkFollowed
<1>. QED  BY <1>2, <1>3, <1>4, <1>5, <1>6, <1>8 DEF Adding, d

LEMMA AddingQueued ==
    ASSUME NEW c \in CrawlState, NEW b \in Seq(VisitState), NEW k \in 0..Len(b), NEW F,
           NEW L, NEW link \in Url, NEW depth \in Nat, Adding(c, b, k, F, L, depth),
           Len(c.pages) > 0, depth = c.pages[Len(c.pages)].depth + 1,
           link \in ToSet(c.pages[Len(c.pages)].links),
           link \notin c.seen, ~(depth > c.limits.depth),
           ~(c.discovered >= 4 * c.limits.pages)
    PROVE  \E G : Adding(Queued(c, link, depth), b, k, G, L \cup {link}, depth)
<1>. DEFINE P == Len(c.pages)
            d == Queued(c, link, depth)
            item == [url |-> link, depth |-> depth]
            G == Append(F, item)
            n == Len(F)
<1>1. /\ d.pages = c.pages /\ d.seen = c.seen \cup {link} /\ d.limits = c.limits
      /\ d.queue = Append(c.queue, item)
      /\ d.discovered = c.discovered + 1 /\ d.lost = c.lost
  BY QueuedTyped, SMTT(20) DEF Kept
<1>2. item \in Item /\ item.url = link /\ item.depth = depth
  BY DEF Item
<1>3. /\ F \in Seq(Item) /\ c.pages \in Seq(PageState) /\ P \in Nat \ {0} /\ c.queue \in Seq(Item)
      /\ n \in Nat
  <2>1. F \in Seq(Item)
    BY DEF Adding, View
  <2>. QED  BY <2>1, Fields
<1>3a. Len(b) \in Nat /\ k \in Nat /\ k <= Len(b) /\ Len(c.queue) \in Nat
  BY <1>3
<1>4. P \in DOMAIN F /\ F[P].depth + 1 = depth /\ \A i \in DOMAIN F : F[i].depth <= depth
  BY AddingKnown
<1>. HIDE DEF d, item
<1>5. /\ G \in Seq(Item) /\ Len(G) = n + 1 /\ DOMAIN G = 1..n + 1 /\ DOMAIN F = 1..n
      /\ \A i \in DOMAIN F : G[i] = F[i] /\ i # n + 1
      /\ G[n + 1] = item /\ n + 1 \in DOMAIN G
      /\ \A i \in DOMAIN G : i \in DOMAIN F \/ i = n + 1
  BY <1>2, <1>3
<1>. HIDE DEF G
<1>6. View(d, b, k, G)
  <2>. DEFINE m == Len(b) - k
              q == Len(c.queue)
  <2>1. /\ Len(d.queue) = q + 1 /\ \A j \in 1..q : d.queue[j] = c.queue[j]
        /\ d.queue[q + 1] = item
    BY <1>1, <1>2, <1>3
  <2>2. View(c, b, k, F)
    BY DEF Adding
  <2>3. n = P + m + q
    BY <2>2 DEF View
  <2>4. \A j \in 1..P : F[j].url = c.pages[j].url /\ F[j].depth = c.pages[j].depth
    BY <2>2 DEF View
  <2>5. \A j \in k + 1..Len(b) : F[P + j - k].url = b[j].url /\ F[P + j - k].depth = b[j].depth
    BY <2>2 DEF View
  <2>6. \A j \in 1..q : F[P + m + j] = c.queue[j]
    BY <2>2 DEF View
  <2>7. m \in Nat /\ q \in Nat
    BY <1>3a
  <2>8. \A j \in k + 1..Len(b) : P + j - k \in DOMAIN F
    <3>1. SUFFICES ASSUME NEW j \in k + 1..Len(b) PROVE P + j - k \in DOMAIN F
      OBVIOUS
    <3>2. j \in Int /\ k < j /\ j <= Len(b)
      BY <1>3a
    <3>. HIDE DEF P, q
    <3>3. 1 <= P + j - k /\ P + j - k <= n /\ P + j - k \in Int
      BY <1>3, <1>3a, <2>3, <2>7, <3>2
    <3>. QED  BY <1>3, <1>5, <3>3
  <2>. HIDE DEF P, m, q
  <2>9. /\ \A j \in 1..P : j \in DOMAIN F
        /\ \A j \in 1..q : P + m + j \in DOMAIN F
    BY <1>3, <1>5, <2>3, <2>7
  <2>10. Len(G) = P + m + Len(d.queue)
    BY <1>3, <1>5, <2>1, <2>3, <2>7
  <2>11. P + m + (q + 1) = n + 1
    BY <1>3, <2>3, <2>7
  <2>12. \A j \in 1..q + 1 : G[P + m + j] = d.queue[j]
    <3>1. \A j \in 1..q : G[P + m + j] = d.queue[j]
      BY <1>5, <2>1, <2>6, <2>9
    <3>2. G[P + m + (q + 1)] = d.queue[q + 1]
      BY <1>5, <2>1, <2>11
    <3>3. \A j \in 1..q + 1 : j \in 1..q \/ j = q + 1
      BY <2>7
    <3>. QED  BY <3>1, <3>2, <3>3
  <2>13. \A j \in 1..P : G[j].url = c.pages[j].url /\ G[j].depth = c.pages[j].depth
    BY <1>5, <2>4, <2>9
  <2>14. \A j \in k + 1..Len(b) : G[P + j - k].url = b[j].url /\ G[P + j - k].depth = b[j].depth
    BY <1>5, <2>5, <2>8
  <2>15. Len(G) = Len(d.pages) + (Len(b) - k) + Len(d.queue)
    BY <1>1, <2>10 DEF P, m
  <2>16. \A j \in 1..Len(d.pages) : G[j].url = d.pages[j].url /\ G[j].depth = d.pages[j].depth
    BY <1>1, <2>13 DEF P
  <2>17. \A j \in k + 1..Len(b) : G[Len(d.pages) + j - k].url = b[j].url
                                 /\ G[Len(d.pages) + j - k].depth = b[j].depth
    BY <1>1, <2>14 DEF P
  <2>18. Len(d.queue) = q + 1
    BY <2>1
  <2>19. \A j \in 1..Len(d.queue) : G[Len(d.pages) + (Len(b) - k) + j] = d.queue[j]
    BY <1>1, <2>12, <2>18 DEF P, m
  <2>. HIDE DEF d, G
  <2>. QED  BY <1>5, <2>15, <2>16, <2>17, <2>19 DEF View
<1>7. \A i \in DOMAIN F : F[i].url # link
  BY DEF Adding, Reached
<1>8. Ordered(G, P)
  <2>1. \A i \in DOMAIN F : F[i].depth \in Nat /\ i \in Nat /\ i <= n
    BY <1>3, <1>5, ItemsTyped, SMTT(20)
  <2>2. /\ \A i, j \in DOMAIN F : F[i].url = F[j].url => i = j
        /\ \A i, j \in DOMAIN F : i <= j => F[i].depth <= F[j].depth
        /\ \A i, j \in DOMAIN F : P <= i => F[j].depth <= F[i].depth + 1
    BY DEF Adding, Ordered
  <2>3. \A i, j \in DOMAIN G : G[i].url = G[j].url => i = j
    BY <1>2, <1>5, <1>7, <2>2
  <2>. HIDE DEF P
  <2>4. ASSUME NEW i \in DOMAIN G, NEW j \in DOMAIN G, i <= j
        PROVE  G[i].depth <= G[j].depth
    <3>1. CASE j \in DOMAIN F
      <4>1. i \in DOMAIN F
        BY <1>3, <1>5, <2>1, <2>4, <3>1
      <4>. QED  BY <1>5, <2>2, <2>4, <3>1, <4>1
    <3>2. CASE j = n + 1
      <4>1. G[j].depth = depth
        BY <1>2, <1>5, <3>2
      <4>. QED  BY <1>2, <1>4, <1>5, <4>1, SMTT(20)
    <3>. QED  BY <1>5, <3>1, <3>2
  <2>5. \A i \in DOMAIN F : P <= i => depth <= F[i].depth + 1
    <3>1. \A i \in DOMAIN F : P <= i => F[P].depth <= F[i].depth
      BY <1>4, <2>2
    <3>. QED  BY <1>4, <2>1, <3>1, SMTT(20)
  <2>6. ASSUME NEW i \in DOMAIN G, NEW j \in DOMAIN G, P <= i
        PROVE  G[j].depth <= G[i].depth + 1
    <3>1. G[j].depth <= depth /\ G[j].depth \in Nat
      BY <1>2, <1>4, <1>5, <2>1, SMTT(20)
    <3>2. CASE i = n + 1
      <4>1. G[i].depth = depth
        BY <1>2, <1>5, <3>2
      <4>. QED  BY <3>1, <4>1
    <3>3. CASE i \in DOMAIN F /\ j \in DOMAIN F
      BY <1>5, <2>2, <2>6, <3>3
    <3>4. CASE i \in DOMAIN F /\ j = n + 1
      BY <1>2, <1>5, <2>5, <2>6, <3>4
    <3>. QED  BY <1>5, <3>2, <3>3, <3>4
  <2>7. \A i, j \in DOMAIN G : i <= j => G[i].depth <= G[j].depth
    BY <2>4
  <2>8. \A i, j \in DOMAIN G : P <= i => G[j].depth <= G[i].depth + 1
    BY <2>6
  <2>. QED  BY <2>3, <2>7, <2>8 DEF Ordered
<1>9. Reached(d, G)
  <2>1. Reached(c, F)
    BY DEF Adding
  <2>2. depth > 0 /\ depth <= d.limits.depth
    <3>1. c.limits.depth \in Nat
      BY Fields, LimitsTyped
    <3>2. F[P].depth \in Nat
      BY <1>3, <1>4, ItemsTyped
    <3>. QED  BY <1>1, <1>4, <3>1, <3>2, SMTT(20)
  <2>3. link # Start
    BY <1>7, <2>1 DEF Reached
  <2>4. \E i \in DOMAIN G : G[i].url = Start
    BY <1>5, <2>1 DEF Reached
  <2>5. \A i \in DOMAIN G : G[i].url \in d.seen
    BY <1>1, <1>2, <1>5, <2>1 DEF Reached
  <2>6. ASSUME NEW u \in d.seen
        PROVE  \E i \in DOMAIN G : G[i].url = u
    <3>1. CASE u = link
      BY <1>2, <1>5, <3>1
    <3>2. CASE u \in c.seen
      <4>1. PICK i \in DOMAIN F : F[i].url = u
        BY <2>1, <3>2 DEF Reached
      <4>. QED  BY <1>5, <4>1
    <3>. QED  BY <1>1, <2>6, <3>1, <3>2
  <2>7. ASSUME NEW i \in DOMAIN G
        PROVE  G[i].depth <= d.limits.depth /\ (G[i].depth = 0 <=> G[i].url = Start)
    <3>1. CASE i \in DOMAIN F
      BY <1>1, <1>5, <2>1, <3>1, SMTT(20) DEF Reached
    <3>2. CASE i = n + 1
      <4>1. G[i].depth = depth /\ G[i].url = link /\ depth # 0
        BY <1>2, <1>5, <2>2, <3>2
      <4>. QED  BY <2>2, <2>3, <4>1
    <3>. QED  BY <1>5, <3>1, <3>2
  <2>8. Linked(d, item)
    <3>1. P \in DOMAIN d.pages
      BY <1>1, <1>3
    <3>. QED  BY <1>1, <1>2, <3>1 DEF Linked
  <2>9. \A i \in DOMAIN F : F[i].depth > 0 => Linked(d, F[i])
    BY <1>1, <2>1 DEF Reached, Linked
  <2>10. \A i \in DOMAIN G : G[i].depth > 0 => Linked(d, G[i])
    BY <1>5, <2>8, <2>9
  <2>. QED  BY <2>4, <2>5, <2>6, <2>7, <2>10 DEF Reached
<1>10. Followed(d, G, P - 1)
  <2>1. SUFFICES ASSUME NEW j \in 1..P - 1, NEW l \in ToSet(c.pages[j].links)
                 PROVE  LinkFollowed(d, G, l, c.pages[j].depth + 1)
    BY <1>1 DEF Followed
  <2>2. LinkFollowed(c, F, l, c.pages[j].depth + 1)
    BY DEF Adding, Followed
  <2>3. c.pages[j].depth \in Nat /\ c.limits.depth \in Nat
    <3>1. j \in DOMAIN c.pages
      BY <1>3
    <3>. QED  BY <3>1, PagesTyped, Fields, LimitsTyped
  <2>4. "link" \notin c.lost
    BY DEF Adding, Full
  <2>5. l = link => depth <= c.pages[j].depth + 1
    <3>1. SUFFICES ASSUME l = link PROVE depth <= c.pages[j].depth + 1
      OBVIOUS
    <3>2. c.pages[j].depth + 1 > c.limits.depth
      BY <2>2, <2>4, <3>1 DEF LinkFollowed
    <3>3. depth <= c.limits.depth
      BY <2>3
    <3>. QED  BY <2>3, <3>2, <3>3, SMTT(20)
  <2>. QED  BY <1>1, <1>2, <1>5, <2>2, <2>5 DEF LinkFollowed
<1>11. Full(d)
  BY <1>1, Fields, LimitsTyped DEF Adding, Full
<1>12. \A l \in L \cup {link} : LinkFollowed(d, G, l, depth)
  BY <1>1, <1>2, <1>4, <1>5 DEF Adding, LinkFollowed
<1>13. Len(d.pages) = P
  BY <1>1
<1>14. Adding(d, b, k, G, L \cup {link}, depth)
  BY <1>6, <1>8, <1>9, <1>10, <1>11, <1>12, <1>13 DEF Adding
<1>. QED  BY <1>14 DEF d

\* One link, whatever becomes of it.
LEMMA AddingLink ==
    ASSUME NEW c \in CrawlState, NEW b \in Seq(VisitState), NEW k \in 0..Len(b), NEW F,
           NEW L, NEW link \in Url, NEW depth \in Nat, Adding(c, b, k, F, L, depth),
           Len(c.pages) > 0, depth = c.pages[Len(c.pages)].depth + 1,
           link \in ToSet(c.pages[Len(c.pages)].links)
    PROVE  \E G : Adding(AddLink(c, link, depth), b, k, G, L \cup {link}, depth)
<1>1. CASE (link \in c.seen \/ depth > c.limits.depth) /\ AddLink(c, link, depth) = c
  <2>. \A i \in DOMAIN F : F[i].depth <= depth
    BY AddingKnown
  <2>1. LinkFollowed(c, F, link, depth)
    BY <1>1 DEF LinkFollowed
  <2>2. Adding(c, b, k, F, L \cup {link}, depth)
    BY <2>1 DEF Adding
  <2>. QED  BY <1>1, <2>2
<1>2. CASE c.discovered >= 4 * c.limits.pages /\ AddLink(c, link, depth) = Refused(c)
  <2>1. Adding(Refused(c), b, k, F, L \cup {link}, depth)
    BY <1>2, AddingRefused
  <2>. QED  BY <1>2, <2>1
<1>3. CASE /\ link \notin c.seen /\ ~(depth > c.limits.depth)
           /\ ~(c.discovered >= 4 * c.limits.pages)
           /\ AddLink(c, link, depth) = Queued(c, link, depth)
  <2>1. \E G : Adding(Queued(c, link, depth), b, k, G, L \cup {link}, depth)
    BY <1>3, AddingQueued
  <2>. QED  BY <1>3, <2>1
<1>. QED  BY <1>1, <1>2, <1>3, AddLinkCases

\* All links of a page, one after the other.
LEMMA AddLinksUnfolds ==
    ASSUME NEW c \in CrawlState, NEW links \in Seq(Url), NEW depth \in Nat
    PROVE  \E after : /\ after[0] = c /\ after[Len(links)] = AddLinks(c, links, depth)
                      /\ \A k \in 1..Len(links) :
                           after[k] = AddLink(after[k - 1], links[k], depth)
<1>. DEFINE n == Len(links)
            step == [k \in 1..n |-> [d \in CrawlState |-> AddLink(d, links[k], depth)]]
            After(f) == [k \in 0..n |-> IF k = 0 THEN c ELSE AddLink(f[k - 1], links[k], depth)]
            after == CHOOSE f : f = After(f)
<1>1. n \in Nat /\ \A k \in 1..n : links[k] \in Url
  OBVIOUS
<1>2. AddLinks(c, links, depth) = after[n]
  BY DEF AddLinks
<1>. HIDE DEF n
<1>3. step \in [1..n -> [CrawlState -> CrawlState]]
  BY <1>1, AddLinkKept DEF Kept
<1>4. \A k \in 1..n, d \in CrawlState : step[k][d] = AddLink(d, links[k], depth)
  OBVIOUS
<1>. HIDE DEF step
<1>5. PICK g \in Unfoldings(n, CrawlState, c, step) : TRUE
  BY <1>1, <1>3, Recursion
<1>6. \A k \in 1..n : g[k] = AddLink(g[k - 1], links[k], depth)
  <2>1. ASSUME NEW k \in 1..n PROVE k \in Int /\ k # 0 /\ k - 1 \in 0..n
    BY <1>1
  <2>. QED  BY <1>4, <1>5, <2>1 DEF Unfoldings
<1>7. g = After(g)
  <2>1. \A k \in 0..n : After(g)[k] = g[k]
    BY <1>1, <1>5, <1>6 DEF Unfoldings
  <2>2. After(g) = [k \in 0..n |-> After(g)[k]] /\ g = [k \in 0..n |-> g[k]]
    BY <1>5 DEF Unfoldings
  <2>. HIDE DEF After
  <2>. QED  BY <2>1, <2>2
<1>8. after = After(after)
  BY <1>7
<1>. HIDE DEF after
<1>9. \A k \in 0..n : after[k] = IF k = 0 THEN c ELSE AddLink(after[k - 1], links[k], depth)
  BY <1>8
<1>10. 0 \in 0..n
  BY <1>1
<1>11. after[0] = c
  BY <1>9, <1>10
<1>12. \A k \in 1..n : after[k] = AddLink(after[k - 1], links[k], depth)
  BY <1>1, <1>9
<1>. QED  BY <1>2, <1>11, <1>12 DEF n

LEMMA KeptOn ==
    ASSUME NEW c, NEW d, NEW e, Kept(c, d), Kept(d, e)
    PROVE  Kept(c, e)
BY DEF Kept

LEMMA AddingLinks ==
    ASSUME NEW c \in CrawlState, NEW b \in Seq(VisitState), NEW k \in 0..Len(b), NEW F,
           NEW depth \in Nat, Adding(c, b, k, F, {}, depth),
           Len(c.pages) > 0, depth = c.pages[Len(c.pages)].depth + 1,
           NEW links \in Seq(Url), links = c.pages[Len(c.pages)].links
    PROVE  LET d == AddLinks(c, links, depth)
           IN Kept(c, d) /\ d.pages = c.pages /\ \E G : Adding(d, b, k, G, ToSet(links), depth)
<1>. DEFINE n == Len(links)
            Upto(h) == {links[l] : l \in 1..h}
<1>1. PICK after : /\ after[0] = c /\ after[n] = AddLinks(c, links, depth)
                   /\ \A h \in 1..n : after[h] = AddLink(after[h - 1], links[h], depth)
  <2>1. \E after : /\ after[0] = c /\ after[Len(links)] = AddLinks(c, links, depth)
                   /\ \A h \in 1..Len(links) : after[h] = AddLink(after[h - 1], links[h], depth)
    BY AddLinksUnfolds, ZenonT(30)
  <2>. QED  BY <2>1
<1>2. n \in Nat /\ \A h \in 1..n : links[h] \in Url /\ links[h] \in ToSet(links)
  BY DEF ToSet
<1>3. ToSet(links) = Upto(n) /\ Upto(0) = {}
      /\ \A h \in Nat : Upto(h + 1) = Upto(h) \cup {links[h + 1]}
  <2>1. ToSet(links) = Upto(n)
    BY DEF ToSet
  <2>2. Upto(0) = {}
    OBVIOUS
  <2>3. ASSUME NEW h \in Nat
        PROVE  Upto(h + 1) = Upto(h) \cup {links[h + 1]}
    <3>1. \A l : l \in 1..h + 1 <=> l \in 1..h \/ l = h + 1
      OBVIOUS
    <3>. QED  BY <3>1
  <2>. QED  BY <2>1, <2>2, <2>3
<1>. HIDE DEF n, Upto
<1>. DEFINE Added(d, h) == /\ Kept(c, d) /\ d.pages = c.pages
                           /\ \E G : Adding(d, b, k, G, Upto(h), depth)
            Good == {h \in Nat : h <= n => Added(after[h], h)}
<1>4. 0 \in Good
  BY <1>1, <1>3 DEF Kept
<1>5. ASSUME NEW h \in Nat, h \in Good
      PROVE  h + 1 \in Good
  <2>1. SUFFICES ASSUME h + 1 <= n PROVE Added(after[h + 1], h + 1)
    OBVIOUS
  <2>. DEFINE d == after[h]
              e == after[h + 1]
  <2>2. h + 1 \in 1..n /\ Added(d, h)
    BY <1>2, <1>5, <2>1
  <2>3. e = AddLink(d, links[h + 1], depth)
    BY <1>1, <2>2
  <2>. HIDE DEF d, e
  <2>4. d \in CrawlState /\ Kept(c, d) /\ d.pages = c.pages
    BY <2>2 DEF Kept
  <2>5. PICK G : Adding(d, b, k, G, Upto(h), depth)
    BY <2>2
  <2>6. links[h + 1] \in Url /\ links[h + 1] \in ToSet(links)
    BY <1>2, <2>2
  <2>7. Kept(d, e) /\ e.pages = d.pages
    BY <2>3, <2>4, <2>6, AddLinkKept
  <2>8. \E H : Adding(e, b, k, H, Upto(h) \cup {links[h + 1]}, depth)
    BY <2>3, <2>4, <2>5, <2>6, AddingLink
  <2>9. Kept(c, e)
    BY <2>4, <2>7, KeptOn
  <2>. QED  BY <1>3, <2>4, <2>7, <2>8, <2>9 DEF e
<1>. HIDE DEF Good
<1>6. n \in Good
  BY <1>2, <1>4, <1>5, Induction
<1>7. Added(after[n], n)
  BY <1>2, <1>6 DEF Good
<1>. QED  BY <1>1, <1>3, <1>7

-----------------------------------------------------------------------------
(***************************************************************************)
(* The results of a batch.                                                 *)
(***************************************************************************)
\* The page joins those collected; its links follow.
Paged(c, visit) ==
    [c EXCEPT
       !.pages = Append(@, [url |-> visit.url, depth |-> visit.depth, links |-> visit.links]),
              !.skipped = IF visit.skipped THEN @ + 1 ELSE @,
              !.consentOn = IF visit.signals # {} /\ @ = Nowhere THEN visit.url ELSE @]

LEMMA PagedTyped ==
    ASSUME NEW c \in CrawlState, NEW visit \in VisitState
    PROVE  LET d == Paged(c, visit)
           IN /\ Kept(c, d) /\ d.queue = c.queue /\ d.seen = c.seen
              /\ d.discovered = c.discovered /\ d.lost = c.lost
              /\ d.pages = Append(c.pages, [url |-> visit.url, depth |-> visit.depth,
                                            links |-> visit.links])
<1>. DEFINE page == [url |-> visit.url, depth |-> visit.depth, links |-> visit.links]
            pages == Append(c.pages, page)
            skipped == IF visit.skipped THEN c.skipped + 1 ELSE c.skipped
            consentOn == IF visit.signals # {} /\ c.consentOn = Nowhere THEN visit.url
                         ELSE c.consentOn
            d == Paged(c, visit)
<1>1. page \in PageState
  BY DEF PageState, VisitState
<1>. HIDE DEF page
<1>2. pages \in Seq(PageState)
  BY <1>1, Fields
<1>3. skipped \in Nat
  BY DEF CrawlState
<1>4. consentOn \in Url \cup {Nowhere}
  BY DEF CrawlState, VisitState
<1>5. d = [c EXCEPT !.pages = pages, !.skipped = skipped, !.consentOn = consentOn]
  BY DEF Paged, page
<1>. HIDE DEF pages, skipped, consentOn, d
<1>6. d \in CrawlState /\ d.pages = pages
  BY <1>2, <1>3, <1>4, <1>5 DEF CrawlState
<1>7. /\ d.pc = c.pc /\ d.site = c.site /\ d.limits = c.limits /\ d.batch = c.batch
      /\ d.requests = c.requests /\ d.scripts = c.scripts /\ d.keys = c.keys
      /\ d.queue = c.queue /\ d.seen = c.seen /\ d.discovered = c.discovered
      /\ d.lost = c.lost /\ d.limit = c.limit
  BY <1>5 DEF CrawlState
<1>. QED  BY <1>6, <1>7 DEF Kept, Tell, d, pages, page

LEMMA Collected ==
    ASSUME NEW c \in CrawlState, NEW b \in Seq(VisitState), NEW k \in 0..Len(b), k < Len(b),
           NEW F, Frontier(c, b, k, F)
    PROVE  LET d == CollectResult(c, b[k + 1])
           IN /\ Kept(c, d) /\ Len(d.pages) = Len(c.pages) + 1
              /\ \E G : Frontier(d, b, k + 1, G)
<1>. DEFINE visit == b[k + 1]
            page == [url |-> visit.url, depth |-> visit.depth, links |-> visit.links]
            e == Paged(c, visit)
            depth == visit.depth + 1
            d == CollectResult(c, visit)
            P == Len(c.pages)
<1>1. visit \in VisitState /\ k + 1 \in 0..Len(b)
  OBVIOUS
<1>2. d = AddLinks(e, visit.links, depth)
  BY DEF CollectResult, Paged
<1>. HIDE DEF visit, d
<1>3. visit.links \in Seq(Url) /\ depth \in Nat
  <2>1. visit.depth \in Nat /\ visit.links \in Seq(Url)
    BY <1>1 DEF VisitState
  <2>. QED  BY <2>1
<1>4. /\ Kept(c, e) /\ e.queue = c.queue /\ e.seen = c.seen
      /\ e.discovered = c.discovered /\ e.lost = c.lost /\ e.pages = Append(c.pages, page)
  BY <1>1, PagedTyped
<1>5. e \in CrawlState /\ e.limits = c.limits
  BY <1>4 DEF Kept
<1>. HIDE DEF e
<1>6. /\ c.pages \in Seq(PageState) /\ P \in Nat /\ Len(e.pages) = P + 1
      /\ \A j \in 1..P : e.pages[j] = c.pages[j]
      /\ e.pages[P + 1] = page
  BY <1>4, Fields
<1>7. page.url = visit.url /\ page.depth = visit.depth /\ page.links = visit.links
  OBVIOUS
<1>. HIDE DEF page
<1>8. View(e, b, k + 1, F)
  <2>. DEFINE n == Len(b)
              q == Len(c.queue)
  <2>1. View(c, b, k, F)
    BY DEF Frontier
  <2>2. F \in Seq(Item) /\ Len(F) = P + (n - k) + q
    BY <2>1 DEF View
  <2>3. \A j \in 1..P : F[j].url = c.pages[j].url /\ F[j].depth = c.pages[j].depth
    BY <2>1 DEF View
  <2>4. \A j \in k + 1..n : F[P + j - k].url = b[j].url /\ F[P + j - k].depth = b[j].depth
    BY <2>1 DEF View
  <2>5. \A j \in 1..q : F[P + (n - k) + j] = c.queue[j]
    BY <2>1 DEF View
  <2>6. n \in Nat /\ k \in Nat /\ k + 1 <= n /\ q \in Nat
    BY <1>1, Fields
  <2>7. F[P + 1].url = visit.url /\ F[P + 1].depth = visit.depth
    <3>1. k + 1 \in k + 1..n /\ P + (k + 1) - k = P + 1
      BY <1>6, <2>6
    <3>2. F[P + (k + 1) - k].url = b[k + 1].url /\ F[P + (k + 1) - k].depth = b[k + 1].depth
      BY <2>4, <3>1
    <3>. QED  BY <3>1, <3>2 DEF visit
  <2>. HIDE DEF P, n, q
  <2>8. /\ P + (n - k) + q = (P + 1) + (n - (k + 1)) + q
        /\ P + (n - k) = (P + 1) + (n - (k + 1))
    BY <1>6, <2>6
  <2>9. \A j \in (k + 1) + 1..n : j \in k + 1..n /\ P + j - k = (P + 1) + j - (k + 1)
    BY <1>6, <2>6
  <2>10. \A j \in (k + 1) + 1..n : /\ F[(P + 1) + j - (k + 1)].url = b[j].url
                                   /\ F[(P + 1) + j - (k + 1)].depth = b[j].depth
    <3>1. SUFFICES ASSUME NEW j \in (k + 1) + 1..n
                   PROVE  /\ F[(P + 1) + j - (k + 1)].url = b[j].url
                          /\ F[(P + 1) + j - (k + 1)].depth = b[j].depth
      OBVIOUS
    <3>2. j \in k + 1..n /\ P + j - k = (P + 1) + j - (k + 1)
      BY <2>9, <3>1
    <3>3. F[P + j - k].url = b[j].url /\ F[P + j - k].depth = b[j].depth
      BY <2>4, <3>2
    <3>. QED  BY <3>2, <3>3
  <2>11. \A j \in 1..P + 1 : F[j].url = e.pages[j].url /\ F[j].depth = e.pages[j].depth
    <3>1. \A j \in 1..P + 1 : j \in 1..P \/ j = P + 1
      BY <1>6
    <3>. QED  BY <1>6, <1>7, <2>3, <2>7, <3>1
  <2>12. Len(F) = (P + 1) + (n - (k + 1)) + q
    BY <2>2, <2>8
  <2>13. \A j \in 1..q : F[(P + 1) + (n - (k + 1)) + j] = c.queue[j]
    BY <2>5, <2>8
  <2>. QED  BY <1>4, <1>6, <2>2, <2>10, <2>11, <2>12, <2>13 DEF View, n, q
<1>9. Ordered(F, Len(e.pages))
  BY <1>6 DEF Frontier
<1>10. Reached(e, F)
  <2>1. Reached(c, F)
    BY DEF Frontier
  <2>2. \A item : Linked(c, item) => Linked(e, item)
    <3>1. \A j \in DOMAIN c.pages : j \in DOMAIN e.pages /\ e.pages[j] = c.pages[j]
      BY <1>6
    <3>2. SUFFICES ASSUME NEW item, Linked(c, item) PROVE Linked(e, item)
      OBVIOUS
    <3>3. PICK j \in DOMAIN c.pages : item.url \in ToSet(c.pages[j].links)
                                     /\ item.depth = c.pages[j].depth + 1
      BY <3>2 DEF Linked
    <3>. QED  BY <3>1, <3>3 DEF Linked
  <2>. QED  BY <1>4, <1>5, <2>1, <2>2 DEF Reached
<1>11. Followed(e, F, Len(e.pages) - 1)
  <2>1. \A j \in 1..P : \A l \in ToSet(c.pages[j].links) :
          LinkFollowed(c, F, l, c.pages[j].depth + 1)
    BY DEF Frontier, Followed
  <2>2. \A l, dep : LinkFollowed(c, F, l, dep) => LinkFollowed(e, F, l, dep)
    BY <1>4, <1>5 DEF LinkFollowed
  <2>3. Len(e.pages) - 1 = P
    BY <1>6
  <2>. QED  BY <1>6, <2>1, <2>2, <2>3 DEF Followed
<1>12. Full(e)
  BY <1>4, <1>5 DEF Frontier, Full
<1>13. Adding(e, b, k + 1, F, {}, depth)
  BY <1>8, <1>9, <1>10, <1>11, <1>12 DEF Adding
<1>14. /\ Kept(e, d) /\ d.pages = e.pages
       /\ \E G : Adding(d, b, k + 1, G, ToSet(visit.links), depth)
  <2>1. Len(e.pages) > 0 /\ e.pages[Len(e.pages)] = page
    BY <1>6
  <2>2. depth = e.pages[Len(e.pages)].depth + 1 /\ visit.links = e.pages[Len(e.pages)].links
    BY <1>7, <2>1
  <2>. HIDE DEF depth
  <2>3. LET d0 == AddLinks(e, visit.links, depth)
        IN /\ Kept(e, d0) /\ d0.pages = e.pages
           /\ \E G : Adding(d0, b, k + 1, G, ToSet(visit.links), depth)
    BY <1>1, <1>3, <1>5, <1>13, <2>1, <2>2, AddingLinks, SMTT(20)
  <2>. QED  BY <1>2, <2>3
<1>15. PICK G : Adding(d, b, k + 1, G, ToSet(visit.links), depth)
  BY <1>14
<1>16. Frontier(d, b, k + 1, G)
  <2>1. d.pages = e.pages /\ Len(d.pages) = P + 1 /\ d.pages[P + 1] = page
    BY <1>6, <1>14
  <2>2. View(d, b, k + 1, G) /\ Ordered(G, P + 1) /\ Reached(d, G) /\ Followed(d, G, P + 1 - 1)
        /\ Full(d) /\ \A link \in ToSet(visit.links) : LinkFollowed(d, G, link, depth)
    BY <1>15, <2>1 DEF Adding
  <2>. HIDE DEF P
  <2>3. Ordered(G, P + 1 + 1)
    <3>1. \A i \in DOMAIN G : i \in Int
      BY <2>2 DEF View
    <3>2. \A i \in DOMAIN G : P + 1 + 1 <= i => P + 1 <= i
      BY <1>6, <3>1
    <3>. QED  BY <2>2, <3>2 DEF Ordered
  <2>4. Followed(d, G, P + 1)
    <3>1. \A j \in 1..P + 1 : j \in 1..P + 1 - 1 \/ j = P + 1
      BY <1>6
    <3>2. d.pages[P + 1].depth + 1 = depth /\ d.pages[P + 1].links = visit.links
      BY <1>7, <2>1
    <3>. QED  BY <2>2, <3>1, <3>2 DEF Followed
  <2>. QED  BY <2>1, <2>2, <2>3, <2>4 DEF Frontier
<1>. QED  BY <1>4, <1>6, <1>14, <1>16, KeptOn DEF d, visit

LEMMA CollectResultKept ==
    ASSUME NEW c \in CrawlState, NEW visit \in VisitState
    PROVE  Kept(c, CollectResult(c, visit))
<1>. DEFINE e == Paged(c, visit)
<1>1. CollectResult(c, visit) = AddLinks(e, visit.links, visit.depth + 1)
  BY DEF CollectResult, Paged
<1>2. Kept(c, e)
  BY PagedTyped
<1>3. e \in CrawlState
  BY <1>2 DEF Kept
<1>4. visit.links \in Seq(Url) /\ visit.depth \in Nat
  BY DEF VisitState
<1>. DEFINE links == visit.links
            depth == visit.depth + 1
            n == Len(links)
<1>5. depth \in Nat /\ n \in Nat /\ \A h \in 1..n : links[h] \in Url
  BY <1>4
<1>. HIDE DEF e
<1>6. PICK after : /\ after[0] = e /\ after[n] = AddLinks(e, links, depth)
                   /\ \A h \in 1..n : after[h] = AddLink(after[h - 1], links[h], depth)
  BY <1>3, <1>4, <1>5, AddLinksUnfolds
<1>. HIDE DEF links, depth, n
<1>. DEFINE Good == {h \in Nat : h <= n => Kept(e, after[h])}
<1>7. 0 \in Good
  BY <1>3, <1>6 DEF Kept
<1>8. ASSUME NEW h \in Nat, h \in Good
      PROVE  h + 1 \in Good
  <2>1. SUFFICES ASSUME h + 1 <= n PROVE Kept(e, after[h + 1])
    OBVIOUS
  <2>2. h + 1 \in 1..n /\ Kept(e, after[h])
    BY <1>5, <1>8, <2>1
  <2>3. after[h + 1] = AddLink(after[h], links[h + 1], depth) /\ links[h + 1] \in Url
    BY <1>5, <1>6, <2>2
  <2>4. after[h] \in CrawlState
    BY <2>2 DEF Kept
  <2>5. Kept(after[h], after[h + 1])
    BY <1>5, <2>3, <2>4, AddLinkKept
  <2>. QED  BY <2>2, <2>5, KeptOn
<1>. HIDE DEF Good
<1>9. n \in Good
  BY <1>5, <1>7, <1>8, Induction
<1>10. Kept(e, after[n])
  BY <1>5, <1>9 DEF Good
<1>. QED  BY <1>1, <1>2, <1>6, <1>10, KeptOn DEF links, depth

LEMMA CollectResultsUnfolds ==
    ASSUME NEW c \in CrawlState, NEW b \in Seq(VisitState)
    PROVE  \E after : /\ after[0] = c /\ after[Len(b)] = CollectResults(c, b)
                      /\ \A k \in 1..Len(b) : after[k] = CollectResult(after[k - 1], b[k])
<1>. DEFINE n == Len(b)
            step == [k \in 1..n |-> [d \in CrawlState |-> CollectResult(d, b[k])]]
            After(f) == [k \in 0..n |-> IF k = 0 THEN c ELSE CollectResult(f[k - 1], b[k])]
            after == CHOOSE f : f = After(f)
<1>1. n \in Nat /\ \A k \in 1..n : b[k] \in VisitState
  OBVIOUS
<1>2. CollectResults(c, b) = after[n]
  BY DEF CollectResults
<1>. HIDE DEF n
<1>3. step \in [1..n -> [CrawlState -> CrawlState]]
  BY <1>1, CollectResultKept DEF Kept
<1>4. \A k \in 1..n, d \in CrawlState : step[k][d] = CollectResult(d, b[k])
  OBVIOUS
<1>. HIDE DEF step
<1>5. PICK g \in Unfoldings(n, CrawlState, c, step) : TRUE
  BY <1>1, <1>3, Recursion
<1>6. \A k \in 1..n : g[k] = CollectResult(g[k - 1], b[k])
  <2>1. ASSUME NEW k \in 1..n PROVE k \in Int /\ k # 0 /\ k - 1 \in 0..n
    BY <1>1
  <2>. QED  BY <1>4, <1>5, <2>1 DEF Unfoldings
<1>7. g = After(g)
  <2>1. \A k \in 0..n : After(g)[k] = g[k]
    BY <1>1, <1>5, <1>6 DEF Unfoldings
  <2>2. After(g) = [k \in 0..n |-> After(g)[k]] /\ g = [k \in 0..n |-> g[k]]
    BY <1>5 DEF Unfoldings
  <2>. HIDE DEF After
  <2>. QED  BY <2>1, <2>2
<1>8. after = After(after)
  BY <1>7
<1>. HIDE DEF after
<1>9. \A k \in 0..n : after[k] = IF k = 0 THEN c ELSE CollectResult(after[k - 1], b[k])
  BY <1>8
<1>10. 0 \in 0..n
  BY <1>1
<1>11. after[0] = c
  BY <1>9, <1>10
<1>12. \A k \in 1..n : after[k] = CollectResult(after[k - 1], b[k])
  BY <1>1, <1>9
<1>. QED  BY <1>2, <1>11, <1>12 DEF n

\* The results of a whole batch, in the order of the batch.
LEMMA CollectedAll ==
    ASSUME NEW c \in CrawlState, NEW b \in Seq(VisitState), NEW F, Frontier(c, b, 0, F)
    PROVE  LET d == CollectResults(c, b)
           IN /\ Kept(c, d) /\ Len(d.pages) = Len(c.pages) + Len(b)
              /\ \E G : Frontier(d, b, Len(b), G)
<1>. DEFINE n == Len(b)
<1>1. PICK after : /\ after[0] = c /\ after[n] = CollectResults(c, b)
                   /\ \A k \in 1..n : after[k] = CollectResult(after[k - 1], b[k])
  BY CollectResultsUnfolds
<1>2. n \in Nat /\ Len(c.pages) \in Nat
  BY Fields
<1>. HIDE DEF n
<1>. DEFINE Done(d, k) == /\ Kept(c, d) /\ Len(d.pages) = Len(c.pages) + k
                          /\ \E G : Frontier(d, b, k, G)
            Good == {k \in Nat : k <= n => Done(after[k], k)}
<1>3. 0 \in Good
  BY <1>1, <1>2 DEF Kept
<1>. HIDE DEF Done
<1>4. ASSUME NEW k \in Nat, k \in Good
      PROVE  k + 1 \in Good
  <2>1. SUFFICES ASSUME k + 1 <= n PROVE Done(after[k + 1], k + 1)
    OBVIOUS
  <2>. DEFINE d == after[k]
              e == after[k + 1]
  <2>2. k + 1 \in 1..n /\ k \in 0..n /\ k < n /\ Done(d, k) /\ (k + 1) - 1 = k
    BY <1>2, <1>4, <2>1
  <2>2a. Kept(c, d) /\ Len(d.pages) = Len(c.pages) + k /\ \E G : Frontier(d, b, k, G)
    BY <2>2 DEF Done
  <2>3. e = CollectResult(d, b[k + 1])
    BY <1>1, <2>2
  <2>. HIDE DEF d, e
  <2>4. d \in CrawlState
    BY <2>2a DEF Kept
  <2>5. PICK G : Frontier(d, b, k, G)
    BY <2>2a
  <2>6. LET r == CollectResult(d, b[k + 1])
        IN /\ Kept(d, r) /\ Len(r.pages) = Len(d.pages) + 1
           /\ \E H : Frontier(r, b, k + 1, H)
    BY <2>2, <2>4, <2>5, Collected DEF n
  <2>7. Kept(c, e)
    BY <2>2a, <2>3, <2>6, KeptOn
  <2>8. Len(e.pages) = Len(c.pages) + (k + 1)
    <3>1. Len(e.pages) = Len(d.pages) + 1
      BY <2>3, <2>6
    <3>2. \A x, y \in Nat : (x + y) + 1 = x + (y + 1)
      OBVIOUS
    <3>3. Len(d.pages) + 1 = (Len(c.pages) + k) + 1
      BY <2>2a
    <3>. QED  BY <1>2, <3>1, <3>2, <3>3
  <2>. QED  BY <2>3, <2>6, <2>7, <2>8 DEF e, Done
<1>. HIDE DEF Good
<1>5. n \in Good
  BY <1>2, <1>3, <1>4, Induction
<1>6. Done(after[n], n)
  BY <1>2, <1>5 DEF Good
<1>. QED  BY <1>1, <1>6 DEF n, Done

-----------------------------------------------------------------------------
(***************************************************************************)
(* The invariant of a crawl.                                               *)
(***************************************************************************)
EndTold(c) ==
    /\ c.limit = Nowhere => c.lost \subseteq {"inline"} /\ c.queue = << >>
    /\ c.limit # Nowhere => c.queue # << >> \/ c.lost \ {"inline"} # {}
    /\ c.limit = "maxPages" => Len(c.pages) = c.limits.pages

CrawlInv(c) ==
    /\ c \in CrawlState /\ InBudget(c) /\ Len(c.pages) + Len(c.batch) <= c.limits.pages
    /\ \E F : Frontier(c, c.batch, 0, F)
    /\ \A i \in DOMAIN c.batch : AnswersOf(c.batch[i])
    /\ c.pc # "visiting" => c.batch = << >>
    /\ c.pc \in {"loop", "visiting"} => Tell(c)
    /\ c.pc \in {"cookies", "done"} => EndTold(c)

NotCrawling == {[pc |-> "off"], [pc |-> "fatal"]}

CrawlOK == crawl \in NotCrawling \/ CrawlInv(crawl)

LEMMA NotCrawlingOff ==
    ASSUME crawl \in NotCrawling
    PROVE  crawl.pc \in {"off", "fatal"}
BY DEF NotCrawling

LEMMA BeginCrawlOK ==
    ASSUME BeginCrawl
    PROVE  CrawlOK'
<1>1. CASE crawl' = [pc |-> "fatal"]
  BY <1>1 DEF CrawlOK, NotCrawling
<1>2. CASE crawl' # [pc |-> "fatal"]
  <2>1. PICK site \in Site, limits \in Limits :
          crawl' = [pc |-> "loop", site |-> site, limits |-> limits,
                    queue |-> <<[url |-> Start, depth |-> 0]>>, seen |-> {Start}, discovered |-> 1,
                    batch |-> << >>, pages |-> << >>, skipped |-> 0, consentOn |-> Nowhere,
                    requests |-> 0, scripts |-> 0, keys |-> 0, cookies |-> 0,
                    limit |-> Nowhere, lost |-> {}]
    BY <1>2 DEF BeginCrawl
  <2>. DEFINE item == [url |-> Start, depth |-> 0]
              c == crawl'
              F == <<item>>
  <2>2. item \in Item /\ item.url = Start /\ item.depth = 0
    BY CrawlAssumption DEF Item
  <2>3. /\ c.pc = "loop" /\ c.site = site /\ c.limits = limits /\ c.queue = F /\ c.seen = {Start}
        /\ c.batch = << >> /\ c.pages = << >> /\ c.requests = 0 /\ c.scripts = 0 /\ c.keys = 0
        /\ c.limit = Nowhere /\ c.lost = {}
    BY <2>1
  <2>. HIDE DEF item
  <2>4. /\ F \in Seq(Item) /\ Len(F) = 1 /\ DOMAIN F = {1} /\ F[1] = item
        /\ << >> \in Seq(VisitState) /\ << >> \in Seq(PageState)
    BY <2>2
  <2>. HIDE DEF F
  <2>5. c \in CrawlState
    BY <2>1, <2>4, CrawlAssumption DEF CrawlState, F, item
  <2>. HIDE DEF c
  <2>6. /\ limits.pages \in Nat /\ limits.depth \in Nat /\ limits.requests \in Nat
        /\ limits.scripts \in Nat /\ limits.keys \in Nat
    BY LimitsTyped
  <2>7. View(c, c.batch, 0, F)
    BY <2>3, <2>4 DEF View
  <2>8. Ordered(F, Len(c.pages) + 1)
    BY <2>2, <2>4 DEF Ordered
  <2>9. Reached(c, F)
    BY <2>2, <2>3, <2>4, <2>6 DEF Reached
  <2>10. Followed(c, F, Len(c.pages)) /\ Full(c)
    BY <2>3 DEF Followed, Full
  <2>11. Frontier(c, c.batch, 0, F)
    BY <2>7, <2>8, <2>9, <2>10 DEF Frontier
  <2>12. InBudget(c) /\ Len(c.pages) + Len(c.batch) <= c.limits.pages /\ Tell(c)
    BY <2>3, <2>6, CrawlAssumption DEF InBudget, Tell
  <2>13. CrawlInv(c)
    BY <2>3, <2>5, <2>11, <2>12 DEF CrawlInv
  <2>. QED  BY <2>13 DEF c, CrawlOK
<1>. QED  BY <1>1, <1>2

\* A step of one visit.
LEMMA OneVisitOK ==
    ASSUME CrawlInv(crawl), crawl.pc = "visiting", NEW i \in DOMAIN crawl.batch, NEW v,
           OneVisit(i, v), AnswersOf(v)
    PROVE  CrawlInv(crawl')
<1>. DEFINE c == crawl
            d == crawl'
<1>1. /\ d \in CrawlState /\ v \in VisitState /\ d.batch = [c.batch EXCEPT ![i] = v]
      /\ v.url = c.batch[i].url /\ v.depth = c.batch[i].depth
      /\ SameFrontier(c, d) /\ Loses(c, d) /\ InBudget(d)
  BY DEF OneVisit, CrawlInv
<1>2. /\ d.site = c.site /\ d.limits = c.limits /\ d.queue = c.queue /\ d.seen = c.seen
      /\ d.discovered = c.discovered /\ d.pages = c.pages /\ d.pc = "visiting"
  BY <1>1 DEF SameFrontier
<1>3. c \in CrawlState /\ c.batch \in Seq(VisitState) /\ Tell(c)
  BY Fields DEF CrawlInv
<1>. HIDE DEF c, d
<1>4. /\ Len(d.batch) = Len(c.batch) /\ DOMAIN d.batch = 1..Len(c.batch)
      /\ DOMAIN c.batch = 1..Len(c.batch)
      /\ \A j \in DOMAIN c.batch : d.batch[j] = IF j = i THEN v ELSE c.batch[j]
  <2>1. i \in 1..Len(c.batch)
    BY <1>3 DEF c
  <2>2. /\ [c.batch EXCEPT ![i] = v] \in Seq(VisitState)
        /\ Len([c.batch EXCEPT ![i] = v]) = Len(c.batch)
        /\ \A j \in 1..Len(c.batch) : [c.batch EXCEPT ![i] = v][j] = IF j = i THEN v ELSE c.batch[j]
    BY <1>1, <1>3, <2>1, ExceptSeq
  <2>. QED  BY <1>1, <1>3, <2>2
<1>5. PICK F : Frontier(c, c.batch, 0, F)
  BY DEF CrawlInv, c
<1>6. c.lost \subseteq d.lost /\ ("link" \in d.lost => "link" \in c.lost)
  BY <1>1 DEF Loses
<1>7. View(d, d.batch, 0, F)
  <2>1. \A j \in 1..Len(c.batch) :
          d.batch[j].url = c.batch[j].url /\ d.batch[j].depth = c.batch[j].depth
    BY <1>1, <1>4 DEF c
  <2>2. View(c, c.batch, 0, F)
    BY <1>5 DEF Frontier
  <2>3. \A j \in 0 + 1..Len(c.batch) : j \in 1..Len(c.batch)
    BY <1>3
  <2>4. View(d, c.batch, 0, F)
    BY <1>2, <2>2, ViewKept
  <2>5. \A j \in 0 + 1..Len(c.batch) :
          F[Len(d.pages) + j - 0].url = d.batch[j].url
          /\ F[Len(d.pages) + j - 0].depth = d.batch[j].depth
    BY <2>1, <2>3, <2>4 DEF View
  <2>6. Len(d.batch) = Len(c.batch)
    BY <1>4
  <2>. QED  BY <2>4, <2>5, <2>6 DEF View
<1>8. Reached(d, F)
  <2>1. \A item : Linked(c, item) => Linked(d, item)
    BY <1>2 DEF Linked
  <2>. QED  BY <1>2, <1>5, <2>1 DEF Frontier, Reached
<1>9. Followed(d, F, Len(d.pages))
  <2>1. \A l, dep : LinkFollowed(c, F, l, dep) => LinkFollowed(d, F, l, dep)
    BY <1>2, <1>6 DEF LinkFollowed
  <2>. QED  BY <1>2, <1>5, <2>1 DEF Frontier, Followed
<1>10. Full(d)
  BY <1>2, <1>5, <1>6 DEF Frontier, Full
<1>11. Frontier(d, d.batch, 0, F)
  BY <1>2, <1>5, <1>7, <1>8, <1>9, <1>10 DEF Frontier
<1>12. \A j \in DOMAIN d.batch : AnswersOf(d.batch[j])
  BY <1>4 DEF CrawlInv, c
<1>13. Tell(d)
  BY <1>1, <1>3 DEF Loses, Tell
<1>14. Len(d.pages) + Len(d.batch) <= d.limits.pages
  BY <1>2, <1>4 DEF CrawlInv, c
<1>. QED  BY <1>1, <1>2, <1>11, <1>12, <1>13, <1>14 DEF CrawlInv, d

\* The other steps of the loop change few fields.
Moved(c, pc, batch, queue, limit) ==
    [c EXCEPT !.pc = pc, !.batch = batch, !.queue = queue, !.limit = limit]

MovedTo(c, d, pc, batch, queue, limit) ==
    /\ d \in CrawlState /\ d.pc = pc /\ d.batch = batch /\ d.queue = queue
    /\ d.limit = limit /\ d.site = c.site /\ d.limits = c.limits /\ d.seen = c.seen
    /\ d.discovered = c.discovered /\ d.pages = c.pages /\ d.lost = c.lost
    /\ d.requests = c.requests /\ d.scripts = c.scripts /\ d.keys = c.keys

LEMMA MovedTyped ==
    ASSUME NEW c \in CrawlState, NEW pc \in {"loop", "visiting", "cookies", "done"},
           NEW batch \in Seq(VisitState), NEW queue \in Seq(Item),
           NEW limit \in LimitName \cup {Nowhere}
    PROVE  MovedTo(c, Moved(c, pc, batch, queue, limit), pc, batch, queue, limit)
<1>. DEFINE d == Moved(c, pc, batch, queue, limit)
<1>1. d \in CrawlState /\ d.pc = pc /\ d.batch = batch /\ d.queue = queue /\ d.limit = limit
  BY DEF Moved, CrawlState
<1>2. /\ d.site = c.site /\ d.limits = c.limits /\ d.seen = c.seen
      /\ d.discovered = c.discovered /\ d.pages = c.pages /\ d.lost = c.lost
      /\ d.requests = c.requests /\ d.scripts = c.scripts /\ d.keys = c.keys
  BY DEF Moved, CrawlState
<1>. QED  BY <1>1, <1>2 DEF MovedTo

\* What is found stays what it is when waiting items move to the batch.
LEMMA FrontierMoved ==
    ASSUME NEW c \in CrawlState, NEW d \in CrawlState, NEW F, NEW b, NEW k, NEW bd, NEW kd,
           Frontier(c, b, k, F), View(d, bd, kd, F),
           d.limits = c.limits, d.seen = c.seen, d.discovered = c.discovered,
           d.pages = c.pages, c.lost \subseteq d.lost, "link" \in d.lost => "link" \in c.lost
    PROVE  Frontier(d, bd, kd, F)
<1>1. Reached(d, F)
  <2>1. \A item : Linked(c, item) => Linked(d, item)
    BY DEF Linked
  <2>. QED  BY <2>1 DEF Frontier, Reached
<1>2. Followed(d, F, Len(d.pages))
  <2>1. \A l, dep : LinkFollowed(c, F, l, dep) => LinkFollowed(d, F, l, dep)
    BY DEF LinkFollowed
  <2>. QED  BY <2>1 DEF Frontier, Followed
<1>3. Full(d)
  BY DEF Frontier, Full
<1>. QED  BY <1>1, <1>2, <1>3 DEF Frontier

LEMMA StopEarlyOK ==
    ASSUME CrawlInv(crawl), StopEarly
    PROVE  CrawlInv(crawl')
<1>. DEFINE c == crawl
<1>1. PICK limit \in {"cancelled", "maxDuration", "maxPages"} :
         /\ limit = "maxPages" => Len(c.pages) >= c.limits.pages
         /\ crawl' = [Noted(c, limit) EXCEPT !.pc = "cookies"]
  BY DEF StopEarly
<1>2. /\ c \in CrawlState /\ c.pc = "loop" /\ c.queue # << >> /\ c.batch = << >> /\ Tell(c)
      /\ InBudget(c) /\ Len(c.pages) <= c.limits.pages
  <2>1. c \in CrawlState /\ c.pc = "loop" /\ c.queue # << >>
    BY DEF StopEarly, CrawlInv
  <2>2. c.batch = << >> /\ Tell(c) /\ InBudget(c) /\ Len(c.pages) + Len(c.batch) <= c.limits.pages
    BY <2>1 DEF CrawlInv
  <2>3. Len(c.pages) \in Nat /\ Len(<< >>) = 0
    BY <2>1, Fields
  <2>. QED  BY <2>1, <2>2, <2>3
<1>. DEFINE name == IF c.limit = Nowhere THEN limit ELSE c.limit
<1>3. limit # Nowhere /\ name \in LimitName \cup {Nowhere} /\ name # Nowhere
  BY <1>1, <1>2, Fields, CrawlAssumption DEF LimitName
<1>4. crawl' = Moved(c, "cookies", c.batch, c.queue, name)
  BY <1>1, <1>2 DEF Noted, Moved, CrawlState
<1>5. c.batch \in Seq(VisitState) /\ c.queue \in Seq(Item)
  BY <1>2, Fields
<1>. DEFINE d == crawl'
<1>6. /\ d \in CrawlState /\ d.pc = "cookies" /\ d.batch = c.batch /\ d.queue = c.queue
      /\ d.limit = name /\ d.site = c.site /\ d.limits = c.limits /\ d.seen = c.seen
      /\ d.discovered = c.discovered /\ d.pages = c.pages /\ d.lost = c.lost
      /\ d.requests = c.requests /\ d.scripts = c.scripts /\ d.keys = c.keys
  <2>. HIDE DEF name, c, d
  <2>1. d = Moved(c, "cookies", c.batch, c.queue, name)
    BY <1>4 DEF d
  <2>2. MovedTo(c, d, "cookies", c.batch, c.queue, name)
    BY <1>2, <1>3, <1>5, <2>1, MovedTyped
  <2>. QED  BY <2>2 DEF MovedTo
<1>7. PICK F : Frontier(c, c.batch, 0, F)
  BY DEF CrawlInv
<1>. HIDE DEF c, d
<1>8. View(d, d.batch, 0, F)
  BY <1>6, <1>7, ViewKept DEF Frontier
<1>9. Frontier(d, d.batch, 0, F)
  BY <1>2, <1>6, <1>7, <1>8, FrontierMoved
<1>10. name = "maxPages" => Len(c.pages) = c.limits.pages
  <2>1. name = "maxPages" => Len(c.pages) >= c.limits.pages
    BY <1>1, <1>2 DEF Tell, c
  <2>2. Len(c.pages) \in Nat /\ c.limits.pages \in Nat
    BY <1>2, Fields, LimitsTyped
  <2>. QED  BY <1>2, <2>1, <2>2
<1>11. EndTold(d)
  BY <1>2, <1>3, <1>6, <1>10 DEF EndTold
<1>12. InBudget(d) /\ Len(d.pages) + Len(d.batch) <= d.limits.pages
       /\ \A i \in DOMAIN d.batch : AnswersOf(d.batch[i])
  BY <1>2, <1>6 DEF InBudget, CrawlInv, c
<1>. QED  BY <1>2, <1>6, <1>9, <1>11, <1>12 DEF CrawlInv, d

LEMMA ExhaustedOK ==
    ASSUME CrawlInv(crawl), Exhausted
    PROVE  CrawlInv(crawl')
<1>. DEFINE c == crawl
            d == crawl'
<1>1. c \in CrawlState /\ c.pc = "loop" /\ c.queue = << >> /\ d = [c EXCEPT !.pc = "cookies"]
  BY DEF Exhausted, CrawlInv
<1>2. c.batch = << >> /\ Tell(c) /\ InBudget(c) /\ Len(c.pages) + Len(c.batch) <= c.limits.pages
  BY <1>1 DEF CrawlInv
<1>3. /\ c.batch \in Seq(VisitState) /\ c.queue \in Seq(Item)
      /\ c.limit \in LimitName \cup {Nowhere}
  BY <1>1, Fields
<1>4. d = Moved(c, "cookies", c.batch, c.queue, c.limit)
  BY <1>1 DEF Moved, CrawlState
<1>5. /\ d \in CrawlState /\ d.pc = "cookies" /\ d.batch = c.batch /\ d.queue = c.queue
      /\ d.limit = c.limit /\ d.site = c.site /\ d.limits = c.limits /\ d.seen = c.seen
      /\ d.discovered = c.discovered /\ d.pages = c.pages /\ d.lost = c.lost
      /\ d.requests = c.requests /\ d.scripts = c.scripts /\ d.keys = c.keys
  <2>. HIDE DEF c, d
  <2>1. MovedTo(c, Moved(c, "cookies", c.batch, c.queue, c.limit), "cookies",
                c.batch, c.queue, c.limit)
    BY <1>1, <1>3, MovedTyped
  <2>2. MovedTo(c, d, "cookies", c.batch, c.queue, c.limit)
    BY <1>4, <2>1
  <2>. QED  BY <2>2 DEF MovedTo
<1>6. PICK F : Frontier(c, c.batch, 0, F)
  BY DEF CrawlInv
<1>. HIDE DEF c, d
<1>7. View(d, d.batch, 0, F)
  BY <1>5, <1>6, ViewKept DEF Frontier
<1>8. Frontier(d, d.batch, 0, F)
  BY <1>1, <1>5, <1>6, <1>7, FrontierMoved
<1>9. EndTold(d)
  BY <1>1, <1>2, <1>5 DEF EndTold, Tell
<1>10. InBudget(d) /\ Len(d.pages) + Len(d.batch) <= d.limits.pages
       /\ \A i \in DOMAIN d.batch : AnswersOf(d.batch[i])
  BY <1>2, <1>5 DEF InBudget, CrawlInv, c
<1>. QED  BY <1>2, <1>5, <1>8, <1>9, <1>10 DEF CrawlInv, d

LEMMA VisitTyped ==
    ASSUME NEW item \in Item
    PROVE  /\ Visit(item) \in VisitState
           /\ Visit(item).url = item.url /\ Visit(item).depth = item.depth
<1>1. << >> \in Seq(Captured) /\ << >> \in Seq(Url)
  OBVIOUS
<1>. QED  BY <1>1 DEF Visit, VisitState, Item

LEMMA TakePagesOK ==
    ASSUME CrawlInv(crawl), TakePages
    PROVE  CrawlInv(crawl')
<1>. DEFINE c == crawl
            d == crawl'
            n == Min({BatchSize(c), Len(c.queue)})
            b == [i \in 1..n |-> Visit(c.queue[i])]
            queue == SubSeq(c.queue, n + 1, Len(c.queue))
            P == Len(c.pages)
            q == Len(c.queue)
<1>1. c \in CrawlState /\ c.pc = "loop" /\ P < c.limits.pages
  BY DEF TakePages, CrawlInv
<1>2. d = [c EXCEPT !.pc = "visiting", !.batch = b, !.queue = queue]
  BY DEF TakePages
<1>3. c.batch = << >> /\ Tell(c) /\ InBudget(c)
  BY <1>1 DEF CrawlInv
<1>4. /\ P \in Nat /\ q \in Nat /\ c.queue \in Seq(Item) /\ c.limit \in LimitName \cup {Nowhere}
      /\ c.limits.pages \in Nat /\ c.limits.concurrency \in Nat
  BY <1>1, Fields, LimitsTyped
<1>. HIDE DEF P, q
<1>5. n \in Nat /\ n <= q /\ P + n <= c.limits.pages
  <2>. DEFINE left == c.limits.pages - P
              size == Min({c.limits.concurrency, left})
  <2>1. BatchSize(c) = Max({1, size})
    BY DEF BatchSize, P
  <2>2. left \in Nat /\ left >= 1 /\ P + left = c.limits.pages
    BY <1>1, <1>4 DEF P
  <2>. HIDE DEF left
  <2>3. size \in Int /\ size <= left
    <3>1. c.limits.concurrency \in Int /\ left \in Int
      BY <1>4, <2>2
    <3>. QED  BY <3>1, MinOfTwo
  <2>. HIDE DEF size
  <2>4. BatchSize(c) \in {1, size} /\ 1 <= BatchSize(c) /\ BatchSize(c) \in Int
    <3>1. 1 \in Int
      OBVIOUS
    <3>. QED  BY <2>1, <2>3, <3>1, MaxOfTwo
  <2>5. n \in {BatchSize(c), q} /\ n <= BatchSize(c) /\ n <= q
    <3>1. q \in Int /\ BatchSize(c) \in Int /\ n = Min({BatchSize(c), q})
      BY <1>4, <2>4 DEF q
    <3>. QED  BY <3>1, MinOfTwo
  <2>. QED  BY <1>1, <1>4, <2>2, <2>3, <2>4, <2>5
<1>. HIDE DEF n
<1>6. /\ queue \in Seq(Item) /\ Len(queue) = q - n
      /\ \A j \in 1..q - n : queue[j] = c.queue[n + j]
  <2>1. n + 1 \in Int /\ q \in Int /\ DOMAIN c.queue = 1..q
    BY <1>4, <1>5 DEF q
  <2>2. \A i \in n + 1..q : c.queue[i] \in Item
    BY <1>4, <1>5, <2>1
  <2>3. /\ SubSeq(c.queue, n + 1, q) \in Seq(Item)
        /\ Len(SubSeq(c.queue, n + 1, q)) = IF n + 1 <= q THEN q - (n + 1) + 1 ELSE 0
        /\ \A i \in 1..q - (n + 1) + 1 : SubSeq(c.queue, n + 1, q)[i] = c.queue[(n + 1) + i - 1]
    BY <2>1, <2>2, SubSeqProperties
  <2>4. q - (n + 1) + 1 = q - n /\ (~(n + 1 <= q) => q - n = 0)
    BY <1>4, <1>5
  <2>5. \A j \in 1..q - n : (n + 1) + j - 1 = n + j
    BY <1>4, <1>5
  <2>. QED  BY <2>3, <2>4, <2>5 DEF q
<1>7. \A j \in 1..n : c.queue[j] \in Item
  BY <1>4, <1>5 DEF q
<1>8. /\ b \in Seq(VisitState) /\ Len(b) = n /\ DOMAIN b = 1..n
      /\ \A j \in 1..n : b[j] = Visit(c.queue[j])
  <2>1. \A j \in 1..n : Visit(c.queue[j]) \in VisitState
    BY <1>7, VisitTyped
  <2>. QED  BY <1>5, <2>1
<1>9. d = Moved(c, "visiting", b, queue, c.limit)
  BY <1>1, <1>2 DEF Moved, CrawlState
<1>. HIDE DEF b, queue, c, d
<1>10. MovedTo(c, Moved(c, "visiting", b, queue, c.limit), "visiting", b, queue, c.limit)
  BY <1>1, <1>4, <1>6, <1>8, MovedTyped
<1>11. /\ d \in CrawlState /\ d.pc = "visiting" /\ d.batch = b /\ d.queue = queue
       /\ d.limit = c.limit /\ d.site = c.site /\ d.limits = c.limits /\ d.seen = c.seen
       /\ d.discovered = c.discovered /\ d.pages = c.pages /\ d.lost = c.lost
       /\ d.requests = c.requests /\ d.scripts = c.scripts /\ d.keys = c.keys
  BY <1>9, <1>10 DEF MovedTo
<1>12. PICK F : Frontier(c, << >>, 0, F)
  BY <1>3 DEF CrawlInv, c
<1>13. View(d, b, 0, F)
  <2>1. View(c, << >>, 0, F)
    BY <1>12 DEF Frontier
  <2>2. F \in Seq(Item) /\ Len(F) = P + q
    BY <1>4, <2>1 DEF View, P, q
  <2>3. \A j \in 1..P : F[j].url = c.pages[j].url /\ F[j].depth = c.pages[j].depth
    BY <2>1 DEF View, P
  <2>4. \A j \in 1..q : F[P + (Len(<< >>) - 0) + j] = c.queue[j]
    BY <2>1 DEF View, P, q
  <2>5. Len(<< >>) = 0 /\ \A j \in 1..q : P + (Len(<< >>) - 0) + j = P + j
    BY <1>4
  <2>6. \A j \in 1..q : F[P + j] = c.queue[j]
    BY <2>4, <2>5
  <2>7. \A j \in 1..n : F[P + j].url = b[j].url /\ F[P + j].depth = b[j].depth
    <3>1. \A j \in 1..n : j \in 1..q
      BY <1>4, <1>5
    <3>. QED  BY <1>7, <1>8, <2>6, <3>1, VisitTyped
  <2>8. \A j \in 1..q - n : F[P + n + j] = queue[j]
    <3>1. \A j \in 1..q - n : n + j \in 1..q /\ P + (n + j) = P + n + j
      BY <1>4, <1>5
    <3>. QED  BY <1>6, <2>6, <3>1
  <2>9. \A j \in 0 + 1..n : j \in 1..n /\ P + j - 0 = P + j
    BY <1>4, <1>5
  <2>10. \A j \in 0 + 1..n : F[P + j - 0].url = b[j].url /\ F[P + j - 0].depth = b[j].depth
    BY <2>7, <2>9
  <2>11. P + (n - 0) + (q - n) = P + q /\ n - 0 = n
    BY <1>4, <1>5
  <2>. QED  BY <1>6, <1>8, <1>11, <2>2, <2>3, <2>8, <2>10, <2>11 DEF View, P
<1>14. Frontier(d, b, 0, F)
  BY <1>1, <1>11, <1>12, <1>13, FrontierMoved
<1>15. \A i \in DOMAIN b : AnswersOf(b[i])
  BY <1>8, AnswersNew
<1>16. InBudget(d) /\ Tell(d)
  BY <1>3, <1>11 DEF InBudget, Tell
<1>17. Len(d.pages) + Len(d.batch) <= d.limits.pages
  BY <1>5, <1>8, <1>11 DEF P
<1>. QED  BY <1>11, <1>14, <1>15, <1>16, <1>17 DEF CrawlInv, d

LEMMA CollectOK ==
    ASSUME CrawlInv(crawl), Collect
    PROVE  CrawlInv(crawl')
<1>. DEFINE c == crawl
            d == crawl'
            b == c.batch
            none == << >>
            e == [c EXCEPT !.batch = << >>]
            r == CollectResults(e, b)
<1>1. c \in CrawlState /\ c.pc = "visiting" /\ d = [r EXCEPT !.pc = "loop"]
  BY DEF Collect, CrawlInv, InOrder
<1>2. Tell(c) /\ InBudget(c) /\ Len(c.pages) + Len(b) <= c.limits.pages
  BY <1>1 DEF CrawlInv
<1>3. PICK F : Frontier(c, b, 0, F)
  BY DEF CrawlInv
<1>4. /\ b \in Seq(VisitState) /\ none \in Seq(VisitState) /\ c.queue \in Seq(Item)
      /\ c.limit \in LimitName \cup {Nowhere}
  BY <1>1, Fields
<1>5. e = Moved(c, "visiting", none, c.queue, c.limit)
  BY <1>1 DEF Moved, CrawlState
<1>. HIDE DEF c, d, e, none
<1>6. MovedTo(c, Moved(c, "visiting", none, c.queue, c.limit), "visiting", none, c.queue, c.limit)
  BY <1>1, <1>4, MovedTyped
<1>7. /\ e \in CrawlState /\ e.pc = "visiting" /\ e.batch = none /\ e.queue = c.queue
      /\ e.limit = c.limit /\ e.site = c.site /\ e.limits = c.limits /\ e.seen = c.seen
      /\ e.discovered = c.discovered /\ e.pages = c.pages /\ e.lost = c.lost
      /\ e.requests = c.requests /\ e.scripts = c.scripts /\ e.keys = c.keys
  BY <1>5, <1>6 DEF MovedTo
<1>. HIDE DEF b
<1>8. View(e, b, 0, F)
  BY <1>3, <1>7, ViewKept DEF Frontier
<1>9. Frontier(e, b, 0, F)
  BY <1>1, <1>3, <1>7, <1>8, FrontierMoved
<1>10. /\ Kept(e, r) /\ Len(r.pages) = Len(e.pages) + Len(b)
       /\ \E G : Frontier(r, b, Len(b), G)
  BY <1>4, <1>7, <1>9, CollectedAll
<1>. HIDE DEF r
<1>11. PICK G : Frontier(r, b, Len(b), G)
  BY <1>10
<1>12. /\ r \in CrawlState /\ r.pc = "visiting" /\ r.limits = c.limits /\ r.batch = none
       /\ r.requests = c.requests /\ r.scripts = c.scripts /\ r.keys = c.keys /\ Tell(r)
  BY <1>2, <1>7, <1>10 DEF Kept, Tell
<1>13. r.queue \in Seq(Item) /\ r.limit \in LimitName \cup {Nowhere}
  BY <1>12, Fields
<1>14. d = Moved(r, "loop", none, r.queue, r.limit)
  BY <1>1, <1>12 DEF Moved, CrawlState
<1>15. MovedTo(r, Moved(r, "loop", none, r.queue, r.limit), "loop", none, r.queue, r.limit)
  BY <1>4, <1>12, <1>13, MovedTyped
<1>16. /\ d \in CrawlState /\ d.pc = "loop" /\ d.batch = none /\ d.queue = r.queue
       /\ d.limit = r.limit /\ d.site = r.site /\ d.limits = r.limits /\ d.seen = r.seen
       /\ d.discovered = r.discovered /\ d.pages = r.pages /\ d.lost = r.lost
       /\ d.requests = r.requests /\ d.scripts = r.scripts /\ d.keys = r.keys
  BY <1>14, <1>15 DEF MovedTo
<1>17. View(d, none, 0, G)
  <2>. DEFINE P == Len(r.pages)
              q == Len(r.queue)
  <2>1. View(r, b, Len(b), G)
    BY <1>11 DEF Frontier
  <2>2. P \in Nat /\ q \in Nat /\ Len(b) \in Nat /\ Len(none) = 0
    BY <1>4, <1>12, Fields DEF none
  <2>3. /\ G \in Seq(Item) /\ Len(G) = P + (Len(b) - Len(b)) + q
        /\ \A j \in 1..P : G[j].url = r.pages[j].url /\ G[j].depth = r.pages[j].depth
        /\ \A j \in 1..q : G[P + (Len(b) - Len(b)) + j] = r.queue[j]
    BY <2>1 DEF View
  <2>4. Len(b) - Len(b) = Len(none) - 0 /\ 0 + 1..Len(none) = {}
    BY <2>2
  <2>5. Len(G) = P + (Len(none) - 0) + q
        /\ \A j \in 1..q : G[P + (Len(none) - 0) + j] = r.queue[j]
    BY <2>3, <2>4
  <2>6. \A j \in 0 + 1..Len(none) : G[P + j - 0].url = none[j].url
                                  /\ G[P + j - 0].depth = none[j].depth
    BY <2>4
  <2>7. View(r, none, 0, G)
    BY <2>3, <2>5, <2>6 DEF View
  <2>. QED  BY <1>16, <2>7, ViewKept
<1>18. Frontier(d, none, 0, G)
  BY <1>11, <1>12, <1>16, <1>17, FrontierMoved
<1>19. InBudget(d) /\ Tell(d)
  BY <1>2, <1>12, <1>16 DEF InBudget, Tell
<1>20. Len(d.pages) + Len(d.batch) <= d.limits.pages
  <2>1. Len(d.pages) = Len(c.pages) + Len(b) /\ Len(d.batch) = 0 /\ d.limits = c.limits
    BY <1>7, <1>10, <1>12, <1>16 DEF none
  <2>2. Len(c.pages) \in Nat /\ Len(b) \in Nat
    BY <1>1, <1>4, Fields
  <2>. QED  BY <1>2, <2>1, <2>2
<1>21. \A i \in DOMAIN d.batch : AnswersOf(d.batch[i])
  BY <1>16 DEF none
<1>. QED  BY <1>16, <1>18, <1>19, <1>20, <1>21 DEF CrawlInv, d, none

\* Cookies are read when the loop has ended.
Closed(c, limit, lost, cookies) ==
    [c EXCEPT !.pc = "done", !.limit = limit, !.lost = lost, !.cookies = cookies]

ClosedTo(c, d, limit, lost) ==
    /\ d \in CrawlState /\ d.pc = "done" /\ d.batch = c.batch /\ d.queue = c.queue
    /\ d.limit = limit /\ d.site = c.site /\ d.limits = c.limits /\ d.seen = c.seen
    /\ d.discovered = c.discovered /\ d.pages = c.pages /\ d.lost = lost
    /\ d.requests = c.requests /\ d.scripts = c.scripts /\ d.keys = c.keys

LEMMA ClosedTyped ==
    ASSUME NEW c \in CrawlState, NEW limit \in LimitName \cup {Nowhere},
           NEW lost \in SUBSET {"request", "unrecorded", "script", "key", "inline", "link", "cookie"},
           NEW cookies \in Nat
    PROVE  ClosedTo(c, Closed(c, limit, lost, cookies), limit, lost)
<1>. DEFINE d == Closed(c, limit, lost, cookies)
<1>1. d \in CrawlState /\ d.pc = "done" /\ d.limit = limit /\ d.lost = lost
  BY DEF Closed, CrawlState
<1>2. /\ d.batch = c.batch /\ d.queue = c.queue /\ d.site = c.site /\ d.limits = c.limits
      /\ d.seen = c.seen /\ d.discovered = c.discovered /\ d.pages = c.pages
      /\ d.requests = c.requests /\ d.scripts = c.scripts /\ d.keys = c.keys
  BY DEF Closed, CrawlState
<1>. QED  BY <1>1, <1>2 DEF ClosedTo

LEMMA ReadCookiesOK ==
    ASSUME CrawlInv(crawl), ReadCookies
    PROVE  CrawlInv(crawl')
<1>. DEFINE c == crawl
            d == crawl'
<1>1. PICK found \in 0..c.limits.cookies + 1 :
        d = [(IF found > c.limits.cookies
              THEN [Noted(c, "maxCookies") EXCEPT !.lost = @ \cup {"cookie"}] ELSE c)
             EXCEPT !.cookies = Min({found, c.limits.cookies}), !.pc = "done"]
  BY DEF ReadCookies
<1>2. c \in CrawlState /\ c.pc = "cookies"
  BY DEF ReadCookies, CrawlInv
<1>3. /\ c.batch = << >> /\ EndTold(c) /\ InBudget(c)
      /\ Len(c.pages) + Len(c.batch) <= c.limits.pages
  BY <1>2 DEF CrawlInv
<1>. DEFINE more == found > c.limits.cookies
            limit == IF more /\ c.limit = Nowhere THEN "maxCookies" ELSE c.limit
            lost == IF more THEN c.lost \cup {"cookie"} ELSE c.lost
            cookies == Min({found, c.limits.cookies})
<1>4. c.limits.cookies \in Nat /\ found \in Nat
  BY <1>2, Fields, LimitsTyped
<1>5. cookies \in Nat
  <2>1. found \in Int /\ c.limits.cookies \in Int
    BY <1>4
  <2>2. cookies \in {found, c.limits.cookies}
    BY <2>1, MinOfTwo
  <2>. QED  BY <1>4, <2>2
<1>6. /\ limit \in LimitName \cup {Nowhere}
      /\ lost \in SUBSET {"request", "unrecorded", "script", "key", "inline", "link", "cookie"}
  BY <1>2, Fields DEF LimitName
<1>. HIDE DEF cookies
<1>7. d = Closed(c, limit, lost, cookies)
  <2>1. CASE more
    BY <1>1, <1>2, <2>1 DEF Closed, Noted, CrawlState, cookies
  <2>2. CASE ~more
    BY <1>1, <1>2, <2>2 DEF Closed, CrawlState, cookies
  <2>. QED  BY <2>1, <2>2
<1>8. /\ limit = Nowhere => (c.limit = Nowhere /\ lost = c.lost)
      /\ limit # Nowhere => \/ c.limit # Nowhere /\ limit = c.limit /\ c.lost \subseteq lost
                            \/ limit = "maxCookies" /\ "cookie" \in lost
  <2>1. "maxCookies" # Nowhere
    BY CrawlAssumption
  <2>2. CASE more /\ c.limit = Nowhere
    BY <2>1, <2>2
  <2>3. CASE c.limit # Nowhere
    <3>1. limit = c.limit /\ c.lost \subseteq lost
      BY <2>3
    <3>. QED  BY <2>3, <3>1
  <2>4. CASE ~more /\ c.limit = Nowhere
    <3>1. limit = c.limit /\ lost = c.lost
      BY <2>4
    <3>. QED  BY <2>4, <3>1
  <2>. QED  BY <2>2, <2>3, <2>4
<1>8a. c.lost \subseteq lost /\ ("link" \in lost => "link" \in c.lost)
  OBVIOUS
<1>. HIDE DEF c, d, limit, lost
<1>9. /\ d \in CrawlState /\ d.pc = "done" /\ d.batch = c.batch /\ d.queue = c.queue
      /\ d.limit = limit /\ d.site = c.site /\ d.limits = c.limits /\ d.seen = c.seen
      /\ d.discovered = c.discovered /\ d.pages = c.pages /\ d.lost = lost
      /\ d.requests = c.requests /\ d.scripts = c.scripts /\ d.keys = c.keys
  <2>1. ClosedTo(c, Closed(c, limit, lost, cookies), limit, lost)
    BY <1>2, <1>5, <1>6, ClosedTyped
  <2>. QED  BY <1>7, <2>1 DEF ClosedTo
<1>10. EndTold(d)
  BY <1>3, <1>8, <1>9 DEF EndTold
<1>11. \E F : Frontier(d, d.batch, 0, F)
  <2>1. PICK F : Frontier(c, c.batch, 0, F)
    BY DEF CrawlInv, c
  <2>2. View(d, d.batch, 0, F)
    BY <1>9, <2>1, ViewKept DEF Frontier
  <2>3. Frontier(d, d.batch, 0, F)
    BY <1>2, <1>8a, <1>9, <2>1, <2>2, FrontierMoved
  <2>. QED  BY <2>3
<1>12. InBudget(d) /\ Len(d.pages) + Len(d.batch) <= d.limits.pages
       /\ \A i \in DOMAIN d.batch : AnswersOf(d.batch[i])
  BY <1>3, <1>9 DEF InBudget, CrawlInv, c
<1>. QED  BY <1>3, <1>9, <1>10, <1>11, <1>12 DEF CrawlInv, d

\* Each step of a visit keeps its answers in order.
LEMMA VisitStepOK ==
    ASSUME CrawlInv(crawl), NEW i,
           OpenPage(i) \/ SendLoad(i) \/ LoadSettles(i) \/ FailPage(i) \/ ReadStorage(i)
             \/ RenderPage(i)
    PROVE  CrawlInv(crawl')
<1>. DEFINE b == crawl.batch[i]
<1>1. /\ crawl \in CrawlState /\ InBudget(crawl) /\ crawl.pc = "visiting"
      /\ i \in DOMAIN crawl.batch
  BY DEF CrawlInv, OpenPage, SendLoad, LoadSettles, FailPage, ReadStorage, RenderPage, Visiting
<1>2. b \in VisitState /\ AnswersOf(b)
  BY <1>1, BatchTyped DEF CrawlInv
<1>3. CASE OpenPage(i) \/ FailPage(i) \/ ReadStorage(i) \/ RenderPage(i)
  <2>1. PICK v : /\ OneVisit(i, v) /\ v.sent = b.sent /\ v.settled = b.settled
                 /\ v.captured = b.captured
    BY <1>1, <1>3, OpenPageStep, FailPageStep, ReadStorageStep, RenderPageStep
  <2>2. AnswersOf(v)
    BY <1>2, <2>1, AnswersKept
  <2>. QED  BY <1>1, <2>1, <2>2, OneVisitOK
<1>4. CASE SendLoad(i)
  <2>1. PICK v : OneVisit(i, v) /\ SendsLoad(b, v)
    BY <1>1, <1>4, SendLoadStep
  <2>2. AnswersOf(v)
    BY <1>2, <2>1, AnswersSent DEF OneVisit
  <2>. QED  BY <1>1, <2>1, <2>2, OneVisitOK
<1>5. CASE LoadSettles(i)
  <2>1. PICK v : OneVisit(i, v) /\ Settles(b, v)
    BY <1>1, <1>5, LoadSettlesStep
  <2>2. AnswersOf(v)
    BY <1>2, <2>1, AnswersSettled DEF OneVisit
  <2>. QED  BY <1>1, <2>1, <2>2, OneVisitOK
<1>. QED  BY <1>3, <1>4, <1>5

LEMMA CrawlStepOK ==
    ASSUME CrawlOK, [CrawlNext]_crawl
    PROVE  CrawlOK'
<1>1. CASE UNCHANGED crawl
  BY <1>1 DEF CrawlOK
<1>2. CASE BeginCrawl
  BY <1>2, BeginCrawlOK
<1>3. CASE /\ ~BeginCrawl
           /\ \/ StopEarly \/ Exhausted \/ TakePages \/ Collect \/ ReadCookies
              \/ \E i \in 1..Max({l.concurrency : l \in Limits}) :
                   \/ OpenPage(i) \/ SendLoad(i) \/ LoadSettles(i) \/ FailPage(i)
                   \/ ReadStorage(i) \/ RenderPage(i)
  <2>1. crawl.pc \in {"loop", "visiting", "cookies"}
    <3>1. CASE StopEarly \/ Exhausted \/ TakePages \/ Collect \/ ReadCookies
      BY <3>1 DEF StopEarly, Exhausted, TakePages, Collect, ReadCookies
    <3>2. ASSUME NEW i, \/ OpenPage(i) \/ SendLoad(i) \/ LoadSettles(i) \/ FailPage(i)
                        \/ ReadStorage(i) \/ RenderPage(i)
          PROVE  crawl.pc = "visiting"
      BY <3>2 DEF OpenPage, SendLoad, LoadSettles, FailPage, ReadStorage, RenderPage, Visiting
    <3>. QED  BY <1>3, <3>1, <3>2
  <2>2. CrawlInv(crawl)
    BY <2>1, NotCrawlingOff DEF CrawlOK
  <2>3. CrawlInv(crawl')
    BY <1>3, <2>2, StopEarlyOK, ExhaustedOK, TakePagesOK, CollectOK, ReadCookiesOK, VisitStepOK
  <2>. QED  BY <2>3 DEF CrawlOK
<1>. QED  BY <1>1, <1>2, <1>3 DEF CrawlNext
-----------------------------------------------------------------------------
(***************************************************************************)
(* What the invariant says of the properties.                              *)
(***************************************************************************)
LEMMA FoundListed ==
    ASSUME CrawlInv(crawl), NEW F, Frontier(crawl, crawl.batch, 0, F)
    PROVE  Found = F
<1>. DEFINE P == Len(crawl.pages)
            B == Len(crawl.batch)
            Q == Len(crawl.queue)
            ps == [i \in DOMAIN crawl.pages |->
                     [url |-> crawl.pages[i].url, depth |-> crawl.pages[i].depth]]
            bs == [i \in DOMAIN crawl.batch |->
                     [url |-> crawl.batch[i].url, depth |-> crawl.batch[i].depth]]
            pbs == ps \o bs
<1>1. crawl \in CrawlState
  BY DEF CrawlInv
<1>2. /\ crawl.pages \in Seq(PageState) /\ crawl.batch \in Seq(VisitState)
      /\ crawl.queue \in Seq(Item)
  BY <1>1, Fields
<1>5. P \in Nat /\ B \in Nat /\ Q \in Nat /\ DOMAIN crawl.pages = 1..P /\ DOMAIN crawl.batch = 1..B
  BY <1>2
<1>3. ps \in Seq(Item) /\ Len(ps) = P
  <2>1. \A i \in DOMAIN crawl.pages :
          [url |-> crawl.pages[i].url, depth |-> crawl.pages[i].depth] \in Item
    BY <1>1, PagesTyped DEF Item
  <2>. HIDE DEF P
  <2>2. ps \in [1..P -> Item]
    BY <1>5, <2>1
  <2>. HIDE DEF ps
  <2>. QED  BY <1>5, <2>2
<1>4. bs \in Seq(Item) /\ Len(bs) = B
  <2>1. \A i \in DOMAIN crawl.batch :
          [url |-> crawl.batch[i].url, depth |-> crawl.batch[i].depth] \in Item
    BY <1>1, BatchTyped DEF Item
  <2>. HIDE DEF B
  <2>2. bs \in [1..B -> Item]
    BY <1>5, <2>1
  <2>. HIDE DEF bs
  <2>. QED  BY <1>5, <2>2
<1>6. /\ F \in Seq(Item) /\ Len(F) = P + (B - 0) + Q
      /\ \A j \in 1..P : F[j].url = crawl.pages[j].url /\ F[j].depth = crawl.pages[j].depth
      /\ \A j \in 0 + 1..B : F[P + j - 0].url = crawl.batch[j].url
                             /\ F[P + j - 0].depth = crawl.batch[j].depth
      /\ \A j \in 1..Q : F[P + (B - 0) + j] = crawl.queue[j]
  BY DEF Frontier, View
<1>7. /\ \A j \in 1..P : ps[j] = [url |-> crawl.pages[j].url, depth |-> crawl.pages[j].depth]
      /\ \A j \in 1..B : bs[j] = [url |-> crawl.batch[j].url, depth |-> crawl.batch[j].depth]
  BY <1>5
<1>8. Found = pbs \o crawl.queue
  BY DEF Found
<1>. HIDE DEF P, B, Q, ps, bs
<1>9. /\ pbs \in Seq(Item) /\ Len(pbs) = P + B
      /\ \A i \in 1..P + B : pbs[i] = IF i <= P THEN ps[i] ELSE bs[i - P]
  BY <1>3, <1>4, ConcatProperties
<1>. HIDE DEF pbs
<1>10. /\ Found \in Seq(Item) /\ Len(Found) = P + B + Q
       /\ \A i \in 1..P + B + Q : Found[i] = IF i <= P + B THEN pbs[i] ELSE crawl.queue[i - (P + B)]
  BY <1>2, <1>8, <1>9, ConcatProperties DEF Q
<1>11. \A i \in 1..P + B + Q : Found[i] = F[i]
  <2>1. TAKE i \in 1..P + B + Q
  <2>2. F[i] \in Item /\ F[i] = [url |-> F[i].url, depth |-> F[i].depth]
    <3>1. i \in 1..Len(F)
      BY <1>5, <1>6
    <3>2. F[i] \in Item
      BY <1>6, <3>1
    <3>. QED  BY <3>2 DEF Item
  <2>3. CASE i <= P
    <3>1. i \in 1..P /\ i \in 1..P + B /\ i <= P + B
      BY <1>5, <2>3
    <3>2. Found[i] = ps[i]
      BY <1>9, <1>10, <2>3, <3>1
    <3>3. F[i].url = crawl.pages[i].url /\ F[i].depth = crawl.pages[i].depth
      BY <1>6, <3>1
    <3>. QED  BY <1>7, <2>2, <3>1, <3>2, <3>3
  <2>4. CASE ~(i <= P) /\ i <= P + B
    <3>1. PICK j \in 1..B : j = i - P
      BY <1>5, <2>4
    <3>2. i \in 1..P + B /\ j \in 0 + 1..B /\ P + j - 0 = i
      BY <1>5, <2>4, <3>1
    <3>3. Found[i] = bs[j]
      BY <1>9, <1>10, <2>4, <3>1, <3>2
    <3>4. F[i].url = crawl.batch[j].url /\ F[i].depth = crawl.batch[j].depth
      BY <1>6, <3>2
    <3>. QED  BY <1>7, <2>2, <3>3, <3>4
  <2>5. CASE ~(i <= P + B)
    <3>1. PICK j \in 1..Q : j = i - (P + B)
      BY <1>5, <2>5
    <3>2. P + (B - 0) + j = i
      BY <1>5, <3>1
    <3>3. Found[i] = crawl.queue[j]
      BY <1>10, <2>5, <3>1
    <3>. QED  BY <1>6, <3>2, <3>3
  <2>. QED  BY <2>3, <2>4, <2>5
<1>12. Len(F) = P + B + Q
  BY <1>5, <1>6
<1>. QED  BY <1>6, <1>10, <1>11, <1>12, SeqEqual

\* The URLs one click farther than those of R.
Clicks(R) == R \cup UNION {ToSet(p.links) : p \in {q \in ToSet(crawl.pages) : q.url \in R}}

LEMMA WithinUnfolds ==
    ASSUME crawl \in CrawlState, NEW n \in Nat
    PROVE  \E reached : /\ reached[0] = {Start} /\ reached[n] = Within(n)
                        /\ \A k \in 1..n : reached[k] = Clicks(reached[k - 1])
<1>. DEFINE step == [k \in 1..n |-> [R \in SUBSET Url |-> Clicks(R)]]
            After(f) == [k \in 0..n |-> IF k = 0 THEN {Start} ELSE Clicks(f[k - 1])]
            reached == CHOOSE f : f = After(f)
<1>1. Within(n) = reached[n]
  BY DEF Within, Clicks
<1>2. \A R \in SUBSET Url : Clicks(R) \in SUBSET Url
  <2>1. \A q \in ToSet(crawl.pages) : ToSet(q.links) \subseteq Url
    <3>1. TAKE q \in ToSet(crawl.pages)
    <3>2. PICK j \in DOMAIN crawl.pages : q = crawl.pages[j]
      BY <3>1 DEF ToSet
    <3>. QED  BY <3>2, PagesTyped DEF ToSet
  <2>. QED  BY <2>1 DEF Clicks
<1>3. {Start} \in SUBSET Url
  BY CrawlAssumption
<1>. HIDE DEF Clicks
<1>4. step \in [1..n -> [SUBSET Url -> SUBSET Url]]
  BY <1>2
<1>5. \A k \in 1..n, R \in SUBSET Url : step[k][R] = Clicks(R)
  OBVIOUS
<1>. HIDE DEF step
<1>6. PICK g \in Unfoldings(n, SUBSET Url, {Start}, step) : TRUE
  <2>. DEFINE Sets == SUBSET Url
  <2>1. {Start} \in Sets /\ step \in [1..n -> [Sets -> Sets]]
    BY <1>3, <1>4
  <2>. HIDE DEF Sets
  <2>2. Unfoldings(n, Sets, {Start}, step) # {}
    BY <2>1, Recursion
  <2>. QED  BY <2>2 DEF Sets
<1>7. \A k \in 1..n : g[k] = Clicks(g[k - 1])
  <2>1. ASSUME NEW k \in 1..n PROVE k \in Int /\ k # 0 /\ k - 1 \in 0..n
    OBVIOUS
  <2>. QED  BY <1>5, <1>6, <2>1 DEF Unfoldings
<1>8. g = After(g)
  <2>1. \A k \in 0..n : After(g)[k] = g[k]
    BY <1>6, <1>7 DEF Unfoldings
  <2>2. After(g) = [k \in 0..n |-> After(g)[k]] /\ g = [k \in 0..n |-> g[k]]
    BY <1>6 DEF Unfoldings
  <2>. HIDE DEF After
  <2>. QED  BY <2>1, <2>2
<1>9. reached = After(reached)
  BY <1>8
<1>. HIDE DEF reached
<1>10. \A k \in 0..n : reached[k] = IF k = 0 THEN {Start} ELSE Clicks(reached[k - 1])
  BY <1>9
<1>11. 0 \in 0..n /\ \A k \in 1..n : k \in 0..n /\ k # 0
  OBVIOUS
<1>. QED  BY <1>1, <1>10, <1>11

\* The depth of what is found is the number of clicks that lead there.
LEMMA DepthIsDistance ==
    ASSUME crawl \in CrawlState, NEW F, Frontier(crawl, crawl.batch, 0, F), NEW n \in Nat
    PROVE  \A i \in DOMAIN F : F[i].url \in Within(n) <=> F[i].depth <= n
<1>. DEFINE ps == crawl.pages
<1>1. PICK reached : /\ reached[0] = {Start} /\ reached[n] = Within(n)
                     /\ \A k \in 1..n : reached[k] = Clicks(reached[k - 1])
  BY WithinUnfolds
<1>2. /\ F \in Seq(Item) /\ DOMAIN ps \subseteq DOMAIN F
      /\ \A j \in DOMAIN ps : F[j].url = ps[j].url /\ F[j].depth = ps[j].depth
  <2>1. ps \in Seq(PageState) /\ crawl.batch \in Seq(VisitState) /\ crawl.queue \in Seq(Item)
    BY Fields
  <2>2. /\ F \in Seq(Item) /\ Len(F) = Len(ps) + (Len(crawl.batch) - 0) + Len(crawl.queue)
        /\ \A j \in 1..Len(ps) : F[j].url = ps[j].url /\ F[j].depth = ps[j].depth
    BY DEF Frontier, View
  <2>3. /\ Len(ps) \in Nat /\ Len(crawl.batch) \in Nat /\ Len(crawl.queue) \in Nat
        /\ DOMAIN ps = 1..Len(ps) /\ DOMAIN F = 1..Len(F)
    BY <2>1, <2>2
  <2>. DEFINE P == Len(ps)
              N == Len(F)
              B == Len(crawl.batch)
              Q == Len(crawl.queue)
  <2>3a. P \in Nat /\ B \in Nat /\ Q \in Nat /\ N = P + (B - 0) + Q
    BY <2>2, <2>3
  <2>4. P <= N /\ P \in Nat /\ N \in Nat
    <3>. HIDE DEF P, N, B, Q
    <3>. QED  BY <2>3a
  <2>. HIDE DEF ps, P, N
  <2>5. 1..P \subseteq 1..N
    BY <2>4
  <2>6. DOMAIN ps \subseteq DOMAIN F
    BY <2>3, <2>5 DEF P, N
  <2>. QED  BY <2>2, <2>3, <2>6
<1>3. \A i \in DOMAIN F : F[i].depth \in Nat
  BY <1>2, ItemsTyped
<1>4. \A i \in DOMAIN F : F[i].depth = 0 <=> F[i].url = Start
  BY DEF Frontier, Reached
<1>5. \A i \in DOMAIN F : F[i].depth > 0 =>
        \E j \in DOMAIN ps : F[i].url \in ToSet(ps[j].links) /\ F[i].depth = ps[j].depth + 1
  BY DEF Frontier, Reached, Linked
<1>6. \A j \in DOMAIN ps : \A link \in ToSet(ps[j].links) :
        \A i \in DOMAIN F : F[i].url = link => F[i].depth <= ps[j].depth + 1
  <2>1. DOMAIN ps = 1..Len(ps)
    BY Fields
  <2>. QED  BY <2>1 DEF Frontier, Followed, LinkFollowed
<1>. DEFINE Right(k) == \A i \in DOMAIN F : F[i].url \in reached[k] <=> F[i].depth <= k
            Good == {k \in Nat : k <= n => Right(k)}
<1>. HIDE DEF ps
<1>7. 0 \in Good
  BY <1>1, <1>3, <1>4
<1>8. ASSUME NEW k \in Nat, k \in Good
      PROVE  k + 1 \in Good
  <2>1. SUFFICES ASSUME k + 1 <= n, NEW i \in DOMAIN F
                 PROVE  F[i].url \in reached[k + 1] <=> F[i].depth <= k + 1
    OBVIOUS
  <2>2. Right(k)
    BY <1>8, <2>1
  <2>. HIDE DEF Good
  <2>3. reached[k + 1] = Clicks(reached[k])
    <3>1. k + 1 \in 1..n /\ (k + 1) - 1 = k
      BY <2>1
    <3>. QED  BY <1>1, <3>1
  <2>4. ASSUME F[i].url \in reached[k + 1], F[i].url \notin reached[k]
        PROVE  F[i].depth <= k + 1
    <3>1. PICK p \in ToSet(ps) : p.url \in reached[k] /\ F[i].url \in ToSet(p.links)
      BY <2>3, <2>4 DEF Clicks, ps
    <3>2. PICK j \in DOMAIN ps : p = ps[j]
      BY <3>1 DEF ToSet
    <3>3. j \in DOMAIN F /\ F[j].url \in reached[k] /\ ps[j].depth = F[j].depth
      BY <1>2, <3>1, <3>2
    <3>4. ps[j].depth \in Nat /\ ps[j].depth <= k
      BY <1>3, <2>2, <3>3
    <3>5. F[i].depth <= ps[j].depth + 1
      BY <1>6, <3>1, <3>2
    <3>. QED  BY <1>3, <3>4, <3>5
  <2>5. ASSUME F[i].depth = k + 1
        PROVE  F[i].url \in reached[k + 1]
    <3>1. PICK j \in DOMAIN ps : /\ F[i].url \in ToSet(ps[j].links)
                                 /\ F[i].depth = ps[j].depth + 1
      BY <1>5, <2>5
    <3>2. j \in DOMAIN F /\ F[j].depth = k /\ F[j].url = ps[j].url
      BY <1>2, <1>3, <2>5, <3>1
    <3>3. ps[j].url \in reached[k] /\ ps[j] \in ToSet(ps)
      BY <2>2, <3>2 DEF ToSet
    <3>. QED  BY <2>3, <3>1, <3>3 DEF Clicks, ps
  <2>6. reached[k] \subseteq reached[k + 1]
    BY <2>3 DEF Clicks
  <2>7. F[i].depth \in Nat
    BY <1>3
  <2>8. CASE F[i].url \in reached[k]
    BY <2>2, <2>6, <2>7, <2>8
  <2>9. CASE F[i].url \notin reached[k]
    <3>1. ~(F[i].depth <= k)
      BY <2>2, <2>9
    <3>. QED  BY <2>4, <2>5, <2>7, <2>9, <3>1
  <2>. QED  BY <2>8, <2>9
<1>9. n \in Good
  <2>. HIDE DEF Good
  <2>. QED  BY <1>7, <1>8, Induction
<1>. QED  BY <1>1, <1>9

LEMMA VisitsFollow ==
    ASSUME CrawlInv(crawl)
    PROVE  VisitsOnceAtItsDepth
<1>1. crawl \in CrawlState
  BY DEF CrawlInv
<1>2. PICK F : Frontier(crawl, crawl.batch, 0, F)
  BY DEF CrawlInv
<1>3. Found = F /\ F \in Seq(Item)
  BY <1>2, FoundListed DEF Frontier, View
<1>4. \A i, j \in DOMAIN Found : Found[i].url = Found[j].url => i = j
  BY <1>2, <1>3 DEF Frontier, Ordered
<1>5. ASSUME NEW f \in ToSet(Found)
      PROVE  /\ f.depth <= crawl.limits.depth
             /\ f.url \in Within(f.depth) /\ (f.depth > 0 => f.url \notin Within(f.depth - 1))
  <2>1. PICK i \in DOMAIN F : f = F[i]
    BY <1>3 DEF ToSet
  <2>2. f.depth \in Nat /\ f.depth <= crawl.limits.depth
    BY <1>2, <1>3, <2>1, ItemsTyped DEF Frontier, Reached
  <2>3. \A n \in Nat : f.url \in Within(n) <=> f.depth <= n
    BY <1>1, <1>2, <2>1, DepthIsDistance
  <2>4. ASSUME f.depth > 0
        PROVE  f.url \notin Within(f.depth - 1)
    <3>1. f.depth - 1 \in Nat /\ ~(f.depth <= f.depth - 1)
      BY <2>2, <2>4
    <3>. QED  BY <2>3, <3>1
  <2>5. f.depth <= f.depth
    BY <2>2
  <2>. QED  BY <2>2, <2>3, <2>4, <2>5
<1>6. Len(crawl.pages) + Len(crawl.batch) <= crawl.limits.pages /\ InBudget(crawl)
  BY DEF CrawlInv
<1>. QED  BY <1>4, <1>5, <1>6 DEF VisitsOnceAtItsDepth, InBudget

LEMMA EndTells ==
    ASSUME CrawlInv(crawl)
    PROVE  LimitTells
<1>1. SUFFICES ASSUME crawl.pc = "done" PROVE LimitTells
  BY DEF LimitTells
<1>2. crawl \in CrawlState /\ crawl.batch = << >> /\ EndTold(crawl)
  BY <1>1 DEF CrawlInv
<1>. DEFINE ps == crawl.pages
<1>3. ASSUME crawl.limit = Nowhere,
             NEW p \in ToSet(ps), p.depth < crawl.limits.depth, NEW link \in ToSet(p.links)
      PROVE  link \in {q.url : q \in ToSet(ps)}
  <2>1. PICK F : Frontier(crawl, << >>, 0, F)
    BY <1>2 DEF CrawlInv
  <2>2. crawl.queue = << >> /\ crawl.lost \subseteq {"inline"}
    BY <1>2, <1>3 DEF EndTold
  <2>3. PICK j \in DOMAIN ps : p = ps[j]
    BY <1>3 DEF ToSet
  <2>4. DOMAIN ps = 1..Len(ps) /\ Len(ps) \in Nat /\ p.depth \in Nat /\ crawl.limits.depth \in Nat
    BY <1>2, <2>3, Fields, LimitsTyped, PagesTyped
  <2>5. link \in crawl.seen \/ p.depth + 1 > crawl.limits.depth \/ "link" \in crawl.lost
    BY <1>3, <2>1, <2>3, <2>4 DEF Frontier, Followed, LinkFollowed
  <2>6. link \in crawl.seen
    BY <1>3, <2>2, <2>4, <2>5
  <2>7. PICK i \in DOMAIN F : F[i].url = link
    BY <2>1, <2>6 DEF Frontier, Reached
  <2>8. /\ F \in Seq(Item) /\ Len(F) = Len(ps) + (Len(<< >>) - 0) + Len(crawl.queue)
        /\ \A k \in 1..Len(ps) : F[k].url = ps[k].url
    BY <2>1 DEF Frontier, View
  <2>9. Len(crawl.queue) = 0 /\ Len(<< >>) = 0
    BY <2>2
  <2>10. i \in DOMAIN ps /\ ps[i].url = link
    BY <2>4, <2>7, <2>8, <2>9
  <2>. QED  BY <2>10 DEF ToSet
<1>4. /\ crawl.limit = Nowhere => crawl.lost \subseteq {"inline"}
      /\ crawl.limit # Nowhere => crawl.queue # << >> \/ crawl.lost \ {"inline"} # {}
      /\ crawl.limit = "maxPages" => Len(crawl.pages) = crawl.limits.pages
  BY <1>2 DEF EndTold
<1>. HIDE DEF ps
<1>5. crawl.limit = Nowhere =>
        \A p \in ToSet(ps) : p.depth < crawl.limits.depth =>
            ToSet(p.links) \subseteq {q.url : q \in ToSet(ps)}
  BY <1>3
<1>. QED  BY <1>4, <1>5 DEF LimitTells, ps

LEMMA AnswersFollow ==
    ASSUME CrawlInv(crawl)
    PROVE  AnswersAreOwn
<1>1. SUFFICES ASSUME NEW v \in ToSet(crawl.batch), NEW r \in v.sent, NEW o \in ToSet(v.captured),
                      o.path = r.path, \A s \in v.sent \ {r} : Apart(r, s)
               PROVE  /\ o.status = (IF [load |-> r, ok |-> TRUE] \in v.settled
                                     THEN r ELSE Nowhere)
                      /\ o.failed = ([load |-> r, ok |-> FALSE] \in v.settled)
  BY DEF AnswersAreOwn
<1>2. PICK i \in DOMAIN crawl.batch : v = crawl.batch[i]
  BY DEF ToSet
<1>3. v \in VisitState /\ AnswersOf(v)
  BY <1>2, BatchTyped DEF CrawlInv
<1>4. Own(v, r)
  BY <1>1, <1>3 DEF AnswersOf, Alone
<1>5. PICK k \in DOMAIN v.captured : o = v.captured[k]
  BY DEF ToSet
<1>6. /\ o.status = (IF [load |-> r, ok |-> TRUE] \in v.settled THEN r ELSE Nowhere)
      /\ o.failed = TRUE <=> [load |-> r, ok |-> FALSE] \in v.settled
  BY <1>1, <1>4, <1>5 DEF Own
<1>7. o.failed \in BOOLEAN
  <2>1. v.captured \in Seq(Captured)
    BY <1>3 DEF VisitState
  <2>2. o \in Captured
    BY <1>5, <2>1
  <2>. QED  BY <2>2 DEF Captured
<1>8. o.failed = ([load |-> r, ok |-> FALSE] \in v.settled)
  BY <1>6, <1>7
<1>. QED  BY <1>6, <1>8

\* A crawl is begun at most once, and only its own steps follow.
CrawlSpec == CrawlInit /\ [][CrawlNext]_crawl

\* The state of a crawl is as visitPage and crawl build it, whatever happens to its pages.
THEOREM CrawlStateTyped == CrawlSpec => [](Running => crawl \in CrawlState)
<1>1. CrawlInit => CrawlOK
  BY DEF CrawlInit, CrawlOK, NotCrawling
<1>2. CrawlOK /\ [CrawlNext]_crawl => CrawlOK'
  BY CrawlStepOK
<1>3. CrawlOK => (Running => crawl \in CrawlState)
  BY NotCrawlingOff DEF CrawlOK, CrawlInv, Running
<1>. QED  BY <1>1, <1>2, <1>3, PTL DEF CrawlSpec

(***************************************************************************)
(* For every site, every set of URLs and hrefs and all limits: a crawl     *)
(* visits each URL once and at its distance, spends no more than its       *)
(* limits, tells what it left out, and records each answer with its        *)
(* request (crawl.ts:192-355, 452-605).                                    *)
(***************************************************************************)
THEOREM CrawlIsHonest == CrawlSpec => []CrawlHonest
<1>1. CrawlInit => CrawlOK
  BY DEF CrawlInit, CrawlOK, NotCrawling
<1>2. CrawlOK /\ [CrawlNext]_crawl => CrawlOK'
  BY CrawlStepOK
<1>3. CrawlOK => CrawlHonest
  <2>1. CASE crawl \in NotCrawling
    <3>1. crawl.pc \in {"off", "fatal"}
      BY <2>1, NotCrawlingOff
    <3>. QED  BY <3>1 DEF CrawlHonest, VisitsOnceAtItsDepth, LimitTells, AnswersAreOwn, Running
  <2>2. CASE CrawlInv(crawl)
    BY <2>2, VisitsFollow, EndTells, AnswersFollow DEF CrawlHonest
  <2>. QED  BY <2>1, <2>2 DEF CrawlOK
<1>. QED  BY <1>1, <1>2, <1>3, PTL DEF CrawlSpec
=============================================================================
