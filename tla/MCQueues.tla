----------------------------- MODULE MCQueues ------------------------------
(* The two queues that must drain, on small instances: a page's analytics   *)
(* events (EventPipeline) and the scans waiting for workers (ScanQueue).    *)
(* They share nothing, so each behaviour is one of one of them while the    *)
(* other has not begun.                                                     *)
(*                                                                          *)
(* Fairness is each queue's own. None of the pipeline's fair actions is     *)
(* enabled before a page is loaded, so Fairness asks nothing of a behaviour *)
(* of the scans; a worker is owed its steps only while the pipeline has not *)
(* begun, so nothing is asked for it of a behaviour of the pipeline.        *)
EXTENDS EventPipeline, ScanQueue

QueuesInit == Init /\ QueueInit

QueuesNext ==
  \/ QueueInit /\ Next /\ UNCHANGED queueVars
  \/ Init /\ QueueNext /\ UNCHANGED vars

QueuesSpec ==
  /\ QueuesInit /\ [][QueuesNext]_<<vars, queueVars>>
  /\ Fairness
  /\ \A w \in Worker : WF_queueVars(Init /\ Run(w))
=============================================================================
