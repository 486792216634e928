------------------------ MODULE EventPipeline_proofs ------------------------
(***************************************************************************)
(* What holds of EventPipeline for every number of pages and every limit.  *)
(*                                                                         *)
(* DrainScheduled, RetriesBounded and KeepsWhatItTook are proved together, *)
(* with what they rest on: a page that is gone keeps nothing, only events  *)
(* that were built are anywhere, and the request a page waits for carries  *)
(* its batch.                                                              *)
(***************************************************************************)
EXTENDS EventPipeline, FiniteSetTheorems, WellFoundedInduction, TLAPS

Phase == {"idle", "asking", "sent"} \cup Answers

Born == 1..Len(origin)

(***************************************************************************)
(* The inductive invariant.                                                *)
(***************************************************************************)

\* A page, loaded or not, with queue q, batch b, phase ph, timer t, attempts a
\* and history k, when the events born are built and the events st are stored.
PageFine(on, q, b, ph, t, a, k, born, st) ==
  /\ ~on => /\ q = {} /\ b = {} /\ k = {} /\ ph = "idle" /\ ~t
            /\ \A e \in Event : a[e] = 0
  /\ q \subseteq born /\ b \subseteq born /\ k \subseteq born
  /\ \A e \in Event \ born : a[e] = 0
  /\ ph = "idle" => b = {}
  /\ ph = "ok" => b \subseteq st
  /\ q \cap b = {}
  /\ on /\ q # {} /\ ph = "idle" => t
  /\ \A e \in q \cup b : a[e] <= MaxAttempts
  /\ on => \A e \in k : e \in q \cup b \cup st \/ a[e] > MaxAttempts

PageOK(p) ==
  PageFine(p \in up, queue[p], batch[p], phase[p], timer[p], attempts[p],
           took[p], Born, stored)

\* A request carries events that were built; a page that waits for its answer
\* has sent it, with its batch.
WireOK ==
  \A r \in wire :
    /\ r.events \subseteq Born
    /\ r.to \in Page => phase[r.to] = "sent" /\ r.events = batch[r.to]

Inv ==
  /\ TypeOK /\ WireOK
  /\ \A p \in Page : PageOK(p)
  /\ kept \subseteq Born /\ stored \subseteq Born

(***************************************************************************)
(* Finite sets of events.                                                  *)
(***************************************************************************)

\* Every set of events is finite.
LEMMA EventsFinite ==
  ASSUME NEW S \in SUBSET Event
  PROVE  IsFiniteSet(S)
<1>1. IsFiniteSet(Event)
  BY PipelineAssumption, FS_Interval DEF Event
<1>. QED  BY <1>1, FS_Subset

\* What the cap leaves is some of the events, and no more than it allows.
LEMMA CappedFact ==
  ASSUME NEW S, NEW K \in Capped(S)
  PROVE  K \subseteq S /\ Cardinality(K) <= MaxPersisted
<1>1. CASE Cardinality(S) <= MaxPersisted
  BY <1>1 DEF Capped
<1>2. CASE ~(Cardinality(S) <= MaxPersisted)
  BY <1>2, PipelineAssumption DEF Capped, kSubset
<1>. QED  BY <1>1, <1>2

\* Removing events keeps the persisted queue within the cap.
LEMMA FewerKept ==
  ASSUME NEW S \in SUBSET Event, NEW T \in SUBSET S, Cardinality(S) <= MaxPersisted
  PROVE  Cardinality(T) <= MaxPersisted
<1>1. IsFiniteSet(S)
  BY EventsFinite
<1>2. Cardinality(T) \in Nat /\ Cardinality(S) \in Nat /\ Cardinality(T) <= Cardinality(S)
  BY <1>1, FS_Subset, FS_CardinalityType
<1>. QED  BY <1>2, PipelineAssumption

LEMMA NoneKept == Cardinality({}) <= MaxPersisted
BY FS_EmptySet, PipelineAssumption

\* A set of events has an oldest and a newest member.
LEMMA MinFact ==
  ASSUME NEW S \in SUBSET Nat, S # {}
  PROVE  Min(S) \in S /\ \A y \in S : Min(S) <= y
<1>. DEFINE R == OpToRel(<, Nat)
<1>1. PICK x \in S : \A y \in S : ~(<<y, x>> \in R)
  <2>. HIDE DEF R
  <2>1. IsWellFoundedOn(R, Nat)
    BY NatLessThanWellFounded DEF R
  <2>. QED  BY <2>1, WFMin
<1>2. \A y \in S : <<y, x>> \in R <=> y < x
  BY DEF OpToRel
<1>. HIDE DEF R
<1>3. \A y \in S : ~(y < x)
  BY <1>1, <1>2, Zenon
<1>4. \A y \in S : x <= y
  BY <1>3
<1>. QED  BY <1>4 DEF Min

LEMMA MaxFact ==
  ASSUME NEW S \in SUBSET Event, S # {}
  PROVE  Max(S) \in S /\ \A y \in S : y <= Max(S)
<1>. DEFINE T == {MaxEvents - y : y \in S}
<1>1. \A y \in S : y \in Nat /\ MaxEvents - y \in Nat
  BY PipelineAssumption DEF Event
<1>2. T \in SUBSET Nat /\ T # {}
  BY <1>1
<1>3. Min(T) \in T /\ \A z \in T : Min(T) <= z
  BY <1>2, MinFact
<1>4. PICK x \in S : Min(T) = MaxEvents - x
  BY <1>3
<1>5. \A y \in S : MaxEvents - x <= MaxEvents - y
  BY <1>3, <1>4
<1>6. \A y \in S : x >= y
  BY <1>1, <1>5, PipelineAssumption
<1>7. \E m \in S : \A y \in S : m >= y
  BY <1>6
<1>8. Max(S) \in S /\ \A y \in S : Max(S) >= y
  BY <1>7 DEF Max
<1>. QED  BY <1>1, <1>8

(***************************************************************************)
(* One step of one page, and what it must establish.                       *)
(***************************************************************************)

\* More events built and more events stored harm no page.
LEMMA Grows ==
  ASSUME NEW on, NEW q, NEW b, NEW ph, NEW t, NEW a, NEW k,
         NEW born, NEW born2, NEW st, NEW st2,
         PageFine(on, q, b, ph, t, a, k, born, st),
         born \subseteq born2, st \subseteq st2
  PROVE  PageFine(on, q, b, ph, t, a, k, born2, st2)
BY DEF PageFine

\* A step of page p leaves the other pages alone.
Others(p) ==
  \A o \in Page \ {p} :
    /\ queue'[o] = queue[o] /\ batch'[o] = batch[o] /\ phase'[o] = phase[o]
    /\ timer'[o] = timer[o] /\ attempts'[o] = attempts[o] /\ took'[o] = took[o]
    /\ (o \in up') = (o \in up)

\* The requests on the next wire: p may wait for one that carries its batch.
WireStep(p) ==
  \A r \in wire' :
    /\ r.events \subseteq Born'
    /\ r.to \in Page => \/ r \in wire /\ r.to # p
                        \/ r.to = p /\ phase'[p] = "sent" /\ r.events = batch'[p]

LEMMA PageStep ==
  ASSUME Inv, NEW p \in Page, TypeOK', Others(p), WireStep(p), PageOK(p)',
         kept' \subseteq Born', Born \subseteq Born', stored' = stored
  PROVE  Inv'
<1>. USE DEF Inv
<1>1. \A o \in Page : PageOK(o)'
  <2>. SUFFICES ASSUME NEW o \in Page, o # p
                PROVE  PageOK(o)'
    OBVIOUS
  <2>1. /\ queue'[o] = queue[o] /\ batch'[o] = batch[o] /\ phase'[o] = phase[o]
        /\ timer'[o] = timer[o] /\ attempts'[o] = attempts[o] /\ took'[o] = took[o]
        /\ (o \in up') = (o \in up)
    BY DEF Others
  <2>2. PageFine(o \in up, queue[o], batch[o], phase[o], timer[o], attempts[o],
                 took[o], Born, stored)
    BY DEF PageOK
  <2>3. PageFine(o \in up, queue[o], batch[o], phase[o], timer[o], attempts[o],
                 took[o], Born', stored')
    BY <2>2, Grows, Zenon
  <2>. QED  BY <2>1, <2>3 DEF PageOK
<1>2. WireOK'
  <2>. SUFFICES ASSUME NEW r \in wire'
                PROVE  /\ r.events \subseteq Born'
                       /\ r.to \in Page => phase'[r.to] = "sent" /\ r.events = batch'[r.to]
    BY DEF WireOK
  <2>1. CASE r \in wire /\ r.to # p
    BY <2>1 DEF WireOK, WireStep, Others
  <2>2. CASE ~(r \in wire /\ r.to # p)
    BY <2>2 DEF WireStep
  <2>. QED  BY <2>1, <2>2
<1>. QED  BY <1>1, <1>2

\* A step that leaves the wire alone, and the request p waits for as it is.
LEMMA WireKept ==
  ASSUME Inv, NEW p \in Page, wire' = wire, Born \subseteq Born',
         phase[p] = "sent" => phase'[p] = "sent" /\ batch'[p] = batch[p]
  PROVE  WireStep(p)
BY DEF Inv, WireOK, WireStep

(***************************************************************************)
(* The steps of a page.                                                    *)
(***************************************************************************)

\* queueEvent keeps the page fine, if it was before with the queue es.
LEMMA EnqueueInv ==
  ASSUME Inv, NEW p \in Page, NEW es \in SUBSET Event, Enqueue(p, es),
         PageFine(TRUE, es, batch[p], phase[p], TRUE, attempts[p], took[p], Born, stored),
         p \in up', up' \subseteq Page, up' \ {p} = up \ {p},
         allows' \in [Page -> BOOLEAN],
         attempts' = attempts, wire' = wire, stored' = stored, session' = session,
         loads' \in Nat, decisions' \in Nat
  PROVE  Inv'
<1>. DEFINE e == Len(origin) + 1
            now == es \cup {e}
            big == Cardinality(now) >= MaxBatch /\ phase[p] = "idle"
<1>1. /\ Len(origin) \in Nat /\ origin' = Append(origin, p)
      /\ origin' \in Seq(Page) /\ Len(origin') = e /\ e <= MaxEvents
  BY PipelineAssumption DEF Enqueue, Inv, TypeOK
<1>2. /\ Born \subseteq Born' /\ Born' \subseteq Event
      /\ e \in Event \ Born /\ e \in Born'
  BY <1>1, PipelineAssumption DEF Born, Event
<1>3. now \in SUBSET Event /\ now \subseteq Born'
  BY <1>2 DEF PageFine
<1>4. kept' \subseteq Born' /\ Cardinality(kept') <= MaxPersisted
  <2>1. kept' \in Capped(kept \cup now)
    BY DEF Enqueue, Persist
  <2>2. kept \subseteq Born
    BY DEF Inv
  <2>. QED  BY <1>2, <1>3, <2>1, <2>2, CappedFact
<1>5. took' = [took EXCEPT ![p] = took[p] \cup now]
  BY DEF Enqueue
<1>. HIDE DEF now
<1>6. CASE big
  <2>1. /\ queue' = [queue EXCEPT ![p] = {}]
        /\ batch' = [batch EXCEPT ![p] = now]
        /\ phase' = [phase EXCEPT ![p] = "asking"]
        /\ timer' = [timer EXCEPT ![p] = FALSE]
    BY <1>6 DEF Enqueue, Take, now
  <2>2. PageFine(p \in up', {}, now, "asking", FALSE, attempts[p], took[p] \cup now,
                 Born', stored')
    BY <1>2, <1>3, <1>6, PipelineAssumption DEF PageFine, now
  <2>3. TypeOK'
    BY <1>1, <1>2, <1>3, <1>4, <1>5, <2>1 DEF Inv, TypeOK
  <2>4. Others(p)
    BY <1>5, <2>1 DEF Others, Inv, TypeOK
  <2>5. PageOK(p)'
    BY <1>5, <2>1, <2>2 DEF PageOK, Inv, TypeOK
  <2>6. WireStep(p)
    BY <1>2, <1>6, <2>1, WireKept
  <2>. QED  BY <1>2, <1>4, <2>3, <2>4, <2>5, <2>6, PageStep
<1>7. CASE ~big
  <2>1. /\ queue' = [queue EXCEPT ![p] = now]
        /\ batch' = batch /\ phase' = phase
        /\ timer' = [timer EXCEPT ![p] = TRUE]
    BY <1>7 DEF Enqueue, now
  <2>2. PageFine(p \in up', now, batch[p], phase[p], TRUE, attempts[p], took[p] \cup now,
                 Born', stored')
    BY <1>2, <1>3, PipelineAssumption DEF PageFine, now
  <2>3. TypeOK'
    BY <1>1, <1>2, <1>3, <1>4, <1>5, <2>1 DEF Inv, TypeOK
  <2>4. Others(p)
    BY <1>5, <2>1 DEF Others, Inv, TypeOK
  <2>5. PageOK(p)'
    BY <1>5, <2>1, <2>2 DEF PageOK, Inv, TypeOK
  <2>6. WireStep(p)
    BY <1>2, <2>1, WireKept
  <2>. QED  BY <1>2, <1>4, <2>3, <2>4, <2>5, <2>6, PageStep
<1>. QED  BY <1>6, <1>7

LEMMA LoadInv ==
  ASSUME Inv, NEW p \in Page, Load(p)
  PROVE  Inv'
<1>1. /\ p \notin up /\ up' = up \cup {p} /\ loads' = loads + 1 /\ decisions' = decisions
      /\ attempts' = attempts /\ wire' = wire /\ stored' = stored /\ session' = session
  BY DEF Load, server
<1>2. allows' \in [Page -> BOOLEAN]
  BY DEF Load, Inv, TypeOK
<1>3. /\ batch[p] = {} /\ took[p] = {} /\ phase[p] = "idle"
      /\ \A e \in Event : attempts[p][e] = 0
  BY <1>1 DEF Inv, PageOK, PageFine
<1>4. kept \subseteq Event /\ kept \subseteq Born
  BY DEF Inv, TypeOK
<1>5. CASE allows'[p]
  <2>1. Enqueue(p, kept)
    BY <1>5 DEF Load
  <2>2. PageFine(TRUE, kept, batch[p], phase[p], TRUE, attempts[p], took[p], Born, stored)
    BY <1>3, <1>4, PipelineAssumption DEF PageFine
  <2>3. up' \subseteq Page /\ loads' \in Nat /\ decisions' \in Nat
    BY <1>1 DEF Inv, TypeOK
  <2>. QED  BY <1>1, <1>2, <1>4, <2>1, <2>2, <2>3, EnqueueInv
<1>6. CASE ~allows'[p]
  <2>1. /\ queue' = [queue EXCEPT ![p] = kept]
        /\ timer' = [timer EXCEPT ![p] = kept # {}]
        /\ took' = [took EXCEPT ![p] = kept]
        /\ batch' = batch /\ phase' = phase /\ kept' = kept /\ origin' = origin
    BY <1>6 DEF Load
  <2>2. PageFine(p \in up', kept, batch[p], phase[p], kept # {}, attempts[p], kept,
                 Born, stored)
    BY <1>1, <1>3, <1>4, PipelineAssumption DEF PageFine
  <2>3. Born' = Born
    BY <2>1 DEF Born
  <2>4. TypeOK'
    BY <1>1, <1>2, <2>1 DEF Inv, TypeOK
  <2>5. Others(p)
    BY <1>1, <2>1 DEF Others, Inv, TypeOK
  <2>6. PageOK(p)'
    BY <1>1, <2>1, <2>2, <2>3 DEF PageOK, Inv, TypeOK
  <2>7. WireStep(p)
    BY <1>1, <2>1, <2>3, WireKept
  <2>. QED  BY <1>1, <1>4, <2>1, <2>3, <2>4, <2>5, <2>6, <2>7, PageStep
<1>. QED  BY <1>5, <1>6

LEMMA TrackInv ==
  ASSUME Inv, NEW p \in Page, Track(p)
  PROVE  Inv'
<1>1. /\ p \in up /\ Enqueue(p, queue[p]) /\ up' = up /\ allows' = allows
      /\ attempts' = attempts /\ wire' = wire /\ stored' = stored /\ session' = session
      /\ loads' = loads /\ decisions' = decisions
  BY DEF Track, server
<1>2. PageFine(TRUE, queue[p], batch[p], phase[p], TRUE, attempts[p], took[p], Born, stored)
  BY <1>1 DEF Inv, PageOK, PageFine
<1>3. /\ queue[p] \in SUBSET Event /\ up' \subseteq Page /\ allows' \in [Page -> BOOLEAN]
      /\ loads' \in Nat /\ decisions' \in Nat
  BY <1>1 DEF Inv, TypeOK
<1>. QED  BY <1>1, <1>2, <1>3, EnqueueInv

LEMMA DecideInv ==
  ASSUME Inv, NEW p \in Page, Decide(p)
  PROVE  Inv'
<1>1. /\ up' = up /\ UNCHANGED page /\ kept' = kept /\ wire' = wire /\ UNCHANGED server
      /\ origin' = origin
  BY DEF Decide
<1>2. Born' = Born
  BY <1>1 DEF Born
<1>3. TypeOK'
  BY <1>1 DEF Decide, page, server, Inv, TypeOK
<1>4. WireOK' /\ \A o \in Page : PageOK(o)'
  BY <1>1, <1>2 DEF page, server, Inv, WireOK, PageOK
<1>. QED  BY <1>1, <1>2, <1>3, <1>4 DEF Inv, server

LEMMA TimerFiresInv ==
  ASSUME Inv, NEW p \in Page, TimerFires(p)
  PROVE  Inv'
<1>1. /\ p \in up /\ up' = up /\ allows' = allows /\ wire' = wire
      /\ stored' = stored /\ session' = session
      /\ origin' = origin /\ loads' = loads /\ decisions' = decisions
  BY DEF TimerFires, server, bounds
<1>2. Born' = Born
  BY <1>1 DEF Born
<1>3. PageFine(TRUE, queue[p], batch[p], phase[p], timer[p], attempts[p], took[p],
               Born, stored)
  BY <1>1 DEF Inv, PageOK, PageFine
<1>4. CASE /\ phase[p] # "idle" \/ queue[p] = {}
           /\ timer' = [timer EXCEPT ![p] = FALSE]
           /\ UNCHANGED <<queue, batch, phase, attempts, took, kept>>
  <2>1. PageFine(p \in up', queue[p], batch[p], phase[p], FALSE, attempts[p], took[p],
                 Born, stored)
    BY <1>1, <1>3, <1>4 DEF PageFine
  <2>2. TypeOK'
    BY <1>1, <1>4 DEF Inv, TypeOK
  <2>3. Others(p)
    BY <1>1, <1>4 DEF Others, Inv, TypeOK
  <2>4. PageOK(p)'
    BY <1>1, <1>2, <1>4, <2>1 DEF PageOK, Inv, TypeOK
  <2>5. WireStep(p)
    BY <1>1, <1>2, <1>4, WireKept
  <2>. QED  BY <1>1, <1>2, <1>4, <2>2, <2>3, <2>4, <2>5, PageStep DEF Inv
<1>5. CASE /\ phase[p] = "idle" /\ queue[p] # {} /\ ~allows[p]
           /\ timer' = [timer EXCEPT ![p] = FALSE]
           /\ Forget(p, queue[p])
           /\ kept' = kept \ queue[p]
           /\ UNCHANGED <<batch, phase>>
  <2>. DEFINE a == [e \in Event |-> IF e \in queue[p] THEN 0 ELSE attempts[p][e]]
              k == took[p] \ queue[p]
  <2>1. /\ queue' = [queue EXCEPT ![p] = {}]
        /\ attempts' = [attempts EXCEPT ![p] = a]
        /\ took' = [took EXCEPT ![p] = k]
    BY <1>5 DEF Forget, Inv, TypeOK
  <2>2. a \in [Event -> Nat] /\ k \in SUBSET Event
    BY DEF Inv, TypeOK
  <2>3. PageFine(p \in up', {}, batch[p], phase[p], FALSE, a, k, Born, stored)
    BY <1>1, <1>3, <1>5, PipelineAssumption DEF PageFine, Inv, TypeOK
  <2>4. kept' \subseteq Event /\ Cardinality(kept') <= MaxPersisted
    BY <1>5, FewerKept DEF Inv, TypeOK
  <2>. HIDE DEF a, k
  <2>5. TypeOK'
    BY <1>1, <1>5, <2>1, <2>2, <2>4 DEF Inv, TypeOK
  <2>6. Others(p)
    BY <1>1, <1>5, <2>1 DEF Others, Inv, TypeOK
  <2>7. PageOK(p)'
    BY <1>1, <1>2, <1>5, <2>1, <2>3 DEF PageOK, Inv, TypeOK
  <2>8. WireStep(p)
    BY <1>1, <1>2, <1>5, WireKept
  <2>. QED  BY <1>1, <1>2, <1>5, <2>5, <2>6, <2>7, <2>8, PageStep DEF Inv
<1>6. CASE /\ phase[p] = "idle" /\ queue[p] # {} /\ allows[p]
           /\ Take(p, queue[p])
           /\ UNCHANGED <<attempts, took, kept>>
  <2>1. PageFine(p \in up', {}, queue[p], "asking", FALSE, attempts[p], took[p],
                 Born, stored)
    BY <1>1, <1>3, <1>6, PipelineAssumption DEF PageFine
  <2>2. TypeOK'
    BY <1>1, <1>6 DEF Inv, TypeOK, Take
  <2>3. Others(p)
    BY <1>1, <1>6 DEF Others, Inv, TypeOK, Take
  <2>4. PageOK(p)'
    BY <1>1, <1>2, <1>6, <2>1 DEF PageOK, Inv, TypeOK, Take
  <2>5. WireStep(p)
    BY <1>1, <1>2, <1>6, WireKept
  <2>. QED  BY <1>1, <1>2, <1>6, <2>2, <2>3, <2>4, <2>5, PageStep DEF Inv
<1>. QED  BY <1>4, <1>5, <1>6 DEF TimerFires

LEMMA SendInv ==
  ASSUME Inv, NEW p \in Page, Send(p)
  PROVE  Inv'
<1>1. /\ phase[p] = "asking" /\ phase' = [phase EXCEPT ![p] = "sent"]
      /\ wire' = wire \cup {[to |-> p, events |-> batch[p]]}
      /\ up' = up /\ allows' = allows /\ queue' = queue /\ batch' = batch
      /\ timer' = timer /\ attempts' = attempts /\ took' = took /\ kept' = kept
      /\ stored' = stored /\ session' = session
      /\ origin' = origin /\ loads' = loads /\ decisions' = decisions
  BY DEF Send, server, bounds
<1>2. Born' = Born
  BY <1>1 DEF Born
<1>3. PageFine(p \in up', queue[p], batch[p], "sent", timer[p], attempts[p], took[p],
               Born, stored)
  BY <1>1 DEF Inv, PageOK, PageFine
<1>4. TypeOK'
  BY <1>1 DEF Inv, TypeOK, Request
<1>5. Others(p)
  BY <1>1 DEF Others, Inv, TypeOK
<1>6. PageOK(p)'
  BY <1>1, <1>2, <1>3 DEF PageOK, Inv, TypeOK
<1>7. WireStep(p)
  <2>1. batch[p] \subseteq Born /\ phase'[p] = "sent"
    BY <1>1 DEF Inv, PageOK, PageFine, TypeOK
  <2>. QED  BY <1>1, <1>2, <2>1 DEF WireStep, Inv, WireOK
<1>. QED  BY <1>1, <1>2, <1>4, <1>5, <1>6, <1>7, PageStep DEF Inv

LEMMA DeliveredInv ==
  ASSUME Inv, NEW p \in Page, Delivered(p)
  PROVE  Inv'
<1>1. /\ phase[p] = "ok" /\ phase' = [phase EXCEPT ![p] = "idle"]
      /\ batch' = [batch EXCEPT ![p] = {}]
      /\ timer' = [timer EXCEPT ![p] = timer[p] \/ queue[p] # {}]
      /\ up' = up /\ allows' = allows /\ queue' = queue
      /\ attempts' = attempts /\ took' = took /\ kept' = {} /\ wire' = wire
      /\ stored' = stored /\ session' = session
      /\ origin' = origin /\ loads' = loads /\ decisions' = decisions
  BY DEF Delivered, EndFlush, server, bounds
<1>2. Born' = Born
  BY <1>1 DEF Born
<1>3. PageFine(p \in up', queue[p], {}, "idle", timer[p] \/ queue[p] # {}, attempts[p],
               took[p], Born, stored)
  BY <1>1 DEF Inv, PageOK, PageFine
<1>4. TypeOK'
  BY <1>1, NoneKept DEF Inv, TypeOK
<1>5. Others(p)
  BY <1>1 DEF Others, Inv, TypeOK
<1>6. PageOK(p)'
  BY <1>1, <1>2, <1>3 DEF PageOK, Inv, TypeOK
<1>7. WireStep(p)
  BY <1>1, <1>2, WireKept
<1>. QED  BY <1>1, <1>2, <1>4, <1>5, <1>6, <1>7, PageStep DEF Inv

LEMMA RefusedInv ==
  ASSUME Inv, NEW p \in Page, Refused(p)
  PROVE  Inv'
<1>. DEFINE a == [e \in Event |-> IF e \in batch[p] THEN 0 ELSE attempts[p][e]]
            q == queue[p] \ batch[p]
            k == took[p] \ batch[p]
<1>1. /\ phase[p] = "refused" /\ phase' = [phase EXCEPT ![p] = "idle"]
      /\ batch' = [batch EXCEPT ![p] = {}]
      /\ timer' = [timer EXCEPT ![p] = timer[p] \/ q # {}]
      /\ queue' = [queue EXCEPT ![p] = q]
      /\ attempts' = [attempts EXCEPT ![p] = a]
      /\ took' = [took EXCEPT ![p] = k]
      /\ up' = up /\ allows' = allows /\ kept' = kept \ batch[p] /\ wire' = wire
      /\ stored' = stored /\ session' = session
      /\ origin' = origin /\ loads' = loads /\ decisions' = decisions
  BY DEF Refused, Forget, EndFlush, server, bounds, Inv, TypeOK
<1>2. Born' = Born
  BY <1>1 DEF Born
<1>3. a \in [Event -> Nat] /\ q \in SUBSET Event /\ k \in SUBSET Event
  BY DEF Inv, TypeOK
<1>4. PageFine(p \in up', q, {}, "idle", timer[p] \/ q # {}, a, k, Born, stored)
  BY <1>1, PipelineAssumption DEF Inv, TypeOK, PageOK, PageFine
<1>5. kept' \subseteq Event /\ Cardinality(kept') <= MaxPersisted
  BY <1>1, FewerKept DEF Inv, TypeOK
<1>. HIDE DEF a, q, k
<1>6. TypeOK'
  BY <1>1, <1>3, <1>5 DEF Inv, TypeOK
<1>7. Others(p)
  BY <1>1 DEF Others, Inv, TypeOK
<1>8. PageOK(p)'
  BY <1>1, <1>2, <1>4 DEF PageOK, Inv, TypeOK
<1>9. WireStep(p)
  BY <1>1, <1>2, WireKept
<1>. QED  BY <1>1, <1>2, <1>6, <1>7, <1>8, <1>9, PageStep DEF Inv

LEMMA FailedInv ==
  ASSUME Inv, NEW p \in Page, Failed(p)
  PROVE  Inv'
<1>. DEFINE a == [e \in Event |-> IF e \in batch[p] THEN attempts[p][e] + 1
                                  ELSE attempts[p][e]]
            retryable == {e \in batch[p] : a[e] <= MaxAttempts}
            exhausted == batch[p] \ retryable
            q == retryable \cup queue[p]
<1>1. /\ phase[p] = "failed" /\ phase' = [phase EXCEPT ![p] = "idle"]
      /\ batch' = [batch EXCEPT ![p] = {}]
      /\ attempts' = [attempts EXCEPT ![p] = a]
      /\ up' = up /\ allows' = allows /\ took' = took /\ wire' = wire
      /\ stored' = stored /\ session' = session
      /\ origin' = origin /\ loads' = loads /\ decisions' = decisions
  BY DEF Failed, CountAttempt, AttemptsLeft, EndFlush, server, bounds, Inv, TypeOK
<1>2. attempts'[p] = a
  BY <1>1 DEF Inv, TypeOK
<1>3. /\ queue' = [queue EXCEPT ![p] = q]
      /\ timer' = [timer EXCEPT ![p] = timer[p] \/ queue'[p] # {}]
  BY <1>2 DEF Failed, CountAttempt, AttemptsLeft, EndFlush
<1>4. a \in [Event -> Nat] /\ q \in SUBSET Event /\ queue'[p] = q
  BY <1>3 DEF Inv, TypeOK
<1>5. Born' = Born /\ Born \subseteq Event
  BY <1>1, PipelineAssumption DEF Born, Inv, TypeOK, Event
<1>6. batch[p] \subseteq Born /\ q \subseteq Born
  BY DEF Inv, PageOK, PageFine
<1>7. kept' \subseteq Born /\ Cardinality(kept') <= MaxPersisted
  <2>1. PICK keep \in IF retryable = {} THEN {kept} ELSE Capped(kept \cup q) :
          kept' \in IF exhausted = {} THEN {keep} ELSE Capped(keep \cup exhausted)
    BY <1>2, <1>4 DEF Failed, CountAttempt, AttemptsLeft
  <2>2. kept \subseteq Born /\ Cardinality(kept) <= MaxPersisted
    BY DEF Inv, TypeOK
  <2>. HIDE DEF q, retryable
  <2>3. keep \subseteq Born /\ Cardinality(keep) <= MaxPersisted
    BY <1>6, <2>1, <2>2, CappedFact
  <2>4. exhausted \subseteq Born
    BY <1>6
  <2>. HIDE DEF exhausted
  <2>. QED  BY <2>1, <2>3, <2>4, CappedFact
<1>8. PageFine(p \in up', q, {}, "idle", timer[p] \/ q # {}, a, took[p], Born, stored)
  <2>1. PageFine(p \in up, queue[p], batch[p], phase[p], timer[p], attempts[p], took[p],
                 Born, stored)
    BY DEF Inv, PageOK
  <2>2. /\ queue[p] \subseteq Event /\ batch[p] \subseteq Event
        /\ took[p] \subseteq Event /\ p \in up
    BY <1>1, <2>1 DEF Inv, TypeOK, PageFine
  <2>3. \A e \in queue[p] : a[e] = attempts[p][e]
    BY <2>1, <2>2 DEF PageFine
  <2>4. \A e \in Event \ Born : a[e] = 0
    BY <2>1, <2>2 DEF PageFine
  <2>5. \A e \in q : a[e] <= MaxAttempts
    BY <2>1, <2>3 DEF PageFine
  <2>6. \A e \in took[p] : e \in q \cup stored \/ a[e] > MaxAttempts
    <3>. SUFFICES ASSUME NEW e \in took[p], e \notin q, e \notin stored
                  PROVE  a[e] > MaxAttempts
      OBVIOUS
    <3>1. CASE e \in batch[p]
      <4>1. ~(a[e] <= MaxAttempts) /\ a[e] \in Nat
        BY <1>4, <2>2, <3>1
      <4>. HIDE DEF a
      <4>. QED  BY <4>1, PipelineAssumption
    <3>2. CASE e \notin batch[p]
      BY <2>1, <2>2, <3>2 DEF PageFine
    <3>. QED  BY <3>1, <3>2
  <2>7. q \subseteq Born /\ took[p] \subseteq Born
    BY <1>6, <2>1 DEF PageFine
  <2>. HIDE DEF a, q
  <2>. QED  BY <1>1, <2>2, <2>4, <2>5, <2>6, <2>7 DEF PageFine
<1>. HIDE DEF a, q, retryable, exhausted
<1>9. TypeOK'
  BY <1>1, <1>3, <1>4, <1>5, <1>7 DEF Inv, TypeOK
<1>10. Others(p)
  BY <1>1, <1>3 DEF Others, Inv, TypeOK
<1>11. PageOK(p)'
  BY <1>1, <1>3, <1>4, <1>5, <1>8 DEF PageOK, Inv, TypeOK
<1>12. WireStep(p)
  BY <1>1, <1>5, WireKept
<1>. QED  BY <1>1, <1>5, <1>7, <1>9, <1>10, <1>11, <1>12, PageStep

\* flushBeacon leaves localStorage within its cap and puts nothing on the wire
\* that a page waits for, unless it was there.
LEMMA BeaconFact ==
  ASSUME Inv, NEW p \in Page, NEW es \in Capped(kept \cup queue[p]), NEW fs,
         Beacon(p, es, fs)
  PROVE  /\ es \subseteq Born /\ es \subseteq Event
         /\ kept' \subseteq Born /\ Cardinality(kept') <= MaxPersisted
         /\ \A r \in wire' : r \in fs \/ r = Stray(es)
<1>1. /\ kept \subseteq Born /\ kept \subseteq Event /\ Cardinality(kept) <= MaxPersisted
      /\ queue[p] \subseteq Born /\ queue[p] \subseteq Event
  BY DEF Inv, TypeOK, PageOK, PageFine
<1>2. es \subseteq kept \cup queue[p]
  BY CappedFact
<1>3. CASE allows[p] /\ es # {}
  <2>1. kept' \in Capped(kept \cup es) /\ wire' = fs \cup {Stray(es)}
    BY <1>3 DEF Beacon, Persist
  <2>. QED  BY <1>1, <1>2, <2>1, CappedFact
<1>4. CASE allows[p] /\ es = {}
  BY <1>1, <1>2, <1>4 DEF Beacon
<1>5. CASE ~allows[p]
  <2>1. kept' = kept \ es /\ wire' = fs
    BY <1>5 DEF Beacon
  <2>. QED  BY <1>1, <1>2, <2>1, FewerKept
<1>. QED  BY <1>3, <1>4, <1>5

LEMMA HideInv ==
  ASSUME Inv, NEW p \in Page, Hide(p)
  PROVE  Inv'
<1>1. PICK es \in Capped(kept \cup queue[p]) :
        /\ Beacon(p, es, wire)
        /\ IF allows[p] THEN UNCHANGED <<queue, attempts, took>> ELSE Forget(p, es)
  BY DEF Hide
<1>2. /\ p \in up /\ up' = up /\ allows' = allows /\ batch' = batch /\ phase' = phase
      /\ timer' = timer /\ stored' = stored /\ session' = session
      /\ origin' = origin /\ loads' = loads /\ decisions' = decisions
  BY DEF Hide, server, bounds
<1>3. Born' = Born /\ Born \subseteq Event
  BY <1>2, PipelineAssumption DEF Born, Inv, TypeOK, Event
<1>4. /\ es \subseteq Born /\ es \subseteq Event
      /\ kept' \subseteq Born /\ Cardinality(kept') <= MaxPersisted
      /\ \A r \in wire' : r \in wire \/ r = Stray(es)
  BY <1>1, BeaconFact
<1>5. wire' \subseteq Request
  BY <1>4 DEF Stray, Request, Inv, TypeOK
<1>6. WireStep(p)
  BY <1>2, <1>3, <1>4, PipelineAssumption DEF WireStep, Stray, Inv, WireOK
<1>7. PageFine(TRUE, queue[p], batch[p], phase[p], timer[p], attempts[p], took[p],
               Born, stored)
  BY <1>2 DEF Inv, PageOK, PageFine
<1>8. CASE allows[p]
  <2>1. queue' = queue /\ attempts' = attempts /\ took' = took
    BY <1>1, <1>8
  <2>2. TypeOK'
    BY <1>2, <1>3, <1>4, <1>5, <2>1 DEF Inv, TypeOK
  <2>3. Others(p)
    BY <1>2, <2>1 DEF Others
  <2>4. PageOK(p)'
    BY <1>2, <1>3, <2>1 DEF PageOK, Inv
  <2>. QED  BY <1>2, <1>3, <1>4, <1>6, <2>2, <2>3, <2>4, PageStep
<1>9. CASE ~allows[p]
  <2>. DEFINE a == [e \in Event |-> IF e \in es THEN 0 ELSE attempts[p][e]]
              q == queue[p] \ es
              k == took[p] \ es
  <2>1. /\ queue' = [queue EXCEPT ![p] = q]
        /\ attempts' = [attempts EXCEPT ![p] = a]
        /\ took' = [took EXCEPT ![p] = k]
    BY <1>1, <1>9 DEF Forget, Inv, TypeOK
  <2>2. a \in [Event -> Nat] /\ q \in SUBSET Event /\ k \in SUBSET Event
    BY DEF Inv, TypeOK
  <2>3. PageFine(p \in up', q, batch[p], phase[p], timer[p], a, k, Born, stored)
    <3>1. batch[p] \subseteq Event /\ queue[p] \subseteq Event /\ took[p] \subseteq Event
      BY DEF Inv, TypeOK
    <3>. QED  BY <1>2, <1>7, <3>1, PipelineAssumption DEF PageFine
  <2>. HIDE DEF a, q, k
  <2>4. TypeOK'
    BY <1>2, <1>3, <1>4, <1>5, <2>1, <2>2 DEF Inv, TypeOK
  <2>5. Others(p)
    BY <1>2, <2>1 DEF Others, Inv, TypeOK
  <2>6. PageOK(p)'
    BY <1>2, <1>3, <2>1, <2>3 DEF PageOK, Inv, TypeOK
  <2>. QED  BY <1>2, <1>3, <1>4, <1>6, <2>4, <2>5, <2>6, PageStep
<1>. QED  BY <1>8, <1>9

\* A page that goes away leaves nothing in memory and waits for nothing.
LEMMA GoneInv ==
  ASSUME Inv, NEW p \in Page, Gone(p),
         allows' = allows, stored' = stored, session' = session,
         origin' = origin, loads' = loads, decisions' = decisions,
         kept' \subseteq Born, Cardinality(kept') <= MaxPersisted,
         NEW es \in SUBSET Event, es \subseteq Born,
         \A r \in wire' : r \in Orphaned(p) \/ r = Stray(es)
  PROVE  Inv'
<1>1. Born' = Born /\ Born \subseteq Event
  BY PipelineAssumption DEF Born, Inv, TypeOK, Event
<1>2. \A r \in wire' : \/ r \in wire /\ r.to # p
                       \/ \E o \in wire : r = Stray(o.events)
                       \/ r = Stray(es)
  BY DEF Orphaned
<1>3. \A r \in wire' : /\ r \in Request /\ r.events \subseteq Born
                       /\ r.to \in Page => r \in wire /\ r.to # p
  <2>. SUFFICES ASSUME NEW r \in wire'
                PROVE  /\ r \in Request /\ r.events \subseteq Born
                       /\ r.to \in Page => r \in wire /\ r.to # p
    OBVIOUS
  <2>1. CASE r \in wire /\ r.to # p
    BY <2>1 DEF Inv, TypeOK, WireOK
  <2>2. CASE \E o \in wire : r = Stray(o.events)
    <3>1. PICK o \in wire : r = Stray(o.events)
      BY <2>2
    <3>2. o.events \subseteq Born /\ o.events \subseteq Event
      BY <1>1 DEF Inv, WireOK
    <3>. QED  BY <3>1, <3>2, PipelineAssumption DEF Stray, Request
  <2>3. CASE r = Stray(es)
    BY <2>3, PipelineAssumption DEF Stray, Request
  <2>. QED  BY <1>2, <2>1, <2>2, <2>3
<1>4. WireStep(p)
  BY <1>1, <1>3 DEF WireStep
<1>5. TypeOK'
  BY <1>1, <1>3 DEF Gone, Inv, TypeOK
<1>6. Others(p)
  BY DEF Gone, Others, Inv, TypeOK
<1>7. PageOK(p)'
  BY <1>1, PipelineAssumption DEF Gone, PageOK, PageFine, Inv, TypeOK
<1>. QED  BY <1>1, <1>4, <1>5, <1>6, <1>7, PageStep

LEMMA CloseInv ==
  ASSUME Inv, NEW p \in Page, Close(p)
  PROVE  Inv'
<1>1. PICK es \in Capped(kept \cup queue[p]) : Beacon(p, es, Orphaned(p))
  BY DEF Close
<1>2. /\ Gone(p) /\ allows' = allows /\ stored' = stored /\ session' = session
      /\ origin' = origin /\ loads' = loads /\ decisions' = decisions
  BY DEF Close, server, bounds
<1>3. /\ es \in SUBSET Event /\ es \subseteq Born
      /\ kept' \subseteq Born /\ Cardinality(kept') <= MaxPersisted
      /\ \A r \in wire' : r \in Orphaned(p) \/ r = Stray(es)
  BY <1>1, BeaconFact
<1>. QED  BY <1>2, <1>3, GoneInv

LEMMA CrashInv ==
  ASSUME Inv, NEW p \in Page, Crash(p)
  PROVE  Inv'
<1>1. /\ Gone(p) /\ allows' = allows /\ stored' = stored /\ session' = session
      /\ origin' = origin /\ loads' = loads /\ decisions' = decisions
      /\ wire' = Orphaned(p) /\ kept' = kept
  BY DEF Crash, server, bounds
<1>2. /\ {} \in SUBSET Event /\ {} \subseteq Born
      /\ kept' \subseteq Born /\ Cardinality(kept') <= MaxPersisted
      /\ \A r \in wire' : r \in Orphaned(p) \/ r = Stray({})
  BY <1>1 DEF Inv, TypeOK
<1>. QED  BY <1>1, <1>2, GoneInv

(***************************************************************************)
(* The steps of the API and the network.                                   *)
(***************************************************************************)

\* The rows of the sessions table keep their type.
LEMMA SessionType ==
  ASSUME Inv, NEW p \in Page, NEW es \in SUBSET Event
  PROVE  SessionAfter(p, es) \in [started: Nat, last: Nat]
<1>. DEFINE mine == {e \in es : origin[e] = p}
<1>1. session[p] \in [started: Nat, last: Nat]
  BY DEF Inv, TypeOK
<1>2. CASE mine = {}
  BY <1>1, <1>2 DEF SessionAfter
<1>3. CASE mine # {}
  <2>1. mine \in SUBSET Event /\ mine \in SUBSET Nat
    <3>1. Event \subseteq Nat
      BY PipelineAssumption DEF Event
    <3>2. mine \subseteq es
      OBVIOUS
    <3>. QED  BY <3>1, <3>2
  <2>2. Min(mine) \in Nat /\ Max(mine) \in Nat
    BY <1>3, <2>1, MinFact, MaxFact
  <2>3. SessionAfter(p, es) =
          LET row == IF session[p] = NoRow
                       THEN [started |-> Min(mine), last |-> Max(mine)]
                       ELSE session[p]
          IN [row EXCEPT !.last = IF @ < Max(mine) THEN Max(mine) ELSE @]
    BY <1>3 DEF SessionAfter
  <2>. HIDE DEF mine
  <2>. QED  BY <1>1, <2>2, <2>3
<1>. QED  BY <1>2, <1>3

\* Answering the page that waits for r, if any, with what has been stored.
LEMMA ServerStep ==
  ASSUME Inv, NEW r \in wire, NEW answer \in Answers,
         Answer(r, answer), ServerUnchanged,
         stored \subseteq stored', stored' \subseteq Born,
         session' \in [Page -> [started: Nat, last: Nat]],
         wire' \subseteq (wire \ {r}) \cup {Stray(r.events)},
         answer = "ok" => r.events \subseteq stored'
  PROVE  Inv'
<1>1. /\ up' = up /\ allows' = allows /\ queue' = queue /\ batch' = batch
      /\ timer' = timer /\ attempts' = attempts /\ took' = took /\ kept' = kept
      /\ origin' = origin /\ loads' = loads /\ decisions' = decisions
  BY DEF ServerUnchanged, bounds
<1>2. Born' = Born /\ Born \subseteq Event
  BY <1>1, PipelineAssumption DEF Born, Inv, TypeOK, Event
<1>3. /\ r \in Request /\ r.events \subseteq Born
      /\ r.to \in Page => phase[r.to] = "sent" /\ r.events = batch[r.to]
  BY DEF Inv, TypeOK, WireOK
<1>4. \A p \in Page : phase'[p] = IF p = r.to THEN answer ELSE phase[p]
  BY <1>3, PipelineAssumption DEF Answer, Request, Inv, TypeOK
<1>5. phase' \in [Page -> Phase]
  BY <1>3 DEF Answer, Request, Inv, TypeOK, Phase
<1>6. wire' \subseteq Request
  BY <1>2, <1>3 DEF Stray, Request, Inv, TypeOK
<1>7. TypeOK'
  BY <1>1, <1>2, <1>5, <1>6 DEF Inv, TypeOK, Phase
<1>8. WireOK'
  <2>. SUFFICES ASSUME NEW s \in wire'
                PROVE  /\ s.events \subseteq Born
                       /\ s.to \in Page => phase'[s.to] = "sent" /\ s.events = batch[s.to]
    BY <1>1, <1>2 DEF WireOK
  <2>1. CASE s = Stray(r.events)
    BY <1>3, <2>1, PipelineAssumption DEF Stray
  <2>2. CASE s \in wire /\ s # r
    <3>1. /\ s \in Request /\ s.events \subseteq Born
          /\ s.to \in Page => phase[s.to] = "sent" /\ s.events = batch[s.to]
      BY <2>2 DEF Inv, TypeOK, WireOK
    <3>2. s.to \in Page => s.to # r.to
      <4>. SUFFICES ASSUME s.to \in Page, s.to = r.to
                    PROVE  FALSE
        OBVIOUS
      <4>1. s.events = r.events
        BY <1>3, <3>1
      <4>. QED  BY <1>3, <2>2, <3>1, <4>1 DEF Request
    <3>. QED  BY <1>4, <3>1, <3>2
  <2>. QED  BY <2>1, <2>2
<1>9. \A p \in Page : PageOK(p)'
  <2>. SUFFICES ASSUME NEW p \in Page
                PROVE  PageOK(p)'
    OBVIOUS
  <2>1. PageFine(p \in up, queue[p], batch[p], phase[p], timer[p], attempts[p], took[p],
                 Born, stored)
    BY DEF Inv, PageOK
  <2>2. PageFine(p \in up, queue[p], batch[p], phase'[p], timer[p], attempts[p], took[p],
                 Born, stored')
    <3>1. CASE p = r.to
      <4>1. phase'[p] = answer /\ phase[p] = "sent" /\ (answer = "ok" => batch[p] \subseteq stored')
        BY <1>3, <1>4, <3>1
      <4>. QED  BY <2>1, <4>1 DEF PageFine, Answers
    <3>2. CASE p # r.to
      <4>1. phase'[p] = phase[p]
        BY <1>4, <3>2
      <4>. QED  BY <2>1, <4>1 DEF PageFine
    <3>. QED  BY <3>1, <3>2
  <2>. QED  BY <1>1, <1>2, <2>2 DEF PageOK
<1>. QED  BY <1>1, <1>2, <1>7, <1>8, <1>9 DEF Inv

LEMMA ArriveInv ==
  ASSUME Inv, NEW r \in wire, Arrive(r)
  PROVE  Inv'
<1>1. stored \subseteq Born /\ r.events \subseteq Born /\ r.events \in SUBSET Event
  BY DEF Inv, TypeOK, WireOK, Request
<1>2. CASE Ingest(r)
  <2>1. PICK answer \in {"ok", "failed"} : Answer(r, answer)
    BY <1>2 DEF Ingest
  <2>2. /\ stored' = stored \cup r.events /\ wire' = wire \ {r} /\ ServerUnchanged
        /\ session' = [p \in Page |-> SessionAfter(p, r.events)]
    BY <1>2 DEF Ingest
  <2>3. session' \in [Page -> [started: Nat, last: Nat]]
    BY <1>1, <2>2, SessionType
  <2>4. answer \in Answers
    BY DEF Answers
  <2>. QED  BY <1>1, <2>1, <2>2, <2>3, <2>4, ServerStep
<1>3. CASE Reject(r)
  <2>1. PICK answer \in {"refused", "failed"} : Answer(r, answer)
    BY <1>3 DEF Reject
  <2>2. stored' = stored /\ session' = session /\ wire' = wire \ {r} /\ ServerUnchanged
    BY <1>3 DEF Reject, server
  <2>3. session' \in [Page -> [started: Nat, last: Nat]]
    BY <2>2 DEF Inv, TypeOK
  <2>4. answer \in Answers /\ answer # "ok"
    BY DEF Answers
  <2>. QED  BY <1>1, <2>1, <2>2, <2>3, <2>4, ServerStep
<1>4. CASE GiveUp(r)
  <2>1. /\ stored' = stored /\ session' = session /\ ServerUnchanged
        /\ wire' = (wire \ {r}) \cup {Stray(r.events)} /\ Answer(r, "failed")
    BY <1>4 DEF GiveUp, server
  <2>2. session' \in [Page -> [started: Nat, last: Nat]]
    BY <2>1 DEF Inv, TypeOK
  <2>3. "failed" \in Answers
    BY DEF Answers
  <2>. QED  BY <1>1, <2>1, <2>2, <2>3, ServerStep
<1>. QED  BY <1>2, <1>3, <1>4 DEF Arrive

(***************************************************************************)
(* The theorems.                                                           *)
(***************************************************************************)

LEMMA InitInv == Init => Inv
<1>. SUFFICES ASSUME Init PROVE Inv
  OBVIOUS
<1>1. Len(origin) = 0 /\ origin \in Seq(Page)
  BY DEF Init
<1>2. TypeOK
  BY <1>1, NoneKept, PipelineAssumption DEF Init, TypeOK, NoRow
<1>3. WireOK /\ kept \subseteq Born /\ stored \subseteq Born
  BY DEF Init, WireOK
<1>4. \A p \in Page : PageOK(p)
  BY PipelineAssumption DEF Init, PageOK, PageFine
<1>. QED  BY <1>2, <1>3, <1>4 DEF Inv

LEMMA StepInv == Inv /\ [Next]_vars => Inv'
<1>. SUFFICES ASSUME Inv, [Next]_vars PROVE Inv'
  OBVIOUS
<1>1. CASE \E p \in Page :
             \/ Load(p) \/ Track(p) \/ Decide(p)
             \/ TimerFires(p) \/ Send(p) \/ Settle(p)
             \/ Hide(p) \/ Close(p) \/ Crash(p)
  BY <1>1, LoadInv, TrackInv, DecideInv, TimerFiresInv, SendInv, DeliveredInv,
     RefusedInv, FailedInv, HideInv, CloseInv, CrashInv
  DEF Settle
<1>2. CASE \E r \in wire : Arrive(r)
  BY <1>2, ArriveInv
<1>3. CASE UNCHANGED vars
  <2>1. UNCHANGED <<up, allows, page, kept, wire, server, bounds>>
    BY <1>3 DEF vars
  <2>. QED
    BY <2>1 DEF page, server, bounds, Inv, TypeOK, WireOK, PageOK, Born
<1>. QED  BY <1>1, <1>2, <1>3 DEF Next

LEMMA Invariance == Spec => []Inv
BY InitInv, StepInv, PTL DEF Spec

\* Every variable keeps its type, and localStorage its cap, however many pages
\* share it.
THEOREM PipelineTypeCorrect == Spec => []TypeOK
<1>1. Inv => TypeOK
  BY DEF Inv
<1>. QED  BY <1>1, Invariance, PTL

\* No loaded page sits on a queue without a flush in progress or a timer: the
\* size-triggered flush, the timer and the end of a flush always leave one.
THEOREM NothingStranded == Spec => []DrainScheduled
<1>1. Inv => DrainScheduled
  BY DEF Inv, TypeOK, PageOK, PageFine, DrainScheduled
<1>. QED  BY <1>1, Invariance, PTL

\* No loaded page loses an event it queued or restored before it is stored,
\* refused or out of attempts, even with other tabs emptying localStorage.
THEOREM NothingForgotten == Spec => []KeepsWhatItTook
<1>1. Inv => KeepsWhatItTook
  BY DEF Inv, TypeOK, PageOK, PageFine, KeepsWhatItTook
<1>. QED  BY <1>1, Invariance, PTL

\* An event out of attempts comes back neither into a queue nor into a batch
\* of the page that tried it.
THEOREM RetriesEnd == Spec => []RetriesBounded
<1>1. Inv => RetriesBounded
  BY DEF Inv, TypeOK, PageOK, PageFine, RetriesBounded
<1>. QED  BY <1>1, Invariance, PTL

(***************************************************************************)
(* The session rows.                                                       *)
(***************************************************************************)

\* The newest member is the only one no member is beyond.
LEMMA MaxUnique ==
  ASSUME NEW S \in SUBSET Event, NEW x \in S, \A y \in S : y <= x
  PROVE  Max(S) = x
<1>1. Event \subseteq Nat
  BY PipelineAssumption DEF Event
<1>2. Max(S) \in S /\ \A y \in S : y <= Max(S)
  BY MaxFact
<1>3. x <= Max(S) /\ Max(S) <= x /\ x \in Nat /\ Max(S) \in Nat
  BY <1>1, <1>2
<1>. QED  BY <1>3

\* The row v agrees with the events mine.
RowMatches(v, mine) ==
  /\ v = NoRow <=> mine = {}
  /\ mine # {} => v.started \in mine /\ v.last = Max(mine)

\* A batch keeps a row in agreement with its events, in whatever order
\* batches arrive.
LEMMA RowStep ==
  ASSUME Inv, NEW p \in Page, NEW es \in SUBSET Event,
         RowMatches(session[p], {e \in stored : origin[e] = p})
  PROVE  RowMatches(SessionAfter(p, es), {e \in stored \cup es : origin[e] = p})
<1>. DEFINE old == {e \in stored : origin[e] = p}
            mine == {e \in es : origin[e] = p}
            all == {e \in stored \cup es : origin[e] = p}
            row == IF session[p] = NoRow
                     THEN [started |-> Min(mine), last |-> Max(mine)]
                     ELSE session[p]
<1>1. Event \subseteq Nat \ {0}
  BY PipelineAssumption DEF Event
<1>2. /\ all = old \cup mine
      /\ old \in SUBSET Event /\ mine \in SUBSET Event /\ all \in SUBSET Event
  BY DEF Inv, TypeOK
<1>3. RowMatches(session[p], old) /\ session[p] \in [started: Nat, last: Nat]
  BY DEF Inv, TypeOK
<1>4. /\ mine = {} => SessionAfter(p, es) = session[p]
      /\ mine # {} => SessionAfter(p, es) =
                        [row EXCEPT !.last = IF @ < Max(mine) THEN Max(mine) ELSE @]
  BY DEF SessionAfter
<1>. SUFFICES RowMatches(SessionAfter(p, es), all)
  OBVIOUS
<1>. HIDE DEF old, mine, all
<1>5. CASE mine = {}
  BY <1>2, <1>3, <1>4, <1>5
<1>6. CASE mine # {}
  <2>. DEFINE new == Max(mine)
  <2>1. new \in mine /\ (\A y \in mine : y <= new) /\ new \in Nat
    BY <1>1, <1>2, <1>6, MaxFact
  <2>2. Min(mine) \in mine /\ Min(mine) \in Nat
    BY <1>1, <1>2, <1>6, MinFact
  <2>3. SessionAfter(p, es) = [row EXCEPT !.last = IF @ < new THEN new ELSE @]
    BY <1>4, <1>6
  <2>. HIDE DEF new
  <2>4. CASE old = {}
    <3>1. session[p] = NoRow
      BY <1>3, <2>4 DEF RowMatches
    <3>2. SessionAfter(p, es).started = Min(mine) /\ SessionAfter(p, es).last = new
      BY <2>1, <2>2, <2>3, <3>1 DEF new
    <3>3. all = mine
      BY <1>2, <2>4
    <3>4. SessionAfter(p, es).started \in Nat \ {0}
      BY <1>1, <1>2, <2>2, <3>2
    <3>5. SessionAfter(p, es) # NoRow
      BY <3>4 DEF NoRow
    <3>. QED  BY <1>6, <2>2, <3>2, <3>3, <3>5 DEF RowMatches, new
  <2>5. CASE old # {}
    <3>. DEFINE last == session[p].last
    <3>1. session[p] # NoRow /\ session[p].started \in old /\ last = Max(old)
      BY <1>3, <2>5 DEF RowMatches
    <3>2. last \in old /\ (\A y \in old : y <= last) /\ last \in Nat
      BY <1>1, <1>2, <2>5, <3>1, MaxFact
    <3>3. /\ SessionAfter(p, es).started = session[p].started
          /\ SessionAfter(p, es).last = IF last < new THEN new ELSE last
      BY <1>3, <2>3, <3>1
    <3>4. SessionAfter(p, es).started \in Nat \ {0}
      BY <1>1, <1>2, <3>1, <3>3
    <3>5. SessionAfter(p, es) # NoRow
      BY <3>4 DEF NoRow
    <3>6. Max(all) = SessionAfter(p, es).last
      <4>. DEFINE m == IF last < new THEN new ELSE last
      <4>1. m \in all
        BY <1>2, <2>1, <3>2
      <4>2. \A y \in all : y <= m
        <5>1. \A y \in old \cup mine : y \in Nat
          BY <1>1, <1>2
        <5>. QED  BY <1>2, <2>1, <3>2, <5>1
      <4>. HIDE DEF m
      <4>3. Max(all) = m
        BY <1>2, <4>1, <4>2, MaxUnique
      <4>. QED  BY <3>3, <4>3 DEF m
    <3>. QED  BY <1>2, <2>5, <3>1, <3>3, <3>5, <3>6 DEF RowMatches
  <2>. QED  BY <2>4, <2>5
<1>. QED  BY <1>5, <1>6

\* Batches that are replayed, late or overtaken leave each session row in
\* agreement with the events that are stored.
THEOREM SessionsAgree == Spec => []SessionMatchesEvents
<1>1. Init => SessionMatchesEvents
  BY DEF Init, SessionMatchesEvents
<1>2. Inv /\ Inv' /\ SessionMatchesEvents /\ [Next]_vars => SessionMatchesEvents'
  <2>. SUFFICES ASSUME Inv, Inv', SessionMatchesEvents, [Next]_vars, NEW p \in Page
                PROVE  RowMatches(session'[p], {e \in stored' : origin'[e] = p})
    BY DEF SessionMatchesEvents, RowMatches
  <2>1. RowMatches(session[p], {e \in stored : origin[e] = p})
    BY DEF SessionMatchesEvents, RowMatches
  <2>2. ASSUME NEW r \in wire, Ingest(r)
        PROVE  RowMatches(session'[p], {e \in stored' : origin'[e] = p})
    <3>1. /\ stored' = stored \cup r.events /\ origin' = origin
          /\ session' = [o \in Page |-> SessionAfter(o, r.events)]
      BY <2>2 DEF Ingest, ServerUnchanged, bounds
    <3>2. r.events \in SUBSET Event
      BY DEF Inv, TypeOK, Request
    <3>. QED  BY <2>1, <3>1, <3>2, RowStep
  <2>3. ASSUME UNCHANGED server, \A e \in Born : origin'[e] = origin[e]
        PROVE  RowMatches(session'[p], {e \in stored' : origin'[e] = p})
    <3>1. {e \in stored : origin'[e] = p} = {e \in stored : origin[e] = p}
      BY <2>3 DEF Inv
    <3>. QED  BY <2>1, <2>3, <3>1 DEF server
  <2>4. ASSUME NEW o \in Page, NEW es, Enqueue(o, es)
        PROVE  \A e \in Born : origin'[e] = origin[e]
    BY <2>4 DEF Enqueue, Born, Inv, TypeOK
  <2>5. ASSUME NEW o \in Page, Load(o) \/ Track(o)
        PROVE  UNCHANGED server /\ \A e \in Born : origin'[e] = origin[e]
    BY <2>4, <2>5 DEF Load, Track
  <2>6. ASSUME NEW o \in Page,
               \/ Decide(o) \/ TimerFires(o) \/ Send(o) \/ Settle(o)
               \/ Hide(o) \/ Close(o) \/ Crash(o)
        PROVE  UNCHANGED server /\ origin' = origin
    BY <2>6
    DEF Decide, TimerFires, Send, Settle, Delivered, Refused, Failed, Hide, Close, Crash,
        bounds
  <2>7. ASSUME NEW r \in wire, Reject(r) \/ GiveUp(r)
        PROVE  UNCHANGED server /\ origin' = origin
    BY <2>7 DEF Reject, GiveUp, ServerUnchanged, bounds
  <2>8. CASE UNCHANGED vars
    BY <2>3, <2>8 DEF vars, bounds
  <2>. QED  BY <2>2, <2>3, <2>5, <2>6, <2>7, <2>8 DEF Next, Arrive
<1>. QED  BY <1>1, <1>2, Invariance, PTL DEF Spec

=============================================================================
