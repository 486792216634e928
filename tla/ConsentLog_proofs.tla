------------------------ MODULE ConsentLog_proofs ------------------------
(***************************************************************************)
(* Proofs about ConsentLog, for every number of principals, sessions,      *)
(* openers and requests and every value of the limits.                     *)
(***************************************************************************)
EXTENDS ConsentLog, TLAPS

(***************************************************************************)
(* Type correctness, strengthened by what a process has in its locals at   *)
(* each pc.                                                                *)
(***************************************************************************)
Engaged == {"charge", "resolve", "create", "tip", "insert"}

OpenersHold ==
  \A o \in Opener : opener[o].pc \in {"bind", "issue"} =>
    opener[o].principal \in Principal /\ opener[o].secret \in Secret

SessionsNamed ==
  \A t \in Session : session[t].status # "unissued" =>
    session[t].principal \in Principal /\ session[t].presented \in Secret

Filled(q) ==
  /\ q.pc \in Engaged =>
       q.principal \in Principal /\ q.purpose \in Code /\ q.status \in Status
  /\ q.pc = "charge" => q.session \in Session

RequestsFilled == \A r \in Request : Filled(request[r])

TypeInv == TypeOK /\ OpenersHold /\ SessionsNamed /\ RequestsFilled

(***************************************************************************)
(* What each step writes into a request's record.                          *)
(***************************************************************************)
LEMMA IdleTyped == Idle \in RequestState
BY DEF RequestState, Idle

LEMMA UpdatedTyped ==
  ASSUME NEW z \in RequestState, NEW outcome \in Outcome,
         NEW t \in Session \cup {None}, NEW k \in Nat,
         NEW p \in Principal \cup {NoRow}, NEW b \in Nat
  PROVE  [z EXCEPT !.pc = outcome, !.session = t, !.slot = k,
                   !.principal = p, !.base = b] \in RequestState
BY ZenonT(60) DEF RequestState

\* A request that was answered is well typed and keeps its history fields.
LEMMA AnsweredTyped ==
  ASSUME NEW q \in RequestState, NEW outcome \in Outcome
  PROVE  /\ Answered(q, outcome) \in RequestState
         /\ Answered(q, outcome).pc = outcome
         /\ Answered(q, outcome).session = q.session
         /\ Answered(q, outcome).slot = q.slot
         /\ Answered(q, outcome).principal = q.principal
         /\ Answered(q, outcome).base = q.base
<1>1. /\ q.session \in Session \cup {None} /\ q.slot \in Nat /\ q.base \in Nat
      /\ q.principal \in Principal \cup {NoRow}
  BY DEF RequestState
<1>2. Answered(q, outcome) \in RequestState
  BY <1>1, IdleTyped, UpdatedTyped DEF Answered
<1>3. Answered(q, outcome).pc = outcome
  BY DEF Answered, Idle
<1>4. Answered(q, outcome).session = q.session
  BY DEF Answered, Idle
<1>5. Answered(q, outcome).slot = q.slot
  BY DEF Answered, Idle
<1>6. Answered(q, outcome).principal = q.principal
  BY DEF Answered, Idle
<1>7. Answered(q, outcome).base = q.base
  BY DEF Answered, Idle
<1>. QED  BY <1>2, <1>3, <1>4, <1>5, <1>6, <1>7

\* What is asked of recordConsentDecision leaves the rest of the record alone.
LEMMA AskedTyped ==
  ASSUME NEW q \in RequestState,
         NEW p \in Principal, NEW u \in Code, NEW n \in Notice \cup {None},
         NEW st \in Status, NEW d \in Claim \cup {None}
  PROVE  /\ Asked(q, p, u, n, st, d) \in RequestState
         /\ Asked(q, p, u, n, st, d).pc = q.pc
         /\ Asked(q, p, u, n, st, d).session = q.session
         /\ Asked(q, p, u, n, st, d).seen = q.seen
         /\ Asked(q, p, u, n, st, d).slot = q.slot
         /\ Asked(q, p, u, n, st, d).principal = p
         /\ Asked(q, p, u, n, st, d).purpose = u
         /\ Asked(q, p, u, n, st, d).status = st
         /\ Asked(q, p, u, n, st, d).claimed = d
         /\ Asked(q, p, u, n, st, d).attempt = q.attempt
<1>1. Asked(q, p, u, n, st, d) \in RequestState
  BY ZenonT(60) DEF Asked, RequestState
<1>2. Asked(q, p, u, n, st, d).pc = q.pc
  BY DEF Asked, RequestState
<1>3. Asked(q, p, u, n, st, d).session = q.session
  BY DEF Asked, RequestState
<1>4. Asked(q, p, u, n, st, d).seen = q.seen
  BY DEF Asked, RequestState
<1>5. Asked(q, p, u, n, st, d).slot = q.slot
  BY DEF Asked, RequestState
<1>6. Asked(q, p, u, n, st, d).principal = p
  BY DEF Asked, RequestState
<1>7. Asked(q, p, u, n, st, d).purpose = u
  BY DEF Asked, RequestState
<1>8. Asked(q, p, u, n, st, d).status = st
  BY DEF Asked, RequestState
<1>9. Asked(q, p, u, n, st, d).claimed = d
  BY DEF Asked, RequestState
<1>10. Asked(q, p, u, n, st, d).attempt = q.attempt
  BY DEF Asked, RequestState
<1>. QED  BY <1>1, <1>2, <1>3, <1>4, <1>5, <1>6, <1>7, <1>8, <1>9, <1>10

LEMMA ResolvedTyped ==
  ASSUME NEW t \in Session, session[t].decisionCount \in Nat
  PROVE  /\ Resolved(t) \in RequestState
         /\ Resolved(t).pc = "charge"
         /\ Resolved(t).session = t
         /\ Resolved(t).seen = session[t].decisionCount
         /\ Resolved(t).slot = 0
         /\ Resolved(t).attempt = 0
<1>t. Resolved(t) \in RequestState
  BY IdleTyped DEF Resolved, RequestState
<1>1. Resolved(t).pc = "charge"
  BY DEF Resolved, Idle
<1>2. Resolved(t).session = t
  BY DEF Resolved, Idle
<1>3. Resolved(t).seen = session[t].decisionCount
  BY DEF Resolved, Idle
<1>4. Resolved(t).slot = 0
  BY DEF Resolved, Idle
<1>5. Resolved(t).attempt = 0
  BY DEF Resolved, Idle
<1>. QED  BY <1>t, <1>1, <1>2, <1>3, <1>4, <1>5

LEMMA ImportedTyped ==
  /\ Imported \in RequestState
  /\ Imported.pc = "resolve"
  /\ Imported.slot = 0
  /\ Imported.attempt = 0
<1>t. Imported \in RequestState
  BY IdleTyped DEF Imported, RequestState
<1>1. Imported.pc = "resolve"
  BY DEF Imported, Idle
<1>2. Imported.slot = 0
  BY DEF Imported, Idle
<1>3. Imported.attempt = 0
  BY DEF Imported, Idle
<1>. QED  BY <1>t, <1>1, <1>2, <1>3

LEMMA ChargedTyped ==
  ASSUME NEW q \in RequestState
  PROVE  /\ Charged(q) \in RequestState
         /\ Charged(q).pc = "resolve"
         /\ Charged(q).slot = q.seen + 1
         /\ Charged(q).session = q.session
         /\ Charged(q).principal = q.principal
         /\ Charged(q).purpose = q.purpose
         /\ Charged(q).status = q.status
         /\ Charged(q).claimed = q.claimed
         /\ Charged(q).attempt = q.attempt
<1>a. \A k \in Nat : [q EXCEPT !.pc = "resolve", !.slot = k] \in RequestState
  BY DEF RequestState
<1>b. q.seen + 1 \in Nat
  BY DEF RequestState
<1>t. Charged(q) \in RequestState
  BY <1>a, <1>b DEF Charged
<1>1. Charged(q).pc = "resolve"
  BY DEF Charged, RequestState
<1>2. Charged(q).slot = q.seen + 1
  BY DEF Charged, RequestState
<1>3. Charged(q).session = q.session
  BY DEF Charged, RequestState
<1>4. Charged(q).principal = q.principal
  BY DEF Charged, RequestState
<1>5. Charged(q).purpose = q.purpose
  BY DEF Charged, RequestState
<1>6. Charged(q).status = q.status
  BY DEF Charged, RequestState
<1>7. Charged(q).claimed = q.claimed
  BY DEF Charged, RequestState
<1>8. Charged(q).attempt = q.attempt
  BY DEF Charged, RequestState
<1>. QED  BY <1>t, <1>1, <1>2, <1>3, <1>4, <1>5, <1>6, <1>7, <1>8

LEMMA CreatingTyped ==
  ASSUME NEW q \in RequestState
  PROVE  /\ Creating(q) \in RequestState
         /\ Creating(q).pc = "create"
         /\ Creating(q).session = q.session
         /\ Creating(q).principal = q.principal
         /\ Creating(q).purpose = q.purpose
         /\ Creating(q).status = q.status
         /\ Creating(q).claimed = q.claimed
         /\ Creating(q).attempt = q.attempt
         /\ Creating(q).slot = q.slot
<1>t. Creating(q) \in RequestState
  BY DEF Creating, RequestState
<1>1. Creating(q).pc = "create"
  BY DEF Creating, RequestState
<1>2. Creating(q).session = q.session
  BY DEF Creating, RequestState
<1>3. Creating(q).principal = q.principal
  BY DEF Creating, RequestState
<1>4. Creating(q).purpose = q.purpose
  BY DEF Creating, RequestState
<1>5. Creating(q).status = q.status
  BY DEF Creating, RequestState
<1>6. Creating(q).claimed = q.claimed
  BY DEF Creating, RequestState
<1>7. Creating(q).attempt = q.attempt
  BY DEF Creating, RequestState
<1>8. Creating(q).slot = q.slot
  BY DEF Creating, RequestState
<1>. QED  BY <1>t, <1>1, <1>2, <1>3, <1>4, <1>5, <1>6, <1>7, <1>8

\* decidedAt is a date: the claimed one, or the clock.
LEMMA LoopTyped ==
  ASSUME TypeOK, NEW q \in RequestState
  PROVE  /\ EnterChainLoop(q) \in RequestState
         /\ EnterChainLoop(q).pc = "tip"
         /\ EnterChainLoop(q).decidedAt = IF q.claimed = None THEN now ELSE q.claimed
         /\ EnterChainLoop(q).session = q.session
         /\ EnterChainLoop(q).slot = q.slot
         /\ EnterChainLoop(q).principal = q.principal
         /\ EnterChainLoop(q).purpose = q.purpose
         /\ EnterChainLoop(q).status = q.status
         /\ EnterChainLoop(q).attempt = q.attempt
<1>a. (IF q.claimed = None THEN now ELSE q.claimed) \in Nat
  BY LogAssumption DEF RequestState, TypeOK, SessionTypeOK
<1>b. \A d \in Nat : [q EXCEPT !.pc = "tip", !.decidedAt = d] \in RequestState
  BY DEF RequestState
<1>t. EnterChainLoop(q) \in RequestState
  BY <1>a, <1>b DEF EnterChainLoop
<1>1. EnterChainLoop(q).pc = "tip"
  BY DEF EnterChainLoop, RequestState
<1>2. EnterChainLoop(q).decidedAt = IF q.claimed = None THEN now ELSE q.claimed
  BY DEF EnterChainLoop, RequestState
<1>3. EnterChainLoop(q).session = q.session
  BY DEF EnterChainLoop, RequestState
<1>4. EnterChainLoop(q).slot = q.slot
  BY DEF EnterChainLoop, RequestState
<1>5. EnterChainLoop(q).principal = q.principal
  BY DEF EnterChainLoop, RequestState
<1>6. EnterChainLoop(q).purpose = q.purpose
  BY DEF EnterChainLoop, RequestState
<1>7. EnterChainLoop(q).status = q.status
  BY DEF EnterChainLoop, RequestState
<1>8. EnterChainLoop(q).attempt = q.attempt
  BY DEF EnterChainLoop, RequestState
<1>. QED  BY <1>t, <1>1, <1>2, <1>3, <1>4, <1>5, <1>6, <1>7, <1>8

LEMMA AimTyped ==
  ASSUME NEW q \in RequestState, NEW k \in Nat, NEW prev \in Nat \cup {None}
  PROVE  /\ Aim(q, k, prev) \in RequestState
         /\ Aim(q, k, prev).pc = "insert"
         /\ Aim(q, k, prev).sequence = k + 1
         /\ Aim(q, k, prev).previous = prev
         /\ Aim(q, k, prev).base = IF q.attempt = 0 THEN k ELSE q.base
         /\ Aim(q, k, prev).session = q.session
         /\ Aim(q, k, prev).slot = q.slot
         /\ Aim(q, k, prev).principal = q.principal
         /\ Aim(q, k, prev).purpose = q.purpose
         /\ Aim(q, k, prev).status = q.status
         /\ Aim(q, k, prev).decidedAt = q.decidedAt
         /\ Aim(q, k, prev).attempt = q.attempt
<1>a. (IF q.attempt = 0 THEN k ELSE q.base) \in Nat /\ k + 1 \in Nat
  BY DEF RequestState
<1>b. \A b \in Nat, j \in Nat :
        [q EXCEPT !.pc = "insert", !.sequence = j, !.previous = prev, !.base = b]
          \in RequestState
  BY DEF RequestState
<1>t. Aim(q, k, prev) \in RequestState
  BY <1>a, <1>b DEF Aim
<1>1. Aim(q, k, prev).pc = "insert"
  BY DEF Aim, RequestState
<1>2. Aim(q, k, prev).sequence = k + 1
  BY DEF Aim, RequestState
<1>3. Aim(q, k, prev).previous = prev
  BY DEF Aim, RequestState
<1>4. Aim(q, k, prev).base = IF q.attempt = 0 THEN k ELSE q.base
  BY DEF Aim, RequestState
<1>5. Aim(q, k, prev).session = q.session
  BY DEF Aim, RequestState
<1>6. Aim(q, k, prev).slot = q.slot
  BY DEF Aim, RequestState
<1>7. Aim(q, k, prev).principal = q.principal
  BY DEF Aim, RequestState
<1>8. Aim(q, k, prev).purpose = q.purpose
  BY DEF Aim, RequestState
<1>9. Aim(q, k, prev).status = q.status
  BY DEF Aim, RequestState
<1>10. Aim(q, k, prev).decidedAt = q.decidedAt
  BY DEF Aim, RequestState
<1>11. Aim(q, k, prev).attempt = q.attempt
  BY DEF Aim, RequestState
<1>. QED  BY <1>t, <1>1, <1>2, <1>3, <1>4, <1>5, <1>6, <1>7, <1>8, <1>9, <1>10, <1>11

LEMMA RetriedTyped ==
  ASSUME NEW q \in RequestState
  PROVE  /\ Retried(q) \in RequestState
         /\ Retried(q).pc = "tip"
         /\ Retried(q).attempt = q.attempt + 1
         /\ Retried(q).session = q.session
         /\ Retried(q).slot = q.slot
         /\ Retried(q).principal = q.principal
         /\ Retried(q).purpose = q.purpose
         /\ Retried(q).status = q.status
         /\ Retried(q).decidedAt = q.decidedAt
         /\ Retried(q).base = q.base
<1>a. \A k \in Nat : [q EXCEPT !.pc = "tip", !.attempt = k] \in RequestState
  BY DEF RequestState
<1>b. q.attempt + 1 \in Nat
  BY DEF RequestState
<1>t. Retried(q) \in RequestState
  BY <1>a, <1>b DEF Retried
<1>1. Retried(q).pc = "tip"
  BY DEF Retried, RequestState
<1>2. Retried(q).attempt = q.attempt + 1
  BY DEF Retried, RequestState
<1>3. Retried(q).session = q.session
  BY DEF Retried, RequestState
<1>4. Retried(q).slot = q.slot
  BY DEF Retried, RequestState
<1>5. Retried(q).principal = q.principal
  BY DEF Retried, RequestState
<1>6. Retried(q).purpose = q.purpose
  BY DEF Retried, RequestState
<1>7. Retried(q).status = q.status
  BY DEF Retried, RequestState
<1>8. Retried(q).decidedAt = q.decidedAt
  BY DEF Retried, RequestState
<1>9. Retried(q).base = q.base
  BY DEF Retried, RequestState
<1>. QED  BY <1>t, <1>1, <1>2, <1>3, <1>4, <1>5, <1>6, <1>7, <1>8, <1>9

(***************************************************************************)
(* Steps preserve the type invariant.                                      *)
(***************************************************************************)
LEMMA RequestReplaced ==
  ASSUME TypeInv, NEW r \in Request, NEW v \in RequestState, Filled(v),
         request' = [request EXCEPT ![r] = v]
  PROVE  request' \in [Request -> RequestState] /\ RequestsFilled'
<1>1. request' \in [Request -> RequestState]
  BY DEF TypeInv, TypeOK
<1>2. ASSUME NEW s \in Request PROVE Filled(request'[s])
  <2>1. request'[s] = IF s = r THEN v ELSE request[s]
    BY DEF TypeInv, TypeOK
  <2>. QED  BY <2>1 DEF TypeInv, RequestsFilled
<1>. QED  BY <1>1, <1>2 DEF RequestsFilled

LEMMA SessionStepTyped ==
  ASSUME TypeInv, SessionNext, UNCHANGED logVars
  PROVE  TypeInv'
<1>. USE DEF TypeInv, TypeOK, SessionTypeOK, OpenersHold, SessionsNamed
<1>0. RequestsFilled'
  BY DEF RequestsFilled, logVars
<1>1. ASSUME NEW o \in Opener, MintPrincipal(o) PROVE TypeInv'
  <2>1. PICK p \in Mintable, s \in Secret :
          /\ secretHash' = [secretHash EXCEPT ![p] = s]
          /\ opener' = [opener EXCEPT ![o] =
                          [pc |-> "issue", principal |-> p, secret |-> s]]
    BY <1>1 DEF MintPrincipal
  <2>2. p \in Principal
    BY SessionsAssumption
  <2>3. [pc |-> "issue", principal |-> p, secret |-> s] \in OpenerState
    BY <2>2 DEF OpenerState
  <2>4. secretHash' \in [Principal -> Secret \cup {Unbound, NoRow}]
    BY <2>1, <2>2
  <2>5. opener' \in [Opener -> OpenerState] /\ OpenersHold'
    BY <2>1, <2>2, <2>3
  <2>. QED  BY <1>0, <1>1, <2>4, <2>5 DEF MintPrincipal, logVars
<1>2. ASSUME NEW o \in Opener, LookupPrincipal(o) PROVE TypeInv'
  <2>1. PICK p \in Principal, s \in Secret :
          opener' = [opener EXCEPT ![o] =
                       [pc |-> AfterLookup(secretHash[p], s),
                        principal |-> p, secret |-> s]]
    BY <1>2 DEF LookupPrincipal
  <2>2. AfterLookup(secretHash[p], s) \in {"bind", "issue", "unauthorized"}
    BY DEF AfterLookup
  <2>3. [pc |-> AfterLookup(secretHash[p], s), principal |-> p, secret |-> s]
          \in OpenerState
    BY <2>2 DEF OpenerState
  <2>4. opener' \in [Opener -> OpenerState] /\ OpenersHold'
    BY <2>1, <2>3
  <2>. QED  BY <1>0, <1>2, <2>4 DEF LookupPrincipal, logVars
<1>3. ASSUME NEW o \in Opener, AdoptSecret(o) PROVE TypeInv'
  <2>1. opener[o].principal \in Principal /\ opener[o].secret \in Secret
    BY <1>3 DEF AdoptSecret
  <2>2. secretHash' \in [Principal -> Secret \cup {Unbound, NoRow}]
    BY <1>3, <2>1 DEF AdoptSecret
  <2>3. [opener[o] EXCEPT !.pc = "issue"] \in OpenerState
    BY DEF OpenerState
  <2>4. [opener[o] EXCEPT !.pc = "issue"].principal = opener[o].principal
    BY DEF OpenerState
  <2>5. [opener[o] EXCEPT !.pc = "issue"].secret = opener[o].secret
    BY DEF OpenerState
  <2>6. opener' = [opener EXCEPT ![o] = [opener[o] EXCEPT !.pc = "issue"]]
    BY <1>3 DEF AdoptSecret
  <2>7. opener' \in [Opener -> OpenerState] /\ OpenersHold'
    BY <2>1, <2>3, <2>4, <2>5, <2>6
  <2>. QED  BY <1>0, <1>3, <2>2, <2>7 DEF AdoptSecret, logVars
<1>4. ASSUME NEW o \in Opener, IssueSession(o) PROVE TypeInv'
  <2>1. opener[o].principal \in Principal /\ opener[o].secret \in Secret
    BY <1>4 DEF IssueSession
  <2>. DEFINE row == [status |-> "live", principal |-> opener[o].principal,
                      presented |-> opener[o].secret,
                      expiresAt |-> now + Ttl, decisionCount |-> 0]
  <2>2. PICK t \in Session : session' = [session EXCEPT ![t] = row]
    BY <1>4 DEF IssueSession
  <2>3. now + Ttl \in Nat
    BY SessionsAssumption
  <2>4. row \in SessionRow
    BY <2>1, <2>3 DEF SessionRow, SessionStatus
  <2>5. session' \in [Session -> SessionRow] /\ SessionsNamed'
    <3>. HIDE DEF row
    <3>1. row.principal \in Principal /\ row.presented \in Secret
      BY <2>1 DEF row
    <3>. QED  BY <2>2, <2>4, <3>1
  <2>6. [opener[o] EXCEPT !.pc = "issued"] \in OpenerState
    BY DEF OpenerState
  <2>7. [opener[o] EXCEPT !.pc = "issued"].pc = "issued"
    BY DEF OpenerState
  <2>8. opener' = [opener EXCEPT ![o] = [opener[o] EXCEPT !.pc = "issued"]]
    BY <1>4 DEF IssueSession
  <2>9. opener' \in [Opener -> OpenerState] /\ OpenersHold'
    BY <2>6, <2>7, <2>8
  <2>. QED  BY <1>0, <1>4, <2>5, <2>9 DEF IssueSession, logVars
<1>5. ASSUME PurgeExpiredSessions PROVE TypeInv'
  <2>1. ASSUME NEW t \in Session
        PROVE  /\ session'[t] \in SessionRow
               /\ session'[t].status = "unissued" <=> session[t].status = "unissued"
               /\ session'[t].principal = session[t].principal
               /\ session'[t].presented = session[t].presented
    <3>1. [session[t] EXCEPT !.status = "purged"] \in SessionRow
      BY DEF SessionRow, SessionStatus
    <3>2. [session[t] EXCEPT !.status = "purged"].status = "purged"
      BY DEF SessionRow
    <3>3. [session[t] EXCEPT !.status = "purged"].principal = session[t].principal
      BY DEF SessionRow
    <3>4. [session[t] EXCEPT !.status = "purged"].presented = session[t].presented
      BY DEF SessionRow
    <3>5. \/ session'[t] = session[t]
          \/ session[t].status = "live"
             /\ session'[t] = [session[t] EXCEPT !.status = "purged"]
      BY <1>5 DEF PurgeExpiredSessions
    <3>. QED  BY <3>1, <3>2, <3>3, <3>4, <3>5
  <2>2. session' \in [Session -> SessionRow]
    <3>1. session' = [t \in Session |-> session'[t]]
      BY <1>5 DEF PurgeExpiredSessions
    <3>. QED  BY <2>1, <3>1
  <2>3. SessionsNamed'
    BY <2>1
  <2>. QED  BY <1>0, <1>5, <2>2, <2>3 DEF PurgeExpiredSessions, logVars
<1>6. ASSUME Tick PROVE TypeInv'
  BY <1>0, <1>6 DEF Tick, logVars
<1>. QED  BY <1>1, <1>2, <1>3, <1>4, <1>5, <1>6 DEF SessionNext

LEMMA ConsumedTyped ==
  ASSUME TypeInv, NEW t \in Session, NEW k \in Nat, ConsumeDecision(t, k)
  PROVE  /\ session' \in [Session -> SessionRow]
         /\ \A u \in Session :
              /\ session'[u].status = session[u].status
              /\ session'[u].principal = session[u].principal
              /\ session'[u].presented = session[u].presented
              /\ session'[u].decisionCount =
                   IF u = t /\ ChargeApplies(t, k) THEN k + 1 ELSE session[u].decisionCount
<1>. USE DEF TypeInv, TypeOK, SessionTypeOK
<1>1. CASE ~ChargeApplies(t, k)
  BY <1>1 DEF ConsumeDecision
<1>2. CASE ChargeApplies(t, k)
  <2>. DEFINE row == [session[t] EXCEPT !.decisionCount = session[t].decisionCount + 1]
  <2>1. session' = [session EXCEPT ![t] = row]
    BY <1>2 DEF ConsumeDecision
  <2>2. session[t] \in SessionRow /\ session[t].decisionCount = k
    BY <1>2 DEF ChargeApplies
  <2>3. row \in SessionRow
    BY <2>2 DEF SessionRow
  <2>4. row.status = session[t].status
    BY <2>2 DEF SessionRow
  <2>5. row.principal = session[t].principal
    BY <2>2 DEF SessionRow
  <2>6. row.presented = session[t].presented
    BY <2>2 DEF SessionRow
  <2>7. row.decisionCount = k + 1
    BY <2>2 DEF SessionRow
  <2>. HIDE DEF row
  <2>. QED  BY <1>2, <2>1, <2>3, <2>4, <2>5, <2>6, <2>7
<1>. QED  BY <1>1, <1>2

(***************************************************************************)
(* What each step of a request writes: one record, and at most one row.    *)
(***************************************************************************)
LEMMA SubmitTyped ==
  ASSUME TypeInv, NEW r \in Request, Submit(r)
  PROVE  TypeInv'
<1>1. PICK t \in Session, u \in Code, n \in Notice \cup {None}, s \in Status,
           d \in Claim \cup {None} :
        /\ Resolves(t)
        /\ request' = [request EXCEPT ![r] =
             Asked(Resolved(t), session[t].principal, u, n, s, d)]
  BY DEF Submit
<1>2. session[t].decisionCount \in Nat /\ session[t].principal \in Principal
  BY <1>1 DEF TypeInv, TypeOK, SessionTypeOK, SessionRow, SessionsNamed, Resolves
<1>. DEFINE a == Resolved(t)
            p == session[t].principal
            v == Asked(a, p, u, n, s, d)
<1>a. a \in RequestState /\ a.pc = "charge" /\ a.session = t
  BY <1>2, ResolvedTyped
<1>b. p \in Principal
  BY <1>2
<1>. HIDE DEF a, p
<1>3. v \in RequestState /\ v.pc = "charge" /\ v.session = t
      /\ v.principal \in Principal /\ v.purpose \in Code /\ v.status \in Status
  BY <1>a, <1>b, AskedTyped
<1>. HIDE DEF v
<1>4. Filled(v)
  BY <1>3 DEF Filled
<1>5. request' \in [Request -> RequestState] /\ RequestsFilled'
  BY <1>1, <1>3, <1>4, RequestReplaced DEF a, p, v
<1>. QED  BY <1>5 DEF Submit, TypeInv, TypeOK, SessionTypeOK, OpenersHold, SessionsNamed

LEMMA ImportTyped ==
  ASSUME TypeInv, NEW r \in Request, Import(r)
  PROVE  TypeInv'
<1>1. PICK p \in Principal, u \in Code, n \in Notice \cup {None}, s \in Status,
           d \in Claim \cup {None} :
        request' = [request EXCEPT ![r] = Asked(Imported, p, u, n, s, d)]
  BY DEF Import
<1>. DEFINE v == Asked(Imported, p, u, n, s, d)
<1>2. v \in RequestState /\ v.pc = "resolve"
      /\ v.principal \in Principal /\ v.purpose \in Code /\ v.status \in Status
  BY ImportedTyped, AskedTyped
<1>. HIDE DEF v
<1>3. Filled(v)
  BY <1>2 DEF Filled
<1>4. request' \in [Request -> RequestState] /\ RequestsFilled'
  BY <1>1, <1>2, <1>3, RequestReplaced DEF v
<1>. QED  BY <1>4 DEF Import, TypeInv, TypeOK, SessionTypeOK, OpenersHold, SessionsNamed

LEMMA ChargeTyped ==
  ASSUME TypeInv, NEW r \in Request, Charge(r)
  PROVE  TypeInv'
<1>. DEFINE q == request[r]
            v == IF ChargeApplies(q.session, q.seen) THEN Charged(q)
                 ELSE Answered(q, "session_exhausted")
<1>1. q \in RequestState /\ q.pc = "charge" /\ Filled(q)
  BY DEF Charge, TypeInv, TypeOK, RequestsFilled
<1>2. request' = [request EXCEPT ![r] = v]
  BY DEF Charge
<1>3. q.session \in Session /\ q.seen \in Nat /\ ConsumeDecision(q.session, q.seen)
  BY <1>1 DEF Filled, RequestState, Charge
<1>. HIDE DEF q
<1>4. v \in RequestState /\ Filled(v)
  BY <1>1, ChargedTyped, AnsweredTyped DEF Filled, Engaged, Outcome
<1>. HIDE DEF v
<1>5. request' \in [Request -> RequestState] /\ RequestsFilled'
  BY <1>2, <1>4, RequestReplaced
<1>6. /\ session' \in [Session -> SessionRow]
      /\ \A u \in Session :
           /\ session'[u].status = session[u].status
           /\ session'[u].principal = session[u].principal
           /\ session'[u].presented = session[u].presented
  BY <1>3, ConsumedTyped
<1>. QED  BY <1>5, <1>6 DEF Charge, TypeInv, TypeOK, SessionTypeOK, OpenersHold, SessionsNamed

LEMMA ResolveTyped ==
  ASSUME TypeInv, NEW r \in Request, ResolveReferences(r)
  PROVE  TypeInv'
<1>. DEFINE q == request[r]
            v == IF ~References(q) THEN Answered(q, "refused")
                 ELSE IF secretHash[q.principal] = NoRow THEN Creating(q)
                 ELSE EnterChainLoop(q)
<1>1. q \in RequestState /\ q.pc = "resolve" /\ Filled(q)
  BY DEF ResolveReferences, TypeInv, TypeOK, RequestsFilled
<1>2. request' = [request EXCEPT ![r] = v]
  BY DEF ResolveReferences
<1>. HIDE DEF q
<1>3. v \in RequestState /\ Filled(v)
  BY <1>1, CreatingTyped, LoopTyped, AnsweredTyped DEF Filled, Engaged, Outcome, TypeInv
<1>. HIDE DEF v
<1>4. request' \in [Request -> RequestState] /\ RequestsFilled'
  BY <1>2, <1>3, RequestReplaced
<1>. QED  BY <1>4 DEF ResolveReferences, TypeInv, TypeOK, SessionTypeOK,
                      OpenersHold, SessionsNamed

LEMMA CreateTyped ==
  ASSUME TypeInv, NEW r \in Request, CreatePrincipal(r)
  PROVE  TypeInv'
<1>. DEFINE q == request[r]
            v == EnterChainLoop(q)
<1>1. q \in RequestState /\ q.pc = "create" /\ Filled(q)
  BY DEF CreatePrincipal, TypeInv, TypeOK, RequestsFilled
<1>2. request' = [request EXCEPT ![r] = v]
  BY DEF CreatePrincipal
<1>3. secretHash' \in [Principal -> Secret \cup {Unbound, NoRow}]
  BY DEF CreatePrincipal, TypeInv, TypeOK, SessionTypeOK
<1>. HIDE DEF q
<1>4. v \in RequestState /\ Filled(v)
  BY <1>1, LoopTyped DEF Filled, Engaged, TypeInv
<1>. HIDE DEF v
<1>5. request' \in [Request -> RequestState] /\ RequestsFilled'
  BY <1>2, <1>4, RequestReplaced
<1>. QED  BY <1>3, <1>5 DEF CreatePrincipal, TypeInv, TypeOK, SessionTypeOK,
                            OpenersHold, SessionsNamed

LEMMA ReadTipTyped ==
  ASSUME TypeInv, NEW r \in Request, ReadTip(r)
  PROVE  TypeInv'
<1>. DEFINE q == request[r]
<1>1. q \in RequestState /\ q.pc = "tip" /\ Filled(q)
  BY DEF ReadTip, TypeInv, TypeOK, RequestsFilled
<1>2. PICK k \in Nat, prev \in Nat \cup {None} :
        request' = [request EXCEPT ![r] = Aim(q, k, prev)]
  BY DEF ReadTip, TypeInv, TypeOK, Record
<1>. HIDE DEF q
<1>3. Aim(q, k, prev) \in RequestState /\ Filled(Aim(q, k, prev))
  BY <1>1, AimTyped, ZenonT(60) DEF Filled, Engaged
<1>4. request' \in [Request -> RequestState] /\ RequestsFilled'
  BY <1>2, <1>3, RequestReplaced
<1>. QED  BY <1>4 DEF ReadTip, TypeInv, TypeOK, SessionTypeOK, OpenersHold, SessionsNamed

LEMMA InsertTyped ==
  ASSUME TypeInv, NEW r \in Request, Insert(r)
  PROVE  TypeInv'
<1>. DEFINE q == request[r]
<1>1. q \in RequestState /\ q.pc = "insert" /\ Filled(q)
  BY DEF Insert, TypeInv, TypeOK, RequestsFilled
<1>2. RowOf(r) \in Record
  <2>1. q.principal \in Principal /\ q.purpose \in Code /\ q.status \in Status
    BY <1>1 DEF Filled, Engaged
  <2>2. q.notice \in Notice \cup {None} /\ q.decidedAt \in Nat /\ q.sequence \in Nat
        /\ q.previous \in Nat \cup {None}
    BY <1>1 DEF RequestState
  <2>3. r \in Nat /\ now \in Nat
    BY LogAssumption DEF TypeInv, TypeOK, SessionTypeOK
  <2>. QED  BY <2>1, <2>2, <2>3 DEF RowOf, Record
<1>3. log' \subseteq Record
  BY <1>2 DEF Insert, TypeInv, TypeOK
<1>4. request' = [request EXCEPT ![r] = Answered(q, "recorded")]
  BY DEF Insert
<1>. HIDE DEF q
<1>5. Answered(q, "recorded") \in RequestState /\ Filled(Answered(q, "recorded"))
  BY <1>1, AnsweredTyped DEF Filled, Engaged, Outcome
<1>6. request' \in [Request -> RequestState] /\ RequestsFilled'
  BY <1>4, <1>5, RequestReplaced
<1>. QED  BY <1>3, <1>6 DEF Insert, TypeInv, TypeOK, SessionTypeOK, OpenersHold, SessionsNamed

LEMMA CollideTyped ==
  ASSUME TypeInv, NEW r \in Request, Collide(r)
  PROVE  TypeInv'
<1>. DEFINE q == request[r]
            v == IF q.attempt + 1 = MaxAttempts THEN Answered(q, "threw") ELSE Retried(q)
<1>1. q \in RequestState /\ q.pc = "insert" /\ Filled(q)
  BY DEF Collide, TypeInv, TypeOK, RequestsFilled
<1>2. request' = [request EXCEPT ![r] = v]
  BY DEF Collide
<1>. HIDE DEF q
<1>3. v \in RequestState /\ Filled(v)
  BY <1>1, RetriedTyped, AnsweredTyped DEF Filled, Engaged, Outcome
<1>. HIDE DEF v
<1>4. request' \in [Request -> RequestState] /\ RequestsFilled'
  BY <1>2, <1>3, RequestReplaced
<1>. QED  BY <1>4 DEF Collide, TypeInv, TypeOK, SessionTypeOK, OpenersHold, SessionsNamed

LEMMA TypeInductive ==
  /\ Init => TypeInv
  /\ TypeInv /\ [Next]_vars => TypeInv'
<1>1. Init => TypeInv
  <2>1. ASSUME Init PROVE TypeInv
    <3>1. SessionTypeOK
      <4>1. Unissued \in SessionRow
        BY DEF Unissued, SessionRow, SessionStatus
      <4>2. [pc |-> "start", principal |-> NoRow, secret |-> Unbound] \in OpenerState
        BY DEF OpenerState
      <4>. QED  BY <2>1, <4>1, <4>2 DEF Init, SessionInit, SessionTypeOK
    <3>2. request \in [Request -> RequestState] /\ log \subseteq Record
      BY <2>1, IdleTyped DEF Init
    <3>3. OpenersHold
      BY <2>1 DEF Init, SessionInit, OpenersHold
    <3>4. SessionsNamed
      BY <2>1 DEF Init, SessionInit, SessionsNamed, Unissued
    <3>5. RequestsFilled
      <4>1. Filled(Idle)
        BY DEF Filled, Idle, Engaged
      <4>. QED  BY <2>1, <4>1 DEF Init, RequestsFilled
    <3>. QED  BY <3>1, <3>2, <3>3, <3>4, <3>5 DEF TypeInv, TypeOK
  <2>. QED  BY <2>1
<1>2. TypeInv /\ [Next]_vars => TypeInv'
  <2>1. ASSUME TypeInv, UNCHANGED vars PROVE TypeInv'
    BY <2>1 DEF vars, TypeInv, TypeOK, SessionTypeOK, OpenersHold, SessionsNamed,
                RequestsFilled
  <2>. QED  BY <2>1, SessionStepTyped, SubmitTyped, ImportTyped, ChargeTyped,
               ResolveTyped, CreateTyped, ReadTipTyped, InsertTyped, CollideTyped
            DEF Next, Serve
<1>. QED  BY <1>1, <1>2

\* Every process keeps to its control states, and holds a principal, a secret, a
\* session and a matter whenever its next step uses them.
THEOREM TypeCorrect == Spec => []TypeOK
<1>1. TypeInv => TypeOK
  BY DEF TypeInv
<1>. QED  BY <1>1, TypeInductive, PTL DEF Spec

LEMMA TypeAlways == Spec => []TypeInv
BY TypeInductive, PTL DEF Spec

(***************************************************************************)
(* What the steps of a request do to its history fields, whoever takes     *)
(* them: the facts the invariants below share.                             *)
(***************************************************************************)
Entering(r) == Submit(r) \/ Import(r)

Writing(r) ==
  ResolveReferences(r) \/ CreatePrincipal(r) \/ ReadTip(r) \/ Insert(r) \/ Collide(r)

LEMMA OthersStand ==
  ASSUME TypeInv, NEW r \in Request, Entering(r) \/ Charge(r) \/ Writing(r)
  PROVE  \A s \in Request \ {r} : request'[s] = request[s]
<1>1. request \in [Request -> RequestState]
  BY DEF TypeInv, TypeOK
<1>2. ASSUME NEW v, request' = [request EXCEPT ![r] = v]
      PROVE  \A s \in Request \ {r} : request'[s] = request[s]
  BY <1>1, <1>2
<1>3. CASE Entering(r)
  BY <1>2, <1>3 DEF Entering, Submit, Import
<1>4. CASE Charge(r)
  BY <1>2, <1>4 DEF Charge
<1>5. CASE ResolveReferences(r)
  BY <1>2, <1>5 DEF ResolveReferences
<1>6. CASE CreatePrincipal(r)
  BY <1>2, <1>6 DEF CreatePrincipal
<1>7. CASE ReadTip(r)
  BY <1>2, <1>7 DEF ReadTip
<1>8. CASE Insert(r)
  BY <1>2, <1>8 DEF Insert
<1>9. CASE Collide(r)
  BY <1>2, <1>9 DEF Collide
<1>. QED  BY <1>3, <1>4, <1>5, <1>6, <1>7, <1>8, <1>9 DEF Writing

\* A request enters uncharged; through the route, on a session that resolved.
LEMMA EnteringStep ==
  ASSUME TypeInv, NEW r \in Request, Entering(r)
  PROVE  /\ request'[r].slot = 0
         /\ request'[r].attempt = 0
         /\ request'[r].pc \in {"charge", "resolve"}
         /\ request'[r].pc = "charge" =>
              /\ request'[r].session \in Session
              /\ Resolves(request'[r].session)
              /\ request'[r].seen = session[request'[r].session].decisionCount
              /\ request'[r].principal = session[request'[r].session].principal
         /\ r \notin Direct /\ request'[r].claimed # None => request'[r].claimed <= now + Skew
         /\ UNCHANGED <<session, log, now, secretHash, opener>>
         /\ \/ secretHash[request'[r].principal] # NoRow
            \/ request'[r].principal \notin Mintable
            \/ request'[r].pc = "charge"
<1>0. request \in [Request -> RequestState]
  BY DEF TypeInv, TypeOK
<1>1. CASE Submit(r)
  <2>1. PICK t \in Session, u \in Code, n \in Notice \cup {None}, s \in Status,
             d \in Claim \cup {None} :
          /\ Resolves(t)
          /\ DateAccepted(d)
          /\ request' = [request EXCEPT ![r] =
               Asked(Resolved(t), session[t].principal, u, n, s, d)]
    BY <1>1 DEF Submit
  <2>2. session[t].decisionCount \in Nat /\ session[t].principal \in Principal
    BY <2>1 DEF TypeInv, TypeOK, SessionTypeOK, SessionRow, SessionsNamed, Resolves
  <2>. DEFINE a == Resolved(t)
              p == session[t].principal
              v == Asked(a, p, u, n, s, d)
  <2>3. /\ a \in RequestState /\ a.pc = "charge" /\ a.session = t
        /\ a.slot = 0 /\ a.attempt = 0 /\ a.seen = session[t].decisionCount
    BY <2>2, ResolvedTyped
  <2>4. p \in Principal
    BY <2>2
  <2>5. request' = [request EXCEPT ![r] = v]
    BY <2>1
  <2>. HIDE DEF a, p
  <2>a. v.pc = a.pc /\ v.session = a.session /\ v.slot = a.slot
    BY <2>3, <2>4, AskedTyped
  <2>b. v.attempt = a.attempt /\ v.seen = a.seen
    BY <2>3, <2>4, AskedTyped
  <2>c. v.claimed = d /\ v.principal = p
    BY <2>3, <2>4, AskedTyped
  <2>6. /\ v.pc = "charge" /\ v.session = t /\ v.slot = 0 /\ v.attempt = 0
        /\ v.seen = session[t].decisionCount /\ v.claimed = d
        /\ v.principal = session[t].principal
    BY <2>3, <2>a, <2>b, <2>c DEF p
  <2>. HIDE DEF v
  <2>7. request'[r] = v
    BY <1>0, <2>5
  <2>8. UNCHANGED <<session, log, now, secretHash, opener>>
    BY <1>1 DEF Submit
  <2>. QED  BY <2>1, <2>6, <2>7, <2>8 DEF DateAccepted
<1>2. CASE Import(r)
  <2>1. PICK p \in Principal, u \in Code, n \in Notice \cup {None}, s \in Status,
             d \in Claim \cup {None} :
          /\ p \in Mintable => secretHash[p] # NoRow
          /\ request' = [request EXCEPT ![r] = Asked(Imported, p, u, n, s, d)]
    BY <1>2 DEF Import
  <2>. DEFINE v == Asked(Imported, p, u, n, s, d)
  <2>a. v.pc = Imported.pc /\ v.slot = Imported.slot
    BY ImportedTyped, AskedTyped
  <2>b. v.attempt = Imported.attempt
    BY ImportedTyped, AskedTyped
  <2>c. v.claimed = d /\ v.principal = p
    BY ImportedTyped, AskedTyped
  <2>2. /\ v.pc = "resolve" /\ v.slot = 0 /\ v.attempt = 0
        /\ v.claimed = d /\ v.principal = p
    BY <2>a, <2>b, <2>c, ImportedTyped
  <2>. HIDE DEF v
  <2>3. request'[r] = v
    BY <1>0, <2>1 DEF v
  <2>4. r \in Direct
    BY <1>2 DEF Import
  <2>5. UNCHANGED <<session, log, now, secretHash, opener>>
    BY <1>2 DEF Import
  <2>. QED  BY <2>1, <2>2, <2>3, <2>4, <2>5
<1>. QED  BY <1>1, <1>2 DEF Entering

\* Nothing after the charge touches the charge, the session or the principal.
LEMMA WritingStep ==
  ASSUME TypeInv, NEW r \in Request, Writing(r)
  PROVE  /\ request'[r].slot = request[r].slot
         /\ request'[r].session = request[r].session
         /\ request'[r].principal = request[r].principal
         /\ request'[r].pc # "charge"
         /\ UNCHANGED <<session, now, opener>>
<1>0. request \in [Request -> RequestState]
  BY DEF TypeInv, TypeOK
<1>. DEFINE q == request[r]
<1>1. q \in RequestState
  BY <1>0
<1>2. ASSUME NEW v, request' = [request EXCEPT ![r] = v]
      PROVE  request'[r] = v
  BY <1>0, <1>2
<1>3. CASE ResolveReferences(r)
  <2>. DEFINE v == IF ~References(q) THEN Answered(q, "refused")
                   ELSE IF secretHash[q.principal] = NoRow THEN Creating(q)
                   ELSE EnterChainLoop(q)
  <2>1. request'[r] = v
    BY <1>2, <1>3 DEF ResolveReferences
  <2>2. UNCHANGED <<session, now, opener>>
    BY <1>3 DEF ResolveReferences
  <2>. HIDE DEF q
  <2>3. v.slot = q.slot /\ v.session = q.session /\ v.principal = q.principal
        /\ v.pc # "charge"
    BY <1>1, AnsweredTyped, CreatingTyped, LoopTyped DEF Outcome, TypeInv
  <2>. HIDE DEF v
  <2>. QED  BY <2>1, <2>2, <2>3 DEF q
<1>4. CASE CreatePrincipal(r)
  <2>1. request'[r] = EnterChainLoop(q)
    BY <1>2, <1>4 DEF CreatePrincipal
  <2>2. UNCHANGED <<session, now, opener>>
    BY <1>4 DEF CreatePrincipal
  <2>. QED  BY <1>1, <2>1, <2>2, LoopTyped DEF TypeInv
<1>5. CASE ReadTip(r)
  <2>1. PICK k \in Nat, prev \in Nat \cup {None} :
          request' = [request EXCEPT ![r] = Aim(q, k, prev)]
    BY <1>5 DEF ReadTip, TypeInv, TypeOK, Record
  <2>2. request'[r] = Aim(q, k, prev)
    BY <1>2, <2>1
  <2>3. UNCHANGED <<session, now, opener>>
    BY <1>5 DEF ReadTip
  <2>. HIDE DEF q
  <2>4. Aim(q, k, prev).slot = q.slot /\ Aim(q, k, prev).session = q.session
        /\ Aim(q, k, prev).principal = q.principal /\ Aim(q, k, prev).pc = "insert"
    BY <1>1, AimTyped
  <2>. QED  BY <2>2, <2>3, <2>4 DEF q
<1>6. CASE Insert(r)
  <2>1. request'[r] = Answered(q, "recorded")
    BY <1>2, <1>6 DEF Insert
  <2>2. UNCHANGED <<session, now, opener>>
    BY <1>6 DEF Insert
  <2>. QED  BY <1>1, <2>1, <2>2, AnsweredTyped DEF Outcome
<1>7. CASE Collide(r)
  <2>. DEFINE v == IF q.attempt + 1 = MaxAttempts THEN Answered(q, "threw") ELSE Retried(q)
  <2>1. request'[r] = v
    BY <1>2, <1>7 DEF Collide
  <2>2. UNCHANGED <<session, now, opener>>
    BY <1>7 DEF Collide
  <2>. HIDE DEF q
  <2>3. v.slot = q.slot /\ v.session = q.session /\ v.principal = q.principal
        /\ v.pc # "charge"
    BY <1>1, AnsweredTyped, RetriedTyped DEF Outcome
  <2>. HIDE DEF v
  <2>. QED  BY <2>1, <2>2, <2>3 DEF q
<1>. QED  BY <1>3, <1>4, <1>5, <1>6, <1>7 DEF Writing

(***************************************************************************)
(* Charging. A charge is a position in its session's count, at most the    *)
(* count itself; a request about to charge read a count below the cap, and *)
(* charges only if the count is still that one.                            *)
(***************************************************************************)
SoundCharge(q) ==
  /\ q.pc = "charge" => q.seen < MaxDecisions
  /\ q.slot > 0 =>
       /\ q.session \in Session
       /\ session[q.session].status # "unissued"
       /\ q.slot <= session[q.session].decisionCount
       /\ q.slot <= MaxDecisions

ChargeInv == TypeInv /\ ChargedOnce /\ \A r \in Request : SoundCharge(request[r])

\* Sessions are issued from rows nobody was charged to, and their count never
\* falls.
LEMMA CountsGrow ==
  ASSUME TypeInv, SessionNext
  PROVE  \A t \in Session : session[t].status # "unissued" =>
           /\ session'[t].status # "unissued"
           /\ session'[t].decisionCount = session[t].decisionCount
<1>. USE DEF TypeInv, TypeOK, SessionTypeOK
<1>1. ASSUME NEW o \in Opener, IssueSession(o)
      PROVE  \A t \in Session : session[t].status # "unissued" => session'[t] = session[t]
  <2>1. PICK t \in Session :
          /\ session[t].status = "unissued"
          /\ session' = [session EXCEPT ![t] =
               [status |-> "live", principal |-> opener[o].principal,
                presented |-> opener[o].secret,
                expiresAt |-> now + Ttl, decisionCount |-> 0]]
    BY <1>1 DEF IssueSession
  <2>. QED  BY <2>1
<1>2. ASSUME PurgeExpiredSessions, NEW t \in Session, session[t].status # "unissued"
      PROVE  /\ session'[t].status # "unissued"
             /\ session'[t].decisionCount = session[t].decisionCount
  <2>1. [session[t] EXCEPT !.status = "purged"].status = "purged"
    BY DEF SessionRow
  <2>2. [session[t] EXCEPT !.status = "purged"].decisionCount = session[t].decisionCount
    BY DEF SessionRow
  <2>3. \/ session'[t] = session[t]
        \/ session'[t] = [session[t] EXCEPT !.status = "purged"]
    BY <1>2 DEF PurgeExpiredSessions
  <2>. QED  BY <1>2, <2>1, <2>2, <2>3
<1>. QED  BY <1>1, <1>2 DEF SessionNext, MintPrincipal, LookupPrincipal, AdoptSecret, Tick

\* No two requests hold the same charge and no charge lies beyond the cap: a
\* session token records at most MaxDecisions decisions, whatever the number of
\* requests racing on it (consumeConsentSessionDecision).
THEOREM ChargesDistinct == Spec => []ChargedOnce
<1>1. Init => ChargeInv
  <2>. SUFFICES ASSUME Init PROVE ChargeInv
    OBVIOUS
  <2>1. Idle.pc = "start"
    BY DEF Idle
  <2>2. Idle.slot = 0
    BY DEF Idle
  <2>3. \A r \in Request : request[r].pc = "start" /\ request[r].slot = 0
    BY <2>1, <2>2 DEF Init
  <2>4. \A r \in Request : SoundCharge(request[r])
    BY <2>3 DEF SoundCharge
  <2>5. ChargedOnce
    BY <2>3 DEF ChargedOnce
  <2>. QED  BY <2>4, <2>5, TypeInductive DEF ChargeInv
<1>2. ChargeInv /\ [Next]_vars => ChargeInv'
  <2>. SUFFICES ASSUME ChargeInv, [Next]_vars PROVE ChargeInv'
    OBVIOUS
  <2>0. TypeInv /\ TypeInv'
    BY TypeInductive DEF ChargeInv
  <2>t. /\ \A r \in Request : request[r].slot \in Nat /\ request'[r].slot \in Nat
        /\ \A t \in Session : session[t].decisionCount \in Nat
        /\ MaxDecisions \in Nat
    BY <2>0, SessionsAssumption
       DEF TypeInv, TypeOK, SessionTypeOK, RequestState, SessionRow
  <2>1. CASE UNCHANGED vars
    BY <2>1, <2>0 DEF ChargeInv, ChargedOnce, SoundCharge, vars
  <2>2. CASE SessionNext /\ UNCHANGED logVars
    BY <2>2, <2>0, CountsGrow DEF ChargeInv, ChargedOnce, SoundCharge, logVars
  <2>3. ASSUME NEW r \in Request, Entering(r) PROVE ChargeInv'
    <3>1. \A s \in Request \ {r} : request'[s] = request[s]
      BY <2>0, <2>3, OthersStand
    <3>2. request'[r].slot = 0 /\ session' = session
      BY <2>0, <2>3, EnteringStep
    <3>3. SoundCharge(request[r])' 
      <4>1. request'[r].pc = "charge" => request'[r].seen < MaxDecisions
        BY <2>0, <2>3, EnteringStep DEF Resolves
      <4>. QED  BY <3>2, <4>1 DEF SoundCharge
    <3>4. \A s \in Request : SoundCharge(request[s])'
      BY <3>1, <3>2, <3>3 DEF ChargeInv, SoundCharge
    <3>5. ChargedOnce'
      BY <3>1, <3>2 DEF ChargeInv, ChargedOnce
    <3>. QED  BY <2>0, <3>4, <3>5 DEF ChargeInv
  <2>4. ASSUME NEW r \in Request, Charge(r) PROVE ChargeInv'
    <3>. DEFINE q == request[r]
    <3>1. \A s \in Request \ {r} : request'[s] = request[s]
      BY <2>0, <2>4, OthersStand
    <3>2. q \in RequestState /\ q.pc = "charge" /\ q.session \in Session /\ q.seen \in Nat
      BY <2>0, <2>4 DEF Charge, TypeInv, TypeOK, RequestsFilled, Filled, RequestState
    <3>3. request'[r] = IF ChargeApplies(q.session, q.seen) THEN Charged(q)
                        ELSE Answered(q, "session_exhausted")
      BY <2>0, <2>4 DEF Charge, TypeInv, TypeOK
    <3>4. ConsumeDecision(q.session, q.seen)
      BY <2>4 DEF Charge
    <3>5. q.seen < MaxDecisions /\ SoundCharge(q)
      BY <3>2 DEF ChargeInv, SoundCharge
    <3>. HIDE DEF q
    <3>6. \A u \in Session :
            /\ session'[u].status = session[u].status
            /\ session'[u].decisionCount =
                 IF u = q.session /\ ChargeApplies(q.session, q.seen)
                 THEN q.seen + 1 ELSE session[u].decisionCount
      BY <2>0, <3>2, <3>4, ConsumedTyped
    <3>7. CASE ChargeApplies(q.session, q.seen)
      <4>1. session[q.session].decisionCount = q.seen
            /\ session[q.session].status # "unissued"
        BY <3>7 DEF ChargeApplies
      <4>2. request'[r].slot = q.seen + 1 /\ request'[r].session = q.session
            /\ request'[r].pc = "resolve"
        BY <3>2, <3>3, <3>7, ChargedTyped
      <4>3. SoundCharge(request[r])'
        BY <3>2, <3>5, <3>6, <3>7, <4>1, <4>2, <2>t DEF SoundCharge
      <4>4. ASSUME NEW s \in Request \ {r} PROVE SoundCharge(request[s])'
        <5>1. SoundCharge(request[s]) /\ request'[s] = request[s]
          BY <3>1 DEF ChargeInv
        <5>2. \A u \in Session : session[u].decisionCount <= session'[u].decisionCount
          BY <3>2, <3>6, <4>1, <2>t
        <5>3. \A u \in Session : session'[u].status = session[u].status
                                 /\ session'[u].decisionCount \in Nat
          BY <3>2, <3>6, <2>t
        <5>. QED  BY <5>1, <5>2, <5>3, <2>t DEF SoundCharge
      <4>5. \A s \in Request \ {r} :
              request[s].slot > 0 /\ request[s].session = q.session
                => request[s].slot <= q.seen
        BY <4>1 DEF ChargeInv, SoundCharge
      <4>6. ChargedOnce'
        <5>. SUFFICES ASSUME NEW x \in Request, NEW y \in Request,
                             request'[x].slot > 0, request'[y].slot > 0,
                             request'[x].session = request'[y].session
                      PROVE  /\ request'[x].slot <= MaxDecisions
                             /\ request'[x].slot = request'[y].slot => x = y
          BY DEF ChargedOnce
        <5>1. CASE x = r /\ y = r
          BY <5>1, <4>3, <2>t DEF SoundCharge
        <5>2. CASE x = r /\ y # r
          BY <5>2, <3>1, <3>2, <3>5, <4>2, <4>5, <2>t
        <5>3. CASE x # r /\ y = r
          <6>1. request'[x].slot <= q.seen
            BY <5>3, <3>1, <4>2, <4>5
          <6>. QED  BY <5>3, <6>1, <3>2, <3>5, <4>2, <2>t
        <5>4. CASE x # r /\ y # r
          BY <5>4, <3>1 DEF ChargeInv, ChargedOnce
        <5>. QED  BY <5>1, <5>2, <5>3, <5>4
      <4>. QED  BY <2>0, <4>3, <4>4, <4>6 DEF ChargeInv
    <3>8. CASE ~ChargeApplies(q.session, q.seen)
      <4>1. request'[r].slot = q.slot /\ request'[r].session = q.session
            /\ request'[r].pc # "charge"
        BY <3>2, <3>3, <3>8, AnsweredTyped DEF Outcome
      <4>2. \A u \in Session : /\ session'[u].status = session[u].status
                               /\ session'[u].decisionCount = session[u].decisionCount
        BY <3>6, <3>8
      <4>3. \A s \in Request : SoundCharge(request[s])'
        BY <3>1, <3>5, <4>1, <4>2 DEF ChargeInv, SoundCharge
      <4>4. ChargedOnce'
        BY <3>1, <4>1 DEF ChargeInv, ChargedOnce, q
      <4>. QED  BY <2>0, <4>3, <4>4 DEF ChargeInv
    <3>. QED  BY <3>7, <3>8
  <2>5. ASSUME NEW r \in Request, Writing(r) PROVE ChargeInv'
    <3>1. \A s \in Request \ {r} : request'[s] = request[s]
      BY <2>0, <2>5, OthersStand
    <3>2. /\ request'[r].slot = request[r].slot /\ request'[r].session = request[r].session
          /\ request'[r].pc # "charge" /\ session' = session
      BY <2>0, <2>5, WritingStep
    <3>3. \A s \in Request : SoundCharge(request[s])'
      BY <3>1, <3>2 DEF ChargeInv, SoundCharge
    <3>4. ChargedOnce'
      BY <3>1, <3>2 DEF ChargeInv, ChargedOnce
    <3>. QED  BY <2>0, <3>3, <3>4 DEF ChargeInv
  <2>. QED  BY <2>1, <2>2, <2>3, <2>4, <2>5 DEF Next, Serve, Entering, Writing
<1>3. ChargeInv => ChargedOnce
  BY DEF ChargeInv
<1>. QED  BY <1>1, <1>2, <1>3, PTL DEF Spec

(***************************************************************************)
(* Secrets. Once a principal is minted its secret stands: an opener about  *)
(* to bind holds an imported principal, one about to issue on a minted     *)
(* principal showed the stored secret, and a request on a minted principal *)
(* finds its row, so that nothing writes the row again.                    *)
(***************************************************************************)
OpenerProves(o) ==
  opener[o].principal \in Mintable =>
    /\ opener[o].pc # "bind"
    /\ opener[o].pc = "issue" => opener[o].secret = secretHash[opener[o].principal]

SessionProves(t) ==
  session[t].status # "unissued" /\ session[t].principal \in Mintable
    => session[t].presented = secretHash[session[t].principal]

FindsRow(q) ==
  q.pc \in Engaged /\ q.principal \in Mintable => secretHash[q.principal] # NoRow

MintedBound == \A p \in Mintable : secretHash[p] # Unbound

SecretInv ==
  /\ TypeInv /\ MintedBound
  /\ \A o \in Opener : OpenerProves(o)
  /\ \A t \in Session : SessionProves(t)
  /\ \A r \in Request : FindsRow(request[r])

\* The secret of a minted principal is never written again.
SecretsStand == \A p \in Mintable : secretHash[p] # NoRow => secretHash'[p] = secretHash[p]

\* Steps that leave the openers and the sessions' principals alone, and no
\* minted principal's row, preserve what openers and sessions prove.
LEMMA SecretsKept ==
  ASSUME SecretInv, UNCHANGED opener,
         \A p \in Mintable : secretHash'[p] = secretHash[p],
         \A t \in Session : /\ session'[t].status = "unissued" <=> session[t].status = "unissued"
                            /\ session'[t].principal = session[t].principal
                            /\ session'[t].presented = session[t].presented
  PROVE  /\ MintedBound'
         /\ \A o \in Opener : OpenerProves(o)'
         /\ \A t \in Session : SessionProves(t)'
<1>1. MintedBound'
  BY DEF SecretInv, MintedBound
<1>2. \A o \in Opener : OpenerProves(o)'
  BY DEF SecretInv, OpenerProves
<1>3. \A t \in Session : SessionProves(t)'
  BY DEF SecretInv, SessionProves
<1>. QED  BY <1>1, <1>2, <1>3

LEMMA SessionStepKeepsSecrets ==
  ASSUME SecretInv, TypeInv', SessionNext, UNCHANGED logVars
  PROVE  SecretInv'
<1>t. /\ secretHash \in [Principal -> Secret \cup {Unbound, NoRow}]
      /\ session \in [Session -> SessionRow]
      /\ opener \in [Opener -> OpenerState]
      /\ OpenersHold /\ SessionsNamed
      /\ Mintable \subseteq Principal
      /\ NoRow \notin Secret /\ Unbound \notin Secret /\ Unbound # NoRow
  BY SessionsAssumption DEF SecretInv, TypeInv, TypeOK, SessionTypeOK
<1>r. ASSUME SecretsStand PROVE \A r \in Request : FindsRow(request[r])'
  BY <1>r DEF SecretInv, FindsRow, SecretsStand, logVars
<1>1. ASSUME NEW o \in Opener, MintPrincipal(o) PROVE SecretInv'
  <2>1. PICK p \in Mintable, s \in Secret :
          /\ secretHash[p] = NoRow
          /\ secretHash' = [secretHash EXCEPT ![p] = s]
          /\ opener' = [opener EXCEPT ![o] =
                          [pc |-> "issue", principal |-> p, secret |-> s]]
    BY <1>1 DEF MintPrincipal
  <2>2. secretHash'[p] = s /\ \A u \in Principal \ {p} : secretHash'[u] = secretHash[u]
    BY <1>t, <2>1
  <2>3. session' = session
    BY <1>1 DEF MintPrincipal
  <2>4. MintedBound'
    BY <1>t, <2>2 DEF SecretInv, MintedBound
  <2>5. ASSUME NEW x \in Opener PROVE OpenerProves(x)'
    <3>1. CASE x = o
      BY <1>t, <2>1, <2>2, <3>1 DEF OpenerProves
    <3>2. CASE x # o
      <4>1. opener'[x] = opener[x]
        BY <1>t, <2>1, <3>2
      <4>2. OpenerProves(x)
        BY DEF SecretInv
      <4>3. opener[x].pc = "issue" => opener[x].secret \in Secret
        BY <1>t DEF OpenersHold
      <4>. QED  BY <1>t, <2>1, <2>2, <4>1, <4>2, <4>3 DEF OpenerProves
    <3>. QED  BY <3>1, <3>2
  <2>6. ASSUME NEW t \in Session PROVE SessionProves(t)'
    <3>1. SessionProves(t)
      BY DEF SecretInv
    <3>2. session[t].status # "unissued" => session[t].presented \in Secret
      BY <1>t DEF SessionsNamed
    <3>. QED  BY <1>t, <2>1, <2>2, <2>3, <3>1, <3>2 DEF SessionProves
  <2>7. SecretsStand
    BY <1>t, <2>1, <2>2 DEF SecretsStand
  <2>. QED  BY <1>r, <2>4, <2>5, <2>6, <2>7 DEF SecretInv
<1>2. ASSUME NEW o \in Opener, LookupPrincipal(o) PROVE SecretInv'
  <2>1. PICK p \in Principal, s \in Secret :
          opener' = [opener EXCEPT ![o] =
                       [pc |-> AfterLookup(secretHash[p], s),
                        principal |-> p, secret |-> s]]
    BY <1>2 DEF LookupPrincipal
  <2>2. secretHash' = secretHash /\ session' = session
    BY <1>2 DEF LookupPrincipal
  <2>3. /\ AfterLookup(secretHash[p], s) = "issue" => secretHash[p] = s
        /\ AfterLookup(secretHash[p], s) = "bind" => secretHash[p] = Unbound
    BY DEF AfterLookup
  <2>4. ASSUME NEW x \in Opener PROVE OpenerProves(x)'
    <3>1. CASE x = o
      <4>1. /\ opener'[x].pc = AfterLookup(secretHash[p], s)
            /\ opener'[x].principal = p /\ opener'[x].secret = s
        BY <1>t, <2>1, <3>1
      <4>. QED  BY <2>2, <2>3, <4>1 DEF OpenerProves, SecretInv, MintedBound
    <3>2. CASE x # o
      BY <1>t, <2>1, <2>2, <3>2 DEF OpenerProves, SecretInv
    <3>. QED  BY <3>1, <3>2
  <2>5. SecretsStand
    BY <2>2 DEF SecretsStand
  <2>. QED  BY <1>r, <2>2, <2>4, <2>5 DEF SecretInv, MintedBound, SessionProves
<1>3. ASSUME NEW o \in Opener, AdoptSecret(o) PROVE SecretInv'
  <2>1. opener[o].pc = "bind" /\ opener[o].principal \notin Mintable
    BY <1>3 DEF AdoptSecret, SecretInv, OpenerProves
  <2>2. \A p \in Mintable : secretHash'[p] = secretHash[p]
    BY <1>t, <1>3, <2>1 DEF AdoptSecret
  <2>3. session' = session
    BY <1>3 DEF AdoptSecret
  <2>4. ASSUME NEW x \in Opener
        PROVE  /\ opener'[x].principal = opener[x].principal
               /\ opener'[x].secret = opener[x].secret
               /\ x # o => opener'[x].pc = opener[x].pc
    BY <1>t, <1>3 DEF AdoptSecret, OpenerState
  <2>5. \A x \in Opener : OpenerProves(x)'
    BY <2>1, <2>2, <2>4 DEF SecretInv, OpenerProves
  <2>6. MintedBound' /\ \A t \in Session : SessionProves(t)'
    BY <2>2, <2>3 DEF SecretInv, MintedBound, SessionProves
  <2>7. SecretsStand
    BY <2>2 DEF SecretsStand
  <2>. QED  BY <1>r, <2>5, <2>6, <2>7 DEF SecretInv
<1>4. ASSUME NEW o \in Opener, IssueSession(o) PROVE SecretInv'
  <2>1. PICK t \in Session :
          session' = [session EXCEPT ![t] =
            [status |-> "live", principal |-> opener[o].principal,
             presented |-> opener[o].secret,
             expiresAt |-> now + Ttl, decisionCount |-> 0]]
    BY <1>4 DEF IssueSession
  <2>2. secretHash' = secretHash /\ opener[o].pc = "issue" /\ OpenerProves(o)
    BY <1>4 DEF IssueSession, SecretInv
  <2>3. ASSUME NEW u \in Session PROVE SessionProves(u)'
    <3>1. CASE u = t
      <4>1. session'[u].principal = opener[o].principal
            /\ session'[u].presented = opener[o].secret
        BY <1>t, <2>1, <3>1
      <4>. QED  BY <2>2, <4>1 DEF SessionProves, OpenerProves
    <3>2. CASE u # t
      BY <1>t, <2>1, <2>2, <3>2 DEF SecretInv, SessionProves
    <3>. QED  BY <3>1, <3>2
  <2>4. ASSUME NEW x \in Opener PROVE OpenerProves(x)'
    <3>1. /\ opener'[x].principal = opener[x].principal
          /\ opener'[x].secret = opener[x].secret
          /\ opener'[x].pc = IF x = o THEN "issued" ELSE opener[x].pc
      BY <1>t, <1>4 DEF IssueSession, OpenerState
    <3>. QED  BY <2>2, <3>1 DEF SecretInv, OpenerProves
  <2>5. SecretsStand
    BY <2>2 DEF SecretsStand
  <2>. QED  BY <1>r, <2>2, <2>3, <2>4, <2>5 DEF SecretInv, MintedBound
<1>5. ASSUME PurgeExpiredSessions PROVE SecretInv'
  <2>1. UNCHANGED <<secretHash, opener>>
    BY <1>5 DEF PurgeExpiredSessions
  <2>2. ASSUME NEW t \in Session
        PROVE  /\ session'[t].status = "unissued" <=> session[t].status = "unissued"
               /\ session'[t].principal = session[t].principal
               /\ session'[t].presented = session[t].presented
    <3>1. \/ session'[t] = session[t]
          \/ session[t].status = "live"
             /\ session'[t] = [session[t] EXCEPT !.status = "purged"]
      BY <1>5 DEF PurgeExpiredSessions
    <3>. QED  BY <1>t, <3>1 DEF SessionRow
  <2>3. SecretsStand
    BY <2>1 DEF SecretsStand
  <2>. QED  BY <1>r, <2>1, <2>2, <2>3, SecretsKept DEF SecretInv
<1>6. ASSUME Tick PROVE SecretInv'
  BY <1>6 DEF Tick, SecretInv, MintedBound, OpenerProves, SessionProves, FindsRow, logVars
<1>. QED  BY <1>1, <1>2, <1>3, <1>4, <1>5, <1>6 DEF SessionNext

\* A session on a minted principal proves the secret it was minted with, whatever
\* openers, requests and imports race on the rows (openConsentSession).
THEOREM SecretsProved == Spec => []SessionProvesSecret
<1>1. Init => SecretInv
  <2>. SUFFICES ASSUME Init PROVE SecretInv
    OBVIOUS
  <2>1. \A p \in Mintable : secretHash[p] = NoRow
    BY DEF Init, SessionInit
  <2>2. \A o \in Opener : opener[o].pc = "start"
    BY DEF Init, SessionInit
  <2>3. \A t \in Session : session[t].status = "unissued"
    BY DEF Init, SessionInit, Unissued
  <2>4. \A r \in Request : request[r].pc \notin Engaged
    BY DEF Init, Idle, Engaged
  <2>. QED  BY <2>1, <2>2, <2>3, <2>4, TypeInductive, SessionsAssumption
            DEF SecretInv, MintedBound, OpenerProves, SessionProves, FindsRow
<1>2. SecretInv /\ [Next]_vars => SecretInv'
  <2>. SUFFICES ASSUME SecretInv, [Next]_vars PROVE SecretInv'
    OBVIOUS
  <2>0. TypeInv /\ TypeInv'
    BY TypeInductive DEF SecretInv
  <2>s. \A t \in Session :
          /\ session[t].status # "unissued" => session[t].presented \in Secret
          /\ NoRow \notin Secret
    BY <2>0, SessionsAssumption DEF TypeInv, SessionsNamed
  <2>1. CASE UNCHANGED vars
    BY <2>1, <2>0 DEF SecretInv, MintedBound, OpenerProves, SessionProves, FindsRow, vars
  <2>2. CASE SessionNext /\ UNCHANGED logVars
    BY <2>2, <2>0, SessionStepKeepsSecrets
  <2>3. ASSUME NEW r \in Request, Entering(r) PROVE SecretInv'
    <3>1. \A s \in Request \ {r} : request'[s] = request[s]
      BY <2>0, <2>3, OthersStand
    <3>2. UNCHANGED <<session, secretHash, opener>>
      BY <2>0, <2>3, EnteringStep
    <3>3. FindsRow(request[r])'
      <4>1. CASE request'[r].pc = "charge"
        <5>. DEFINE t == request'[r].session
        <5>1. /\ t \in Session /\ session[t].status # "unissued"
              /\ request'[r].principal = session[t].principal
          BY <2>0, <2>3, <4>1, EnteringStep DEF Resolves
        <5>2. SessionProves(t)
          BY <5>1 DEF SecretInv
        <5>. QED  BY <2>s, <3>2, <5>1, <5>2 DEF FindsRow, SessionProves
      <4>2. CASE request'[r].pc # "charge"
        BY <2>0, <2>3, <3>2, <4>2, EnteringStep DEF FindsRow
      <4>. QED  BY <4>1, <4>2
    <3>4. \A s \in Request : FindsRow(request[s])'
      BY <3>1, <3>2, <3>3 DEF SecretInv, FindsRow
    <3>. QED  BY <2>0, <3>2, <3>4, SecretsKept DEF SecretInv
  <2>4. ASSUME NEW r \in Request, Charge(r) PROVE SecretInv'
    <3>. DEFINE q == request[r]
    <3>1. \A s \in Request \ {r} : request'[s] = request[s]
      BY <2>0, <2>4, OthersStand
    <3>2. q \in RequestState /\ q.pc = "charge" /\ q.session \in Session /\ q.seen \in Nat
      BY <2>0, <2>4 DEF Charge, TypeInv, TypeOK, RequestsFilled, Filled, RequestState
    <3>3. request'[r] = IF ChargeApplies(q.session, q.seen) THEN Charged(q)
                        ELSE Answered(q, "session_exhausted")
      BY <2>0, <2>4 DEF Charge, TypeInv, TypeOK
    <3>4. UNCHANGED <<secretHash, opener>> /\ ConsumeDecision(q.session, q.seen)
      BY <2>4 DEF Charge
    <3>5. FindsRow(q)
      BY DEF SecretInv
    <3>. HIDE DEF q
    <3>6. request'[r].principal = q.principal
      BY <3>2, <3>3, ChargedTyped, AnsweredTyped DEF Outcome
    <3>7. q.pc \in Engaged
      BY <3>2 DEF Engaged
    <3>8. \A u \in Session :
            /\ session'[u].status = session[u].status
            /\ session'[u].principal = session[u].principal
            /\ session'[u].presented = session[u].presented
      BY <2>0, <3>2, <3>4, ConsumedTyped
    <3>9. \A s \in Request : FindsRow(request[s])'
      BY <3>1, <3>4, <3>5, <3>6, <3>7 DEF SecretInv, FindsRow
    <3>. QED  BY <2>0, <3>4, <3>8, <3>9, SecretsKept DEF SecretInv
  <2>5. ASSUME NEW r \in Request, Writing(r) PROVE SecretInv'
    <3>1. \A s \in Request \ {r} : request'[s] = request[s]
      BY <2>0, <2>5, OthersStand
    <3>2. request'[r].principal = request[r].principal /\ UNCHANGED <<session, opener>>
      BY <2>0, <2>5, WritingStep
    <3>3. request[r].pc \in Engaged
      BY <2>5 DEF Writing, ResolveReferences, CreatePrincipal, ReadTip, Insert, Collide, Engaged
    <3>4. request[r].principal \in Mintable => secretHash[request[r].principal] # NoRow
      BY <3>3 DEF SecretInv, FindsRow
    <3>5. \A p \in Mintable : secretHash'[p] = secretHash[p]
      <4>1. CASE CreatePrincipal(r)
        <5>1. secretHash \in [Principal -> Secret \cup {Unbound, NoRow}]
              /\ Mintable \subseteq Principal
          BY <2>0, SessionsAssumption DEF TypeInv, TypeOK, SessionTypeOK
        <5>. QED  BY <3>4, <4>1, <5>1 DEF CreatePrincipal
      <4>2. CASE ~CreatePrincipal(r)
        BY <2>5, <4>2 DEF Writing, ResolveReferences, ReadTip, Insert, Collide
      <4>. QED  BY <4>1, <4>2
    <3>6. \A s \in Request : FindsRow(request[s])'
      BY <3>1, <3>2, <3>4, <3>5 DEF SecretInv, FindsRow
    <3>. QED  BY <2>0, <3>2, <3>5, <3>6, SecretsKept DEF SecretInv
  <2>. QED  BY <2>1, <2>2, <2>3, <2>4, <2>5 DEF Next, Serve, Entering, Writing
<1>3. SecretInv => SessionProvesSecret
  BY DEF SecretInv, SessionProves, SessionProvesSecret
<1>. QED  BY <1>1, <1>2, <1>3, PTL DEF Spec

(***************************************************************************)
(* The chain. What a request is about to sign names the row one position   *)
(* before the position it is about to take; the index keeps that position  *)
(* for one row.                                                            *)
(***************************************************************************)
Links(q) ==
  \/ q.sequence = 1 /\ q.previous = None
  \/ \E y \in log : /\ y.principal = q.principal
                    /\ y.sequence = q.sequence - 1
                    /\ q.previous = y.id

AimSound == \A r \in Request : request[r].pc = "insert" => Links(request[r])

ChainInv == TypeInv /\ AimSound /\ ChainUnbroken

\* Only reading the tip aims a request, and only an insert writes a row.
LEMMA QuietStep ==
  ASSUME TypeInv, NEW r \in Request,
         Entering(r) \/ Charge(r) \/ ResolveReferences(r) \/ CreatePrincipal(r) \/ Collide(r)
  PROVE  log' = log /\ request'[r].pc # "insert"
<1>0. request \in [Request -> RequestState]
  BY DEF TypeInv, TypeOK
<1>. DEFINE q == request[r]
<1>1. q \in RequestState
  BY <1>0
<1>2. ASSUME NEW v, request' = [request EXCEPT ![r] = v]
      PROVE  request'[r] = v
  BY <1>0, <1>2
<1>3. CASE Entering(r)
  BY <1>3, EnteringStep
<1>4. CASE Charge(r)
  <2>. DEFINE v == IF ChargeApplies(q.session, q.seen) THEN Charged(q)
                   ELSE Answered(q, "session_exhausted")
  <2>1. request'[r] = v /\ log' = log
    BY <1>2, <1>4 DEF Charge
  <2>. HIDE DEF q
  <2>2. v.pc # "insert"
    BY <1>1, AnsweredTyped, ChargedTyped DEF Outcome
  <2>. QED  BY <2>1, <2>2
<1>5. CASE ResolveReferences(r)
  <2>. DEFINE v == IF ~References(q) THEN Answered(q, "refused")
                   ELSE IF secretHash[q.principal] = NoRow THEN Creating(q)
                   ELSE EnterChainLoop(q)
  <2>1. request'[r] = v /\ log' = log
    BY <1>2, <1>5 DEF ResolveReferences
  <2>. HIDE DEF q
  <2>2. v.pc # "insert"
    BY <1>1, AnsweredTyped, CreatingTyped, LoopTyped DEF Outcome, TypeInv
  <2>. QED  BY <2>1, <2>2
<1>6. CASE CreatePrincipal(r)
  <2>1. request'[r] = EnterChainLoop(q) /\ log' = log
    BY <1>2, <1>6 DEF CreatePrincipal
  <2>. QED  BY <1>1, <2>1, LoopTyped DEF TypeInv
<1>7. CASE Collide(r)
  <2>. DEFINE v == IF q.attempt + 1 = MaxAttempts THEN Answered(q, "threw") ELSE Retried(q)
  <2>1. request'[r] = v /\ log' = log
    BY <1>2, <1>7 DEF Collide
  <2>. HIDE DEF q
  <2>2. v.pc # "insert"
    BY <1>1, AnsweredTyped, RetriedTyped DEF Outcome
  <2>. QED  BY <2>1, <2>2
<1>. QED  BY <1>3, <1>4, <1>5, <1>6, <1>7

\* The read of the tip: an empty chain, or its highest position.
LEMMA TipRead ==
  ASSUME TypeInv, NEW r \in Request, ReadTip(r)
  PROVE  \E k \in Nat, prev \in Nat \cup {None} :
           /\ request'[r] = Aim(request[r], k, prev)
           /\ \/ k = 0 /\ prev = None /\ Chain(request[r].principal) = {}
              \/ \E x \in log : /\ IsTip(x, request[r].principal)
                                /\ k = x.sequence /\ prev = x.id
           /\ log' = log
<1>1. request \in [Request -> RequestState] /\ log \subseteq Record
  BY DEF TypeInv, TypeOK
<1>2. CASE /\ Chain(request[r].principal) = {}
           /\ request' = [request EXCEPT ![r] = Aim(request[r], 0, None)]
  BY <1>1, <1>2 DEF ReadTip
<1>3. CASE \E x \in log :
             /\ IsTip(x, request[r].principal)
             /\ request' = [request EXCEPT ![r] = Aim(request[r], x.sequence, x.id)]
  <2>1. PICK x \in log :
          /\ IsTip(x, request[r].principal)
          /\ request' = [request EXCEPT ![r] = Aim(request[r], x.sequence, x.id)]
    BY <1>3
  <2>2. x.sequence \in Nat /\ x.id \in Nat
    BY <1>1 DEF Record
  <2>3. request'[r] = Aim(request[r], x.sequence, x.id)
    BY <1>1, <2>1
  <2>. QED  BY <2>1, <2>2, <2>3 DEF ReadTip
<1>. QED  BY <1>2, <1>3 DEF ReadTip

\* The positions of a principal's decisions are taken once each and every
\* decision names the one before it, whatever the number of requests racing for
\* a position (the chain loop of recordConsentDecision and its unique index).
THEOREM ChainNeverForks == Spec => []ChainUnbroken
<1>1. Init => ChainInv
  <2>. SUFFICES ASSUME Init PROVE ChainInv
    OBVIOUS
  <2>1. Idle.pc # "insert"
    BY DEF Idle
  <2>. QED  BY <2>1, TypeInductive DEF Init, ChainInv, AimSound, ChainUnbroken
<1>2. ChainInv /\ [Next]_vars => ChainInv'
  <2>. SUFFICES ASSUME ChainInv, [Next]_vars PROVE ChainInv'
    OBVIOUS
  <2>0. TypeInv /\ TypeInv'
    BY TypeInductive DEF ChainInv
  <2>1. ASSUME UNCHANGED logVars PROVE ChainInv'
    BY <2>0, <2>1 DEF ChainInv, AimSound, Links, ChainUnbroken, Chain, logVars
  <2>2. ASSUME NEW r \in Request,
               Entering(r) \/ Charge(r) \/ ResolveReferences(r)
                 \/ CreatePrincipal(r) \/ Collide(r)
        PROVE ChainInv'
    <3>1. log' = log /\ request'[r].pc # "insert"
      BY <2>0, <2>2, QuietStep
    <3>2. \A s \in Request \ {r} : request'[s] = request[s]
      BY <2>0, <2>2, OthersStand DEF Writing
    <3>3. AimSound'
      BY <3>1, <3>2 DEF ChainInv, AimSound, Links
    <3>4. ChainUnbroken'
      BY <3>1 DEF ChainInv, ChainUnbroken, Chain
    <3>. QED  BY <2>0, <3>3, <3>4 DEF ChainInv
  <2>3. ASSUME NEW r \in Request, ReadTip(r) PROVE ChainInv'
    <3>. DEFINE q == request[r]
    <3>1. q \in RequestState
      BY <2>0 DEF TypeInv, TypeOK
    <3>2. PICK k \in Nat, prev \in Nat \cup {None} :
            /\ request'[r] = Aim(q, k, prev)
            /\ \/ k = 0 /\ prev = None /\ Chain(q.principal) = {}
               \/ \E x \in log : IsTip(x, q.principal) /\ k = x.sequence /\ prev = x.id
            /\ log' = log
      BY <2>0, <2>3, TipRead
    <3>3. \A s \in Request \ {r} : request'[s] = request[s]
      BY <2>0, <2>3, OthersStand DEF Writing
    <3>. HIDE DEF q
    <3>4. /\ request'[r].sequence = k + 1 /\ request'[r].previous = prev
          /\ request'[r].principal = q.principal
      <4>. DEFINE v == Aim(q, k, prev)
      <4>1. v.sequence = k + 1
        BY <3>1, AimTyped
      <4>2. v.previous = prev
        BY <3>1, AimTyped
      <4>3. v.principal = q.principal
        BY <3>1, AimTyped
      <4>. QED  BY <3>2, <4>1, <4>2, <4>3
    <3>5. Links(request[r])'
      <4>1. CASE k = 0 /\ prev = None
        BY <3>4, <4>1 DEF Links
      <4>2. CASE \E x \in log : IsTip(x, q.principal) /\ k = x.sequence /\ prev = x.id
        <5>1. PICK x \in log : x.principal = q.principal /\ k = x.sequence /\ prev = x.id
          BY <4>2 DEF IsTip, Chain
        <5>2. request'[r].sequence - 1 = x.sequence
          BY <3>4, <5>1
        <5>3. x \in log' /\ x.principal = request'[r].principal
              /\ x.sequence = request'[r].sequence - 1 /\ request'[r].previous = x.id
          BY <3>2, <3>4, <5>1, <5>2
        <5>. QED  BY <5>3 DEF Links
      <4>. QED  BY <3>2, <4>1, <4>2
    <3>6. AimSound'
      BY <3>2, <3>3, <3>5 DEF ChainInv, AimSound, Links
    <3>7. ChainUnbroken'
      BY <3>2 DEF ChainInv, ChainUnbroken, Chain
    <3>. QED  BY <2>0, <3>6, <3>7 DEF ChainInv
  <2>4. ASSUME NEW r \in Request, Insert(r) PROVE ChainInv'
    <3>. DEFINE q == request[r]
                row == RowOf(r)
    <3>1. q \in RequestState /\ Links(q)
      BY <2>0, <2>4 DEF TypeInv, TypeOK, ChainInv, AimSound, Insert
    <3>2. /\ log' = log \cup {row}
          /\ \A x \in log : x.principal = q.principal => x.sequence # q.sequence
      BY <2>4 DEF Insert, Taken, Chain
    <3>3. row.principal = q.principal /\ row.sequence = q.sequence
          /\ row.previous = q.previous
      BY DEF RowOf
    <3>4. \A s \in Request \ {r} : request'[s] = request[s]
      BY <2>0, <2>4, OthersStand DEF Writing
    <3>5. request'[r].pc # "insert"
      <4>1. request'[r] = Answered(q, "recorded")
        BY <2>0, <2>4 DEF Insert, TypeInv, TypeOK
      <4>. HIDE DEF q
      <4>. QED  BY <3>1, <4>1, AnsweredTyped DEF Outcome
    <3>. HIDE DEF q, row
    <3>6. AimSound'
      <4>1. \A s \in Request \ {r} : request[s].pc = "insert" => Links(request[s])'
        BY <3>2, <3>4 DEF ChainInv, AimSound, Links
      <4>. QED  BY <3>4, <3>5, <4>1 DEF AimSound
    <3>7. ChainUnbroken'
      <4>. SUFFICES ASSUME NEW x \in log'
                    PROVE  /\ \A y \in log' : y.principal = x.principal
                                /\ y.sequence = x.sequence => y = x
                           /\ \/ x.sequence = 1 /\ x.previous = None
                              \/ \E y \in log' : /\ y.principal = x.principal
                                                 /\ y.sequence = x.sequence - 1
                                                 /\ x.previous = y.id
        BY DEF ChainUnbroken, Chain
      <4>1. CASE x \in log
        BY <3>2, <3>3, <4>1 DEF ChainInv, ChainUnbroken, Chain
      <4>2. CASE x = row
        <5>1. \A y \in log' : y.principal = x.principal /\ y.sequence = x.sequence => y = x
          BY <3>2, <3>3, <4>2
        <5>2. \/ x.sequence = 1 /\ x.previous = None
              \/ \E y \in log' : /\ y.principal = x.principal
                                 /\ y.sequence = x.sequence - 1
                                 /\ x.previous = y.id
          BY <3>1, <3>2, <3>3, <4>2 DEF Links
        <5>. QED  BY <5>1, <5>2
      <4>. QED  BY <3>2, <4>1, <4>2
    <3>. QED  BY <2>0, <3>6, <3>7 DEF ChainInv
  <2>. QED  BY <2>1, <2>2, <2>3, <2>4 DEF Next, Serve, Entering, vars, logVars
<1>3. ChainInv => ChainUnbroken
  BY DEF ChainInv
<1>. QED  BY <1>1, <1>2, <1>3, PTL DEF Spec

(***************************************************************************)
(* The rows and the requests behind them. A request writes at most one     *)
(* row, none of the route's is dated further ahead than allowed, and every *)
(* attempt it has lost is paid for by a row at a higher position.          *)
(***************************************************************************)
Reached(p, position) == \E x \in log : x.principal = p /\ x.sequence >= position

PaidFor(q) ==
  /\ q.pc \in {"charge", "resolve", "create"} => q.attempt = 0
  /\ q.pc \in {"tip", "insert"} => q.attempt < MaxAttempts
  /\ q.pc = "tip" /\ q.attempt > 0 => Reached(q.principal, q.base + q.attempt)
  /\ q.pc = "insert" => q.sequence > q.base + q.attempt
  /\ q.pc = "threw" => Reached(q.principal, q.base + MaxAttempts)

Dated(r, q) ==
  r \notin Direct =>
    /\ q.pc \in {"charge", "resolve", "create"} /\ q.claimed # None => q.claimed <= now + Skew
    /\ q.pc \in {"tip", "insert"} => q.decidedAt <= now + Skew

RowsOnce ==
  /\ \A x, y \in log : x.id = y.id => x = y
  /\ \A x \in log : x.id \in Request /\ request[x.id].pc = "recorded"

RowsDated == \A x \in log : x.id \notin Direct => x.decidedAt <= x.recordedAt + Skew

LogInv ==
  /\ TypeInv
  /\ RowsOnce /\ RowsDated
  /\ \A r \in Request : PaidFor(request[r]) /\ Dated(r, request[r])

\* A request that moves without writing a row.
LEMMA MovedKeepsLog ==
  ASSUME LogInv, TypeInv', NEW r \in Request, request[r].pc # "recorded",
         \A s \in Request \ {r} : request'[s] = request[s],
         log' = log, now' = now,
         PaidFor(request[r])', Dated(r, request[r])'
  PROVE  LogInv'
<1>1. RowsOnce'
  BY DEF LogInv, RowsOnce
<1>2. RowsDated'
  BY DEF LogInv, RowsDated
<1>3. \A s \in Request : PaidFor(request[s])'
  BY DEF LogInv, PaidFor, Reached
<1>4. \A s \in Request : Dated(s, request[s])'
  BY DEF LogInv, Dated
<1>. QED  BY <1>1, <1>2, <1>3, <1>4 DEF LogInv

\* The steps that neither read the tip nor write.
LEMMA QuietKeepsLog ==
  ASSUME LogInv, TypeInv', NEW r \in Request,
         Entering(r) \/ Charge(r) \/ ResolveReferences(r) \/ CreatePrincipal(r) \/ Collide(r)
  PROVE  LogInv'
<1>0. /\ TypeInv /\ request \in [Request -> RequestState]
      /\ log' = log /\ \A s \in Request \ {r} : request'[s] = request[s]
  BY QuietStep, OthersStand DEF LogInv, TypeInv, TypeOK, Writing
<1>. DEFINE q == request[r]
            v == request'[r]
<1>1. q \in RequestState /\ PaidFor(q) /\ Dated(r, q) /\ now \in Nat
      /\ q.claimed \in Claim \cup {None} /\ q.principal \in Principal \cup {NoRow}
      /\ q.attempt \in Nat /\ q.base \in Nat /\ q.sequence \in Nat
  BY <1>0 DEF LogInv, TypeInv, TypeOK, SessionTypeOK, RequestState
<1>2. ASSUME NEW w, request' = [request EXCEPT ![r] = w]
      PROVE  v = w
  BY <1>0, <1>2
<1>3. ASSUME q.pc # "recorded", now' = now, PaidFor(v), Dated(r, v)
      PROVE  LogInv'
  <2>1. PaidFor(request[r])' /\ Dated(r, request[r])'
    BY <1>0, <1>3 DEF PaidFor, Dated, Reached
  <2>. QED  BY <1>0, <1>3, <2>1, MovedKeepsLog
<1>4. ASSUME v.pc = "tip", v.attempt = 0, v.decidedAt = IF q.claimed = None THEN now ELSE q.claimed,
             q.pc \in {"resolve", "create"}
      PROVE  PaidFor(v) /\ Dated(r, v)
  <2>1. r \notin Direct => v.decidedAt <= now + Skew
    BY <1>1, <1>4, LogAssumption DEF Dated
  <2>. QED  BY <1>4, <2>1, LogAssumption DEF PaidFor, Dated
<1>5. ASSUME v.pc \in {"session_exhausted", "refused"}
      PROVE  PaidFor(v) /\ Dated(r, v)
  BY <1>5 DEF PaidFor, Dated
<1>6. CASE Entering(r)
  <2>1. /\ v.attempt = 0 /\ v.pc \in {"charge", "resolve"}
        /\ r \notin Direct /\ v.claimed # None => v.claimed <= now + Skew
        /\ now' = now
    BY <1>0, <1>6, EnteringStep
  <2>2. q.pc # "recorded"
    BY <1>6 DEF Entering, Submit, Import
  <2>. QED  BY <1>3, <2>1, <2>2 DEF PaidFor, Dated
<1>7. CASE Charge(r)
  <2>1. v = IF ChargeApplies(q.session, q.seen) THEN Charged(q)
            ELSE Answered(q, "session_exhausted")
    BY <1>2, <1>7 DEF Charge
  <2>2. q.pc = "charge" /\ now' = now
    BY <1>7 DEF Charge
  <2>. HIDE DEF q, v
  <2>3. \/ v.pc = "session_exhausted"
        \/ v.pc = "resolve" /\ v.attempt = q.attempt /\ v.claimed = q.claimed
    BY <1>1, <2>1, AnsweredTyped, ChargedTyped DEF Outcome
  <2>4. PaidFor(v) /\ Dated(r, v)
    BY <1>1, <1>5, <2>2, <2>3 DEF PaidFor, Dated
  <2>. QED  BY <1>3, <2>2, <2>4
<1>8. CASE ResolveReferences(r)
  <2>1. v = IF ~References(q) THEN Answered(q, "refused")
            ELSE IF secretHash[q.principal] = NoRow THEN Creating(q)
            ELSE EnterChainLoop(q)
    BY <1>2, <1>8 DEF ResolveReferences
  <2>2. q.pc = "resolve" /\ now' = now
    BY <1>8 DEF ResolveReferences
  <2>. HIDE DEF q, v
  <2>3. \/ v.pc = "refused"
        \/ v.pc = "create" /\ v.attempt = q.attempt /\ v.claimed = q.claimed
        \/ /\ v.pc = "tip" /\ v.attempt = q.attempt
           /\ v.decidedAt = IF q.claimed = None THEN now ELSE q.claimed
    BY <1>0, <1>1, <2>1, AnsweredTyped, CreatingTyped, LoopTyped DEF Outcome, TypeInv
  <2>4. PaidFor(v) /\ Dated(r, v)
    <3>1. CASE v.pc = "refused"
      BY <1>5, <3>1
    <3>2. CASE v.pc = "create" /\ v.attempt = q.attempt /\ v.claimed = q.claimed
      BY <1>1, <2>2, <3>2 DEF PaidFor, Dated
    <3>3. CASE /\ v.pc = "tip" /\ v.attempt = q.attempt
               /\ v.decidedAt = IF q.claimed = None THEN now ELSE q.claimed
      BY <1>1, <1>4, <2>2, <3>3 DEF PaidFor
    <3>. QED  BY <2>3, <3>1, <3>2, <3>3
  <2>. QED  BY <1>3, <2>2, <2>4
<1>9. CASE CreatePrincipal(r)
  <2>1. v = EnterChainLoop(q) /\ q.pc = "create" /\ now' = now
    BY <1>2, <1>9 DEF CreatePrincipal
  <2>. HIDE DEF q, v
  <2>2. v.pc = "tip" /\ v.attempt = 0
        /\ v.decidedAt = IF q.claimed = None THEN now ELSE q.claimed
    BY <1>0, <1>1, <2>1, LoopTyped DEF TypeInv, PaidFor
  <2>. QED  BY <1>3, <1>4, <2>1, <2>2
<1>10. CASE Collide(r)
  <2>1. v = IF q.attempt + 1 = MaxAttempts THEN Answered(q, "threw") ELSE Retried(q)
    BY <1>2, <1>10 DEF Collide
  <2>2. q.pc = "insert" /\ now' = now /\ Reached(q.principal, q.sequence)
    <3>1. PICK x \in Chain(q.principal) : x.sequence = q.sequence
      BY <1>10 DEF Collide, Taken
    <3>2. x \in log /\ x.principal = q.principal /\ x.sequence >= q.sequence
      BY <1>1, <3>1 DEF Chain
    <3>. QED  BY <1>10, <3>2 DEF Collide, Reached
  <2>. HIDE DEF q, v
  <2>3. q.sequence > q.base + q.attempt /\ q.attempt < MaxAttempts
        /\ (r \notin Direct => q.decidedAt <= now + Skew)
    BY <1>1, <2>2 DEF PaidFor, Dated
  <2>4. Reached(q.principal, q.base + q.attempt + 1)
    BY <1>0, <1>1, <2>2, <2>3 DEF Reached, TypeInv, TypeOK, Record
  <2>5. PaidFor(v) /\ Dated(r, v)
    <3>1. CASE q.attempt + 1 = MaxAttempts
      <4>1. v.pc = "threw" /\ v.principal = q.principal /\ v.base = q.base
        BY <1>1, <2>1, <3>1, AnsweredTyped DEF Outcome
      <4>2. q.base + q.attempt + 1 = q.base + MaxAttempts
        BY <1>1, <3>1, LogAssumption
      <4>. QED  BY <2>4, <4>1, <4>2 DEF PaidFor, Dated
    <3>2. CASE q.attempt + 1 # MaxAttempts
      <4>1. /\ v.pc = "tip" /\ v.principal = q.principal /\ v.base = q.base
            /\ v.attempt = q.attempt + 1 /\ v.decidedAt = q.decidedAt
        BY <1>1, <2>1, <3>2, RetriedTyped
      <4>2. q.attempt + 1 < MaxAttempts /\ q.base + q.attempt + 1 = q.base + v.attempt
        BY <1>1, <2>3, <3>2, <4>1, LogAssumption
      <4>. QED  BY <2>3, <2>4, <4>1, <4>2 DEF PaidFor, Dated
    <3>. QED  BY <3>1, <3>2
  <2>. QED  BY <1>3, <2>2, <2>5
<1>. QED  BY <1>6, <1>7, <1>8, <1>9, <1>10

\* Reading the tip aims past every row of the principal.
LEMMA TipKeepsLog ==
  ASSUME LogInv, TypeInv', NEW r \in Request, ReadTip(r)
  PROVE  LogInv'
<1>. DEFINE q == request[r]
            v == request'[r]
<1>0. /\ TypeInv /\ q \in RequestState /\ PaidFor(q) /\ Dated(r, q)
      /\ q.attempt \in Nat /\ q.base \in Nat /\ log \subseteq Record
  BY DEF LogInv, TypeInv, TypeOK, RequestState
<1>1. q.pc = "tip" /\ now' = now
  BY DEF ReadTip
<1>2. PICK k \in Nat, prev \in Nat \cup {None} :
        /\ v = Aim(q, k, prev)
        /\ \/ k = 0 /\ prev = None /\ Chain(q.principal) = {}
           \/ \E x \in log : IsTip(x, q.principal) /\ k = x.sequence /\ prev = x.id
        /\ log' = log
  BY <1>0, TipRead
<1>3. \A s \in Request \ {r} : request'[s] = request[s]
  BY <1>0, OthersStand DEF Writing
<1>. HIDE DEF q, v
<1>4. /\ v.pc = "insert" /\ v.sequence = k + 1 /\ v.attempt = q.attempt
      /\ v.decidedAt = q.decidedAt /\ v.base = IF q.attempt = 0 THEN k ELSE q.base
  BY <1>0, <1>2, AimTyped, ZenonT(60)
<1>5. q.attempt > 0 => k >= q.base + q.attempt
  <2>. SUFFICES ASSUME q.attempt > 0
                PROVE  k >= q.base + q.attempt
    OBVIOUS
  <2>1. PICK y \in log : y.principal = q.principal /\ y.sequence >= q.base + q.attempt
    BY <1>0, <1>1 DEF PaidFor, Reached
  <2>2. y \in Chain(q.principal) /\ y.sequence \in Nat
    BY <1>0, <2>1 DEF Chain, Record
  <2>3. k >= y.sequence
    BY <1>2, <2>2 DEF IsTip
  <2>. QED  BY <1>0, <2>1, <2>2, <2>3
<1>6. v.sequence > v.base + v.attempt
  BY <1>0, <1>4, <1>5
<1>7. PaidFor(v) /\ Dated(r, v)
  BY <1>0, <1>1, <1>4, <1>6 DEF PaidFor, Dated
<1>8. PaidFor(request[r])' /\ Dated(r, request[r])'
  BY <1>1, <1>2, <1>7 DEF PaidFor, Dated, Reached, v
<1>. QED  BY <1>1, <1>2, <1>3, <1>8, MovedKeepsLog DEF q

\* Writing a row: it is the request's first.
LEMMA InsertKeepsLog ==
  ASSUME LogInv, TypeInv', NEW r \in Request, Insert(r)
  PROVE  LogInv'
<1>. DEFINE q == request[r]
            row == RowOf(r)
<1>0. /\ TypeInv /\ q \in RequestState /\ Dated(r, q) /\ log' \subseteq Record
      /\ q.pc = "insert" /\ log' = log \cup {row} /\ now' = now
  BY DEF LogInv, TypeInv, TypeOK, Insert
<1>1. /\ row.id = r /\ row.decidedAt = q.decidedAt /\ row.recordedAt = now
  BY DEF RowOf
<1>2. \A s \in Request \ {r} : request'[s] = request[s]
  BY <1>0, OthersStand DEF Writing
<1>3. request'[r].pc = "recorded"
  <2>1. request'[r] = Answered(q, "recorded")
    BY DEF LogInv, Insert, TypeInv, TypeOK
  <2>. HIDE DEF q
  <2>. QED  BY <1>0, <2>1, AnsweredTyped DEF Outcome
<1>4. \A x \in log : x.id \in Request \ {r} /\ request[x.id].pc = "recorded"
  BY <1>0 DEF LogInv, RowsOnce
<1>. HIDE DEF q, row
<1>5. RowsOnce'
  BY <1>0, <1>1, <1>2, <1>3, <1>4 DEF LogInv, RowsOnce
<1>6. RowsDated'
  BY <1>0, <1>1 DEF LogInv, RowsDated, Dated
<1>7. PaidFor(request[r])' /\ Dated(r, request[r])'
  BY <1>3 DEF PaidFor, Dated
<1>8. \A s \in Request \ {r} : PaidFor(request[s])' /\ Dated(s, request[s])'
  BY <1>0, <1>2 DEF LogInv, PaidFor, Dated, Reached
<1>. QED  BY <1>5, <1>6, <1>7, <1>8 DEF LogInv

\* Sessions and the clock leave rows and requests alone; the clock only rises.
LEMMA SessionsKeepLog ==
  ASSUME LogInv, TypeInv', UNCHANGED logVars, now' >= now
  PROVE  LogInv'
<1>1. log' = log /\ request' = request /\ now \in Nat /\ now' \in Nat
  BY DEF logVars, LogInv, TypeInv, TypeOK, SessionTypeOK
<1>2. now \in Nat /\ now' \in Nat /\ now <= now'
  BY <1>1
<1>3. RowsOnce' /\ RowsDated'
  BY <1>1 DEF LogInv, RowsOnce, RowsDated
<1>4. ASSUME NEW r \in Request
      PROVE  PaidFor(request[r])' /\ Dated(r, request[r])'
  <2>1. PaidFor(request[r]) /\ Dated(r, request[r])
    BY DEF LogInv
  <2>2. request[r].claimed \in Claim \cup {None} /\ request[r].decidedAt \in Nat
    BY DEF LogInv, TypeInv, TypeOK, RequestState
  <2>3. PaidFor(request[r])'
    BY <1>1, <2>1 DEF PaidFor, Reached
  <2>4. \A d \in Nat : d <= now + Skew => d <= now' + Skew
    <3>1. Skew \in Nat
      BY LogAssumption
    <3>2. ASSUME NEW d \in Nat, NEW a \in Nat, NEW b \in Nat, a <= b, d <= a + Skew
          PROVE  d <= b + Skew
      BY <3>1, <3>2
    <3>. QED  BY <1>2, <3>2
  <2>5. request[r].claimed # None => request[r].claimed \in Nat
    BY <2>2, LogAssumption
  <2>6. Dated(r, request[r])'
    BY <1>1, <2>1, <2>2, <2>4, <2>5 DEF Dated
  <2>. QED  BY <2>3, <2>6
<1>. QED  BY <1>3, <1>4 DEF LogInv

LEMMA LogInvariant ==
  /\ Init => LogInv
  /\ LogInv /\ [Next]_vars => LogInv'
<1>1. Init => LogInv
  <2>. SUFFICES ASSUME Init PROVE LogInv
    OBVIOUS
  <2>1. \A r \in Request : request[r].pc = "start"
    BY DEF Init, Idle
  <2>. QED  BY <2>1, TypeInductive DEF Init, LogInv, RowsOnce, RowsDated, PaidFor, Dated
<1>2. LogInv /\ [Next]_vars => LogInv'
  <2>. SUFFICES ASSUME LogInv, [Next]_vars PROVE LogInv'
    OBVIOUS
  <2>0. TypeInv' /\ now \in Nat
    BY TypeInductive DEF LogInv, TypeInv, TypeOK, SessionTypeOK
  <2>1. CASE UNCHANGED vars
    BY <2>0, <2>1, SessionsKeepLog DEF vars, logVars
  <2>2. CASE SessionNext /\ UNCHANGED logVars
    <3>1. now' >= now
      BY <2>0, <2>2 DEF SessionNext, MintPrincipal, LookupPrincipal, AdoptSecret, IssueSession,
                        PurgeExpiredSessions, Tick
    <3>. QED  BY <2>0, <2>2, <3>1, SessionsKeepLog
  <2>3. ASSUME NEW r \in Request, Submit(r) \/ Import(r) \/ Serve(r)
        PROVE  LogInv'
    BY <2>0, <2>3, QuietKeepsLog, TipKeepsLog, InsertKeepsLog DEF Serve, Entering
  <2>. QED  BY <2>1, <2>2, <2>3 DEF Next
<1>. QED  BY <1>1, <1>2

\* Racing requests pay for every loss: a decision is thrown back to its caller
\* only when MaxAttempts rows took positions after it first read the tip
\* (recordConsentDecision's loop).
THEOREM ThrownOnlyInABurst == Spec => []LostOnlyToABurst
<1>1. LogInv => LostOnlyToABurst
  BY DEF LogInv, PaidFor, Reached, LostOnlyToABurst, Chain
<1>. QED  BY <1>1, LogInvariant, PTL DEF Spec

\* A decision of the route dated ahead of the clock is displaced by any that is
\* decided once the skew allowance has passed (decisionSchema and
\* comparePrecedence).
THEOREM PinsExpire == Spec => []PinBounded
<1>1. LogInv => PinBounded
  <2>. SUFFICES ASSUME LogInv, NEW x \in log, NEW y \in log, x.id \notin Direct,
                       SameMatter(x, y),
                       y.decidedAt > x.recordedAt + Skew
                PROVE  ~InForce(x)
    BY DEF PinBounded
  <2>1. x.decidedAt <= x.recordedAt + Skew
    BY DEF LogInv, RowsDated
  <2>2. x.decidedAt \in Nat /\ y.decidedAt \in Nat /\ x.recordedAt \in Nat
    BY DEF LogInv, TypeInv, TypeOK, Record
  <2>. QED  BY <2>1, <2>2, LogAssumption DEF InForce, Outranks
<1>. QED  BY <1>1, LogInvariant, PTL DEF Spec

(***************************************************************************)
(* The log implements the register. Two rows never tie, so a new row       *)
(* either outranks the decision in force, or is outranked and changes      *)
(* nothing.                                                                *)
(***************************************************************************)
LEMMA OutranksIsAnOrder ==
  ASSUME NEW L \in SUBSET Record, \A x, y \in L : x.id = y.id => x = y
  PROVE  /\ \A x, y \in L : x # y => Outranks(x, y) \/ Outranks(y, x)
         /\ \A x, y \in L : Outranks(x, y) => ~Outranks(y, x)
         /\ \A x, y, z \in L : Outranks(x, y) /\ Outranks(y, z) => Outranks(x, z)
<1>1. \A x \in L : x.decidedAt \in Nat /\ x.recordedAt \in Nat /\ x.id \in Nat
  BY DEF Record
<1>2. \A x, y \in L : x # y => x.id # y.id
  OBVIOUS
<1>3. \A x, y \in L : x # y => Outranks(x, y) \/ Outranks(y, x)
  BY <1>1, <1>2 DEF Outranks
<1>4. \A x, y \in L : Outranks(x, y) => ~Outranks(y, x)
  BY <1>1 DEF Outranks
<1>5. \A x, y, z \in L : Outranks(x, y) /\ Outranks(y, z) => Outranks(x, z)
  BY <1>1 DEF Outranks
<1>. QED  BY <1>3, <1>4, <1>5

Governing == {x \in log : InForce(x)}

\* A new row takes the place of the decision in force on its matter, or leaves
\* every decision in force as it was.
LEMMA InsertIsRegistered ==
  ASSUME LogInv, LogInv', NEW r \in Request, Insert(r)
  PROVE  Register!RegisterNext \/ Governing' = Governing
<1>. DEFINE row == RowOf(r)
<1>1. log' = log \cup {row} /\ log' \in SUBSET Record
      /\ \A x, y \in log' : x.id = y.id => x = y
  BY DEF Insert, LogInv, TypeInv, TypeOK, RowsOnce
<1>2. /\ \A x, y \in log' : x # y => Outranks(x, y) \/ Outranks(y, x)
      /\ \A x, y \in log' : Outranks(x, y) => ~Outranks(y, x)
      /\ \A x, y, z \in log' : Outranks(x, y) /\ Outranks(y, z) => Outranks(x, z)
  BY <1>1, OutranksIsAnOrder
<1>. HIDE DEF row
<1>3. \A x, y, z : /\ SameMatter(x, x)
                   /\ SameMatter(x, y) => SameMatter(y, x)
                   /\ SameMatter(x, y) /\ SameMatter(y, z) => SameMatter(x, z)
  BY DEF SameMatter
<1>4. Governing' = {x \in log' : \A y \in log' : SameMatter(x, y) => ~Outranks(y, x)}
  BY DEF Governing, InForce
<1>5. Governing = {x \in log : \A y \in log : SameMatter(x, y) => ~Outranks(y, x)}
  BY DEF Governing, InForce
<1>6. CASE row \in Governing'
  <2>1. \A y \in Governing : SameMatter(row, y) => row = y \/ Outranks(row, y)
    BY <1>1, <1>2, <1>4, <1>5, <1>6
  <2>2. \A y \in Governing : SameMatter(row, y) => row.decidedAt >= y.decidedAt
    <3>1. \A y \in log' : y.decidedAt \in Nat
      BY <1>1 DEF Record
    <3>. QED  BY <1>1, <1>5, <2>1, <3>1 DEF Outranks
  <2>3. Governing' \subseteq {y \in Governing : ~SameMatter(row, y)} \cup {row}
    BY <1>1, <1>2, <1>3, <1>4, <1>5, <1>6
  <2>4. {y \in Governing : ~SameMatter(row, y)} \cup {row} \subseteq Governing'
    BY <1>1, <1>3, <1>4, <1>5, <1>6
  <2>5. Register!Displace(row)
    <3>1. Governing' = {y \in Governing : ~SameMatter(row, y)} \cup {row}
      BY <2>3, <2>4
    <3>. QED  BY <2>2, <3>1
              DEF Register!Displace, Register!SameMatter, SameMatter, Governing
  <2>. QED  BY <1>6, <2>5 DEF Register!RegisterNext, Governing
<1>7. CASE row \notin Governing'
  <2>1. PICK z \in log' : SameMatter(row, z) /\ Outranks(z, row)
    BY <1>1, <1>4, <1>7
  <2>2. Governing' \subseteq Governing
    BY <1>1, <1>4, <1>5, <1>7
  <2>3. ASSUME NEW x \in Governing, SameMatter(x, row)
        PROVE  ~Outranks(row, x)
    <3>1. x \in log' /\ z # row /\ z \in log
      BY <1>1, <1>2, <1>5, <2>1
    <3>2. SameMatter(x, z)
      BY <1>3, <2>1, <2>3
    <3>3. x = z \/ Outranks(x, z)
      BY <1>1, <1>2, <1>5, <3>1, <3>2
    <3>4. Outranks(x, row)
      BY <1>1, <1>2, <2>1, <3>1, <3>3
    <3>. QED  BY <1>1, <1>2, <3>1, <3>4
  <2>4. Governing \subseteq Governing'
    BY <1>1, <1>4, <1>5, <2>3
  <2>. QED  BY <2>2, <2>4
<1>. QED  BY <1>6, <1>7

\* What the log promises, it keeps: whatever requests race and in whatever order
\* their rows reach the log, the decision in force gives way only to one decided
\* no earlier, and no row unsettles another matter (resolveEffectiveConsent).
THEOREM LogImplementsRegister == Spec => ImplementsRegister
<1>1. Init => Register!RegisterInit
  BY DEF Init, Register!RegisterInit
<1>2. LogInv /\ LogInv' /\ [Next]_vars => [Register!RegisterNext]_Governing
  <2>. SUFFICES ASSUME LogInv, LogInv', [Next]_vars
                PROVE  Register!RegisterNext \/ Governing' = Governing
    OBVIOUS
  <2>1. ASSUME log' = log
        PROVE  Governing' = Governing
    BY <2>1 DEF Governing, InForce
  <2>2. ASSUME NEW r \in Request, Submit(r) \/ Import(r) \/ Serve(r)
        PROVE  Register!RegisterNext \/ Governing' = Governing
    <3>1. CASE Insert(r)
      BY <3>1, InsertIsRegistered
    <3>2. CASE ~Insert(r)
      <4>1. log' = log
        BY <2>2, <3>2
           DEF Serve, Submit, Import, Charge, ResolveReferences, CreatePrincipal, ReadTip, Collide
      <4>. QED  BY <2>1, <4>1
    <3>. QED  BY <3>1, <3>2
  <2>. QED  BY <2>1, <2>2 DEF Next, vars, logVars
<1>. QED
  BY <1>1, <1>2, LogInvariant, PTL DEF Spec, ImplementsRegister, Register!RegisterSpec, Governing
===========================================================================
