---------------------------- MODULE ConsentLog ----------------------------
(***************************************************************************)
(* The append-only consent log of one site: POST /api/v1/consent           *)
(* (api/app/api/v1/consent/route.ts) and the recordConsentDecision it      *)
(* calls (database/consent.ts), over the sessions of ConsentSessions.      *)
(*                                                                         *)
(* Every request is a process. Between two of its steps lies one round     *)
(* trip to the database, where any other request may run:                  *)
(*                                                                         *)
(*   start -> charge -> resolve -> [create ->] tip -> insert -> done       *)
(*                                              ^_______|                  *)
(*                                                                         *)
(* The decision rows are the set "log"; a row's "id" is its                *)
(* consent_record_id and stands for the digest of its proof document,      *)
(* which covers that id.                                                   *)
(***************************************************************************)
EXTENDS ConsentSessions, FiniteSets

CONSTANTS
  Request,       \* requests, numbered; the number is the id of the row written
  Direct,        \* those that are calls of the library, not of the route
  Status,        \* CONSENT_STATUSES
  Code,          \* purpose codes a request may name
  Purpose,       \* those the organisation declared
  Notice,        \* published notices
  Discloses,     \* the purposes each notice discloses
  Claim,         \* the decided_at dates a body may carry
  Skew,          \* MAX_CLOCK_SKEW_MS
  MaxAttempts,   \* MAX_ATTEMPTS of the chain loop
  None           \* an absent session, notice, date or predecessor

ASSUME LogAssumption ==
  /\ Request \subseteq Nat
  /\ Direct \subseteq Request
  /\ Purpose \subseteq Code
  /\ Discloses \in [Notice -> SUBSET Purpose]
  /\ Claim \subseteq Nat
  /\ Skew \in Nat
  /\ MaxAttempts \in Nat \ {0}
  /\ None \notin Session \cup Notice \cup Code \cup Status \cup Nat

VARIABLES
  request,       \* the requests: pc, input and locals
  log            \* the consent_records rows

logVars == <<request, log>>
vars == <<now, secretHash, session, opener, request, log>>

Outcome == {"recorded", "session_exhausted", "refused", "threw"}

RequestState ==
  [pc: {"start", "charge", "resolve", "create", "tip", "insert"} \cup Outcome,
   session: Session \cup {None},      \* None: a caller of the library, no session
   seen: Nat,                         \* the decisionCount that was read
   slot: Nat,                         \* history: the charge this request made
   principal: Principal \cup {NoRow}, purpose: Code \cup {None},
   notice: Notice \cup {None}, status: Status \cup {None},
   claimed: Claim \cup {None},          \* decided_at of the body
   decidedAt: Nat, base: Nat,         \* base: history, the first tip read
   attempt: Nat, sequence: Nat, previous: Nat \cup {None}]

Record ==
  [id: Nat, principal: Principal, purpose: Code, status: Status,
   notice: Notice \cup {None}, decidedAt: Nat, recordedAt: Nat,
   sequence: Nat, previous: Nat \cup {None}]

TypeOK ==
  /\ SessionTypeOK
  /\ request \in [Request -> RequestState]
  /\ log \subseteq Record

Idle ==
  [pc |-> "start", session |-> None, seen |-> 0, slot |-> 0,
   principal |-> NoRow, purpose |-> None, notice |-> None,
   status |-> None, claimed |-> None, decidedAt |-> 0, base |-> 0,
   attempt |-> 0, sequence |-> 0, previous |-> None]

Init ==
  /\ SessionInit
  /\ request = [r \in Request |-> Idle]
  /\ log = {}

\* The locals of a request die with it, the history fields stay.
Answered(q, outcome) ==
  [Idle EXCEPT !.pc = outcome, !.session = q.session, !.slot = q.slot,
               !.principal = q.principal, !.base = q.base]

\* What is asked of recordConsentDecision.
Asked(q, p, u, n, s, d) ==
  [q EXCEPT !.principal = p, !.purpose = u, !.notice = n, !.status = s, !.claimed = d]

Chain(p) == {x \in log : x.principal = p}

(***************************************************************************)
(* The consent in force: resolveEffectiveConsent and its comparePrecedence *)
(***************************************************************************)

\* Mutation for ImplementsRegister: the last row to arrive wins.
OutranksByArrival(x, y) ==
  \/ x.recordedAt > y.recordedAt
  \/ x.recordedAt = y.recordedAt /\ x.id > y.id

Outranks(x, y) ==
  \/ x.decidedAt > y.decidedAt
  \/ x.decidedAt = y.decidedAt /\ x.recordedAt > y.recordedAt
  \/ x.decidedAt = y.decidedAt /\ x.recordedAt = y.recordedAt /\ x.id > y.id

SameMatter(x, y) == x.principal = y.principal /\ x.purpose = y.purpose

InForce(x) == \A y \in log : SameMatter(x, y) => ~Outranks(y, x)

(***************************************************************************)
(* POST /api/v1/consent, up to recordConsentDecision.                      *)
(***************************************************************************)

\* Mutation for PinBounded: no skew allowance.
DateAcceptedAny(d) == TRUE

\* decisionSchema, decided_at.
DateAccepted(d) == d # None => d <= now + Skew

Resolved(t) ==
  [Idle EXCEPT !.pc = "charge", !.session = t, !.seen = session[t].decisionCount]

\* requireConsentSession, then the body: the principal is the session's (any
\* other is refused without effect, and so is a date past the skew allowance).
Submit(r) ==
  /\ request[r].pc = "start" /\ r \notin Direct
  /\ \E t \in Session, u \in Code, n \in Notice \cup {None}, s \in Status,
        d \in Claim \cup {None} :
       /\ Resolves(t)
       /\ DateAccepted(d)
       /\ request' = [request EXCEPT ![r] =
            Asked(Resolved(t), session[t].principal, u, n, s, d)]
  /\ UNCHANGED <<now, secretHash, session, opener, log>>

\* The session is charged before anything is written; losing the conditional
\* update is reported as an exhausted session.
Charged(q) == [q EXCEPT !.pc = "resolve", !.slot = q.seen + 1]

Charge(r) ==
  /\ request[r].pc = "charge"
  /\ ConsumeDecision(request[r].session, request[r].seen)
  /\ request' = [request EXCEPT ![r] =
       IF ChargeApplies(@.session, @.seen)
       THEN Charged(@)
       ELSE Answered(@, "session_exhausted")]
  /\ UNCHANGED <<now, secretHash, opener, log>>

Imported == [Idle EXCEPT !.pc = "resolve"]

\* A caller of the library (the seed script, a bulk import) enters here, with
\* no session and whatever date it likes: the allowance is the route's to check.
Import(r) ==
  /\ request[r].pc = "start" /\ r \in Direct
  /\ \E p \in Principal, u \in Code, n \in Notice \cup {None}, s \in Status,
        d \in Claim \cup {None} :
       /\ p \in Mintable => secretHash[p] # NoRow
       /\ request' = [request EXCEPT ![r] =
            Asked(Imported, p, u, n, s, d)]
  /\ UNCHANGED <<now, secretHash, session, opener, log>>

(***************************************************************************)
(* recordConsentDecision.                                                  *)
(***************************************************************************)

\* The purpose must be declared, and a notice that is cited must disclose it.
References(q) ==
  /\ q.purpose \in Purpose
  /\ q.notice # None => q.purpose \in Discloses[q.notice]

Creating(q) == [q EXCEPT !.pc = "create"]

\* Mutation for TypeOK: no default for an absent date.
EnterChainLoopUndated(q) == [q EXCEPT !.pc = "tip", !.decidedAt = q.claimed]

\* decidedAt is fixed here, before the chain loop and its retries.
EnterChainLoop(q) ==
  [q EXCEPT !.pc = "tip", !.decidedAt = IF q.claimed = None THEN now ELSE q.claimed]

ResolveReferences(r) ==
  /\ request[r].pc = "resolve"
  /\ request' = [request EXCEPT ![r] =
       IF ~References(@) THEN Answered(@, "refused")
       ELSE IF secretHash[@.principal] = NoRow THEN Creating(@)
       ELSE EnterChainLoop(@)]
  /\ UNCHANGED <<now, secretHash, session, opener, log>>

\* Losing the insert (P2002) is answered by reading the row it collided with.
CreatePrincipal(r) ==
  /\ request[r].pc = "create"
  /\ secretHash' = [secretHash EXCEPT ![request[r].principal] =
                      IF @ = NoRow THEN Unbound ELSE @]
  /\ request' = [request EXCEPT ![r] = EnterChainLoop(@)]
  /\ UNCHANGED <<now, session, opener, log>>

\* Mutation for ChainUnbroken: a retry keeps the predecessor it first read.
AimStale(q, position, previous) ==
  [q EXCEPT !.pc = "insert", !.sequence = position + 1,
            !.previous = IF q.attempt = 0 THEN previous ELSE @,
            !.base = IF q.attempt = 0 THEN position ELSE @]

\* One turn of the loop begins by reading the principal's highest position.
IsTip(x, p) == x \in Chain(p) /\ \A y \in Chain(p) : y.sequence <= x.sequence

Aim(q, position, previous) ==
  [q EXCEPT !.pc = "insert", !.sequence = position + 1, !.previous = previous,
            !.base = IF q.attempt = 0 THEN position ELSE @]

ReadTip(r) ==
  /\ request[r].pc = "tip"
  /\ \/ /\ Chain(request[r].principal) = {}
        /\ request' = [request EXCEPT ![r] = Aim(@, 0, None)]
     \/ \E x \in log :
          /\ IsTip(x, request[r].principal)
          /\ request' = [request EXCEPT ![r] = Aim(@, x.sequence, x.id)]
  /\ UNCHANGED <<now, secretHash, session, opener, log>>

\* The unique index on (site, principal, proof_sequence).
Taken(p, position) == \E x \in Chain(p) : x.sequence = position

RowOf(r) ==
  LET q == request[r] IN
  [id |-> r, principal |-> q.principal, purpose |-> q.purpose,
   status |-> q.status, notice |-> q.notice, decidedAt |-> q.decidedAt,
   recordedAt |-> now, sequence |-> q.sequence, previous |-> q.previous]

Insert(r) ==
  /\ request[r].pc = "insert"
  /\ ~Taken(request[r].principal, request[r].sequence)
  /\ log' = log \cup {RowOf(r)}
  /\ request' = [request EXCEPT ![r] = Answered(@, "recorded")]
  /\ UNCHANGED <<now, secretHash, session, opener>>

Retried(q) == [q EXCEPT !.pc = "tip", !.attempt = @ + 1]

\* Mutation for LostOnlyToABurst: one attempt too few.
CollideEarly(r) ==
  /\ request[r].pc = "insert"
  /\ Taken(request[r].principal, request[r].sequence)
  /\ request' = [request EXCEPT ![r] =
       IF @.attempt + 2 = MaxAttempts
       THEN Answered(@, "threw")
       ELSE Retried(@)]
  /\ UNCHANGED <<now, secretHash, session, opener, log>>

\* A collision is retried from the read, the last one is thrown to the caller.
Collide(r) ==
  /\ request[r].pc = "insert"
  /\ Taken(request[r].principal, request[r].sequence)
  /\ request' = [request EXCEPT ![r] =
       IF @.attempt + 1 = MaxAttempts
       THEN Answered(@, "threw")
       ELSE Retried(@)]
  /\ UNCHANGED <<now, secretHash, session, opener, log>>

Serve(r) ==
  \/ Charge(r) \/ ResolveReferences(r) \/ CreatePrincipal(r)
  \/ ReadTip(r) \/ Insert(r) \/ Collide(r)

Next ==
  \/ SessionNext /\ UNCHANGED logVars
  \/ \E r \in Request : Submit(r) \/ Import(r) \/ Serve(r)

Spec == Init /\ [][Next]_vars

(***************************************************************************)
(* Properties.                                                             *)
(***************************************************************************)

\* The positions of one principal are taken once each, and every row links to
\* the row one position before it: racing requests never fork the chain, skip
\* a position, or sign a link to a row that is not the predecessor (the chain
\* loop and the index that arbitrates it).
ChainUnbroken ==
  \A x \in log :
    /\ \A y \in Chain(x.principal) : y.sequence = x.sequence => y = x
    /\ \/ x.sequence = 1 /\ x.previous = None
       \/ \E y \in Chain(x.principal) :
            y.sequence = x.sequence - 1 /\ x.previous = y.id

\* No two requests charged to a session ever hold the same charge, and every
\* charge lies within the cap, however many of them read the same count before
\* any was charged (consumeConsentSessionDecision): a session records no more
\* than MaxDecisions decisions.
ChargedOnce ==
  \A r, q \in Request :
    LET x == request[r]  y == request[q] IN
    x.slot > 0 /\ y.slot > 0 /\ x.session = y.session =>
      /\ x.slot <= MaxDecisions
      /\ x.slot = y.slot => r = q

\* A decision dated ahead of the server's clock can outlast a later one, and, if
\* it came by the route, by no more than the skew allowance: once the allowance
\* has passed since it was recorded, anything decided afterwards displaces it.
\* What a caller of the library dates ahead has no such bound.
PinBounded ==
  \A x, y \in log :
    /\ x.id \notin Direct
    /\ SameMatter(x, y) /\ y.decidedAt > x.recordedAt + Skew
    => ~InForce(x)

\* A decision is thrown back for contention only when MaxAttempts others took a
\* position of the same principal after it first read the tip: each failed
\* attempt is paid for by another request's row.
LostOnlyToABurst ==
  \A r \in Request :
    request[r].pc = "threw" =>
      \E x \in Chain(request[r].principal) :
        x.sequence >= request[r].base + MaxAttempts

\* The log implements the consent register: the decision in force gives way only
\* to one decided no earlier, in whatever order the rows reach the log, and no
\* late row unsettles another matter (resolveEffectiveConsent over the rows of
\* racing requests).
Register ==
  INSTANCE ConsentRegister WITH governing <- {x \in log : InForce(x)}

ImplementsRegister == Register!RegisterSpec
=============================================================================
