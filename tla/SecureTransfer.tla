-------------------------- MODULE SecureTransfer --------------------------
(***************************************************************************)
(* Secure data routing of one organisation and site: authoriseTransfer,    *)
(* recordTransfer and collectTransfer (database/transfers.ts), the         *)
(* evaluateAuthorisation they rest on (database/authorisation.ts) and the  *)
(* triggers that guard the two tables.                                     *)
(*                                                                         *)
(* Every call is a process, interleaved at each round trip to the          *)
(* database. An authorisation row bears the name of the call that created  *)
(* it, a transfer row that of the submission that stored it. Consent is    *)
(* the register ConsentLog implements.                                     *)
(***************************************************************************)
EXTENDS ConsentRegister, FiniteSets

CONSTANTS
  Principal, Purpose, Status,
  Recipient,     \* registered recipients
  Active,        \* those that are switched on
  Authoriser,    \* calls of authoriseTransfer
  Submitter,     \* calls of recordTransfer
  Collector,     \* calls of collectTransfer
  Ttl,           \* DEFAULT_AUTHORISATION_TTL_SECONDS
  Skew,          \* how far ahead of the clock a decision may be dated
  MaxTime,       \* bound: the clock stops here
  MaxDecisions,  \* bound: consent decisions taken
  None

ASSUME TransferAssumption ==
  /\ Active \subseteq Recipient
  /\ Ttl \in Nat \ {0}
  /\ Skew \in Nat /\ MaxTime \in Nat /\ MaxDecisions \in Nat
  /\ None \notin Principal \cup Purpose \cup Recipient
                 \cup Authoriser \cup Submitter \cup Nat

VARIABLES
  now,
  made,            \* every decision ever taken; an id is its position
  authorisation,   \* transfer_authorisations rows
  transfer,        \* transfer_records rows
  authoriser, submitter, collector    \* the calls in progress

rows == <<authorisation, transfer>>
calls == <<authoriser, submitter, collector>>
vars == <<now, governing, made, authorisation, transfer, authoriser, submitter, collector>>

Decision ==
  [id: Nat, principal: Principal, purpose: Purpose, status: Status, decidedAt: Nat]

AuthorisationRow ==
  [status: {"none", "AUTHORISED", "CONSUMED", "EXPIRED"},
   principal: Principal \cup {None}, purpose: Purpose \cup {None},
   recipient: Recipient \cup {None}, consent: Nat, expiresAt: Nat]

TransferRow ==
  [status: {"none", "RECORDED", "DELIVERED"}, authorisation: Authoriser \cup {None},
   deliveredAt: Nat \cup {None}]

AuthoriserState ==
  [pc: {"start", "evaluate", "recipient", "create", "authorised", "refused"},
   principal: Principal \cup {None}, purpose: Purpose \cup {None},
   recipient: Recipient \cup {None},
   since: Nat,       \* history: the decisions already made when the call arrived
   consent: Nat]

SubmitAnswer ==
  {"recorded", "not_found", "invalid_envelope", "authorisation_expired",
   "authorisation_consumed", "conflict", "threw"}

SubmitterState ==
  [pc: {"start", "expire", "store"} \cup SubmitAnswer, authorisation: Authoriser \cup {None}]

CollectorState ==
  [pc: {"start", "deliver", "collected", "not_found", "threw"},
   transfer: Submitter \cup {None}]

TypeOK ==
  /\ now \in Nat
  /\ made \subseteq Decision /\ governing \subseteq made
  /\ authorisation \in [Authoriser -> AuthorisationRow]
  /\ transfer \in [Submitter -> TransferRow]
  /\ authoriser \in [Authoriser -> AuthoriserState]
  /\ submitter \in [Submitter -> SubmitterState]
  /\ collector \in [Collector -> CollectorState]

NoAuthorisation ==
  [status |-> "none", principal |-> None, purpose |-> None, recipient |-> None,
   consent |-> 0, expiresAt |-> 0]

NoTransfer == [status |-> "none", authorisation |-> None, deliveredAt |-> None]

Init ==
  /\ now = 0
  /\ RegisterInit /\ made = {}
  /\ authorisation = [a \in Authoriser |-> NoAuthorisation]
  /\ transfer = [s \in Submitter |-> NoTransfer]
  /\ authoriser = [a \in Authoriser |->
       [pc |-> "start", principal |-> None, purpose |-> None,
        recipient |-> None, since |-> 0, consent |-> 0]]
  /\ submitter = [s \in Submitter |-> [pc |-> "start", authorisation |-> None]]
  /\ collector = [c \in Collector |-> [pc |-> "start", transfer |-> None]]

(***************************************************************************)
(* The consent log, through its register.                                  *)
(***************************************************************************)
\* A decision reaches the log, dated in the past or ahead of the clock. One that
\* the decision in force outranks is recorded and governs nothing; a tie goes
\* either way (comparePrecedence settles it by recorded_at and id).
Decide ==
  /\ Cardinality(made) < MaxDecisions
  /\ \E p \in Principal, u \in Purpose, s \in Status, d \in 0..(now + Skew) :
       LET x == [id |-> Cardinality(made) + 1, principal |-> p, purpose |-> u,
                 status |-> s, decidedAt |-> d]
       IN  /\ made' = made \cup {x}
           /\ \/ Displace(x)
              \/ /\ \E y \in governing : SameMatter(x, y) /\ y.decidedAt >= d
                 /\ UNCHANGED governing
  /\ UNCHANGED <<now, rows, calls>>

(***************************************************************************)
(* authoriseTransfer.                                                      *)
(***************************************************************************)
Ask(c) ==
  /\ authoriser[c].pc = "start"
  /\ \E p \in Principal, u \in Purpose, r \in Recipient :
       authoriser' = [authoriser EXCEPT ![c] =
         [pc |-> "evaluate", principal |-> p, purpose |-> u, recipient |-> r,
          since |-> Cardinality(made), consent |-> 0]]
  /\ UNCHANGED <<now, governing, made, rows, submitter, collector>>

\* Mutation for NotAfterWithdrawal: any grant in the log will do.
PermitsOnRecord(x, p, u) ==
  x \in made /\ x.principal = p /\ x.purpose = u /\ x.status = "GRANTED"

\* evaluateAuthorisation: absence of a decision is not permission.
Permits(x, p, u) ==
  x \in governing /\ x.principal = p /\ x.purpose = u /\ x.status = "GRANTED"

Evaluate(c) ==
  LET q == authoriser[c]  grants == {x \in made : Permits(x, q.principal, q.purpose)} IN
  /\ q.pc = "evaluate"
  /\ \/ \E x \in grants :
          authoriser' = [authoriser EXCEPT ![c].pc = "recipient", ![c].consent = x.id]
     \/ grants = {} /\ authoriser' = [authoriser EXCEPT ![c].pc = "refused"]
  /\ UNCHANGED <<now, governing, made, rows, submitter, collector>>

FindRecipient(c) ==
  /\ authoriser[c].pc = "recipient"
  /\ authoriser' = [authoriser EXCEPT ![c].pc =
                      IF authoriser[c].recipient \in Active THEN "create" ELSE "refused"]
  /\ UNCHANGED <<now, governing, made, rows, submitter, collector>>

CreateAuthorisation(c) ==
  LET q == authoriser[c] IN
  /\ q.pc = "create"
  /\ authorisation' = [authorisation EXCEPT ![c] =
       [status |-> "AUTHORISED", principal |-> q.principal, purpose |-> q.purpose,
        recipient |-> q.recipient, consent |-> q.consent, expiresAt |-> now + Ttl]]
  /\ authoriser' = [authoriser EXCEPT ![c].pc = "authorised"]
  /\ UNCHANGED <<now, governing, made, transfer, submitter, collector>>

(***************************************************************************)
(* recordTransfer.                                                         *)
(***************************************************************************)

\* What the row that was read decides, once the envelope and the nonce passed.
AfterRead(row) ==
  CASE row.status = "CONSUMED" -> "authorisation_consumed"
    [] row.status = "EXPIRED"  -> "authorisation_expired"
    [] row.status = "AUTHORISED" /\ row.expiresAt <= now -> "expire"
    [] OTHER -> "store"

ReadAuthorisation(s) ==
  /\ submitter[s].pc = "start"
  /\ \/ \E answer \in {"invalid_envelope", "not_found"} :   \* malformed; no such row or nonce
          submitter' = [submitter EXCEPT ![s].pc = answer]
     \/ \E a \in Authoriser :
          /\ authorisation[a].status # "none"
          /\ submitter' = [submitter EXCEPT ![s] =
               [pc |-> AfterRead(authorisation[a]), authorisation |-> a]]
  /\ UNCHANGED <<now, governing, made, rows, authoriser, collector>>

\* Mutation for AnswersStand: without the trigger.
MayBecomeAnything(a, status) == TRUE

\* rift_transfer_authorisations_guard: AUTHORISED -> CONSUMED | EXPIRED.
MayBecome(a, status) == authorisation[a].status \in {"AUTHORISED", status}

Expire(s) ==
  LET a == submitter[s].authorisation IN
  /\ submitter[s].pc = "expire"
  /\ \/ /\ MayBecome(a, "EXPIRED")
        /\ authorisation' = [authorisation EXCEPT ![a].status = "EXPIRED"]
        /\ submitter' = [submitter EXCEPT ![s].pc = "authorisation_expired"]
     \/ /\ ~MayBecome(a, "EXPIRED")
        /\ submitter' = [submitter EXCEPT ![s].pc = "threw"]
        /\ UNCHANGED authorisation
  /\ UNCHANGED <<now, governing, made, transfer, authoriser, collector>>

\* Mutation for OneTransferEach: without the index.
UnusedAlways(a) == TRUE

\* The unique index on transfer_records.authorisation_id.
Unused(a) == \A s \in Submitter : transfer[s].authorisation # a

\* Mutation for ImplementsSingleUse: the row is not consumed with the insert.
StoreUnconsumed(s) ==
  LET a == submitter[s].authorisation IN
  /\ submitter[s].pc = "store"
  /\ Unused(a) /\ MayBecome(a, "CONSUMED")
  /\ transfer' = [transfer EXCEPT ![s] =
       [status |-> "RECORDED", authorisation |-> a, deliveredAt |-> None]]
  /\ submitter' = [submitter EXCEPT ![s].pc = "recorded"]
  /\ UNCHANGED <<now, governing, made, authorisation, authoriser, collector>>

\* One transaction: the insert under the unique index, the update under the guard.
Store(s) ==
  LET a == submitter[s].authorisation IN
  /\ submitter[s].pc = "store"
  /\ Unused(a) /\ MayBecome(a, "CONSUMED")
  /\ transfer' = [transfer EXCEPT ![s] =
       [status |-> "RECORDED", authorisation |-> a, deliveredAt |-> None]]
  /\ authorisation' = [authorisation EXCEPT ![a].status = "CONSUMED"]
  /\ submitter' = [submitter EXCEPT ![s].pc = "recorded"]
  /\ UNCHANGED <<now, governing, made, authoriser, collector>>

\* Whatever the transaction failed of is answered as a conflict.
RollBack(s) ==
  LET a == submitter[s].authorisation IN
  /\ submitter[s].pc = "store"
  /\ ~(Unused(a) /\ MayBecome(a, "CONSUMED"))
  /\ submitter' = [submitter EXCEPT ![s].pc = "conflict"]
  /\ UNCHANGED <<now, governing, made, rows, authoriser, collector>>

(***************************************************************************)
(* collectTransfer.                                                        *)
(***************************************************************************)
Addressed(s, r) ==
  transfer[s].status # "none" /\ authorisation[transfer[s].authorisation].recipient = r

FetchEnvelope(c) ==
  /\ collector[c].pc = "start"
  /\ \/ /\ \E s \in Submitter, r \in Active : ~Addressed(s, r)
        /\ collector' = [collector EXCEPT ![c].pc = "not_found"]
     \/ \E s \in Submitter, r \in Active :
          /\ Addressed(s, r)
          /\ collector' = [collector EXCEPT ![c] =
               [pc |-> IF transfer[s].status = "DELIVERED" THEN "collected" ELSE "deliver",
                transfer |-> s]]
  /\ UNCHANGED <<now, governing, made, rows, authoriser, submitter>>

\* Mutation for DeliveredOnce: without the trigger a later collector redates it.
DatableAlways(s) == TRUE

\* rift_transfer_records_guard: a delivery timestamp is written once.
Datable(s) == transfer[s].deliveredAt \in {None, now}

Deliver(c) ==
  LET s == collector[c].transfer IN
  /\ collector[c].pc = "deliver"
  /\ \/ /\ Datable(s)
        /\ transfer' = [transfer EXCEPT ![s].status = "DELIVERED", ![s].deliveredAt = now]
        /\ collector' = [collector EXCEPT ![c].pc = "collected"]
     \/ /\ ~Datable(s)
        /\ collector' = [collector EXCEPT ![c].pc = "threw"]
        /\ UNCHANGED transfer
  /\ UNCHANGED <<now, governing, made, authorisation, authoriser, submitter>>

Tick ==
  /\ now < MaxTime
  /\ now' = now + 1
  /\ UNCHANGED <<governing, made, rows, calls>>

Next ==
  \/ Decide
  \/ Tick
  \/ \E c \in Authoriser : Ask(c) \/ Evaluate(c) \/ FindRecipient(c) \/ CreateAuthorisation(c)
  \/ \E s \in Submitter : ReadAuthorisation(s) \/ Expire(s) \/ Store(s) \/ RollBack(s)
  \/ \E c \in Collector : FetchEnvelope(c) \/ Deliver(c)

Spec == Init /\ [][Next]_vars

(***************************************************************************)
(* Properties.                                                             *)
(***************************************************************************)

\* Never two transfers for an authorisation, and never a consumed authorisation
\* with nothing recorded against it, however many submissions race
\* (recordTransfer's transaction, its index and its trigger).
OneTransferEach ==
  \A a \in Authoriser :
    LET stored == {s \in Submitter : transfer[s].authorisation = a} IN
    Cardinality(stored) = IF authorisation[a].status = "CONSUMED" THEN 1 ELSE 0

\* What a submission was answered stays true: "recorded" is this submission's
\* own row, "consumed" is backed by somebody's row, and an authorisation once
\* reported expired is never used afterwards (recordTransfer's early returns,
\* each decided on a row read one round trip before).
AnswersStand ==
  \A s \in Submitter :
    LET a == submitter[s].authorisation IN
    /\ submitter[s].pc = "recorded" => transfer[s].authorisation = a
    /\ submitter[s].pc = "authorisation_consumed" =>
         \E t \in Submitter \ {s} : transfer[t].authorisation = a
    /\ submitter[s].pc = "authorisation_expired" =>
         \A t \in Submitter : transfer[t].authorisation # a

\* A withdrawal stops every authorisation asked for after it: an authorisation
\* cites a grant of its own principal and purpose, and no decision that reached
\* the log between that grant and the call was dated after it
\* (evaluateAuthorisation; docs/lifecycle.md, "What a withdrawal does").
NotAfterWithdrawal ==
  \A a \in Authoriser :
    authorisation[a].status # "none" =>
      \E x \in made :
        /\ x.id = authorisation[a].consent /\ x.status = "GRANTED"
        /\ x.principal = authorisation[a].principal /\ x.purpose = authorisation[a].purpose
        /\ \A y \in made : SameMatter(x, y) /\ y.decidedAt > x.decidedAt =>
                           y.id > authoriser[a].since

\* A delivery is dated once, whichever of the recipient's collectors came first
\* (collectTransfer and rift_transfer_records_guard).
DeliveredOnce ==
  [][\A s \in Submitter :
       transfer[s].deliveredAt # None => transfer'[s] = transfer[s]]_vars

\* The rows implement a permission that is used once or lapses.
UserOf(a) ==
  IF \E s \in Submitter : transfer[s].authorisation = a
  THEN CHOOSE s \in Submitter : transfer[s].authorisation = a ELSE None

PermissionOf(a) ==
  CASE authorisation[a].status = "none"       -> "unissued"
    [] authorisation[a].status = "AUTHORISED" -> "open"
    [] authorisation[a].status = "EXPIRED"    -> "lapsed"
    [] authorisation[a].status = "CONSUMED"   ->
         IF \E s \in Submitter : transfer[s].authorisation = a /\ transfer[s].status = "DELIVERED"
         THEN "delivered" ELSE "used"

Use ==
  INSTANCE SingleUse WITH
    Permission <- Authoriser, User <- Submitter, Nobody <- None,
    permission <- [a \in Authoriser |-> PermissionOf(a)],
    user <- [a \in Authoriser |-> UserOf(a)]

\* However calls of the three operations interleave, an authorisation is used by
\* one submission or lapses, never both, and is delivered only after it was used.
ImplementsSingleUse == Use!Spec
=============================================================================
