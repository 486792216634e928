----------------------- MODULE SecureTransfer_proofs -----------------------
(***************************************************************************)
(* Proofs about SecureTransfer, for every number of authorisations,        *)
(* submissions and collectors racing on them.                              *)
(***************************************************************************)
EXTENDS SecureTransfer, FiniteSetTheorems, TLAPS

(***************************************************************************)
(* The inductive invariant.                                                *)
(***************************************************************************)

\* An authorisation row is written by the last step of its call.
AuthorisersHold ==
  \A c \in Authoriser :
    /\ authoriser[c].pc # "authorised" => authorisation[c].status = "none"
    /\ authoriser[c].pc \in {"evaluate", "recipient", "create"} =>
         /\ authoriser[c].principal \in Principal /\ authoriser[c].purpose \in Purpose
         /\ authoriser[c].recipient \in Recipient

\* A submission past its read names an authorisation that exists.
SubmittersHold ==
  \A s \in Submitter :
    submitter[s].pc \notin {"start", "not_found", "invalid_envelope"} =>
      /\ submitter[s].authorisation \in Authoriser
      /\ authorisation[submitter[s].authorisation].status # "none"

\* A transfer row belongs to a submission that was answered "recorded".
RowsOwned ==
  \A s \in Submitter :
    /\ transfer[s].authorisation # None <=> transfer[s].status # "none"
    /\ transfer[s].authorisation # None <=> submitter[s].pc = "recorded"
    /\ transfer[s].authorisation # None =>
         transfer[s].authorisation = submitter[s].authorisation
    /\ transfer[s].deliveredAt # None <=> transfer[s].status = "DELIVERED"

CollectorsHold ==
  \A c \in Collector :
    collector[c].pc = "deliver" =>
      collector[c].transfer \in Submitter /\ transfer[collector[c].transfer].status # "none"

\* No two submissions share an authorisation, and the used ones are the consumed.
Exclusive ==
  /\ \A s, t \in Submitter :
       transfer[s].authorisation # None /\ transfer[s].authorisation = transfer[t].authorisation
         => s = t
  /\ \A a \in Authoriser :
       authorisation[a].status = "CONSUMED" <=>
         \E s \in Submitter : transfer[s].authorisation = a

\* An answer is backed by the row's status, which no later step takes back.
AnswersBacked ==
  \A s \in Submitter :
    /\ submitter[s].pc = "authorisation_consumed" =>
         authorisation[submitter[s].authorisation].status = "CONSUMED"
    /\ submitter[s].pc = "authorisation_expired" =>
         authorisation[submitter[s].authorisation].status = "EXPIRED"

TransferInv ==
  /\ TypeOK /\ IsFiniteSet(made)
  /\ AuthorisersHold /\ SubmittersHold /\ RowsOwned /\ CollectorsHold
  /\ Exclusive /\ AnswersBacked

LEMMA InitInv == Init => TransferInv
<1>. SUFFICES ASSUME Init PROVE TransferInv
  OBVIOUS
<1>. USE DEF Init
<1>1. TypeOK
  BY DEF TypeOK, RegisterInit, AuthorisationRow, NoAuthorisation, TransferRow, NoTransfer,
         AuthoriserState, SubmitterState, CollectorState
<1>2. IsFiniteSet(made)
  BY FS_EmptySet
<1>3. AuthorisersHold
  BY DEF AuthorisersHold, NoAuthorisation
<1>4. SubmittersHold /\ AnswersBacked
  BY DEF SubmittersHold, AnswersBacked
<1>5. RowsOwned
  BY DEF RowsOwned, NoTransfer
<1>6. CollectorsHold
  BY DEF CollectorsHold
<1>7. Exclusive
  BY TransferAssumption DEF Exclusive, NoTransfer, NoAuthorisation
<1>. QED  BY <1>1, <1>2, <1>3, <1>4, <1>5, <1>6, <1>7 DEF TransferInv

(***************************************************************************)
(* Each action preserves it.                                               *)
(***************************************************************************)
LEMMA ConsentStep ==
  ASSUME TransferInv, Decide
  PROVE  TransferInv'
<1>. DEFINE n == Cardinality(made)
<1>1. PICK p \in Principal, u \in Purpose, s \in Status, d \in 0..(now + Skew) :
        LET x == [id |-> n + 1, principal |-> p, purpose |-> u,
                  status |-> s, decidedAt |-> d]
        IN  /\ made' = made \cup {x}
            /\ Displace(x) \/ UNCHANGED governing
  BY DEF Decide
<1>2. n \in Nat
  BY FS_CardinalityType DEF TransferInv
<1>. HIDE DEF n
<1>. DEFINE x == [id |-> n + 1, principal |-> p, purpose |-> u,
                  status |-> s, decidedAt |-> d]
<1>3. x \in Decision
  BY <1>2 DEF Decision, TransferInv, TypeOK
<1>4. made' = made \cup {x} /\ (Displace(x) \/ UNCHANGED governing)
  BY <1>1
<1>. HIDE DEF x
<1>5. made' \subseteq Decision /\ governing' \subseteq made' /\ IsFiniteSet(made')
  BY <1>3, <1>4, FS_AddElement DEF Displace, TransferInv, TypeOK
<1>6. UNCHANGED <<now, rows, calls>>
  BY DEF Decide
<1>. QED  BY <1>5, <1>6
          DEF TransferInv, TypeOK, rows, calls, AuthorisersHold, SubmittersHold, RowsOwned,
              CollectorsHold, Exclusive, AnswersBacked

LEMMA TickStep ==
  ASSUME TransferInv, Tick
  PROVE  TransferInv'
BY DEF Tick, rows, calls, TransferInv, TypeOK, AuthorisersHold, SubmittersHold, RowsOwned,
       CollectorsHold, Exclusive, AnswersBacked

\* Steps that only move a call of authoriseTransfer.
LEMMA AuthoriserMoves ==
  ASSUME TransferInv, NEW c \in Authoriser, NEW q \in AuthoriserState,
         authoriser[c].pc # "authorised", q.pc # "authorised",
         q.pc \in {"evaluate", "recipient", "create"} =>
           q.principal \in Principal /\ q.purpose \in Purpose /\ q.recipient \in Recipient,
         authoriser' = [authoriser EXCEPT ![c] = q],
         UNCHANGED <<now, governing, made, rows, submitter, collector>>
  PROVE  TransferInv'
<1>1. authoriser' \in [Authoriser -> AuthoriserState]
  BY DEF TransferInv, TypeOK
<1>2. AuthorisersHold'
  BY DEF TransferInv, TypeOK, AuthorisersHold, rows
<1>. QED  BY <1>1, <1>2
          DEF rows, TransferInv, TypeOK, SubmittersHold, RowsOwned,
              CollectorsHold, Exclusive, AnswersBacked

LEMMA AuthoriserStep ==
  ASSUME TransferInv, NEW c \in Authoriser, Ask(c) \/ Evaluate(c) \/ FindRecipient(c)
  PROVE  TransferInv'
<1>. DEFINE q == authoriser[c]
<1>0. q \in AuthoriserState /\ authoriser \in [Authoriser -> AuthoriserState]
  BY DEF TransferInv, TypeOK
<1>1. CASE Ask(c)
  <2>1. PICK p \in Principal, u \in Purpose, r \in Recipient :
          authoriser' = [authoriser EXCEPT ![c] =
            [pc |-> "evaluate", principal |-> p, purpose |-> u, recipient |-> r,
             since |-> Cardinality(made), consent |-> 0]]
    BY <1>1 DEF Ask
  <2>2. Cardinality(made) \in Nat
    BY FS_CardinalityType DEF TransferInv
  <2>. DEFINE v == [pc |-> "evaluate", principal |-> p, purpose |-> u, recipient |-> r,
                    since |-> Cardinality(made), consent |-> 0]
  <2>3. v \in AuthoriserState
    BY <2>2 DEF AuthoriserState
  <2>4. v.pc = "evaluate" /\ v.principal = p /\ v.purpose = u /\ v.recipient = r
    OBVIOUS
  <2>. HIDE DEF v
  <2>. QED  BY <1>1, <2>1, <2>3, <2>4, AuthoriserMoves DEF Ask, v
<1>2. CASE Evaluate(c)
  <2>0. q.pc = "evaluate" /\ UNCHANGED <<now, governing, made, rows, submitter, collector>>
    BY <1>2 DEF Evaluate
  <2>1. ASSUME NEW x \in made,
               authoriser' = [authoriser EXCEPT ![c].pc = "recipient", ![c].consent = x.id]
        PROVE  TransferInv'
    <3>. DEFINE v == [q EXCEPT !.pc = "recipient", !.consent = x.id]
    <3>1. x.id \in Nat
      BY DEF TransferInv, TypeOK, Decision
    <3>2. v \in AuthoriserState
      BY <1>0, <3>1 DEF AuthoriserState
    <3>3. v.pc = "recipient" /\ v.principal = q.principal /\ v.purpose = q.purpose
          /\ v.recipient = q.recipient
      BY <1>0 DEF AuthoriserState
    <3>4. authoriser' = [authoriser EXCEPT ![c] = v]
      BY <1>0, <2>1
    <3>5. q.principal \in Principal /\ q.purpose \in Purpose /\ q.recipient \in Recipient
      BY <2>0 DEF TransferInv, AuthorisersHold
    <3>. HIDE DEF v
    <3>. QED  BY <2>0, <3>2, <3>3, <3>4, <3>5, AuthoriserMoves
  <2>2. ASSUME authoriser' = [authoriser EXCEPT ![c].pc = "refused"]
        PROVE  TransferInv'
    <3>. DEFINE v == [q EXCEPT !.pc = "refused"]
    <3>2. v \in AuthoriserState
      BY <1>0 DEF AuthoriserState
    <3>3. v.pc = "refused"
      BY <1>0 DEF AuthoriserState
    <3>4. authoriser' = [authoriser EXCEPT ![c] = v]
      BY <1>0, <2>2
    <3>. HIDE DEF v
    <3>. QED  BY <2>0, <3>2, <3>3, <3>4, AuthoriserMoves
  <2>. QED  BY <1>2, <2>1, <2>2 DEF Evaluate
<1>3. CASE FindRecipient(c)
  <2>. DEFINE step == IF q.recipient \in Active THEN "create" ELSE "refused"
              v == [q EXCEPT !.pc = step]
  <2>0. q.pc = "recipient" /\ UNCHANGED <<now, governing, made, rows, submitter, collector>>
        /\ authoriser' = [authoriser EXCEPT ![c].pc = step]
    BY <1>3 DEF FindRecipient
  <2>1. step \in {"create", "refused"}
    OBVIOUS
  <2>. HIDE DEF step
  <2>2. v \in AuthoriserState
    BY <1>0, <2>1 DEF AuthoriserState
  <2>3. v.pc = step /\ v.principal = q.principal /\ v.purpose = q.purpose
        /\ v.recipient = q.recipient
    BY <1>0 DEF AuthoriserState
  <2>4. authoriser' = [authoriser EXCEPT ![c] = v]
    BY <1>0, <2>0
  <2>5. q.principal \in Principal /\ q.purpose \in Purpose /\ q.recipient \in Recipient
    BY <2>0 DEF TransferInv, AuthorisersHold
  <2>. HIDE DEF v
  <2>. QED  BY <2>0, <2>1, <2>2, <2>3, <2>4, <2>5, AuthoriserMoves
<1>. QED  BY <1>1, <1>2, <1>3

LEMMA CreateStep ==
  ASSUME TransferInv, NEW c \in Authoriser, CreateAuthorisation(c)
  PROVE  TransferInv'
<1>. DEFINE q == authoriser[c]
            row == [status |-> "AUTHORISED", principal |-> q.principal, purpose |-> q.purpose,
                    recipient |-> q.recipient, consent |-> q.consent, expiresAt |-> now + Ttl]
            v == [q EXCEPT !.pc = "authorised"]
<1>0. q \in AuthoriserState /\ authoriser \in [Authoriser -> AuthoriserState]
      /\ authorisation \in [Authoriser -> AuthorisationRow]
  BY DEF TransferInv, TypeOK
<1>1. authorisation' = [authorisation EXCEPT ![c] = row]
      /\ UNCHANGED <<now, governing, made, transfer, submitter, collector>> /\ q.pc = "create"
  BY DEF CreateAuthorisation
<1>2. authoriser' = [authoriser EXCEPT ![c] = v]
  BY <1>0 DEF CreateAuthorisation
<1>3. row \in AuthorisationRow /\ row.status = "AUTHORISED"
  <2>1. now + Ttl \in Nat
    BY TransferAssumption DEF TransferInv, TypeOK
  <2>. QED  BY <1>0, <2>1 DEF AuthorisationRow, AuthoriserState
<1>4. v \in AuthoriserState
  BY <1>0 DEF AuthoriserState
<1>5. v.pc = "authorised"
  BY <1>0 DEF AuthoriserState
<1>6. authorisation[c].status = "none"
  BY <1>1 DEF TransferInv, AuthorisersHold
<1>. HIDE DEF row, v, q
<1>7. TypeOK'
  BY <1>0, <1>1, <1>2, <1>3, <1>4 DEF TransferInv, TypeOK
<1>8. AuthorisersHold'
  BY <1>0, <1>1, <1>2, <1>5 DEF TransferInv, AuthorisersHold
<1>9. SubmittersHold'
  BY <1>0, <1>1, <1>3 DEF TransferInv, SubmittersHold
<1>10. RowsOwned' /\ CollectorsHold'
  BY <1>1 DEF TransferInv, RowsOwned, CollectorsHold
<1>11. Exclusive'
  BY <1>0, <1>1, <1>3, <1>6 DEF TransferInv, Exclusive
<1>12. AnswersBacked'
  BY <1>0, <1>1, <1>3, <1>6 DEF TransferInv, AnswersBacked
<1>. QED  BY <1>1, <1>7, <1>8, <1>9, <1>10, <1>11, <1>12 DEF TransferInv

LEMMA ReadStep ==
  ASSUME TransferInv, NEW s \in Submitter, ReadAuthorisation(s)
  PROVE  TransferInv'
<1>. DEFINE q == submitter[s]
<1>0. /\ q \in SubmitterState /\ submitter \in [Submitter -> SubmitterState]
      /\ q.pc = "start"
      /\ UNCHANGED <<now, governing, made, rows, authoriser, collector>>
  BY DEF TransferInv, TypeOK, ReadAuthorisation
<1>1. ASSUME NEW v \in SubmitterState, v.pc # "recorded",
             submitter' = [submitter EXCEPT ![s] = v],
             v.pc \notin {"start", "not_found", "invalid_envelope"} =>
               /\ v.authorisation \in Authoriser
               /\ authorisation[v.authorisation].status # "none",
             v.pc = "authorisation_consumed" =>
               authorisation[v.authorisation].status = "CONSUMED",
             v.pc = "authorisation_expired" =>
               authorisation[v.authorisation].status = "EXPIRED"
      PROVE  TransferInv'
  <2>1. TypeOK' /\ AuthorisersHold' /\ CollectorsHold' /\ Exclusive' /\ IsFiniteSet(made)'
    BY <1>0, <1>1 DEF rows, TransferInv, TypeOK, AuthorisersHold, CollectorsHold, Exclusive
  <2>2. SubmittersHold' /\ AnswersBacked'
    BY <1>0, <1>1 DEF rows, TransferInv, SubmittersHold, AnswersBacked
  <2>3. RowsOwned'
    BY <1>0, <1>1 DEF rows, TransferInv, RowsOwned
  <2>. QED  BY <2>1, <2>2, <2>3 DEF TransferInv
<1>2. ASSUME NEW answer \in {"invalid_envelope", "not_found"},
             submitter' = [submitter EXCEPT ![s].pc = answer]
      PROVE  TransferInv'
  <2>. DEFINE v == [q EXCEPT !.pc = answer]
  <2>1. v \in SubmitterState
    BY <1>0 DEF SubmitterState, SubmitAnswer
  <2>2. v.pc = answer
    BY <1>0 DEF SubmitterState
  <2>3. submitter' = [submitter EXCEPT ![s] = v]
    BY <1>0, <1>2
  <2>. HIDE DEF v
  <2>. QED  BY <1>1, <2>1, <2>2, <2>3
<1>3. ASSUME NEW a \in Authoriser, authorisation[a].status # "none",
             submitter' = [submitter EXCEPT ![s] =
               [pc |-> AfterRead(authorisation[a]), authorisation |-> a]]
      PROVE  TransferInv'
  <2>. DEFINE v == [pc |-> AfterRead(authorisation[a]), authorisation |-> a]
  <2>1. /\ AfterRead(authorisation[a]) \in
             {"authorisation_consumed", "authorisation_expired", "expire", "store"}
        /\ AfterRead(authorisation[a]) = "authorisation_consumed"
             => authorisation[a].status = "CONSUMED"
        /\ AfterRead(authorisation[a]) = "authorisation_expired"
             => authorisation[a].status = "EXPIRED"
    BY DEF AfterRead
  <2>2. v \in SubmitterState
    BY <2>1 DEF SubmitterState, SubmitAnswer
  <2>3. v.pc = AfterRead(authorisation[a]) /\ v.authorisation = a
    OBVIOUS
  <2>4. submitter' = [submitter EXCEPT ![s] = v]
    BY <1>3
  <2>. HIDE DEF v
  <2>. QED  BY <1>1, <1>3, <2>1, <2>2, <2>3, <2>4
<1>. QED  BY <1>2, <1>3 DEF ReadAuthorisation

\* What a submission writes once it is past its read: its own pc.
LEMMA SubmitterMoved ==
  ASSUME TypeOK, NEW s \in Submitter, NEW answer \in SubmitAnswer,
         submitter' = [submitter EXCEPT ![s].pc = answer]
  PROVE  /\ submitter' \in [Submitter -> SubmitterState]
         /\ submitter'[s].pc = answer
         /\ submitter'[s].authorisation = submitter[s].authorisation
         /\ \A t \in Submitter \ {s} : submitter'[t] = submitter[t]
<1>. DEFINE q == submitter[s]
            v == [q EXCEPT !.pc = answer]
<1>0. q \in SubmitterState /\ submitter \in [Submitter -> SubmitterState]
  BY DEF TypeOK
<1>1. v \in SubmitterState
  BY <1>0 DEF SubmitterState
<1>2. v.pc = answer /\ v.authorisation = q.authorisation
  BY <1>0 DEF SubmitterState
<1>3. submitter' = [submitter EXCEPT ![s] = v]
  BY <1>0
<1>. HIDE DEF v
<1>. QED  BY <1>0, <1>1, <1>2, <1>3

\* What it writes into an authorisation row: the status.
LEMMA RowMoved ==
  ASSUME TypeOK, NEW a \in Authoriser, NEW status \in {"CONSUMED", "EXPIRED"},
         authorisation' = [authorisation EXCEPT ![a].status = status]
  PROVE  /\ authorisation' \in [Authoriser -> AuthorisationRow]
         /\ authorisation'[a].status = status
         /\ authorisation'[a].recipient = authorisation[a].recipient
         /\ authorisation'[a].consent = authorisation[a].consent
         /\ authorisation'[a].principal = authorisation[a].principal
         /\ authorisation'[a].purpose = authorisation[a].purpose
         /\ \A b \in Authoriser \ {a} : authorisation'[b] = authorisation[b]
<1>. DEFINE q == authorisation[a]
            v == [q EXCEPT !.status = status]
<1>0. q \in AuthorisationRow /\ authorisation \in [Authoriser -> AuthorisationRow]
  BY DEF TypeOK
<1>1. v \in AuthorisationRow
  BY <1>0 DEF AuthorisationRow
<1>2. v.status = status
  BY <1>0 DEF AuthorisationRow
<1>3. v.recipient = q.recipient /\ v.consent = q.consent
  BY <1>0 DEF AuthorisationRow
<1>4. v.principal = q.principal /\ v.purpose = q.purpose
  BY <1>0 DEF AuthorisationRow
<1>5. authorisation' = [authorisation EXCEPT ![a] = v]
  BY <1>0
<1>. HIDE DEF v
<1>. QED  BY <1>0, <1>1, <1>2, <1>3, <1>4, <1>5

LEMMA ExpireStep ==
  ASSUME TransferInv, NEW s \in Submitter, Expire(s)
  PROVE  TransferInv'
<1>. DEFINE a == submitter[s].authorisation
<1>0. /\ a \in Authoriser /\ submitter[s].pc = "expire" /\ authorisation[a].status # "none"
      /\ UNCHANGED <<now, governing, made, transfer, authoriser, collector>>
  BY DEF Expire, TransferInv, SubmittersHold
<1>1. CASE /\ MayBecome(a, "EXPIRED")
           /\ authorisation' = [authorisation EXCEPT ![a].status = "EXPIRED"]
           /\ submitter' = [submitter EXCEPT ![s].pc = "authorisation_expired"]
  <2>1. /\ submitter' \in [Submitter -> SubmitterState]
        /\ submitter'[s].pc = "authorisation_expired" /\ submitter'[s].authorisation = a
        /\ \A t \in Submitter \ {s} : submitter'[t] = submitter[t]
    BY <1>1, SubmitterMoved DEF TransferInv, SubmitAnswer
  <2>2. /\ authorisation' \in [Authoriser -> AuthorisationRow]
        /\ authorisation'[a].status = "EXPIRED"
        /\ \A b \in Authoriser \ {a} : authorisation'[b] = authorisation[b]
    BY <1>0, <1>1, RowMoved DEF TransferInv
  <2>3. authorisation[a].status \in {"AUTHORISED", "EXPIRED"}
    BY <1>1 DEF MayBecome
  <2>. HIDE DEF a
  <2>4. TypeOK' /\ CollectorsHold' /\ IsFiniteSet(made)'
    BY <1>0, <2>1, <2>2 DEF TransferInv, TypeOK, CollectorsHold
  <2>5. AuthorisersHold'
    BY <1>0, <2>2 DEF TransferInv, AuthorisersHold
  <2>6. SubmittersHold'
    BY <1>0, <2>1, <2>2 DEF TransferInv, SubmittersHold
  <2>7. RowsOwned'
    BY <1>0, <2>1 DEF TransferInv, RowsOwned
  <2>8. Exclusive'
    BY <1>0, <2>2, <2>3 DEF TransferInv, Exclusive
  <2>9. AnswersBacked'
    BY <1>0, <2>1, <2>2, <2>3 DEF TransferInv, AnswersBacked, SubmittersHold
  <2>. QED  BY <2>4, <2>5, <2>6, <2>7, <2>8, <2>9 DEF TransferInv
<1>2. CASE submitter' = [submitter EXCEPT ![s].pc = "threw"] /\ UNCHANGED authorisation
  <2>1. /\ submitter' \in [Submitter -> SubmitterState]
        /\ submitter'[s].pc = "threw" /\ submitter'[s].authorisation = a
        /\ \A t \in Submitter \ {s} : submitter'[t] = submitter[t]
    BY <1>2, SubmitterMoved DEF TransferInv, SubmitAnswer
  <2>. HIDE DEF a
  <2>2. TypeOK' /\ CollectorsHold' /\ IsFiniteSet(made)' /\ AuthorisersHold' /\ Exclusive'
    BY <1>0, <1>2, <2>1 DEF TransferInv, TypeOK, CollectorsHold, AuthorisersHold, Exclusive
  <2>3. SubmittersHold' /\ AnswersBacked'
    BY <1>0, <1>2, <2>1 DEF TransferInv, SubmittersHold, AnswersBacked
  <2>4. RowsOwned'
    BY <1>0, <2>1 DEF TransferInv, RowsOwned
  <2>. QED  BY <2>2, <2>3, <2>4 DEF TransferInv
<1>. QED  BY <1>1, <1>2 DEF Expire

LEMMA StoreStep ==
  ASSUME TransferInv, NEW s \in Submitter, Store(s)
  PROVE  TransferInv'
<1>. DEFINE a == submitter[s].authorisation
            row == [status |-> "RECORDED", authorisation |-> a, deliveredAt |-> None]
<1>0. /\ a \in Authoriser /\ submitter[s].pc = "store" /\ authorisation[a].status # "none"
      /\ Unused(a)
      /\ UNCHANGED <<now, governing, made, authoriser, collector>>
  BY DEF Store, TransferInv, SubmittersHold
<1>1. /\ submitter' \in [Submitter -> SubmitterState]
      /\ submitter'[s].pc = "recorded" /\ submitter'[s].authorisation = a
      /\ \A t \in Submitter \ {s} : submitter'[t] = submitter[t]
  BY SubmitterMoved DEF Store, TransferInv, SubmitAnswer
<1>2. /\ authorisation' \in [Authoriser -> AuthorisationRow]
      /\ authorisation'[a].status = "CONSUMED"
      /\ \A b \in Authoriser \ {a} : authorisation'[b] = authorisation[b]
  BY <1>0, RowMoved DEF Store, TransferInv
<1>3. transfer' = [transfer EXCEPT ![s] = row]
  BY DEF Store
<1>4. row \in TransferRow /\ row.authorisation = a /\ row.status = "RECORDED"
      /\ row.deliveredAt = None
  BY <1>0 DEF TransferRow
<1>5. a # None
  BY <1>0, TransferAssumption
<1>6. authorisation[a].status \in {"AUTHORISED", "CONSUMED"}
  BY DEF Store, MayBecome
<1>. HIDE DEF a, row
<1>7. TypeOK' /\ IsFiniteSet(made)'
  BY <1>0, <1>1, <1>2, <1>3, <1>4 DEF TransferInv, TypeOK
<1>8. AuthorisersHold'
  BY <1>0, <1>2 DEF TransferInv, AuthorisersHold
<1>9. SubmittersHold'
  BY <1>0, <1>1, <1>2 DEF TransferInv, SubmittersHold
<1>10. RowsOwned'
  BY <1>0, <1>1, <1>3, <1>4, <1>5 DEF TransferInv, TypeOK, RowsOwned
<1>11. CollectorsHold'
  BY <1>0, <1>3, <1>4 DEF TransferInv, TypeOK, CollectorsHold
<1>12. Exclusive'
  <2>1. /\ transfer'[s].authorisation = a
        /\ \A t \in Submitter \ {s} : transfer'[t] = transfer[t]
    BY <1>3, <1>4 DEF TransferInv, TypeOK
  <2>2. transfer[s].authorisation = None
    BY <1>0 DEF TransferInv, RowsOwned
  <2>3. \A t \in Submitter : transfer[t].authorisation # a
    BY <1>0 DEF Unused
  <2>4. \A b \in Authoriser :
          authorisation'[b].status = "CONSUMED" <=>
            \E t \in Submitter : transfer'[t].authorisation = b
    <3>1. ASSUME NEW b \in Authoriser, b # a
          PROVE  authorisation'[b].status = "CONSUMED" <=>
                   \E t \in Submitter : transfer'[t].authorisation = b
      <4>1. authorisation'[b] = authorisation[b]
        BY <1>2, <3>1
      <4>2. b # None
        BY TransferAssumption
      <4>3. (\E t \in Submitter : transfer'[t].authorisation = b) <=>
              \E t \in Submitter : transfer[t].authorisation = b
        BY <2>1, <2>2, <3>1, <4>2
      <4>. QED  BY <4>1, <4>3 DEF TransferInv, Exclusive
    <3>. QED  BY <1>2, <2>1, <3>1
  <2>5. \A x, y \in Submitter :
          transfer'[x].authorisation # None
            /\ transfer'[x].authorisation = transfer'[y].authorisation => x = y
    BY <2>1, <2>3 DEF TransferInv, Exclusive
  <2>. QED  BY <2>4, <2>5 DEF Exclusive
<1>13. AnswersBacked'
  BY <1>0, <1>1, <1>2, <1>6 DEF TransferInv, AnswersBacked, SubmittersHold
<1>. QED  BY <1>7, <1>8, <1>9, <1>10, <1>11, <1>12, <1>13 DEF TransferInv

LEMMA RollBackStep ==
  ASSUME TransferInv, NEW s \in Submitter, RollBack(s)
  PROVE  TransferInv'
<1>. DEFINE a == submitter[s].authorisation
<1>0. /\ a \in Authoriser /\ submitter[s].pc = "store" /\ authorisation[a].status # "none"
      /\ UNCHANGED <<now, governing, made, rows, authoriser, collector>>
  BY DEF RollBack, TransferInv, SubmittersHold
<1>1. /\ submitter' \in [Submitter -> SubmitterState]
      /\ submitter'[s].pc = "conflict" /\ submitter'[s].authorisation = a
      /\ \A t \in Submitter \ {s} : submitter'[t] = submitter[t]
  BY SubmitterMoved DEF RollBack, TransferInv, SubmitAnswer
<1>. HIDE DEF a
<1>2. TypeOK' /\ CollectorsHold' /\ IsFiniteSet(made)' /\ AuthorisersHold' /\ Exclusive'
  BY <1>0, <1>1 DEF rows, TransferInv, TypeOK, CollectorsHold, AuthorisersHold, Exclusive
<1>3. SubmittersHold' /\ AnswersBacked'
  BY <1>0, <1>1 DEF rows, TransferInv, SubmittersHold, AnswersBacked
<1>4. RowsOwned'
  BY <1>0, <1>1 DEF rows, TransferInv, RowsOwned
<1>. QED  BY <1>2, <1>3, <1>4 DEF TransferInv

LEMMA CollectorMoved ==
  ASSUME TransferInv, NEW c \in Collector, NEW v \in CollectorState,
         collector' = [collector EXCEPT ![c] = v],
         v.pc = "deliver" =>
           v.transfer \in Submitter /\ transfer[v.transfer].status # "none",
         UNCHANGED <<now, governing, made, rows, authoriser, submitter>>
  PROVE  TransferInv'
<1>1. TypeOK' /\ CollectorsHold'
  BY DEF rows, TransferInv, TypeOK, CollectorsHold
<1>. QED  BY <1>1 DEF rows, TransferInv, AuthorisersHold, SubmittersHold, RowsOwned,
                      Exclusive, AnswersBacked

\* A collector's own pc, once it has fetched.
LEMMA CollectorPassed ==
  ASSUME TypeOK, NEW c \in Collector, NEW answer \in {"collected", "not_found", "threw"},
         collector' = [collector EXCEPT ![c].pc = answer]
  PROVE  \E v \in CollectorState : v.pc = answer /\ collector' = [collector EXCEPT ![c] = v]
<1>. DEFINE q == collector[c]
            v == [q EXCEPT !.pc = answer]
<1>0. q \in CollectorState /\ collector \in [Collector -> CollectorState]
  BY DEF TypeOK
<1>1. v \in CollectorState
  BY <1>0 DEF CollectorState
<1>2. v.pc = answer
  BY <1>0 DEF CollectorState
<1>3. collector' = [collector EXCEPT ![c] = v]
  BY <1>0
<1>. QED  BY <1>1, <1>2, <1>3

LEMMA FetchStep ==
  ASSUME TransferInv, NEW c \in Collector, FetchEnvelope(c)
  PROVE  TransferInv'
<1>0. UNCHANGED <<now, governing, made, rows, authoriser, submitter>>
  BY DEF FetchEnvelope
<1>1. CASE collector' = [collector EXCEPT ![c].pc = "not_found"]
  <2>1. PICK v \in CollectorState :
          v.pc = "not_found" /\ collector' = [collector EXCEPT ![c] = v]
    BY <1>1, CollectorPassed DEF TransferInv
  <2>. QED  BY <1>0, <2>1, CollectorMoved
<1>2. ASSUME NEW s \in Submitter, NEW r \in Active, Addressed(s, r),
             collector' = [collector EXCEPT ![c] =
               [pc |-> IF transfer[s].status = "DELIVERED" THEN "collected" ELSE "deliver",
                transfer |-> s]]
      PROVE  TransferInv'
  <2>. DEFINE v == [pc |-> IF transfer[s].status = "DELIVERED" THEN "collected" ELSE "deliver",
                    transfer |-> s]
  <2>1. v \in CollectorState
    BY DEF CollectorState
  <2>2. v.transfer = s /\ transfer[s].status # "none"
    BY <1>2 DEF Addressed
  <2>. HIDE DEF v
  <2>. QED  BY <1>0, <1>2, <2>1, <2>2, CollectorMoved DEF v
<1>. QED  BY <1>1, <1>2 DEF FetchEnvelope

\* What a delivery writes: the status and its date.
LEMMA Delivered ==
  ASSUME TransferInv, NEW s \in Submitter,
         transfer' = [transfer EXCEPT ![s].status = "DELIVERED", ![s].deliveredAt = now]
  PROVE  /\ transfer' \in [Submitter -> TransferRow]
         /\ transfer'[s].status = "DELIVERED" /\ transfer'[s].deliveredAt = now
         /\ transfer'[s].authorisation = transfer[s].authorisation
         /\ \A t \in Submitter \ {s} : transfer'[t] = transfer[t]
<1>. DEFINE q == transfer[s]
            v == [q EXCEPT !.status = "DELIVERED", !.deliveredAt = now]
<1>0. q \in TransferRow /\ transfer \in [Submitter -> TransferRow] /\ now \in Nat
  BY DEF TransferInv, TypeOK
<1>1. v \in TransferRow
  BY <1>0 DEF TransferRow
<1>2. v.status = "DELIVERED" /\ v.deliveredAt = now
  BY <1>0 DEF TransferRow
<1>3. v.authorisation = q.authorisation
  BY <1>0 DEF TransferRow
<1>4. transfer' = [transfer EXCEPT ![s] = v]
  BY <1>0
<1>. HIDE DEF v
<1>. QED  BY <1>0, <1>1, <1>2, <1>3, <1>4

LEMMA DeliverStep ==
  ASSUME TransferInv, NEW c \in Collector, Deliver(c)
  PROVE  TransferInv'
<1>. DEFINE s == collector[c].transfer
<1>0. /\ s \in Submitter /\ transfer[s].status # "none" /\ collector[c].pc = "deliver"
      /\ UNCHANGED <<now, governing, made, authorisation, authoriser, submitter>>
  BY DEF Deliver, TransferInv, CollectorsHold
<1>1. CASE /\ transfer' = [transfer EXCEPT ![s].status = "DELIVERED", ![s].deliveredAt = now]
           /\ collector' = [collector EXCEPT ![c].pc = "collected"]
  <2>1. /\ transfer' \in [Submitter -> TransferRow]
        /\ transfer'[s].status = "DELIVERED" /\ transfer'[s].deliveredAt = now
        /\ transfer'[s].authorisation = transfer[s].authorisation
        /\ \A t \in Submitter \ {s} : transfer'[t] = transfer[t]
    BY <1>0, <1>1, Delivered
  <2>2. PICK v \in CollectorState :
          v.pc = "collected" /\ collector' = [collector EXCEPT ![c] = v]
    BY <1>1, CollectorPassed DEF TransferInv
  <2>. HIDE DEF s
  <2>3. \A t \in Submitter : transfer'[t].authorisation = transfer[t].authorisation
    BY <2>1
  <2>4. TypeOK' /\ CollectorsHold'
    BY <1>0, <2>1, <2>2 DEF TransferInv, TypeOK, CollectorsHold
  <2>5. RowsOwned'
    <3>1. now # None
      BY TransferAssumption DEF TransferInv, TypeOK
    <3>. QED  BY <1>0, <2>1, <3>1 DEF TransferInv, RowsOwned
  <2>6. Exclusive'
    BY <1>0, <2>3 DEF TransferInv, Exclusive
  <2>. QED  BY <1>0, <2>4, <2>5, <2>6
            DEF TransferInv, AuthorisersHold, SubmittersHold, AnswersBacked
<1>2. CASE collector' = [collector EXCEPT ![c].pc = "threw"] /\ UNCHANGED transfer
  <2>1. PICK v \in CollectorState :
          v.pc = "threw" /\ collector' = [collector EXCEPT ![c] = v]
    BY <1>2, CollectorPassed DEF TransferInv
  <2>. QED  BY <1>0, <1>2, <2>1, CollectorMoved DEF rows
<1>. QED  BY <1>1, <1>2 DEF Deliver

LEMMA StepInv == TransferInv /\ [Next]_vars => TransferInv'
<1>. SUFFICES ASSUME TransferInv, [Next]_vars PROVE TransferInv'
  OBVIOUS
<1>1. CASE UNCHANGED vars
  BY <1>1 DEF vars, TransferInv, TypeOK, AuthorisersHold, SubmittersHold, RowsOwned,
              CollectorsHold, Exclusive, AnswersBacked
<1>. QED  BY <1>1, ConsentStep, TickStep, AuthoriserStep, CreateStep, ReadStep, ExpireStep,
             StoreStep, RollBackStep, FetchStep, DeliverStep DEF Next

LEMMA AlwaysInv == Spec => []TransferInv
BY InitInv, StepInv, PTL DEF Spec

(***************************************************************************)
(* The theorems.                                                           *)
(***************************************************************************)

\* Rows and calls keep to their declared states, and a decision in force is one
\* that was taken.
THEOREM TransferTypeCorrect == Spec => []TypeOK
<1>1. TransferInv => TypeOK
  BY DEF TransferInv
<1>. QED  BY <1>1, AlwaysInv, PTL

\* Never two transfers for an authorisation, never a consumed authorisation with
\* nothing recorded against it (recordTransfer).
THEOREM SingleTransfer == Spec => []OneTransferEach
<1>1. TransferInv => OneTransferEach
  <2>. SUFFICES ASSUME TransferInv, NEW a \in Authoriser
                PROVE  Cardinality({s \in Submitter : transfer[s].authorisation = a})
                         = IF authorisation[a].status = "CONSUMED" THEN 1 ELSE 0
    BY DEF OneTransferEach
  <2>. DEFINE stored == {s \in Submitter : transfer[s].authorisation = a}
  <2>1. CASE authorisation[a].status = "CONSUMED"
    <3>1. PICK s \in Submitter : transfer[s].authorisation = a
      BY <2>1 DEF TransferInv, Exclusive
    <3>2. a # None
      BY TransferAssumption
    <3>3. stored = {s}
      BY <3>1, <3>2 DEF TransferInv, Exclusive
    <3>. QED  BY <2>1, <3>3, FS_Singleton
  <2>2. CASE authorisation[a].status # "CONSUMED"
    <3>1. stored = {}
      BY <2>2 DEF TransferInv, Exclusive
    <3>. QED  BY <2>2, <3>1, FS_EmptySet
  <2>. QED  BY <2>1, <2>2
<1>. QED  BY <1>1, AlwaysInv, PTL

\* What a submission was answered is never contradicted by what happens later to
\* its authorisation.
THEOREM AnswersStayTrue == Spec => []AnswersStand
<1>1. TransferInv => AnswersStand
  <2>. SUFFICES ASSUME TransferInv, NEW s \in Submitter
                PROVE  LET a == submitter[s].authorisation IN
                       /\ submitter[s].pc = "recorded" => transfer[s].authorisation = a
                       /\ submitter[s].pc = "authorisation_consumed" =>
                            \E t \in Submitter \ {s} : transfer[t].authorisation = a
                       /\ submitter[s].pc = "authorisation_expired" =>
                            \A t \in Submitter : transfer[t].authorisation # a
    BY DEF AnswersStand
  <2>. DEFINE a == submitter[s].authorisation
  <2>1. submitter[s].pc \in {"recorded", "authorisation_consumed", "authorisation_expired"}
          => a \in Authoriser /\ a # None
    BY TransferAssumption DEF TransferInv, SubmittersHold
  <2>2. submitter[s].pc = "recorded" => transfer[s].authorisation = a
    BY DEF TransferInv, RowsOwned
  <2>3. ASSUME submitter[s].pc = "authorisation_consumed"
        PROVE  \E t \in Submitter \ {s} : transfer[t].authorisation = a
    <3>1. PICK t \in Submitter : transfer[t].authorisation = a
      BY <2>1, <2>3 DEF TransferInv, AnswersBacked, Exclusive
    <3>2. transfer[s].authorisation = None
      BY <2>3 DEF TransferInv, RowsOwned
    <3>. QED  BY <2>1, <2>3, <3>1, <3>2
  <2>4. ASSUME submitter[s].pc = "authorisation_expired", NEW t \in Submitter
        PROVE  transfer[t].authorisation # a
    <3>1. authorisation[a].status = "EXPIRED"
      BY <2>4 DEF TransferInv, AnswersBacked
    <3>. QED  BY <2>1, <2>4, <3>1 DEF TransferInv, Exclusive
  <2>. QED  BY <2>2, <2>3, <2>4
<1>. QED  BY <1>1, AlwaysInv, PTL

\* A delivery is dated once (collectTransfer, against its own races).
THEOREM DatedOnce == Spec => DeliveredOnce
<1>1. TransferInv /\ [Next]_vars =>
        [\A s \in Submitter :
           transfer[s].deliveredAt # None => transfer'[s] = transfer[s]]_vars
  <2>. SUFFICES ASSUME TransferInv, [Next]_vars, NEW t \in Submitter,
                       transfer[t].deliveredAt # None
                PROVE  transfer'[t] = transfer[t]
    OBVIOUS
  <2>1. transfer \in [Submitter -> TransferRow] /\ transfer[t].status = "DELIVERED"
    BY DEF TransferInv, TypeOK, RowsOwned
  <2>2. ASSUME NEW s \in Submitter, Store(s) PROVE transfer'[t] = transfer[t]
    <3>1. submitter[s].pc = "store"
      BY <2>2 DEF Store
    <3>2. t # s
      BY <2>1, <3>1 DEF TransferInv, RowsOwned
    <3>. QED  BY <2>1, <2>2, <3>2 DEF Store
  <2>3. ASSUME NEW c \in Collector, Deliver(c) PROVE transfer'[t] = transfer[t]
    <3>. DEFINE s == collector[c].transfer
    <3>1. s \in Submitter
      BY <2>3 DEF Deliver, TransferInv, CollectorsHold
    <3>2. CASE /\ Datable(s)
               /\ transfer' = [transfer EXCEPT ![s].status = "DELIVERED",
                                               ![s].deliveredAt = now]
      <4>1. CASE t # s
        BY <2>1, <3>1, <3>2, <4>1
      <4>2. CASE t = s
        <5>1. transfer[t].deliveredAt = now
          BY <3>2, <4>2 DEF Datable
        <5>2. [transfer[t] EXCEPT !.status = "DELIVERED", !.deliveredAt = now] = transfer[t]
          <6>. DEFINE q == transfer[t]
          <6>1. q \in TransferRow /\ q.status = "DELIVERED" /\ q.deliveredAt = now
            BY <2>1, <5>1
          <6>. HIDE DEF q
          <6>2. [q EXCEPT !.status = "DELIVERED", !.deliveredAt = now] = q
            BY <6>1 DEF TransferRow
          <6>. QED  BY <6>2 DEF q
        <5>. QED  BY <2>1, <3>1, <3>2, <4>2, <5>2
      <4>. QED  BY <4>1, <4>2
    <3>3. CASE UNCHANGED transfer
      BY <3>3
    <3>. QED  BY <2>3, <3>2, <3>3 DEF Deliver
  <2>. QED  BY <2>2, <2>3
            DEF Next, vars, rows, Decide, Tick, Ask, Evaluate, FindRecipient,
                CreateAuthorisation, ReadAuthorisation, Expire, RollBack, FetchEnvelope
<1>. QED  BY <1>1, AlwaysInv, PTL DEF Spec, DeliveredOnce

(***************************************************************************)
(* The rows implement a permission used once.                              *)
(***************************************************************************)

\* Only the rows are seen through the refinement mapping.
LEMMA OnlyRowsSeen ==
  ASSUME UNCHANGED rows
  PROVE  UNCHANGED <<[a \in Authoriser |-> PermissionOf(a)], [a \in Authoriser |-> UserOf(a)]>>
BY DEF rows, PermissionOf, UserOf

\* Steps that change no status, no owner and no delivery are not seen either.
LEMMA Unseen ==
  ASSUME \A a \in Authoriser : authorisation'[a].status = authorisation[a].status,
         \A s \in Submitter : /\ transfer'[s].authorisation = transfer[s].authorisation
                              /\ transfer'[s].status = transfer[s].status
  PROVE  UNCHANGED <<[a \in Authoriser |-> PermissionOf(a)], [a \in Authoriser |-> UserOf(a)]>>
<1>1. \A a \in Authoriser : PermissionOf(a)' = PermissionOf(a)
  BY DEF PermissionOf
<1>2. \A a \in Authoriser : UserOf(a)' = UserOf(a)
  <2>. SUFFICES ASSUME NEW a \in Authoriser PROVE UserOf(a)' = UserOf(a)
    OBVIOUS
  <2>1. \A s \in Submitter : transfer'[s].authorisation = a <=> transfer[s].authorisation = a
    OBVIOUS
  <2>2. (CHOOSE s \in Submitter : transfer'[s].authorisation = a)
          = (CHOOSE s \in Submitter : transfer[s].authorisation = a)
    BY <2>1
  <2>. QED  BY <2>1, <2>2 DEF UserOf
<1>. QED  BY <1>1, <1>2

LEMMA InitUses == Init => Use!Init
<1>. SUFFICES ASSUME Init PROVE Use!Init
  OBVIOUS
<1>1. \A a \in Authoriser : PermissionOf(a) = "unissued"
  BY DEF Init, PermissionOf, NoAuthorisation
<1>2. \A a \in Authoriser : UserOf(a) = None
  BY TransferAssumption DEF Init, UserOf, NoTransfer
<1>. QED  BY <1>1, <1>2 DEF Use!Init

\* A step that moves one permission and leaves the others as they were.
LEMMA MovesOne ==
  ASSUME NEW c \in Authoriser, NEW from, NEW to,
         PermissionOf(c) = from, PermissionOf(c)' = to,
         \A a \in Authoriser \ {c} : PermissionOf(a)' = PermissionOf(a)
  PROVE  Use!Move(c, from, to)
BY DEF Use!Move

LEMMA CreateIssues ==
  ASSUME TransferInv, NEW c \in Authoriser, CreateAuthorisation(c)
  PROVE  Use!Issue(c)
<1>1. /\ authorisation[c].status = "none"
      /\ authorisation \in [Authoriser -> AuthorisationRow]
      /\ UNCHANGED transfer
  BY DEF CreateAuthorisation, TransferInv, AuthorisersHold, TypeOK
<1>2. /\ authorisation'[c].status = "AUTHORISED"
      /\ \A a \in Authoriser \ {c} : authorisation'[a] = authorisation[a]
  BY <1>1 DEF CreateAuthorisation
<1>3. PermissionOf(c) = "unissued" /\ PermissionOf(c)' = "open"
  BY <1>1, <1>2 DEF PermissionOf
<1>4. \A a \in Authoriser \ {c} : PermissionOf(a)' = PermissionOf(a)
  BY <1>1, <1>2 DEF PermissionOf
<1>5. UNCHANGED [a \in Authoriser |-> UserOf(a)]
  BY <1>1 DEF UserOf
<1>. QED  BY <1>3, <1>4, <1>5, MovesOne DEF Use!Issue

LEMMA ExpireLapses ==
  ASSUME TransferInv, NEW s \in Submitter, Expire(s)
  PROVE  \/ \E a \in Authoriser : Use!Lapse(a)
         \/ UNCHANGED <<[a \in Authoriser |-> PermissionOf(a)], [a \in Authoriser |-> UserOf(a)]>>
<1>0. PICK c \in Authoriser :
        /\ c = submitter[s].authorisation /\ authorisation[c].status # "none"
        /\ authorisation \in [Authoriser -> AuthorisationRow]
        /\ UNCHANGED transfer
  BY DEF Expire, TransferInv, SubmittersHold, TypeOK
<1>1. CASE UNCHANGED authorisation
  BY <1>0, <1>1, OnlyRowsSeen DEF rows
<1>2. CASE MayBecome(c, "EXPIRED")
           /\ authorisation' = [authorisation EXCEPT ![c].status = "EXPIRED"]
  <2>. DEFINE q == authorisation[c]
              v == [q EXCEPT !.status = "EXPIRED"]
  <2>1. authorisation' = [authorisation EXCEPT ![c] = v]
    BY <1>0, <1>2
  <2>2. v.status = "EXPIRED"
    BY <1>0 DEF AuthorisationRow
  <2>. HIDE DEF v
  <2>3. /\ authorisation'[c].status = "EXPIRED"
        /\ \A a \in Authoriser \ {c} : authorisation'[a] = authorisation[a]
    BY <1>0, <2>1, <2>2
  <2>4. CASE q.status = "EXPIRED"
    <3>1. \A a \in Authoriser : authorisation'[a].status = authorisation[a].status
      BY <2>3, <2>4
    <3>. QED  BY <1>0, <3>1, Unseen
  <2>5. CASE q.status = "AUTHORISED"
    <3>1. PermissionOf(c) = "open" /\ PermissionOf(c)' = "lapsed"
      BY <2>3, <2>5 DEF PermissionOf
    <3>2. \A a \in Authoriser \ {c} : PermissionOf(a)' = PermissionOf(a)
      BY <1>0, <2>3 DEF PermissionOf
    <3>3. UNCHANGED [a \in Authoriser |-> UserOf(a)]
      BY <1>0 DEF UserOf
    <3>. QED  BY <1>0, <3>1, <3>2, <3>3, MovesOne DEF Use!Lapse
  <2>. QED  BY <1>2, <2>4, <2>5 DEF MayBecome
<1>. QED  BY <1>0, <1>1, <1>2 DEF Expire

LEMMA StoreUses ==
  ASSUME TransferInv, NEW s \in Submitter, Store(s)
  PROVE  \E a \in Authoriser : Use!Use(a, s)
<1>. PICK c \in Authoriser : c = submitter[s].authorisation /\ authorisation[c].status # "none"
  BY DEF Store, TransferInv, SubmittersHold
<1>. DEFINE row == [status |-> "RECORDED", authorisation |-> c, deliveredAt |-> None]
<1>0. /\ authorisation \in [Authoriser -> AuthorisationRow]
      /\ transfer \in [Submitter -> TransferRow]
      /\ transfer' = [transfer EXCEPT ![s] = row]
      /\ authorisation' = [authorisation EXCEPT ![c].status = "CONSUMED"]
      /\ Unused(c) /\ MayBecome(c, "CONSUMED")
      /\ submitter[s].pc = "store"
  BY DEF Store, TransferInv, TypeOK
<1>1. authorisation[c].status = "AUTHORISED"
  BY <1>0 DEF TransferInv, Exclusive, Unused, MayBecome
<1>2. transfer[s].authorisation = None
  BY <1>0 DEF TransferInv, RowsOwned
<1>3. row.status = "RECORDED" /\ row.authorisation = c
  OBVIOUS
<1>. HIDE DEF row
<1>4. /\ authorisation'[c].status = "CONSUMED"
      /\ \A a \in Authoriser \ {c} : authorisation'[a] = authorisation[a]
  <2>. DEFINE q == authorisation[c]
              v == [q EXCEPT !.status = "CONSUMED"]
  <2>1. authorisation' = [authorisation EXCEPT ![c] = v]
    BY <1>0
  <2>2. v.status = "CONSUMED"
    BY <1>0 DEF AuthorisationRow
  <2>. HIDE DEF v
  <2>. QED  BY <1>0, <2>1, <2>2
<1>5. /\ transfer'[s] = row
      /\ \A t \in Submitter \ {s} : transfer'[t] = transfer[t]
  BY <1>0
<1>6. \A t \in Submitter : transfer'[t].authorisation = c <=> t = s
  BY <1>0, <1>3, <1>5 DEF Unused
<1>7. \A a \in Authoriser \ {c} :
        /\ \A t \in Submitter : transfer'[t].authorisation = a <=> transfer[t].authorisation = a
        /\ \A t \in Submitter : transfer[t].authorisation = a => transfer'[t] = transfer[t]
  BY <1>2, <1>3, <1>5, TransferAssumption
<1>8. PermissionOf(c) = "open" /\ PermissionOf(c)' = "used"
  BY <1>1, <1>3, <1>4, <1>5, <1>6 DEF PermissionOf
<1>9. \A a \in Authoriser \ {c} : PermissionOf(a)' = PermissionOf(a)
  <2>. SUFFICES ASSUME NEW a \in Authoriser \ {c} PROVE PermissionOf(a)' = PermissionOf(a)
    OBVIOUS
  <2>1. \A t \in Submitter :
          transfer'[t].authorisation = a /\ transfer'[t].status = "DELIVERED"
          <=> transfer[t].authorisation = a /\ transfer[t].status = "DELIVERED"
    BY <1>7
  <2>. QED  BY <1>4, <2>1 DEF PermissionOf
<1>10. UserOf(c)' = s
  <2>1. (CHOOSE t \in Submitter : transfer'[t].authorisation = c) \in Submitter
        /\ transfer'[CHOOSE t \in Submitter : transfer'[t].authorisation = c].authorisation = c
    BY <1>6
  <2>. QED  BY <1>6, <2>1 DEF UserOf
<1>11. \A a \in Authoriser \ {c} : UserOf(a)' = UserOf(a)
  <2>. SUFFICES ASSUME NEW a \in Authoriser \ {c} PROVE UserOf(a)' = UserOf(a)
    OBVIOUS
  <2>1. \A t \in Submitter : transfer'[t].authorisation = a <=> transfer[t].authorisation = a
    BY <1>7
  <2>2. (CHOOSE t \in Submitter : transfer'[t].authorisation = a)
          = (CHOOSE t \in Submitter : transfer[t].authorisation = a)
    BY <2>1
  <2>. QED  BY <2>1, <2>2 DEF UserOf
<1>12. Use!Move(c, "open", "used")
  BY <1>0, <1>8, <1>9, MovesOne
<1>13. [a \in Authoriser |-> UserOf(a)]' = [[a \in Authoriser |-> UserOf(a)] EXCEPT ![c] = s]
  BY <1>10, <1>11
<1>. QED  BY <1>0, <1>12, <1>13 DEF Use!Use

LEMMA DeliverHandsOver ==
  ASSUME TransferInv, NEW k \in Collector, Deliver(k)
  PROVE  \/ \E a \in Authoriser : Use!HandOver(a)
         \/ UNCHANGED <<[a \in Authoriser |-> PermissionOf(a)], [a \in Authoriser |-> UserOf(a)]>>
<1>0. PICK s \in Submitter :
        /\ s = collector[k].transfer /\ transfer[s].status # "none"
        /\ UNCHANGED authorisation
        /\ transfer \in [Submitter -> TransferRow]
  BY DEF Deliver, TransferInv, CollectorsHold, TypeOK
<1>c. PICK c \in Authoriser : c = transfer[s].authorisation /\ c # None
  BY <1>0, TransferAssumption DEF TransferInv, TypeOK, TransferRow, RowsOwned
<1>1. CASE UNCHANGED transfer
  BY <1>0, <1>1, OnlyRowsSeen DEF rows
<1>2. CASE transfer' = [transfer EXCEPT ![s].status = "DELIVERED", ![s].deliveredAt = now]
  <2>1. /\ transfer'[s].status = "DELIVERED"
        /\ transfer'[s].authorisation = c
        /\ \A t \in Submitter \ {s} : transfer'[t] = transfer[t]
    BY <1>0, <1>c, <1>2, Delivered
  <2>3. authorisation[c].status = "CONSUMED"
    BY <1>0, <1>c DEF TransferInv, Exclusive
  <2>4. \A t \in Submitter : transfer[t].authorisation = c => t = s
    BY <1>0, <1>c DEF TransferInv, Exclusive
  <2>5. CASE transfer[s].status = "DELIVERED"
    <3>1. \A t \in Submitter : /\ transfer'[t].authorisation = transfer[t].authorisation
                               /\ transfer'[t].status = transfer[t].status
      BY <1>c, <2>1, <2>5
    <3>. QED  BY <1>0, <3>1, Unseen
  <2>6. CASE transfer[s].status # "DELIVERED"
    <3>0. \A t \in Submitter : transfer'[t].authorisation = transfer[t].authorisation
      BY <1>c, <2>1
    <3>1. PermissionOf(c) = "used"
      BY <1>0, <1>c, <2>3, <2>4, <2>6 DEF PermissionOf
    <3>2. PermissionOf(c)' = "delivered"
      BY <1>0, <2>1, <2>3 DEF PermissionOf
    <3>3. \A a \in Authoriser \ {c} : PermissionOf(a)' = PermissionOf(a)
      <4>. SUFFICES ASSUME NEW a \in Authoriser \ {c} PROVE PermissionOf(a)' = PermissionOf(a)
        OBVIOUS
      <4>1. \A t \in Submitter : transfer[t].authorisation = a => t # s
        BY <1>c
      <4>2. \A t \in Submitter :
              transfer'[t].authorisation = a /\ transfer'[t].status = "DELIVERED"
              <=> transfer[t].authorisation = a /\ transfer[t].status = "DELIVERED"
        BY <2>1, <3>0, <4>1
      <4>. QED  BY <1>0, <4>2 DEF PermissionOf
    <3>4. \A a \in Authoriser : UserOf(a)' = UserOf(a)
      <4>. SUFFICES ASSUME NEW a \in Authoriser PROVE UserOf(a)' = UserOf(a)
        OBVIOUS
      <4>1. \A t \in Submitter : transfer'[t].authorisation = a <=> transfer[t].authorisation = a
        BY <3>0
      <4>2. (CHOOSE t \in Submitter : transfer'[t].authorisation = a)
              = (CHOOSE t \in Submitter : transfer[t].authorisation = a)
        BY <4>1
      <4>. QED  BY <4>1, <4>2 DEF UserOf
    <3>. QED  BY <3>1, <3>2, <3>3, <3>4, MovesOne DEF Use!HandOver
  <2>. QED  BY <2>5, <2>6
<1>. QED  BY <1>0, <1>1, <1>2 DEF Deliver

\* The three operations, on whatever rows and calls, implement a permission that
\* is used by one submission or lapses (transfers.ts and its triggers).
THEOREM UsesSingly == Spec => ImplementsSingleUse
<1>. DEFINE seen == <<[a \in Authoriser |-> PermissionOf(a)], [a \in Authoriser |-> UserOf(a)]>>
<1>1. TransferInv /\ [Next]_vars => [Use!Next]_seen
  <2>. SUFFICES ASSUME TransferInv, [Next]_vars PROVE Use!Next \/ UNCHANGED seen
    OBVIOUS
  <2>1. ASSUME NEW c \in Authoriser, CreateAuthorisation(c) PROVE Use!Next
    BY <2>1, CreateIssues DEF Use!Next
  <2>2. ASSUME NEW s \in Submitter, Expire(s) PROVE Use!Next \/ UNCHANGED seen
    BY <2>2, ExpireLapses DEF Use!Next
  <2>3. ASSUME NEW s \in Submitter, Store(s) PROVE Use!Next
    BY <2>3, StoreUses DEF Use!Next
  <2>4. ASSUME NEW k \in Collector, Deliver(k) PROVE Use!Next \/ UNCHANGED seen
    BY <2>4, DeliverHandsOver DEF Use!Next
  <2>5. CASE UNCHANGED rows
    BY <2>5, OnlyRowsSeen
  <2>. HIDE DEF seen
  <2>. QED  BY <2>1, <2>2, <2>3, <2>4, <2>5
            DEF Next, vars, rows, Decide, Tick, Ask, Evaluate, FindRecipient,
                ReadAuthorisation, RollBack, FetchEnvelope
<1>. QED  BY <1>1, InitUses, AlwaysInv, PTL DEF Spec, ImplementsSingleUse, Use!Spec

(***************************************************************************)
(* A withdrawal stops what is asked for after it.                          *)
(***************************************************************************)

\* Decisions are numbered as they arrive, and a call remembers no more of them
\* than there are.
Numbered ==
  /\ \A x \in made : x.id <= Cardinality(made)
  /\ \A c \in Authoriser : authoriser[c].since <= Cardinality(made)

\* One decision governs a matter, and none that was taken is dated after it.
GoverningLatest ==
  /\ \A x, y \in governing : SameMatter(x, y) => x = y
  /\ \A x \in governing, y \in made : SameMatter(x, y) => y.decidedAt <= x.decidedAt
  /\ \A y \in made : \E x \in governing : SameMatter(x, y)

\* The decision a call cites: NotAfterWithdrawal, said of a call and not yet of
\* its row.
Cites(id, p, u, since) ==
  \E x \in made :
    /\ x.id = id /\ x.status = "GRANTED" /\ x.principal = p /\ x.purpose = u
    /\ \A y \in made : SameMatter(x, y) /\ y.decidedAt > x.decidedAt => y.id > since

CallsCite ==
  \A c \in Authoriser :
    LET q == authoriser[c] IN
    /\ q.pc \in {"recipient", "create"} => Cites(q.consent, q.principal, q.purpose, q.since)
    /\ authorisation[c].status # "none" =>
         Cites(authorisation[c].consent, authorisation[c].principal,
               authorisation[c].purpose, q.since)

WithdrawalInv == Numbered /\ GoverningLatest /\ CallsCite

LEMMA InitWithdrawal == Init => WithdrawalInv
<1>. SUFFICES ASSUME Init PROVE WithdrawalInv
  OBVIOUS
<1>1. made = {} /\ governing = {} /\ Cardinality(made) = 0
  BY FS_EmptySet DEF Init, RegisterInit
<1>2. Numbered /\ GoverningLatest
  BY <1>1 DEF Init, Numbered, GoverningLatest
<1>3. CallsCite
  BY DEF Init, CallsCite, NoAuthorisation
<1>. QED  BY <1>2, <1>3 DEF WithdrawalInv

\* A decision that arrives bears a number no call has yet seen, so what was cited
\* stays cited.
LEMMA StillCited ==
  ASSUME NEW x \in Decision, made \subseteq Decision, made' = made \cup {x},
         NEW id, NEW p, NEW u, NEW since \in Nat, since < x.id, Cites(id, p, u, since)
  PROVE  Cites(id, p, u, since)'
BY DEF Cites, Decision

LEMMA ConsentKeepsWithdrawal ==
  ASSUME TransferInv, WithdrawalInv, Decide
  PROVE  WithdrawalInv'
<1>. DEFINE n == Cardinality(made)
<1>1. PICK p \in Principal, u \in Purpose, s \in Status, d \in 0..(now + Skew) :
        LET x == [id |-> n + 1, principal |-> p, purpose |-> u,
                  status |-> s, decidedAt |-> d]
        IN  /\ made' = made \cup {x}
            /\ \/ Displace(x)
               \/ /\ \E y \in governing : SameMatter(x, y) /\ y.decidedAt >= d
                  /\ UNCHANGED governing
  BY DEF Decide
<1>2. n \in Nat /\ now + Skew \in Nat
  BY FS_CardinalityType, TransferAssumption DEF TransferInv, TypeOK
<1>3. made \subseteq Decision /\ governing \subseteq made /\ IsFiniteSet(made)
  BY DEF TransferInv, TypeOK
<1>4. /\ \A y \in made : y.id <= n
      /\ \A c \in Authoriser : authoriser[c].since <= n /\ authoriser[c].since \in Nat
  BY DEF WithdrawalInv, Numbered, TransferInv, TypeOK, AuthoriserState
<1>. DEFINE x == [id |-> n + 1, principal |-> p, purpose |-> u,
                  status |-> s, decidedAt |-> d]
<1>5. x \in Decision /\ x.id = n + 1 /\ x.decidedAt = d
  BY <1>2 DEF Decision
<1>6. /\ made' = made \cup {x}
      /\ \/ Displace(x)
         \/ /\ \E y \in governing : SameMatter(x, y) /\ y.decidedAt >= x.decidedAt
            /\ UNCHANGED governing
  BY <1>1
<1>7. Cardinality(made') = n + 1
  <2>1. x \notin made
    BY <1>2, <1>3, <1>4, <1>5 DEF Decision
  <2>. HIDE DEF x
  <2>. QED  BY <1>3, <1>6, <2>1, FS_AddElement
<1>. HIDE DEF n, x
<1>8. UNCHANGED <<authorisation, authoriser>>
  BY DEF Decide, rows, calls
<1>9. Numbered'
  <2>1. \A y \in made' : y.id <= n + 1
    BY <1>2, <1>3, <1>4, <1>5, <1>6 DEF Decision
  <2>2. \A c \in Authoriser : authoriser'[c].since <= n + 1
    BY <1>2, <1>4, <1>8
  <2>. QED  BY <1>7, <2>1, <2>2 DEF Numbered
<1>10. GoverningLatest'
  <2>0. GoverningLatest
    BY DEF WithdrawalInv
  <2>1. CASE Displace(x)
    <3>1. /\ governing' = {y \in governing : ~SameMatter(x, y)} \cup {x}
          /\ \A y \in governing : SameMatter(x, y) => x.decidedAt >= y.decidedAt
      BY <2>1 DEF Displace
    <3>2. \A y, z \in governing' : SameMatter(y, z) => y = z
      BY <2>0, <3>1 DEF GoverningLatest, SameMatter
    <3>3. \A y \in governing', z \in made' : SameMatter(y, z) => z.decidedAt <= y.decidedAt
      <4>. SUFFICES ASSUME NEW y \in governing', NEW z \in made', SameMatter(y, z)
                    PROVE  z.decidedAt <= y.decidedAt
        OBVIOUS
      <4>1. CASE y = x /\ z \in made
        <5>1. PICK w \in governing : SameMatter(w, z)
          BY <2>0, <4>1 DEF GoverningLatest
        <5>2. z.decidedAt <= w.decidedAt /\ w.decidedAt <= x.decidedAt
          BY <2>0, <3>1, <4>1, <5>1 DEF GoverningLatest, SameMatter
        <5>3. z \in Decision /\ w \in Decision
          BY <1>3, <4>1
        <5>. QED  BY <1>5, <4>1, <5>2, <5>3 DEF Decision
      <4>2. CASE z = x
        <5>1. y = x
          BY <3>1, <4>2 DEF SameMatter
        <5>. QED  BY <1>5, <4>2, <5>1 DEF Decision
      <4>3. CASE y # x /\ z \in made
        BY <2>0, <3>1, <4>3 DEF GoverningLatest
      <4>. QED  BY <1>6, <4>1, <4>2, <4>3
    <3>4. \A z \in made' : \E y \in governing' : SameMatter(y, z)
      <4>. SUFFICES ASSUME NEW z \in made' PROVE \E y \in governing' : SameMatter(y, z)
        OBVIOUS
      <4>1. CASE SameMatter(x, z)
        BY <3>1, <4>1
      <4>2. CASE ~SameMatter(x, z)
        <5>1. z \in made
          BY <1>6, <4>2 DEF SameMatter
        <5>2. PICK y \in governing : SameMatter(y, z)
          BY <2>0, <5>1 DEF GoverningLatest
        <5>. QED  BY <3>1, <4>2, <5>2 DEF SameMatter
      <4>. QED  BY <4>1, <4>2
    <3>. QED  BY <3>2, <3>3, <3>4 DEF GoverningLatest
  <2>2. CASE /\ \E y \in governing : SameMatter(x, y) /\ y.decidedAt >= x.decidedAt
             /\ UNCHANGED governing
    <3>1. PICK y \in governing : SameMatter(x, y) /\ y.decidedAt >= x.decidedAt
      BY <2>2
    <3>2. \A z \in governing : SameMatter(z, x) => z = y
      BY <2>0, <3>1 DEF GoverningLatest, SameMatter
    <3>3. \A z \in governing, w \in made' : SameMatter(z, w) => w.decidedAt <= z.decidedAt
      BY <1>6, <2>0, <3>1, <3>2 DEF GoverningLatest
    <3>4. \A w \in made' : \E z \in governing : SameMatter(z, w)
      BY <1>6, <2>0, <3>1 DEF GoverningLatest, SameMatter
    <3>. QED  BY <2>0, <2>2, <3>3, <3>4 DEF GoverningLatest
  <2>. QED  BY <1>6, <2>1, <2>2
<1>11. CallsCite'
  <2>. SUFFICES ASSUME NEW c \in Authoriser
                PROVE  LET q == authoriser[c] IN
                       /\ q.pc \in {"recipient", "create"} =>
                            Cites(q.consent, q.principal, q.purpose, q.since)'
                       /\ authorisation[c].status # "none" =>
                            Cites(authorisation[c].consent, authorisation[c].principal,
                                  authorisation[c].purpose, q.since)'
    BY <1>8 DEF CallsCite
  <2>. DEFINE q == authoriser[c]
              row == authorisation[c]
  <2>1. q.since \in Nat /\ q.since < x.id
    BY <1>2, <1>4, <1>5
  <2>2. /\ q.pc \in {"recipient", "create"} => Cites(q.consent, q.principal, q.purpose, q.since)
        /\ row.status # "none" => Cites(row.consent, row.principal, row.purpose, q.since)
    BY DEF WithdrawalInv, CallsCite
  <2>. QED  BY <1>3, <1>5, <1>6, <1>8, <2>1, <2>2 DEF Cites, Decision
<1>. QED  BY <1>9, <1>10, <1>11 DEF WithdrawalInv

\* Steps that leave the decisions alone: only one call and its row matter.
LEMMA CallKeepsWithdrawal ==
  ASSUME TransferInv, WithdrawalInv, UNCHANGED <<governing, made>>,
         \A c \in Authoriser :
           LET q == authoriser'[c]  row == authorisation'[c] IN
           /\ q.since <= Cardinality(made)
           /\ q.pc \in {"recipient", "create"} =>
                Cites(q.consent, q.principal, q.purpose, q.since)
           /\ row.status # "none" => Cites(row.consent, row.principal, row.purpose, q.since)
  PROVE  WithdrawalInv'
<1>1. GoverningLatest'
  BY DEF WithdrawalInv, GoverningLatest
<1>2. Numbered'
  BY DEF WithdrawalInv, Numbered
<1>3. CallsCite'
  BY DEF CallsCite, Cites
<1>. QED  BY <1>1, <1>2, <1>3 DEF WithdrawalInv

\* A call reads the decision in force: its citation is right when it is made.
LEMMA EvaluateCites ==
  ASSUME TransferInv, WithdrawalInv, NEW c \in Authoriser, NEW x \in made,
         Permits(x, authoriser[c].principal, authoriser[c].purpose)
  PROVE  Cites(x.id, authoriser[c].principal, authoriser[c].purpose, authoriser[c].since)
<1>1. x \in governing /\ x.status = "GRANTED"
      /\ x.principal = authoriser[c].principal /\ x.purpose = authoriser[c].purpose
  BY DEF Permits
<1>2. \A y \in made : SameMatter(x, y) => ~(y.decidedAt > x.decidedAt)
  <2>1. \A y \in made : y.decidedAt \in Nat
    BY DEF TransferInv, TypeOK, Decision
  <2>. QED  BY <1>1, <2>1 DEF WithdrawalInv, GoverningLatest
<1>. QED  BY <1>1, <1>2 DEF Cites

LEMMA AuthoriserKeepsWithdrawal ==
  ASSUME TransferInv, WithdrawalInv, NEW c \in Authoriser,
         Ask(c) \/ Evaluate(c) \/ FindRecipient(c) \/ CreateAuthorisation(c)
  PROVE  WithdrawalInv'
<1>. DEFINE q == authoriser[c]
<1>0. /\ q \in AuthoriserState /\ authoriser \in [Authoriser -> AuthoriserState]
      /\ authorisation \in [Authoriser -> AuthorisationRow]
      /\ Cardinality(made) \in Nat
  BY FS_CardinalityType DEF TransferInv, TypeOK
<1>1. \A b \in Authoriser :
        /\ authoriser[b].since <= Cardinality(made)
        /\ authoriser[b].pc \in {"recipient", "create"} =>
             Cites(authoriser[b].consent, authoriser[b].principal, authoriser[b].purpose,
                   authoriser[b].since)
        /\ authorisation[b].status # "none" =>
             Cites(authorisation[b].consent, authorisation[b].principal,
                   authorisation[b].purpose, authoriser[b].since)
  BY DEF WithdrawalInv, Numbered, CallsCite
<1>2. ASSUME NEW v, authoriser' = [authoriser EXCEPT ![c] = v],
             UNCHANGED <<governing, made, authorisation>>,
             authorisation[c].status = "none",
             v.since <= Cardinality(made),
             v.pc \in {"recipient", "create"} =>
               Cites(v.consent, v.principal, v.purpose, v.since)
      PROVE  WithdrawalInv'
  <2>1. authoriser'[c] = v /\ \A b \in Authoriser \ {c} : authoriser'[b] = authoriser[b]
    BY <1>0, <1>2
  <2>. QED  BY <1>1, <1>2, <2>1, CallKeepsWithdrawal
<1>3. q.pc # "authorised" => authorisation[c].status = "none"
  BY DEF TransferInv, AuthorisersHold
<1>4. CASE Ask(c)
  <2>1. PICK p \in Principal, u \in Purpose, r \in Recipient :
          authoriser' = [authoriser EXCEPT ![c] =
            [pc |-> "evaluate", principal |-> p, purpose |-> u, recipient |-> r,
             since |-> Cardinality(made), consent |-> 0]]
    BY <1>4 DEF Ask
  <2>. DEFINE v == [pc |-> "evaluate", principal |-> p, purpose |-> u, recipient |-> r,
                    since |-> Cardinality(made), consent |-> 0]
  <2>2. v.pc = "evaluate" /\ v.since <= Cardinality(made)
    BY <1>0
  <2>. HIDE DEF v
  <2>. QED  BY <1>2, <1>3, <1>4, <2>1, <2>2 DEF Ask, rows, v
<1>5. CASE Evaluate(c)
  <2>0. q.pc = "evaluate" /\ UNCHANGED <<governing, made, authorisation>>
    BY <1>5 DEF Evaluate, rows
  <2>1. ASSUME NEW x \in made, Permits(x, q.principal, q.purpose),
               authoriser' = [authoriser EXCEPT ![c].pc = "recipient", ![c].consent = x.id]
        PROVE  WithdrawalInv'
    <3>. DEFINE v == [q EXCEPT !.pc = "recipient", !.consent = x.id]
    <3>1. v.principal = q.principal /\ v.purpose = q.purpose /\ v.since = q.since
      BY <1>0 DEF AuthoriserState
    <3>2. v.consent = x.id
      BY <1>0 DEF AuthoriserState
    <3>3. authoriser' = [authoriser EXCEPT ![c] = v]
      BY <1>0, <2>1
    <3>4. Cites(x.id, q.principal, q.purpose, q.since)
      BY <2>1, EvaluateCites
    <3>. HIDE DEF v
    <3>. QED  BY <1>1, <1>2, <1>3, <2>0, <3>1, <3>2, <3>3, <3>4
  <2>2. ASSUME authoriser' = [authoriser EXCEPT ![c].pc = "refused"]
        PROVE  WithdrawalInv'
    <3>. DEFINE v == [q EXCEPT !.pc = "refused"]
    <3>1. v.pc = "refused" /\ v.since = q.since
      BY <1>0 DEF AuthoriserState
    <3>2. authoriser' = [authoriser EXCEPT ![c] = v]
      BY <1>0, <2>2
    <3>. HIDE DEF v
    <3>. QED  BY <1>1, <1>2, <1>3, <2>0, <3>1, <3>2
  <2>. QED  BY <1>5, <2>1, <2>2 DEF Evaluate
<1>6. CASE FindRecipient(c)
  <2>. DEFINE step == IF q.recipient \in Active THEN "create" ELSE "refused"
              v == [q EXCEPT !.pc = step]
  <2>0. q.pc = "recipient" /\ UNCHANGED <<governing, made, authorisation>>
    BY <1>6 DEF FindRecipient, rows
  <2>1. v.since = q.since /\ v.consent = q.consent
    BY <1>0 DEF AuthoriserState
  <2>2. v.principal = q.principal /\ v.purpose = q.purpose
    BY <1>0 DEF AuthoriserState
  <2>3. authoriser' = [authoriser EXCEPT ![c] = v]
    BY <1>0, <1>6 DEF FindRecipient
  <2>. HIDE DEF v
  <2>. QED  BY <1>1, <1>2, <1>3, <2>0, <2>1, <2>2, <2>3
<1>7. CASE CreateAuthorisation(c)
  <2>. DEFINE v == [q EXCEPT !.pc = "authorised"]
              row == [status |-> "AUTHORISED", principal |-> q.principal,
                      purpose |-> q.purpose, recipient |-> q.recipient,
                      consent |-> q.consent, expiresAt |-> now + Ttl]
  <2>0. /\ q.pc = "create" /\ UNCHANGED <<governing, made>>
        /\ authorisation' = [authorisation EXCEPT ![c] = row]
    BY <1>7 DEF CreateAuthorisation
  <2>1. v.pc = "authorised" /\ v.since = q.since
    BY <1>0 DEF AuthoriserState
  <2>2. authoriser' = [authoriser EXCEPT ![c] = v]
    BY <1>0, <1>7 DEF CreateAuthorisation
  <2>3. row.consent = q.consent /\ row.principal = q.principal /\ row.purpose = q.purpose
    OBVIOUS
  <2>. HIDE DEF v, row
  <2>4. /\ authoriser'[c] = v /\ authorisation'[c] = row
        /\ \A b \in Authoriser \ {c} :
             authoriser'[b] = authoriser[b] /\ authorisation'[b] = authorisation[b]
    BY <1>0, <2>0, <2>2
  <2>5. Cites(row.consent, row.principal, row.purpose, v.since)
    BY <1>1, <2>0, <2>1, <2>3
  <2>. QED  BY <1>1, <2>0, <2>1, <2>4, <2>5, CallKeepsWithdrawal
<1>. QED  BY <1>4, <1>5, <1>6, <1>7

\* The status of an authorisation says nothing of what it cites.
LEMMA StatusKeepsWithdrawal ==
  ASSUME TransferInv, WithdrawalInv, UNCHANGED <<governing, made, authoriser>>,
         NEW a \in Authoriser, authorisation[a].status # "none",
         NEW status, authorisation' = [authorisation EXCEPT ![a].status = status]
  PROVE  WithdrawalInv'
<1>. DEFINE v == [authorisation[a] EXCEPT !.status = status]
<1>0. authorisation \in [Authoriser -> AuthorisationRow]
  BY DEF TransferInv, TypeOK
<1>1. /\ v.consent = authorisation[a].consent /\ v.principal = authorisation[a].principal
      /\ v.purpose = authorisation[a].purpose
  BY <1>0 DEF AuthorisationRow
<1>2. authorisation' = [authorisation EXCEPT ![a] = v]
  BY <1>0
<1>. HIDE DEF v
<1>3. authorisation'[a] = v
      /\ \A b \in Authoriser \ {a} : authorisation'[b] = authorisation[b]
  BY <1>0, <1>2
<1>. QED  BY <1>1, <1>3, CallKeepsWithdrawal DEF WithdrawalInv, Numbered, CallsCite

LEMMA SubmitterKeepsWithdrawal ==
  ASSUME TransferInv, WithdrawalInv, NEW s \in Submitter, Expire(s) \/ Store(s)
  PROVE  WithdrawalInv'
<1>1. PICK a \in Authoriser :
        a = submitter[s].authorisation /\ authorisation[a].status # "none"
  BY DEF Expire, Store, TransferInv, SubmittersHold
<1>2. UNCHANGED <<governing, made, authoriser>>
  BY DEF Expire, Store
<1>3. CASE UNCHANGED authorisation
  BY <1>2, <1>3, CallKeepsWithdrawal DEF WithdrawalInv, Numbered, CallsCite
<1>4. CASE authorisation' = [authorisation EXCEPT ![a].status = "EXPIRED"]
  BY <1>1, <1>2, <1>4, StatusKeepsWithdrawal
<1>5. CASE authorisation' = [authorisation EXCEPT ![a].status = "CONSUMED"]
  BY <1>1, <1>2, <1>5, StatusKeepsWithdrawal
<1>. QED  BY <1>1, <1>3, <1>4, <1>5 DEF Expire, Store

LEMMA StepWithdrawal == TransferInv /\ WithdrawalInv /\ [Next]_vars => WithdrawalInv'
<1>. SUFFICES ASSUME TransferInv, WithdrawalInv, [Next]_vars PROVE WithdrawalInv'
  OBVIOUS
<1>1. CASE UNCHANGED <<governing, made, authorisation, authoriser>>
  BY <1>1, CallKeepsWithdrawal DEF WithdrawalInv, Numbered, CallsCite
<1>. QED  BY <1>1, ConsentKeepsWithdrawal, AuthoriserKeepsWithdrawal, SubmitterKeepsWithdrawal
          DEF Next, vars, rows, calls, Tick, ReadAuthorisation, RollBack, FetchEnvelope, Deliver

\* No authorisation cites a grant that a decision dated after it had displaced by
\* the time the call arrived (evaluateAuthorisation), however many decisions and
\* calls interleave.
THEOREM WithdrawalHolds == Spec => []NotAfterWithdrawal
<1>1. WithdrawalInv => NotAfterWithdrawal
  BY DEF WithdrawalInv, CallsCite, Cites, NotAfterWithdrawal
<1>. QED  BY <1>1, InitInv, InitWithdrawal, StepInv, StepWithdrawal, PTL DEF Spec
=============================================================================
