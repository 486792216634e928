------------------------- MODULE Experiments_proofs -------------------------
(***************************************************************************)
(* What holds of policy approvals and of experiments for every number of   *)
(* approvals, calls, browsers and experiments.                             *)
(*                                                                         *)
(* An approval's three statements do not lock the table, so what it read   *)
(* may be out of date when it writes.  The invariant says by how much: the *)
(* version it read is at most the newest one, and as long as it still is   *)
(* the newest, the approved rows it found and holds still are all there    *)
(* are.                                                                    *)
(***************************************************************************)
EXTENDS Experiments, FiniteSetTheorems, WellFoundedInduction, TLAPS

(***************************************************************************)
(* Approvals.                                                              *)
(***************************************************************************)
N == Cardinality(Rows)

\* The versions are 1..N, and what is approved is the N-th.
VersionsOK ==
    /\ IsFiniteSet(Rows)
    /\ \A b \in Rows : policy[b].version \in 1 .. N
    /\ \A v \in 1 .. N : \E b \in Rows : policy[b].version = v
    /\ \A b \in Rows : policy[b].status = "approved" <=> policy[b].version = N

\* What a transaction holds is current if the version it read is.
TransactionOK(a) ==
    LET t == approval[a] IN
    /\ t.pc \in {"asked", "read", "waiting", "superseded", "inserted"} => policy[a] = NoRow
    /\ t.highest <= N
    /\ t.held \subseteq Rows
    /\ t.pc = "waiting" /\ t.highest = N => t.found = Approved
    /\ t.pc \in {"superseded", "inserted"} /\ t.highest = N => t.held = Approved
    /\ t.pc = "inserted" => t.highest = N /\ \A b \in Approver : At(b, "inserted") => b = a
    /\ t.pc = "version_conflict" /\ ~t.lost => t.highest < N /\ policy[a] = NoRow

ApprovalsInv ==
    PolicyTypeOK /\ VersionsOK /\ \A a \in Approver : TransactionOK(a)

\* Approvals are as many as there are rows.
LEMMA CountIsNat ==
    ASSUME VersionsOK
    PROVE  N \in Nat
BY FS_CardinalityType DEF VersionsOK, N

\* The first statement reads the number of rows.
LEMMA HighestIsCount ==
    ASSUME PolicyTypeOK, VersionsOK
    PROVE  Highest = N
<1>. DEFINE S == {policy[a].version : a \in Rows} \cup {0}
<1>1. N \in Nat
  BY CountIsNat
<1>2. N \in S
  <2>1. CASE N = 0
    BY <2>1
  <2>2. CASE N # 0
    BY <1>1, <2>2 DEF VersionsOK
  <2>. QED  BY <2>1, <2>2
<1>3. \A y \in S : y \in Nat /\ y <= N
  BY <1>1 DEF VersionsOK
<1>. HIDE DEF S
<1>4. \A x \in S : (\A y \in S : x >= y) => x = N
  BY <1>1, <1>2, <1>3
<1>5. \A y \in S : N >= y
  BY <1>1, <1>3
<1>6. Max(S) = N
  BY <1>2, <1>4, <1>5 DEF Max
<1>. QED  BY <1>6 DEF Highest, S

\* Nothing approved and nothing begun: no versions.
LEMMA ApprovalsInitially ==
    ASSUME PolicyInit
    PROVE  ApprovalsInv
<1>1. Rows = {}
  BY DEF PolicyInit, Rows
<1>2. IsFiniteSet(Rows) /\ N = 0
  BY <1>1, FS_EmptySet DEF N
<1>3. PolicyTypeOK
  BY PolicyConstants DEF PolicyInit, PolicyTypeOK, Approval, Phase
<1>4. VersionsOK
  BY <1>1, <1>2 DEF VersionsOK
<1>5. \A a \in Approver : TransactionOK(a)
  BY <1>1, <1>2 DEF PolicyInit, TransactionOK
<1>. QED  BY <1>3, <1>4, <1>5 DEF ApprovalsInv

\* A step that leaves the table alone keeps the versions.
LEMMA SameTable ==
    ASSUME VersionsOK, policy' = policy
    PROVE  VersionsOK' /\ Rows' = Rows /\ N' = N /\ Approved' = Approved
BY DEF VersionsOK, Rows, N, Approved

\* A transaction that begins, reads, or is undone.
LEMMA KeepsTable ==
    ASSUME ApprovalsInv, NEW a \in Approver, policy' = policy, drops' \in 0 .. MaxDrops,
           NEW t \in Approval,
           approval' = [approval EXCEPT ![a] = t],
           t.pc = "inserted" => \A b \in Approver \ {a} : ~At(b, "inserted"),
           TransactionOK(a)'
    PROVE  ApprovalsInv'
<1>1. VersionsOK' /\ Rows' = Rows /\ N' = N /\ Approved' = Approved
  BY SameTable DEF ApprovalsInv
<1>2. PolicyTypeOK'
  BY DEF ApprovalsInv, PolicyTypeOK
<1>3. approval'[a] = t /\ \A b \in Approver \ {a} : approval'[b] = approval[b]
  BY DEF ApprovalsInv, PolicyTypeOK
<1>4. \A b \in Approver : TransactionOK(b)'
  <2>. SUFFICES ASSUME NEW b \in Approver \ {a}
                PROVE  TransactionOK(b)'
    OBVIOUS
  <2>1. TransactionOK(b)
    BY DEF ApprovalsInv
  <2>2. At(b, "inserted") => \A c \in Approver : At(c, "inserted")' => c = b
    BY <1>3, <2>1 DEF TransactionOK, At
  <2>. QED
    BY <1>1, <1>3, <2>1, <2>2 DEF TransactionOK, At
<1>. QED  BY <1>1, <1>2, <1>4 DEF ApprovalsInv

\* Reading the highest version.
LEMMA ReadKeeps ==
    ASSUME ApprovalsInv, NEW a \in Approver, ReadHighest(a)
    PROVE  ApprovalsInv'
<1>. DEFINE t == [approval[a] EXCEPT !.pc = "read", !.highest = Highest]
<1>1. Highest = N /\ N \in Nat
  BY HighestIsCount, CountIsNat DEF ApprovalsInv
<1>2. approval[a] \in Approval /\ TransactionOK(a) /\ VersionsOK
  BY DEF ApprovalsInv, PolicyTypeOK
<1>3. t \in Approval /\ t.pc = "read" /\ t.highest = N /\ t.held = approval[a].held
  BY <1>1, <1>2 DEF Approval, Phase
<1>4. approval' = [approval EXCEPT ![a] = t] /\ policy' = policy /\ drops' \in 0 .. MaxDrops
  BY DEF ReadHighest, ApprovalsInv, PolicyTypeOK
<1>5. approval'[a] = t
  BY <1>4 DEF ApprovalsInv, PolicyTypeOK
<1>6. Rows' = Rows /\ N' = N
  BY <1>2, <1>4, SameTable
<1>. HIDE DEF t
<1>7. approval[a].pc = "asked"
  BY DEF ReadHighest, At
<1>8. TransactionOK(a)'
  BY <1>1, <1>2, <1>3, <1>4, <1>5, <1>6, <1>7 DEF TransactionOK
<1>. QED  BY <1>3, <1>4, <1>8, KeepsTable

\* Finding the approved rows.
LEMMA FindKeeps ==
    ASSUME ApprovalsInv, NEW a \in Approver, FindApproved(a)
    PROVE  ApprovalsInv'
<1>. DEFINE t == [approval[a] EXCEPT !.pc = "waiting", !.found = Approved]
<1>2. approval[a] \in Approval /\ TransactionOK(a) /\ VersionsOK
  BY DEF ApprovalsInv, PolicyTypeOK
<1>3. t \in Approval /\ t.pc = "waiting" /\ t.found = Approved
      /\ t.highest = approval[a].highest /\ t.held = approval[a].held
  BY <1>2 DEF Approval, Phase, Approved, Rows
<1>4. approval' = [approval EXCEPT ![a] = t] /\ policy' = policy /\ drops' \in 0 .. MaxDrops
  BY DEF FindApproved, ApprovalsInv, PolicyTypeOK
<1>5. approval'[a] = t
  BY <1>4 DEF ApprovalsInv, PolicyTypeOK
<1>6. Rows' = Rows /\ N' = N /\ Approved' = Approved
  BY <1>2, <1>4, SameTable
<1>7. TransactionOK(a)'
  BY <1>2, <1>3, <1>4, <1>5, <1>6 DEF TransactionOK, FindApproved, At
<1>. QED  BY <1>3, <1>4, <1>7, KeepsTable

\* Superseding them: those that are still approved are held.
LEMMA SupersedeKeeps ==
    ASSUME ApprovalsInv, NEW a \in Approver, Supersede(a)
    PROVE  ApprovalsInv'
<1>. DEFINE t == [approval[a] EXCEPT !.pc = "superseded",
                                     !.held = approval[a].found \cap Approved]
<1>2. approval[a] \in Approval /\ TransactionOK(a) /\ VersionsOK
  BY DEF ApprovalsInv, PolicyTypeOK
<1>3. t \in Approval /\ t.pc = "superseded" /\ t.highest = approval[a].highest
      /\ t.held = approval[a].found \cap Approved
  BY <1>2 DEF Approval, Phase
<1>4. approval' = [approval EXCEPT ![a] = t] /\ policy' = policy /\ drops' \in 0 .. MaxDrops
  BY DEF Supersede, ApprovalsInv, PolicyTypeOK
<1>5. approval'[a] = t
  BY <1>4 DEF ApprovalsInv, PolicyTypeOK
<1>6. Rows' = Rows /\ N' = N /\ Approved' = Approved
  BY <1>2, <1>4, SameTable
<1>7. t.held \subseteq Rows
  BY <1>3 DEF Approved
<1>8. TransactionOK(a)'
  BY <1>2, <1>3, <1>4, <1>5, <1>6, <1>7 DEF TransactionOK, Supersede, At
<1>. QED  BY <1>3, <1>4, <1>8, KeepsTable

\* A transaction that is undone.
LEMMA RolledBackKeeps ==
    ASSUME ApprovalsInv, NEW a \in Approver, NEW lost \in BOOLEAN,
           ~lost => approval[a].highest < N /\ policy[a] = NoRow,
           policy' = policy, drops' \in 0 .. MaxDrops, approval' = RolledBack(a, lost)
    PROVE  ApprovalsInv'
<1>. DEFINE t == [approval[a] EXCEPT !.pc = "version_conflict", !.held = {}, !.lost = lost]
<1>2. approval[a] \in Approval /\ TransactionOK(a) /\ VersionsOK
  BY DEF ApprovalsInv, PolicyTypeOK
<1>3. t \in Approval /\ t.pc = "version_conflict" /\ t.highest = approval[a].highest
      /\ t.held = {} /\ t.lost = lost
  BY <1>2 DEF Approval, Phase
<1>4. approval' = [approval EXCEPT ![a] = t]
  BY DEF RolledBack
<1>5. approval'[a] = t
  BY <1>4 DEF ApprovalsInv, PolicyTypeOK
<1>6. Rows' = Rows /\ N' = N
  BY <1>2, SameTable
<1>7. TransactionOK(a)'
  BY <1>2, <1>3, <1>5, <1>6 DEF TransactionOK
<1>. QED  BY <1>3, <1>4, <1>7, KeepsTable

\* A version that is no row's is the one after the newest.
LEMMA InsertKeeps ==
    ASSUME ApprovalsInv, NEW a \in Approver, InsertVersion(a)
    PROVE  ApprovalsInv'
<1>1. approval[a] \in Approval /\ TransactionOK(a) /\ VersionsOK /\ N \in Nat
  BY CountIsNat DEF ApprovalsInv, PolicyTypeOK
<1>2. approval[a].highest \in Nat /\ approval[a].highest <= N /\ policy[a] = NoRow
  BY <1>1 DEF Approval, TransactionOK, InsertVersion, At
<1>3. policy' = policy /\ drops' \in 0 .. MaxDrops
  BY DEF InsertVersion, ApprovalsInv, PolicyTypeOK
<1>4. CASE Collides(a)
  <2>1. approval[a].highest < N
    <3>1. CASE \E b \in Rows : policy[b].version = NextVersion(a)
      BY <1>1, <1>2, <3>1 DEF VersionsOK, NextVersion
    <3>2. CASE Approved \ approval[a].held # {}
      BY <1>1, <1>2, <3>2 DEF TransactionOK, InsertVersion, At
    <3>. QED  BY <1>4, <3>1, <3>2 DEF Collides
  <2>. QED
    BY <1>2, <1>3, <1>4, <2>1, RolledBackKeeps DEF InsertVersion
<1>5. CASE ~Collides(a)
  <2>. DEFINE t == [approval[a] EXCEPT !.pc = "inserted"]
  <2>1. t \in Approval /\ t.pc = "inserted" /\ t.highest = approval[a].highest
        /\ t.held = approval[a].held
    BY <1>1 DEF Approval, Phase
  <2>2. approval' = [approval EXCEPT ![a] = t]
    BY <1>5 DEF InsertVersion
  <2>3. approval'[a] = t /\ \A b \in Approver \ {a} : approval'[b] = approval[b]
    BY <2>2 DEF ApprovalsInv, PolicyTypeOK
  <2>4. approval[a].highest = N
    BY <1>1, <1>2, <1>5 DEF Collides, NextVersion, VersionsOK
  <2>5. Rows' = Rows /\ N' = N /\ Approved' = Approved
    BY <1>1, <1>3, SameTable
  <2>6. \A b \in Approver : At(b, "inserted")' => b = a
    BY <2>3 DEF InsertVersion, At
  <2>7. TransactionOK(a)'
    BY <1>1, <1>2, <1>3, <2>1, <2>3, <2>4, <2>5, <2>6 DEF TransactionOK, InsertVersion, At
  <2>. QED
    BY <1>3, <2>1, <2>2, <2>7, KeepsTable DEF InsertVersion
<1>. QED  BY <1>4, <1>5

\* The commit adds the next version and leaves only it approved.
LEMMA CommitKeeps ==
    ASSUME ApprovalsInv, NEW a \in Approver, Commit(a)
    PROVE  ApprovalsInv'
<1>1. approval[a] \in Approval /\ TransactionOK(a) /\ VersionsOK /\ N \in Nat
  BY CountIsNat DEF ApprovalsInv, PolicyTypeOK
<1>2. approval[a].pc = "inserted" /\ policy[a] = NoRow /\ approval[a].highest = N
      /\ approval[a].held = Approved
  BY <1>1 DEF TransactionOK, Commit, At
<1>3. \A b \in Approver \ {a} : approval[b].pc # "inserted"
  BY <1>1, <1>2 DEF TransactionOK, At
<1>4. policy \in [Approver -> Row \cup {NoRow}] /\ policy' = Published(a)
      /\ drops' \in 0 .. MaxDrops
  <2>1. policy \in [Approver -> Row \cup {NoRow}] /\ drops \in 0 .. MaxDrops
    BY DEF ApprovalsInv, PolicyTypeOK
  <2>2. /\ policy' = Published(a)
        /\ drops' = drops \/ (drops < MaxDrops /\ drops' = drops + 1)
    BY DEF Commit
  <2>3. MaxDrops \in Nat
    BY PolicyConstants
  <2>. HIDE DEF Row
  <2>. QED  BY <2>1, <2>2, <2>3
<1>5. PICK t \in Approval : /\ approval' = [approval EXCEPT ![a] = t]
                            /\ t.pc = "ok" \/ (t.pc = "version_conflict" /\ t.lost)
                            /\ t.held = {} /\ t.highest = N
  <2>1. CASE approval' = [approval EXCEPT ![a].pc = "ok", ![a].held = {}]
    <3>. DEFINE t == [approval[a] EXCEPT !.pc = "ok", !.held = {}]
    <3>1. t \in Approval /\ t.pc = "ok" /\ t.held = {} /\ t.highest = N
      BY <1>1, <1>2 DEF Approval, Phase
    <3>2. approval' = [approval EXCEPT ![a] = t]
      BY <2>1
    <3>. QED  BY <3>1, <3>2
  <2>2. CASE approval' = RolledBack(a, TRUE)
    <3>. DEFINE t == [approval[a] EXCEPT !.pc = "version_conflict", !.held = {}, !.lost = TRUE]
    <3>1. t \in Approval /\ t.pc = "version_conflict" /\ t.lost /\ t.held = {} /\ t.highest = N
      BY <1>1, <1>2 DEF Approval, Phase
    <3>2. approval' = [approval EXCEPT ![a] = t]
      BY <2>2 DEF RolledBack
    <3>. QED  BY <3>1, <3>2
  <2>. QED  BY <2>1, <2>2 DEF Commit
<1>6. approval'[a] = t /\ \A b \in Approver \ {a} : approval'[b] = approval[b]
  BY <1>5 DEF ApprovalsInv, PolicyTypeOK
<1>7. a \notin Rows /\ Rows \subseteq Approver /\ Approved \subseteq Rows
  BY <1>2 DEF Rows, Approved
<1>8. \A b \in Approver :
        policy'[b] = IF b = a THEN [version |-> N + 1, status |-> "approved"]
                     ELSE IF b \in Approved THEN [policy[b] EXCEPT !.status = "superseded"]
                     ELSE policy[b]
  BY <1>2, <1>4 DEF Published, NextVersion
<1>9. \A b \in Rows : policy[b] \in Row
  BY <1>4 DEF Rows
<1>10. policy'[a] \in Row /\ policy'[a].version = N + 1 /\ policy'[a].status = "approved"
  <2>1. policy'[a] = [version |-> N + 1, status |-> "approved"]
    BY <1>8
  <2>2. N + 1 \in Nat \ {0}
    BY <1>1
  <2>. QED  BY <2>1, <2>2 DEF Row
<1>11. \A b \in Rows : /\ policy'[b] \in Row
                       /\ policy'[b].version = policy[b].version
                       /\ policy'[b].status = "superseded"
  <2>. SUFFICES ASSUME NEW b \in Rows
                PROVE  /\ policy'[b] \in Row
                       /\ policy'[b].version = policy[b].version
                       /\ policy'[b].status = "superseded"
    OBVIOUS
  <2>1. CASE b \in Approved
    BY <1>7, <1>8, <1>9, <2>1 DEF Row
  <2>2. CASE b \notin Approved
    BY <1>7, <1>8, <1>9, <2>2 DEF Row, Approved
  <2>. QED  BY <2>1, <2>2
<1>12. \A b \in Approver \ (Rows \cup {a}) : policy'[b] = NoRow
  BY <1>7, <1>8 DEF Rows
<1>13. Rows' = Rows \cup {a}
  BY <1>7, <1>10, <1>11, <1>12, PolicyConstants DEF Rows
<1>14. IsFiniteSet(Rows') /\ N' = N + 1
  <2>1. Cardinality(Rows \cup {a}) = Cardinality(Rows) + 1
    BY <1>1, <1>7, FS_AddElement DEF VersionsOK
  <2>2. IsFiniteSet(Rows \cup {a})
    BY <1>1, FS_AddElement DEF VersionsOK
  <2>. QED  BY <1>13, <2>1, <2>2 DEF N
<1>15. Approved' = {a}
  BY <1>10, <1>11, <1>13 DEF Approved
<1>16. PolicyTypeOK'
  <2>1. policy' \in [Approver -> Row \cup {NoRow}]
    <3>1. DOMAIN policy' = Approver /\ policy' = [b \in Approver |-> policy'[b]]
      BY <1>4 DEF Published
    <3>2. \A b \in Approver : policy'[b] \in Row \cup {NoRow}
      BY <1>10, <1>11, <1>12
    <3>. QED  BY <3>1, <3>2
  <2>. QED  BY <1>4, <1>5, <2>1 DEF ApprovalsInv, PolicyTypeOK
<1>17. VersionsOK'
  <2>1. \A b \in Rows' : policy'[b].version \in 1 .. N'
    BY <1>1, <1>10, <1>11, <1>13, <1>14 DEF VersionsOK
  <2>2. \A v \in 1 .. N' : \E b \in Rows' : policy'[b].version = v
    <3>. SUFFICES ASSUME NEW v \in 1 .. N'
                  PROVE  \E b \in Rows' : policy'[b].version = v
      OBVIOUS
    <3>1. CASE v = N + 1
      BY <1>10, <1>13, <3>1
    <3>2. CASE v # N + 1
      BY <1>1, <1>11, <1>13, <1>14, <3>2 DEF VersionsOK
    <3>. QED  BY <3>1, <3>2
  <2>3. \A b \in Rows' : policy'[b].status = "approved" <=> policy'[b].version = N'
    BY <1>1, <1>10, <1>11, <1>13, <1>14 DEF VersionsOK
  <2>. QED  BY <1>14, <2>1, <2>2, <2>3 DEF VersionsOK
<1>18. \A b \in Approver : TransactionOK(b)'
  <2>1. TransactionOK(a)'
    BY <1>1, <1>5, <1>6, <1>14 DEF TransactionOK
  <2>2. ASSUME NEW b \in Approver \ {a}
        PROVE  TransactionOK(b)'
    <3>1. TransactionOK(b) /\ approval[b] \in Approval /\ approval[b].highest \in Nat
      BY DEF ApprovalsInv, PolicyTypeOK, Approval
    <3>2. policy[b] = NoRow => policy'[b] = NoRow
      BY <1>12, <1>8, <1>7, <1>9, PolicyConstants
    <3>. QED
      BY <1>1, <1>3, <1>6, <1>13, <1>14, <3>1, <3>2 DEF TransactionOK
  <2>. QED  BY <2>1, <2>2
<1>. QED  BY <1>16, <1>17, <1>18 DEF ApprovalsInv

\* A lost connection.
LEMMA DropKeeps ==
    ASSUME ApprovalsInv, NEW a \in Approver, Drop(a)
    PROVE  ApprovalsInv'
<1>1. drops' \in 0 .. MaxDrops
  BY PolicyConstants DEF Drop, ApprovalsInv, PolicyTypeOK
<1>. QED  BY <1>1, RolledBackKeeps DEF Drop, Abandoned

\* Every step of an approval.
LEMMA ApproveKeeps ==
    ASSUME ApprovalsInv, NEW a \in Approver, Approve(a)
    PROVE  ApprovalsInv'
BY ReadKeeps, FindKeeps, SupersedeKeeps, InsertKeeps, CommitKeeps, DropKeeps DEF Approve

\* What the invariant says of the answers.
LEMMA ApprovalsInvSettles ==
    ASSUME ApprovalsInv
    PROVE  ApprovalsSettled
<1>1. PolicyTypeOK /\ VersionsOK /\ N \in Nat /\ Highest = N
  BY CountIsNat, HighestIsCount DEF ApprovalsInv
<1>2. {policy[a].version : a \in Rows} = 1 .. Cardinality(Rows)
  <2>1. {policy[a].version : a \in Rows} \subseteq 1 .. N
    BY <1>1 DEF VersionsOK
  <2>2. 1 .. N \subseteq {policy[a].version : a \in Rows}
    BY <1>1 DEF VersionsOK
  <2>. QED  BY <2>1, <2>2 DEF N
<1>3. Approved = {a \in Rows : policy[a].version = Highest}
  BY <1>1 DEF VersionsOK, Approved
<1>4. ConflictWasBeaten
  <2>. SUFFICES ASSUME NEW a \in Approver, At(a, "version_conflict"), ~approval[a].lost
                PROVE  \E b \in Rows \ {a} : policy[b].version = NextVersion(a)
    BY DEF ConflictWasBeaten
  <2>1. approval[a].highest \in Nat /\ approval[a].highest < N /\ policy[a] = NoRow
    BY DEF ApprovalsInv, PolicyTypeOK, Approval, TransactionOK, At
  <2>2. NextVersion(a) \in 1 .. N
    BY <1>1, <2>1 DEF NextVersion
  <2>. QED
    BY <1>1, <2>1, <2>2 DEF VersionsOK, Rows
<1>. QED  BY <1>1, <1>2, <1>3, <1>4 DEF ApprovalsSettled, NewestIsApproved

(***************************************************************************)
(* Experiments.                                                            *)
(*                                                                         *)
(* No write looks at what was read before it, so what a call checked holds *)
(* of the row it writes only while no other call has written.  That is     *)
(* enough: variants are checked whole, so a row's are sound whoever wrote  *)
(* last, and a page that shows an experiment has seen it past the states   *)
(* in which it can be edited, to which no transition returns.              *)
(***************************************************************************)
RowsOK ==
    /\ experiment \in Seq(ExperimentRow)
    /\ Len(experiment) <= MaxExperiments
    /\ \A e \in Created : experiment[e].arms \in Sound

\* What a call in progress holds, and what still is as it read it.
CallOK(m) ==
    /\ m.def.arms \in Sound \cup {None}
    /\ m.kind = "create" => m.def.arms \in Sound
    /\ m.kind # "create" => m.subject \in Created
    /\ ~m.stale /\ m.kind = "edit" => IsEditable(experiment[m.subject].status)
    /\ ~m.stale /\ m.kind = "move" => CanTransition(experiment[m.subject].status, m.target)

PageOK(b) ==
    shown[b].subject # None =>
        /\ shown[b].subject \in Created
        /\ shown[b].arms \in Sound
        /\ ~raced => /\ ~IsEditable(experiment[shown[b].subject].status)
                     /\ shown[b].arms = experiment[shown[b].subject].arms

ExperimentsInv ==
    /\ TypeOK
    /\ RowsOK
    /\ \A c \in Call : call[c].pc # "idle" => CallOK(call[c])
    /\ \A b \in Browser : PageOK(b)
    /\ CountedAsShown

\* A set of experiments has an oldest.
LEMMA OldestExists ==
    ASSUME NEW S \in SUBSET Nat, S # {}
    PROVE  Min(S) \in S
<1>. DEFINE R == OpToRel(<, Nat)
<1>1. PICK x \in S : \A y \in S : ~(<<y, x>> \in R)
  <2>1. IsWellFoundedOn(R, Nat)
    BY NatLessThanWellFounded
  <2>. HIDE DEF R
  <2>. QED  BY <2>1, WFMin
<1>2. \A y \in S : <<y, x>> \in R <=> y < x
  BY DEF OpToRel
<1>. HIDE DEF R
<1>3. \A y \in S : x <= y
  <2>1. \A y \in S : ~(y < x)
    BY <1>1, <1>2, Zenon
  <2>. QED  BY <2>1
<1>. QED  BY <1>3 DEF Min

LEMMA CreatedAre ==
    ASSUME RowsOK
    PROVE  /\ Created = 1 .. Len(experiment) /\ Len(experiment) \in 0 .. MaxExperiments
           /\ Created \subseteq Experiment /\ Created \subseteq Nat
           /\ \A e \in Created : experiment[e] \in ExperimentRow /\ e # None
BY ExperimentConstants DEF RowsOK, Created, Experiment

\* What is served is an experiment, past the states it can be edited in.
LEMMA ServingIs ==
    ASSUME RowsOK, Serving # None
    PROVE  Serving \in Created /\ IsServing(Serving) /\ ~IsEditable(experiment[Serving].status)
<1>. DEFINE S == {e \in Created : IsServing(e)}
<1>1. S # {} /\ Serving = Min(S)
  BY DEF Serving
<1>2. S \in SUBSET Nat
  BY CreatedAre
<1>. HIDE DEF S
<1>3. Min(S) \in S
  BY <1>1, <1>2, OldestExists
<1>. QED  BY <1>1, <1>3 DEF S, IsServing, IsEditable

LEMMA ExperimentsInitially ==
    ASSUME Init
    PROVE  ExperimentsInv
<1>1. PolicyTypeOK
  BY ApprovalsInitially DEF Init, ApprovalsInv
<1>2. RowsOK /\ Created = {}
  BY ExperimentConstants DEF Init, RowsOK, Created
<1>3. Created = 1 .. 0 /\ 0 \in 0 .. MaxExperiments
  BY <1>2, ExperimentConstants
<1>4. Idle \in CallState
  BY DEF Idle, CallState, Nothing, Definition, Status
<1>5. call \in [Call -> CallState] /\ \A c \in Call : call[c].pc = "idle"
  BY <1>4 DEF Init, Idle
<1>6. Created \in {1 .. n : n \in 0 .. MaxExperiments}
  BY <1>2, <1>3
<1>7. TypeOK
  <2>1. shown \in [Browser -> [subject : Experiment \cup {None}, arms : Arms \cup {None}]]
    BY DEF Init
  <2>2. calls = 0 /\ now = 0 /\ counted = {} /\ raced \in BOOLEAN
    BY Zenon DEF Init
  <2>3. calls \in 0 .. MaxCalls /\ now \in 0 .. MaxTime
    BY <2>2, ExperimentConstants
  <2>. QED  BY <1>1, <1>2, <1>5, <1>6, <2>1, <2>2, <2>3 DEF TypeOK
<1>. QED  BY <1>2, <1>5, <1>7 DEF Init, ExperimentsInv, PageOK, CountedAsShown

\* A step that leaves the rows, the pages and the counts alone.
LEMMA OnlyCalls ==
    ASSUME ExperimentsInv, PolicyTypeOK', UNCHANGED <<experiment, shown, counted, raced>>,
           calls' \in 0 .. MaxCalls, now' \in 0 .. MaxTime, call' \in [Call -> CallState],
           \A c \in Call : call'[c].pc # "idle" => CallOK(call'[c])
    PROVE  ExperimentsInv'
<1>1. TypeOK'
  BY DEF ExperimentsInv, TypeOK, Created
<1>2. RowsOK'
  BY DEF ExperimentsInv, RowsOK, Created
<1>3. \A c \in Call : call'[c].pc # "idle" => CallOK(call[c])'
  BY DEF CallOK, Created
<1>4. \A b \in Browser : PageOK(b)'
  BY DEF ExperimentsInv, PageOK, Created
<1>5. CountedAsShown'
  BY DEF ExperimentsInv, CountedAsShown
<1>. QED  BY <1>1, <1>2, <1>3, <1>4, <1>5 DEF ExperimentsInv

\* ... and only one of the calls.
LEMMA OneCall ==
    ASSUME ExperimentsInv, UNCHANGED <<policyVars, experiment, shown, counted, raced, now>>,
           calls' \in 0 .. MaxCalls, NEW c \in Call, NEW m \in CallState,
           m.pc # "idle" => CallOK(m), call' = [call EXCEPT ![c] = m]
    PROVE  ExperimentsInv'
<1>1. PolicyTypeOK' /\ now' \in 0 .. MaxTime
  BY DEF ExperimentsInv, TypeOK, policyVars, PolicyTypeOK
<1>2. call' \in [Call -> CallState]
  BY DEF ExperimentsInv, TypeOK
<1>3. \A d \in Call : call'[d].pc # "idle" => CallOK(call'[d])
  BY DEF ExperimentsInv, TypeOK
<1>. QED  BY <1>1, <1>2, <1>3, OnlyCalls

\* A call that begins holds what it was given and what it read.
LEMMA BeginKeeps ==
    ASSUME ExperimentsInv, NEW c \in Call, NEW kind \in {"create", "edit", "move"},
           NEW e \in Experiment \cup {None}, NEW def \in Definition, NEW target \in Status,
           NEW pc \in {"policy", "serving", "write"}, Begin(c, kind, e, def, target, pc),
           def.arms \in Sound \cup {None}, kind = "create" => def.arms \in Sound,
           kind # "create" => e \in Created,
           kind = "edit" => IsEditable(experiment[e].status),
           kind = "move" => CanTransition(experiment[e].status, target)
    PROVE  ExperimentsInv'
<1>. DEFINE m == [pc |-> pc, kind |-> kind, subject |-> e, def |-> def, target |-> target,
                  stale |-> FALSE]
<1>1. m \in CallState
  BY DEF CallState
<1>2. CallOK(m)
  BY DEF CallOK
<1>3. calls' \in 0 .. MaxCalls
  BY ExperimentConstants DEF Begin, ExperimentsInv, TypeOK
<1>4. call' = [call EXCEPT ![c] = m]
  BY DEF Begin
<1>. HIDE DEF m
<1>. QED  BY <1>1, <1>2, <1>3, <1>4, OneCall DEF Begin

LEMMA CreateKeeps ==
    ASSUME ExperimentsInv, NEW c \in Call, AskCreate(c)
    PROVE  ExperimentsInv'
<1>1. PICK arms \in Sound, policyVersion \in Approved \cup {None},
           opens \in Opening \cup {None}, closes \in Closing \cup {None} :
        Begin(c, "create", None,
              [arms |-> arms, policy |-> policyVersion, opens |-> opens, closes |-> closes],
              "DRAFT", ChecksFrom([arms |-> arms, policy |-> policyVersion, opens |-> opens,
                                   closes |-> closes], FALSE))
  BY Zenon DEF AskCreate
<1>. DEFINE def == [arms |-> arms, policy |-> policyVersion, opens |-> opens, closes |-> closes]
<1>2. def \in Definition /\ def.arms \in Sound
  BY ExperimentConstants DEF Definition, Approved, Rows
<1>3. ChecksFrom(def, FALSE) \in {"policy", "serving", "write"} /\ "DRAFT" \in Status
  BY DEF ChecksFrom, Status
<1>4. Begin(c, "create", None, def, "DRAFT", ChecksFrom(def, FALSE))
  BY <1>1
<1>. HIDE DEF def
<1>. QED  BY <1>2, <1>3, <1>4, BeginKeeps

LEMMA EditKeeps ==
    ASSUME ExperimentsInv, NEW c \in Call, AskEdit(c)
    PROVE  ExperimentsInv'
<1>1. PICK e \in Created, arms \in Arms \cup {None}, policyVersion \in Approved \cup {None},
           opens \in Opening \cup {None}, closes \in Closing \cup {None} :
        LET def == [arms |-> arms, policy |-> policyVersion, opens |-> opens, closes |-> closes]
        IN /\ def # Nothing
           /\ IsEditable(experiment[e].status)
           /\ EditSound(e, def)
           /\ Begin(c, "edit", e, def, "DRAFT", ChecksFrom(def, FALSE))
  BY Zenon DEF AskEdit
<1>. DEFINE def == [arms |-> arms, policy |-> policyVersion, opens |-> opens, closes |-> closes]
<1>2. def \in Definition /\ def.arms = arms
  BY DEF Definition, Approved, Rows
<1>3. ChecksFrom(def, FALSE) \in {"policy", "serving", "write"} /\ "DRAFT" \in Status
  BY DEF ChecksFrom, Status
<1>4. /\ IsEditable(experiment[e].status)
      /\ EditSound(e, def)
      /\ Begin(c, "edit", e, def, "DRAFT", ChecksFrom(def, FALSE))
  BY <1>1
<1>. HIDE DEF def
<1>5. def.arms \in Sound \cup {None}
  BY <1>2, <1>4 DEF EditSound
<1>6. e \in Experiment
  BY CreatedAre DEF ExperimentsInv
<1>. QED  BY <1>2, <1>3, <1>4, <1>5, <1>6, BeginKeeps

LEMMA MoveKeeps ==
    ASSUME ExperimentsInv, NEW c \in Call, AskMove(c)
    PROVE  ExperimentsInv'
<1>1. PICK e \in Created, target \in Status :
        /\ CanTransition(experiment[e].status, target)
        /\ Begin(c, "move", e, [Nothing EXCEPT !.policy = experiment[e].policy], target,
                 IF target = "RUNNING"
                 THEN ChecksFrom([Nothing EXCEPT !.policy = experiment[e].policy], TRUE)
                 ELSE "write")
  BY DEF AskMove
<1>. DEFINE def == [Nothing EXCEPT !.policy = experiment[e].policy]
            pc == IF target = "RUNNING" THEN ChecksFrom(def, TRUE) ELSE "write"
<1>2. experiment[e] \in ExperimentRow /\ e \in Experiment
  BY CreatedAre DEF ExperimentsInv
<1>3. def \in Definition /\ def.arms = None
  BY <1>2 DEF Definition, Nothing, ExperimentRow
<1>4. pc \in {"policy", "serving", "write"}
  BY DEF ChecksFrom
<1>5. Begin(c, "move", e, def, target, pc) /\ CanTransition(experiment[e].status, target)
  BY <1>1
<1>. HIDE DEF def, pc
<1>. QED  BY <1>2, <1>3, <1>4, <1>5, BeginKeeps

\* Neither query changes what a call holds.
LEMMA ChecksKeep ==
    ASSUME ExperimentsInv, NEW c \in Call, CheckPolicy(c) \/ CheckServing(c)
    PROVE  ExperimentsInv'
<1>1. Idle \in CallState /\ Idle.pc = "idle"
  BY DEF Idle, CallState, Nothing, Definition, Status
<1>2. call[c] \in CallState /\ call[c].pc # "idle" /\ CallOK(call[c])
  BY DEF CheckPolicy, CheckServing, ExperimentsInv, TypeOK
<1>3. ASSUME NEW pc \in {"serving", "write"}, call' = [call EXCEPT ![c].pc = pc]
      PROVE  ExperimentsInv'
  <2>. DEFINE m == [call[c] EXCEPT !.pc = pc]
  <2>1. m \in CallState /\ call' = [call EXCEPT ![c] = m]
    BY <1>2, <1>3 DEF CallState
  <2>2. CallOK(m)
    BY <1>2 DEF CallOK, CallState
  <2>3. calls' \in 0 .. MaxCalls
    BY DEF CheckPolicy, CheckServing, ExperimentsInv, TypeOK
  <2>. HIDE DEF m
  <2>. QED  BY <2>1, <2>2, <2>3, OneCall DEF CheckPolicy, CheckServing
<1>4. ASSUME call' = [call EXCEPT ![c] = Idle]
      PROVE  ExperimentsInv'
  <2>1. calls' \in 0 .. MaxCalls
    BY DEF CheckPolicy, CheckServing, ExperimentsInv, TypeOK
  <2>. QED  BY <1>1, <1>4, <2>1, OneCall DEF CheckPolicy, CheckServing
<1>5. \/ \E pc \in {"serving", "write"} : call' = [call EXCEPT ![c].pc = pc]
      \/ call' = [call EXCEPT ![c] = Idle]
  BY DEF CheckPolicy, CheckServing
<1>. QED  BY <1>3, <1>4, <1>5

\* A write: sound whatever was written before it, and as checked if nothing was.
LEMMA WriteKeeps ==
    ASSUME ExperimentsInv, NEW c \in Call, Write(c)
    PROVE  ExperimentsInv'
<1>. DEFINE m == call[c]
            n == Len(experiment)
            row == [status |-> "DRAFT", arms |-> m.def.arms, policy |-> m.def.policy,
                    opens |-> m.def.opens, closes |-> m.def.closes]
<1>1. /\ m \in CallState /\ m.pc = "write" /\ CallOK(m)
      /\ m.def \in Definition /\ m.target \in Status
  BY DEF Write, ExperimentsInv, TypeOK, CallState
<1>2. /\ RowsOK /\ experiment \in Seq(ExperimentRow) /\ n \in 0 .. MaxExperiments
      /\ Created = 1 .. n /\ \A e \in Created : experiment[e].arms \in Sound
  BY CreatedAre DEF ExperimentsInv, RowsOK
<1>3. raced' = (raced \/ m.stale)
  BY DEF Write
\* What becomes of the rows, whichever write it is.
<1>4. /\ experiment' \in Seq(ExperimentRow) /\ Len(experiment') <= MaxExperiments
      /\ Created \subseteq Created'
      /\ \A e \in Created' : experiment'[e].arms \in Sound
      /\ ~raced' => \A e \in Created :
            ~IsEditable(experiment[e].status)
                => /\ ~IsEditable(experiment'[e].status)
                   /\ experiment'[e].arms = experiment[e].arms
  <2>1. CASE m.kind = "create"
    <3>1. experiment' = Append(experiment, row) /\ n < MaxExperiments
      BY <2>1 DEF Write
    <3>2. m.def.arms \in Sound
      BY <1>1, <2>1 DEF CallOK
    <3>3. row \in ExperimentRow /\ row.arms \in Sound
      BY <1>1, <3>2, ExperimentConstants DEF Definition, ExperimentRow, Status
    <3>. HIDE DEF row, m
    <3>4. /\ experiment' \in Seq(ExperimentRow) /\ Len(experiment') = n + 1
          /\ \A e \in 1 .. n : experiment'[e] = experiment[e]
          /\ experiment'[n + 1] = row
      BY <1>2, <3>1, <3>3
    <3>5. Created' = 1 .. (n + 1)
      BY <3>4 DEF Created
    <3>6. \A e \in Created : e \in Created' /\ experiment'[e] = experiment[e]
      BY <1>2, <3>4, <3>5
    <3>7. \A e \in Created' : experiment'[e].arms \in Sound
      BY <1>2, <3>3, <3>4, <3>5
    <3>8. Len(experiment') <= MaxExperiments
      BY <1>2, <3>1, <3>4, ExperimentConstants
    <3>9. \A e \in Created : ~IsEditable(experiment[e].status)
                              => /\ ~IsEditable(experiment'[e].status)
                                 /\ experiment'[e].arms = experiment[e].arms
      BY <3>6
    <3>. QED  BY <3>4, <3>6, <3>7, <3>8, <3>9
  <2>2. CASE m.kind = "edit"
    <3>1. experiment' = [experiment EXCEPT ![m.subject] = Edited(experiment[m.subject], m.def)]
      BY <2>2 DEF Write
    <3>. DEFINE old == experiment[m.subject]
                new == Edited(old, m.def)
    <3>2. m.subject \in Created /\ m.def.arms \in Sound \cup {None}
          /\ (~m.stale => IsEditable(old.status))
      BY <1>1, <2>2 DEF CallOK
    <3>3. old \in ExperimentRow /\ old.arms \in Sound
      BY <1>2, <3>2, CreatedAre
    <3>4. new \in ExperimentRow /\ new.arms \in Sound
      <4>1. /\ m.def.policy \in Approver \cup {None} /\ m.def.opens \in Opening \cup {None}
            /\ m.def.closes \in Closing \cup {None} /\ old.status \in Status
            /\ old.policy \in Approver \cup {None} /\ old.opens \in Opening \cup {None}
            /\ old.closes \in Closing \cup {None}
        BY <1>1, <3>3 DEF Definition, ExperimentRow
      <4>2. new = [status |-> old.status, arms |-> Given(m.def.arms, old.arms),
                   policy |-> Given(m.def.policy, old.policy),
                   opens |-> Given(m.def.opens, old.opens),
                   closes |-> Given(m.def.closes, old.closes)]
        BY DEF Edited
      <4>. HIDE DEF new, old, m
      <4>3. Given(m.def.arms, old.arms) \in Sound
        BY <3>2, <3>3 DEF Given
      <4>4. /\ Given(m.def.policy, old.policy) \in Approver \cup {None}
            /\ Given(m.def.opens, old.opens) \in Opening \cup {None}
            /\ Given(m.def.closes, old.closes) \in Closing \cup {None}
        BY <4>1 DEF Given
      <4>. QED  BY <4>1, <4>2, <4>3, <4>4, ExperimentConstants DEF ExperimentRow
    <3>. HIDE DEF old, new, m
    <3>5. experiment' = [experiment EXCEPT ![m.subject] = new]
      BY <3>1 DEF old, new
    <3>6. /\ experiment' \in Seq(ExperimentRow) /\ Len(experiment') = n
          /\ experiment'[m.subject] = new
          /\ \A e \in Created \ {m.subject} : experiment'[e] = experiment[e]
      BY <1>2, <3>2, <3>4, <3>5
    <3>7. Created' = Created
      BY <1>2, <3>6 DEF Created
    <3>8. \A e \in Created : experiment'[e].arms \in Sound
      BY <1>2, <3>4, <3>6
    <3>9. ASSUME ~raced', NEW e \in Created, ~IsEditable(experiment[e].status)
          PROVE  experiment'[e] = experiment[e]
      BY <1>3, <3>2, <3>6, <3>9 DEF old
    <3>. QED  BY <1>2, <3>6, <3>7, <3>8, <3>9, ExperimentConstants
  <2>3. CASE m.kind = "move"
    <3>1. experiment' = [experiment EXCEPT ![m.subject].status = m.target]
      BY <2>3 DEF Write
    <3>. DEFINE old == experiment[m.subject]
                new == [old EXCEPT !.status = m.target]
    <3>2. m.subject \in Created /\ (~m.stale => CanTransition(old.status, m.target))
      BY <1>1, <2>3 DEF CallOK
    <3>3. old \in ExperimentRow /\ old.arms \in Sound
      BY <1>2, <3>2, CreatedAre
    <3>4. new \in ExperimentRow /\ new.arms = old.arms /\ new.status = m.target
      BY <1>1, <3>3 DEF ExperimentRow
    <3>5. CanTransition(old.status, m.target) /\ ~IsEditable(old.status)
            => ~IsEditable(m.target)
      <4>1. old.status \in Status
        BY <3>3 DEF ExperimentRow
      <4>. HIDE DEF old, new, m
      <4>. QED  BY <4>1 DEF Status, CanTransition, TRANSITIONS, IsEditable
    <3>6. experiment' = [experiment EXCEPT ![m.subject] = new]
      BY <3>1
    <3>. HIDE DEF old, new, m
    <3>7. /\ experiment' \in Seq(ExperimentRow) /\ Len(experiment') = n
          /\ experiment'[m.subject] = new
          /\ \A e \in Created \ {m.subject} : experiment'[e] = experiment[e]
      BY <1>2, <3>2, <3>4, <3>6
    <3>8. Created' = Created
      BY <1>2, <3>7 DEF Created
    <3>9. \A e \in Created : experiment'[e].arms \in Sound
      BY <1>2, <3>3, <3>4, <3>7
    <3>10. ASSUME ~raced', NEW e \in Created, ~IsEditable(experiment[e].status)
           PROVE  /\ ~IsEditable(experiment'[e].status)
                  /\ experiment'[e].arms = experiment[e].arms
      <4>1. CASE e = m.subject
        BY <1>3, <3>2, <3>4, <3>5, <3>7, <3>10, <4>1 DEF old
      <4>2. CASE e # m.subject
        BY <3>7, <3>10, <4>2
      <4>. QED  BY <4>1, <4>2
    <3>. QED  BY <1>2, <3>7, <3>8, <3>9, <3>10, ExperimentConstants
  <2>. QED  BY <1>1, <2>1, <2>2, <2>3 DEF CallState
<1>5. Idle \in CallState /\ Idle.pc = "idle"
  BY DEF Idle, CallState, Nothing, Definition, Status
\* Every other call in progress is out of date.
<1>6. \A d \in Call : /\ call'[d] \in CallState
                      /\ call'[d].pc # "idle" =>
                            /\ call[d].pc # "idle"
                            /\ call'[d] = [call[d] EXCEPT !.stale = TRUE]
  <2>. SUFFICES ASSUME NEW d \in Call \ {c}
                PROVE  /\ call'[d] \in CallState
                       /\ call'[d].pc # "idle" =>
                            /\ call[d].pc # "idle"
                            /\ call'[d] = [call[d] EXCEPT !.stale = TRUE]
    BY <1>5 DEF Write
  <2>1. call[d] \in CallState
    BY DEF ExperimentsInv, TypeOK
  <2>2. call'[d] = [call[d] EXCEPT !.stale = call[d].stale \/ call[d].pc # "idle"]
    BY DEF Write
  <2>. QED  BY <2>1, <2>2 DEF CallState
<1>7. \A d \in Call : call'[d].pc # "idle" => CallOK(call[d])'
  <2>. SUFFICES ASSUME NEW d \in Call, call'[d].pc # "idle"
                PROVE  CallOK(call[d])'
    OBVIOUS
  <2>1. call'[d] = [call[d] EXCEPT !.stale = TRUE] /\ CallOK(call[d]) /\ call[d] \in CallState
    BY <1>6 DEF ExperimentsInv, TypeOK
  <2>2. /\ call'[d].stale /\ call'[d].def = call[d].def
        /\ call'[d].kind = call[d].kind /\ call'[d].subject = call[d].subject
    BY <2>1 DEF CallState
  <2>. QED  BY <1>4, <2>1, <2>2 DEF CallOK
<1>8. \A b \in Browser : PageOK(b)'
  <2>. SUFFICES ASSUME NEW b \in Browser, shown[b].subject # None
                PROVE  /\ shown[b].subject \in Created'
                       /\ shown[b].arms \in Sound
                       /\ ~raced' => /\ ~IsEditable(experiment'[shown[b].subject].status)
                                     /\ shown[b].arms = experiment'[shown[b].subject].arms
    BY DEF PageOK, Write
  <2>1. PageOK(b)
    BY DEF ExperimentsInv
  <2>. HIDE DEF m
  <2>. QED  BY <1>3, <1>4, <2>1 DEF PageOK
<1>9. CountedAsShown'
  BY DEF Write, ExperimentsInv, CountedAsShown
<1>10. RowsOK'
  BY <1>4 DEF RowsOK
<1>11. TypeOK'
  <2>1. Created' = 1 .. Len(experiment') /\ Len(experiment') \in 0 .. MaxExperiments
        /\ \A e \in Created' : experiment'[e] \in ExperimentRow
    BY <1>4, ExperimentConstants DEF Created
  <2>2. Created' \in {1 .. i : i \in 0 .. MaxExperiments}
    BY <2>1
  <2>3. call' \in [Call -> CallState]
    BY <1>6 DEF Write
  <2>4. PolicyTypeOK'
    BY DEF Write, ExperimentsInv, TypeOK, PolicyTypeOK, policyVars
  <2>5. m.stale \in BOOLEAN /\ raced \in BOOLEAN
    BY <1>1 DEF CallState, ExperimentsInv, TypeOK
  <2>6. raced' \in BOOLEAN
    BY <1>3, <2>5
  <2>7. UNCHANGED <<calls, shown, counted, now>>
    BY DEF Write
  <2>. QED  BY <2>1, <2>2, <2>3, <2>4, <2>6, <2>7 DEF ExperimentsInv, TypeOK
<1>. QED  BY <1>7, <1>8, <1>9, <1>10, <1>11 DEF ExperimentsInv

\* A page that loads its configuration, and a decision made on one.
LEMMA PagesKeep ==
    ASSUME ExperimentsInv, NEW b \in Browser, LoadConfig(b) \/ Decide(b)
    PROVE  ExperimentsInv'
<1>. DEFINE PageShown == [subject : Experiment \cup {None}, arms : Arms \cup {None}]
<1>1. RowsOK /\ TypeOK /\ shown \in [Browser -> PageShown]
  BY DEF ExperimentsInv, TypeOK
<1>2. UNCHANGED <<policyVars, experiment, call, calls, raced, now>>
  BY DEF LoadConfig, Decide
<1>3. RowsOK' /\ Created' = Created /\ PolicyTypeOK'
  BY <1>1, <1>2 DEF RowsOK, Created, TypeOK, PolicyTypeOK, policyVars
<1>4. \A c \in Call : call'[c].pc # "idle" => CallOK(call[c])'
  BY <1>2, <1>3 DEF ExperimentsInv, CallOK
<1>5. Serving # None => /\ Serving \in Created /\ Serving \in Experiment
                        /\ experiment[Serving].arms \in Sound
                        /\ ~IsEditable(experiment[Serving].status)
  BY <1>1, ServingIs, CreatedAre DEF RowsOK
<1>6. CASE LoadConfig(b)
  <2>. DEFINE page == IF Serving = None THEN [subject |-> None, arms |-> None]
                      ELSE [subject |-> Serving, arms |-> experiment[Serving].arms]
  <2>1. shown' = [shown EXCEPT ![b] = page] /\ counted' = counted
    BY <1>6 DEF LoadConfig
  <2>2. page \in PageShown
    BY <1>5, ExperimentConstants
  <2>3. page.subject # None => page.subject = Serving /\ page.arms = experiment[Serving].arms
                               /\ Serving # None
    OBVIOUS
  <2>. HIDE DEF page, PageShown
  <2>4. shown' \in [Browser -> PageShown] /\ shown'[b] = page
        /\ \A d \in Browser \ {b} : shown'[d] = shown[d]
    BY <1>1, <2>1, <2>2
  <2>5. \A d \in Browser : PageOK(d)'
    <3>1. PageOK(b)'
      BY <1>2, <1>3, <1>5, <2>3, <2>4 DEF PageOK
    <3>2. \A d \in Browser \ {b} : PageOK(d)'
      BY <1>2, <1>3, <2>4 DEF PageOK, ExperimentsInv
    <3>. QED  BY <3>1, <3>2
  <2>6. TypeOK'
    BY <1>1, <1>2, <1>3, <2>1, <2>4 DEF TypeOK, PageShown
  <2>7. CountedAsShown'
    BY <1>2, <2>1 DEF CountedAsShown, ExperimentsInv
  <2>. QED  BY <1>3, <1>4, <2>5, <2>6, <2>7 DEF ExperimentsInv
<1>7. CASE Decide(b)
  <2>. DEFINE count == [subject |-> Serving, seen |-> shown[b].arms,
                        stored |-> experiment[Serving].arms]
  <2>1. shown' = shown /\ counted' = counted \cup {count}
    BY <1>7 DEF Decide
  <2>2. shown[b].subject # None /\ shown[b].subject = Serving /\ PageOK(b)
    BY <1>7 DEF Decide, Attributed, ExperimentsInv
  <2>3. /\ count \in [subject : Experiment, seen : Arms, stored : Arms]
        /\ ~raced => count.seen = count.stored
    BY <1>5, <2>2, ExperimentConstants DEF PageOK
  <2>. HIDE DEF count
  <2>4. CountedAsShown'
    BY <1>2, <2>1, <2>3 DEF CountedAsShown, ExperimentsInv
  <2>5. counted' \subseteq [subject : Experiment, seen : Arms, stored : Arms]
    BY <1>1, <2>1, <2>3 DEF TypeOK
  <2>6. TypeOK'
    BY <1>1, <1>2, <1>3, <2>1, <2>5 DEF TypeOK
  <2>7. \A d \in Browser : PageOK(d)'
    BY <1>2, <1>3, <2>1 DEF PageOK, ExperimentsInv
  <2>. QED  BY <1>3, <1>4, <2>4, <2>6, <2>7 DEF ExperimentsInv
<1>. QED  BY <1>6, <1>7

\* The clock, and an approval, which leaves the experiments alone.
LEMMA TickKeeps ==
    ASSUME ExperimentsInv, Tick
    PROVE  ExperimentsInv'
<1>1. PolicyTypeOK' /\ calls' \in 0 .. MaxCalls /\ now' \in 0 .. MaxTime
  BY ExperimentConstants DEF Tick, ExperimentsInv, TypeOK, PolicyTypeOK, policyVars
<1>2. call' \in [Call -> CallState] /\ \A c \in Call : call'[c].pc # "idle" => CallOK(call'[c])
  BY DEF Tick, ExperimentsInv, TypeOK
<1>. QED  BY <1>1, <1>2, OnlyCalls DEF Tick

LEMMA ApprovalKeeps ==
    ASSUME ExperimentsInv, ApprovalsInv', NEW a \in Approver, AskApproval(a)
    PROVE  ExperimentsInv'
<1>1. calls' \in 0 .. MaxCalls
  BY ExperimentConstants DEF AskApproval, ExperimentsInv, TypeOK
<1>2. call' \in [Call -> CallState] /\ \A c \in Call : call'[c].pc # "idle" => CallOK(call'[c])
  BY DEF AskApproval, ExperimentsInv, TypeOK
<1>3. PolicyTypeOK' /\ now' \in 0 .. MaxTime
  BY DEF ApprovalsInv, AskApproval, ExperimentsInv, TypeOK
<1>. QED  BY <1>1, <1>2, <1>3, OnlyCalls DEF AskApproval

\* What does not approve leaves the approvals as they are.
LEMMA ApprovalsUntouched ==
    ASSUME ApprovalsInv, UNCHANGED policyVars
    PROVE  ApprovalsInv'
<1>1. UNCHANGED <<policy, approval, drops>>
  BY DEF policyVars
<1>. QED
  BY <1>1 DEF ApprovalsInv, PolicyTypeOK, VersionsOK, TransactionOK, Rows, Approved, N, At

-----------------------------------------------------------------------------
SiteInv == ApprovalsInv /\ ExperimentsInv

LEMMA SiteStep ==
    ASSUME SiteInv, [Next]_vars
    PROVE  SiteInv'
<1>1. ASSUME NEW a \in Approver, AskApproval(a)
      PROVE  SiteInv'
  BY <1>1, ApproveKeeps, ApprovalKeeps DEF SiteInv, AskApproval
<1>2. ASSUME NEW c \in Call, AskCreate(c) \/ AskEdit(c) \/ AskMove(c) \/ CheckPolicy(c)
                             \/ CheckServing(c) \/ Write(c)
      PROVE  SiteInv'
  <2>1. UNCHANGED policyVars
    <3>1. ASSUME AskCreate(c)  PROVE UNCHANGED policyVars
      BY <3>1 DEF AskCreate, Begin
    <3>2. ASSUME AskEdit(c)  PROVE UNCHANGED policyVars
      BY <3>2 DEF AskEdit, Begin
    <3>3. ASSUME AskMove(c)  PROVE UNCHANGED policyVars
      BY <3>3 DEF AskMove, Begin
    <3>4. ASSUME CheckPolicy(c) \/ CheckServing(c) \/ Write(c)  PROVE UNCHANGED policyVars
      BY <3>4 DEF CheckPolicy, CheckServing, Write
    <3>. QED  BY <1>2, <3>1, <3>2, <3>3, <3>4
  <2>. QED
    BY <1>2, <2>1, ApprovalsUntouched, CreateKeeps, EditKeeps, MoveKeeps, ChecksKeep, WriteKeeps
       DEF SiteInv
<1>3. ASSUME NEW b \in Browser, LoadConfig(b) \/ Decide(b)
      PROVE  SiteInv'
  BY <1>3, ApprovalsUntouched, PagesKeep DEF SiteInv, LoadConfig, Decide
<1>4. CASE Tick
  BY <1>4, ApprovalsUntouched, TickKeeps DEF SiteInv, Tick
<1>5. CASE UNCHANGED vars
  <2>1. UNCHANGED policyVars /\ UNCHANGED expVars
    BY <1>5 DEF vars
  <2>2. call' \in [Call -> CallState] /\ \A c \in Call : call'[c].pc # "idle" => CallOK(call'[c])
    BY <2>1 DEF expVars, SiteInv, ExperimentsInv, TypeOK
  <2>3. ApprovalsInv'
    BY <2>1, ApprovalsUntouched DEF SiteInv
  <2>4. PolicyTypeOK' /\ calls' \in 0 .. MaxCalls /\ now' \in 0 .. MaxTime
    BY <2>1, <2>3 DEF ApprovalsInv, expVars, SiteInv, ExperimentsInv, TypeOK
  <2>. QED  BY <2>1, <2>2, <2>3, <2>4, OnlyCalls DEF SiteInv, expVars
<1>. QED  BY <1>1, <1>2, <1>3, <1>4, <1>5 DEF Next

LEMMA SiteInvariant == Spec => []SiteInv
<1>1. Init => SiteInv
  BY ApprovalsInitially, ExperimentsInitially DEF Init, SiteInv
<1>2. SiteInv /\ [Next]_vars => SiteInv'
  BY SiteStep
<1>. QED  BY <1>1, <1>2, PTL DEF Spec

(* However many approvals race, are beaten or lose their connection, a     *)
(* site's versions are numbered without a gap or a double, exactly the     *)
(* newest is approved, and a conflict that is no lost connection was       *)
(* beaten (database/consent-policy.ts:93-169).                             *)
THEOREM ApprovalsSettle == Spec => []ApprovalsSettled
<1>1. SiteInv => ApprovalsSettled
  BY ApprovalsInvSettles DEF SiteInv
<1>. QED  BY <1>1, SiteInvariant, PTL

(* Whatever calls race on whatever experiments, no browser is shown arms   *)
(* validateVariants would refuse (api/lib/experiments.ts:99-109).          *)
THEOREM OnlySoundIsShown == Spec => []ShownIsSound
<1>1. SiteInv => ShownIsSound
  BY DEF SiteInv, ExperimentsInv, PageOK, ShownIsSound
<1>. QED  BY <1>1, SiteInvariant, PTL

(* Until one call has written over another's, every decision is counted    *)
(* against the arms its visitor saw (api/lib/experiments.ts:156-163).      *)
THEOREM DecisionsCountAsShown == Spec => []CountedAsShown
<1>1. SiteInv => CountedAsShown
  BY DEF SiteInv, ExperimentsInv
<1>. QED  BY <1>1, SiteInvariant, PTL
=============================================================================
