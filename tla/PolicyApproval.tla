--------------------------- MODULE PolicyApproval ---------------------------
(***************************************************************************)
(* Publishing a site's consent configuration: approvePolicyVersion of      *)
(* database/consent-policy.ts over the table consent_policy_versions, for  *)
(* one site.  An approval is one transaction of three statements, read     *)
(* committed: it reads the highest version, supersedes the approved row,   *)
(* inserts its own as the next version, and commits.                       *)
(*                                                                         *)
(* What the database does for it is part of the model: a statement sees    *)
(* the rows committed when it starts, waits for the rows and the index     *)
(* entries another transaction holds, and looks again at a row it waited   *)
(* for.  Nothing a transaction wrote is seen by others before it commits,  *)
(* and all of it is undone when a statement fails.  The recommendations of *)
(* a version are abstracted to the approval that wrote them.               *)
(***************************************************************************)
EXTENDS Integers, FiniteSets, FiniteSetsExt

CONSTANTS Approver,   \* approvals asked for; each may write the row named after it
          MaxDrops,   \* connections to the database lost
          NoRow       \* no row of this name

Row == [version : Nat \ {0}, status : {"approved", "superseded"}]

ASSUME PolicyConstants == NoRow \notin Approver \cup Row /\ MaxDrops \in Nat

VARIABLES policy,     \* policy[a]: the committed row approval a wrote
          approval,   \* approval[a]: where approval a stands
          drops       \* connections lost so far

policyVars == <<policy, approval, drops>>

Phase == {"asked", "read", "waiting", "superseded", "inserted", "ok", "version_conflict"}

(* highest: what the first statement read.  found: the approved rows the   *)
(* second statement saw when it started.  held: those it superseded, held  *)
(* until the transaction ends.  lost: the connection was lost under it.    *)
Approval == [pc : Phase, highest : Nat, found : SUBSET Approver,
             held : SUBSET Approver, lost : BOOLEAN]

PolicyTypeOK == /\ policy \in [Approver -> Row \cup {NoRow}]
                /\ approval \in [Approver -> Approval]
                /\ drops \in 0 .. MaxDrops

Rows == {a \in Approver : policy[a] # NoRow}
Approved == {a \in Rows : policy[a].status = "approved"}
Highest == Max({policy[a].version : a \in Rows} \cup {0})

PolicyInit ==
    /\ policy = [a \in Approver |-> NoRow]
    /\ approval = [a \in Approver |-> [pc |-> "asked", highest |-> 0, found |-> {},
                                       held |-> {}, lost |-> FALSE]]
    /\ drops = 0

At(a, pc) == approval[a].pc = pc
Open(a) == approval[a].pc \in {"read", "waiting", "superseded", "inserted"}

(* The transaction's first statement. *)
ReadHighest(a) ==
    /\ At(a, "asked")
    /\ approval' = [approval EXCEPT ![a].pc = "read", ![a].highest = Highest]
    /\ UNCHANGED <<policy, drops>>

(* The second statement starts: it will touch the rows approved now. *)
FindApproved(a) ==
    /\ At(a, "read")
    /\ approval' = [approval EXCEPT ![a].pc = "waiting", ![a].found = Approved]
    /\ UNCHANGED <<policy, drops>>

(* Mutant: the new row inserted before the old one is superseded. *)
SupersedeAfterwards(a) ==
    /\ At(a, "waiting")
    /\ approval' = [approval EXCEPT ![a].pc = "superseded"]
    /\ UNCHANGED <<policy, drops>>

(* ... and ends once no other transaction holds one of them.  A row it     *)
(* waited for and no longer finds approved is left alone.                  *)
Supersede(a) ==
    /\ At(a, "waiting")
    /\ \A b \in Approver \ {a} : approval[b].held \cap approval[a].found = {}
    /\ approval' = [approval EXCEPT ![a].pc = "superseded",
                                    ![a].held = approval[a].found \cap Approved]
    /\ UNCHANGED <<policy, drops>>

(* What the inserted row collides with: its version in one unique index,   *)
(* any other approved row of the site in the other.                        *)
NextVersion(a) == approval[a].highest + 1
Collides(a) == \/ \E b \in Rows : policy[b].version = NextVersion(a)
               \/ Approved \ approval[a].held # {}

RolledBack(a, lost) ==
    [approval EXCEPT ![a].pc = "version_conflict", ![a].held = {}, ![a].lost = lost]

(* The third statement.  It waits while another approval's row is inserted *)
(* and not committed, for the two collide in the index of approved rows.   *)
(* A collision undoes the transaction and is answered as a conflict.       *)
InsertVersion(a) ==
    /\ At(a, "superseded")
    /\ \A b \in Approver \ {a} : ~At(b, "inserted")
    /\ approval' = IF Collides(a) THEN RolledBack(a, FALSE)
                   ELSE [approval EXCEPT ![a].pc = "inserted"]
    /\ UNCHANGED <<policy, drops>>

Published(a) ==
    [b \in Approver |->
        IF b = a THEN [version |-> NextVersion(a), status |-> "approved"]
        ELSE IF b \in approval[a].held THEN [policy[b] EXCEPT !.status = "superseded"]
        ELSE policy[b]]

(* The commit, whose answer may be lost: the bare catch then reports a     *)
(* conflict for a version that was published.                              *)
Commit(a) ==
    /\ At(a, "inserted")
    /\ policy' = Published(a)
    /\ \/ /\ approval' = [approval EXCEPT ![a].pc = "ok", ![a].held = {}]
          /\ UNCHANGED drops
       \/ /\ drops < MaxDrops
          /\ drops' = drops + 1
          /\ approval' = RolledBack(a, TRUE)

(* Mutant: the previous version superseded outside the transaction. *)
AbandonedUnrestored(a) ==
    [b \in Approver |-> IF b \in approval[a].held
                        THEN [policy[b] EXCEPT !.status = "superseded"] ELSE policy[b]]

(* What an undone transaction leaves of the table. *)
Abandoned(a) == policy

(* The connection is lost, or the transaction outlives Prisma's timeout:   *)
(* the database undoes it, and the bare catch reports a conflict.          *)
Drop(a) ==
    /\ Open(a)
    /\ drops < MaxDrops
    /\ drops' = drops + 1
    /\ approval' = RolledBack(a, TRUE)
    /\ policy' = Abandoned(a)

Approve(a) == \/ ReadHighest(a) \/ FindApproved(a) \/ Supersede(a)
              \/ InsertVersion(a) \/ Commit(a) \/ Drop(a)

-----------------------------------------------------------------------------

(* However approvals race, fail and are answered, the versions of a site   *)
(* are 1, 2, ... without a gap or a double, and exactly the highest is     *)
(* approved: a site that ever had a configuration has one, and it is the   *)
(* newest (database/consent-policy.ts:93-103, the migration's :50-54).     *)
NewestIsApproved ==
    /\ {policy[a].version : a \in Rows} = 1 .. Cardinality(Rows)
    /\ Approved = {a \in Rows : policy[a].version = Highest}

(* An approval answered with a conflict, its connection not lost, was      *)
(* beaten by one that published the version it had computed                *)
(* (database/consent-policy.ts:161-169).                                   *)
ConflictWasBeaten ==
    \A a \in Approver :
        At(a, "version_conflict") /\ ~approval[a].lost
            => \E b \in Rows \ {a} : policy[b].version = NextVersion(a)

(* What is published and what its operators were told agree. *)
ApprovalsSettled == PolicyTypeOK /\ NewestIsApproved /\ ConflictWasBeaten
=============================================================================
