----------------------------- MODULE SingleUse -----------------------------
(***************************************************************************)
(* What an authorisation to move data promises (docs/secure-transfer.md,   *)
(* "Replay prevention"): it is used by one submission or lapses, never     *)
(* both, and what was used is handed over once on the record.              *)
(***************************************************************************)
CONSTANTS Permission, User, Nobody

VARIABLES permission, user

Init ==
  /\ permission = [p \in Permission |-> "unissued"]
  /\ user = [p \in Permission |-> Nobody]

Move(p, from, to) ==
  /\ permission[p] = from
  /\ permission' = [permission EXCEPT ![p] = to]

Issue(p) == Move(p, "unissued", "open") /\ UNCHANGED user

Use(p, u) == Move(p, "open", "used") /\ user' = [user EXCEPT ![p] = u]

Lapse(p) == Move(p, "open", "lapsed") /\ UNCHANGED user

HandOver(p) == Move(p, "used", "delivered") /\ UNCHANGED user

Next ==
  \E p \in Permission :
    Issue(p) \/ (\E u \in User : Use(p, u)) \/ Lapse(p) \/ HandOver(p)

Spec == Init /\ [][Next]_<<permission, user>>
=============================================================================
