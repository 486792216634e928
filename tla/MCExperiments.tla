--------------------------- MODULE MCExperiments ----------------------------
(* Experiments and approvals of one site for TLC. *)
EXTENDS Experiments, TLC

Alike == Permutations(Approver) \cup Permutations(Call) \cup Permutations(Sound)
=============================================================================
