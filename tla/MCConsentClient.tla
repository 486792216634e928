-------------------------- MODULE MCConsentClient --------------------------
(* ConsentClient on small instances. Nothing tells calls apart, nor tabs.   *)
EXTENDS ConsentClient, TLC

Alike == Permutations(Call) \cup Permutations(Tab)
============================================================================
