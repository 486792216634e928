------------------------- MODULE MCSecureTransfer -------------------------
(* SecureTransfer on small instances. Calls of one operation are             *)
(* interchangeable: no definition singles one out, and UserOf's CHOOSE has   *)
(* one candidate wherever OneTransferEach holds.                             *)
EXTENDS SecureTransfer, TLC

MCStatus == {"GRANTED", "WITHDRAWN"}

Interchangeable ==
  Permutations(Authoriser) \cup Permutations(Submitter) \cup Permutations(Collector)
=============================================================================
