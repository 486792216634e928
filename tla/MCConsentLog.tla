--------------------------- MODULE MCConsentLog ---------------------------
(* ConsentLog on small instances: two requests with a session and an        *)
(* import (request 3), of one purpose and citing no notice.                 *)
EXTENDS ConsentLog, TLC

MCRequest == 1..3
MCDiscloses == [n \in Notice |-> {}]
Symmetry == Permutations(Opener) \cup Permutations(Secret) \cup Permutations(Session)
=============================================================================
