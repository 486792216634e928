-------------------------- MODULE ConsentRegister --------------------------
(***************************************************************************)
(* What the consent log promises the rest of the system                    *)
(* (docs/consent.md, "effective consent"; getEffectiveConsent in           *)
(* database/consent.ts): for every principal and purpose at most one       *)
(* decision governs, and it gives way only to one decided no earlier.      *)
(* ConsentLog implements this register; the authorisations of              *)
(* SecureTransfer read it.                                                 *)
(***************************************************************************)
EXTENDS Integers

VARIABLE governing     \* the decisions in force

SameMatter(x, y) == x.principal = y.principal /\ x.purpose = y.purpose

RegisterInit == governing = {}

\* x takes the place of the decision that governed its matter, if one did.
Displace(x) ==
  /\ \A y \in governing : SameMatter(x, y) => x.decidedAt >= y.decidedAt
  /\ governing' = {y \in governing : ~SameMatter(x, y)} \cup {x}

RegisterNext == \E x \in governing' : Displace(x)

RegisterSpec == RegisterInit /\ [][RegisterNext]_governing
=============================================================================
