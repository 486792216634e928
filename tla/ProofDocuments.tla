--------------------------- MODULE ProofDocuments ---------------------------
(***************************************************************************)
(* The proof of a consent decision: what is digested and signed when it is *)
(* recorded (shared/consent-proof.ts, shared/consent-signature.ts,         *)
(* database/consent.ts), what is rebuilt from its row later                *)
(* (api/lib/consent-proof.ts), the keys (api/lib/proof-keys.ts) and the    *)
(* verification of POST /api/v1/consent/proof/verify.                      *)
(*                                                                         *)
(* The rows are one principal's on one site.  Columns that are treated     *)
(* alike have one representative: status for those both the receipt and    *)
(* the document bind, notice for those only the receipt does, variant for  *)
(* those only the second form of the document does.  Order within arrays,  *)
(* which the canonical forms sort away, is left out; a digest is what it   *)
(* is a digest of, a signature the key and what it signed.                 *)
(***************************************************************************)
EXTENDS Integers, Sequences, FiniteSets

CONSTANT NoValue   \* null

(* The releases that wrote the rows there are: before proofs, with proofs  *)
(* but before their versions were recorded, and since.                     *)
Release == <<"receipts", "proofs", "versions">>

CanonicalEvidence(e) == <<"receipt/1", e.status, e.notice>>

(* Mutant: the newer form is used for older documents as well. *)
CanonicalProofExtended(facts, version) ==
    <<version, facts.id, facts.status, facts.receipt, facts.sequence, facts.previous,
      facts.variant>>

CanonicalProof(facts, version) ==
    LET common == <<version, facts.id, facts.status, facts.receipt,
                    facts.sequence, facts.previous>>
    IN IF version = "proof/1" THEN common ELSE Append(common, facts.variant)

-----------------------------------------------------------------------------
(* load.  An environment holds the id of the active key, the private key   *)
(* or none, and the public ring, where an id names one pair.  A key        *)
(* without an id, or with a revoked one, signs nothing.                    *)
Revoked(id, ring) == \E k \in ring : k.id = id /\ k.revoked

SigningKey(env) ==
    IF env.private /\ ~Revoked(env.active, env.ring) THEN env.active ELSE NoValue

(* Mutant: a revoked key is left out of the ring. *)
KeyRingUnrevoked(env) == {k \in env.ring : ~k.revoked}

(* The public half of the active key is derived where the ring lacks it. *)
KeyRing(env) ==
    IF env.private /\ env.active # NoValue /\ ~\E k \in env.ring : k.id = env.active
    THEN env.ring \cup {[id |-> env.active, revoked |-> FALSE]}
    ELSE env.ring

-----------------------------------------------------------------------------
(* recordConsentDecision: the link to the tip of the chain, the document   *)
(* and its signature.  Older releases left columns empty.                  *)
Chained(rows) == {r \in rows : r.sequence # NoValue}
Tip(rows) == CHOOSE r \in Chained(rows) : \A s \in Chained(rows) : s.sequence <= r.sequence

Written(id, decision, rows, release, env) ==
    LET first == Chained(rows) = {}
        version == IF release = "versions" THEN "proof/2" ELSE "proof/1"
        receipt == CanonicalEvidence(decision)
        facts == [id |-> id, status |-> decision.status, receipt |-> receipt,
                  sequence |-> IF first THEN 1 ELSE Tip(rows).sequence + 1,
                  previous |-> IF first THEN NoValue ELSE Tip(rows).digest,
                  variant |-> decision.variant]
        document == CanonicalProof(facts, version)
        key == SigningKey(env)
        proved == release # "receipts"
    IN [id |-> id, status |-> decision.status, notice |-> decision.notice,
        variant |-> IF release = "versions" THEN decision.variant ELSE NoValue,
        receipt |-> receipt,
        sequence |-> IF proved THEN facts.sequence ELSE NoValue,
        previous |-> IF proved THEN facts.previous ELSE NoValue,
        digest |-> IF proved THEN document ELSE NoValue,
        signature |-> IF proved /\ key # NoValue THEN [key |-> key, over |-> document]
                      ELSE NoValue,
        version |-> IF release = "versions" THEN "proof/2" ELSE NoValue]

-----------------------------------------------------------------------------
(* Mutant: a row without a version is of the current one. *)
VersionOfCurrent(row) == "proof/2"

VersionOf(row) == IF row.version = NoValue THEN "proof/1" ELSE row.version

(* proofFor: the document put together again from the row. *)
ProofFor(row) ==
    [version |-> VersionOf(row),
     facts |-> [id |-> row.id, status |-> row.status, receipt |-> row.receipt,
                sequence |-> row.sequence, previous |-> row.previous,
                variant |-> row.variant],
     digest |-> row.digest, signature |-> row.signature]

SignatureResult(proof, ring) ==
    LET held == {k \in ring : k.id = proof.signature.key}
    IN IF proof.signature = NoValue THEN "unsigned"
       ELSE IF held = {} THEN "unknown_key"
       ELSE IF proof.signature.over # CanonicalProof(proof.facts, proof.version) THEN "invalid"
       ELSE IF \E k \in held : k.revoked THEN "revoked_key" ELSE "valid"

(* verifySignedProof.  expected is the set of what may precede the proof;  *)
(* it is empty where the caller does not know.                             *)
VerifySignedProof(proof, row, ring, expected) ==
    LET whole == /\ proof.facts.receipt = CanonicalEvidence(row)
                 /\ proof.digest = CanonicalProof(proof.facts, proof.version)
        signature == SignatureResult(proof, ring)
        chain == IF expected = {} THEN "unverifiable"
                 ELSE IF proof.facts.previous \in expected THEN "valid" ELSE "broken"
    IN [integrity |-> IF whole THEN "valid" ELSE "invalid",
        signature |-> signature, chain |-> chain,
        ok |-> whole /\ signature \in {"valid", "unsigned"} /\ chain # "broken"]

(* Mutant: a predecessor that is not there is one that is not known. *)
ExpectedIfThere(row, rows) ==
    IF row.sequence = NoValue THEN {}
    ELSE IF row.sequence = 1 THEN {NoValue}
    ELSE {r.digest : r \in {r \in rows : r.sequence = row.sequence - 1}}

(* The digest the store holds for the position before.  A hole counts as   *)
(* "nothing precedes it", which the proof denies.                          *)
Expected(row, rows) ==
    LET before == {r \in rows : r.sequence = row.sequence - 1}
    IN IF row.sequence = NoValue THEN {}
       ELSE IF row.sequence = 1 \/ before = {} THEN {NoValue}
       ELSE {r.digest : r \in before}

Audit(proof, row, rows, ring) == VerifySignedProof(proof, row, ring, Expected(row, rows))
=============================================================================
