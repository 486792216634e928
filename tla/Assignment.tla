----------------------------- MODULE Assignment -----------------------------
(***************************************************************************)
(* The arm a browser sees: what an experiment's variants must satisfy      *)
(* (validateVariants, validateText in shared/experiment.ts), the arm a     *)
(* bucket falls in (assignVariant) and the copy shown (resolveVariant and  *)
(* applyVariant in sdk/src/experiment.ts).                                 *)
(*                                                                         *)
(* Whole is 100, the hash of experiment and browser is its remainder, a    *)
(* number below Whole, and an override of copy is absent, blank or a copy. *)
(***************************************************************************)
EXTENDS Integers, Sequences, SequencesExt, FiniteSets

CONSTANTS
    Whole,     \* allocations are parts of it
    KeyOrder,  \* the order of keys as strings: a sequence of them
    NoValue    \* null

ASSUME AssignmentAssumption == Whole \in Nat \ {0} /\ KeyOrder \in Seq(ToSet(KeyOrder))

Field == {"body", "reject_all", "manage"}
MustRemainLegible == {"reject_all", "manage"}

TextSound(text) == \A f \in MustRemainLegible : text[f] # "blank"

(* The allocations of the first arms, for every number of them. *)
Cursor(variants) ==
    LET cursor[n \in 0..Len(variants)] ==
          IF n = 0 THEN 0 ELSE cursor[n - 1] + variants[n].allocation
    IN cursor

Total(variants) == Cursor(variants)[Len(variants)]

KeysSound(variants) ==
    \A i, j \in DOMAIN variants : variants[i].key = variants[j].key => i = j

(* validateVariants = [] *)
Valid(variants) ==
    /\ Len(variants) >= 2
    /\ KeysSound(variants)
    /\ \A i \in DOMAIN variants : variants[i].allocation \in 0..Whole
                                  /\ TextSound(variants[i].text)
    /\ Total(variants) = Whole
    /\ Cardinality({i \in DOMAIN variants : variants[i].isControl}) = 1

PositionOf(key) == CHOOSE i \in DOMAIN KeyOrder : KeyOrder[i] = key

(* Mutant: in the order the variants came in. *)
AsTheyCame(variants) == variants

(* sort: by key, and arms of one key as they came. *)
Precedes(variants, i, j) ==
    LET place(k) == PositionOf(variants[k].key)
    IN place(i) < place(j) \/ (place(i) = place(j) /\ i < j)

Ahead(variants, i) == {j \in DOMAIN variants : Precedes(variants, j, i)}

Ordered(variants) ==
    [n \in DOMAIN variants |->
       variants[CHOOSE i \in DOMAIN variants : Cardinality(Ahead(variants, i)) = n - 1]]

(* Mutant: the bucket at the edge of an arm falls in it. *)
CoversEdge(bucket, cursor) == bucket <= cursor
Covers(bucket, cursor) == bucket < cursor

(* assignVariant: the first arm, in the order of the keys, whose           *)
(* allocation and those before it cover the bucket.                        *)
AssignVariant(bucket, variants) ==
    LET ordered == Ordered(variants)
        covering == {i \in DOMAIN ordered : Covers(bucket, Cursor(ordered)[i])}
    IN IF variants = << >> \/ Total(variants) # Whole THEN NoValue
       ELSE ordered[CHOOSE i \in covering : \A j \in covering : i <= j].key

(* resolveVariant: no storage, no key, no arm. *)
ResolveVariant(bucket, variants) ==
    LET key == IF bucket = NoValue THEN NoValue ELSE AssignVariant(bucket, variants)
        i == SelectInSeq(variants, LAMBDA v : v.key = key)
    IN IF key = NoValue \/ i = 0 THEN NoValue ELSE variants[i]

(* applyVariant: an override that is absent leaves the site's own copy. *)
ApplyVariant(text, variant) ==
    IF variant = NoValue THEN text
    ELSE [f \in Field |-> IF variant.text[f] = NoValue THEN text[f] ELSE variant.text[f]]
=============================================================================
