------------------------------ MODULE ScanDiff ------------------------------
(***************************************************************************)
(* The difference of two scans (crawler/src/diff.ts).  A resource has an   *)
(* identity (kind and the fields that make it the same resource in both    *)
(* scans), a material value (the fields whose change is reported) and, in  *)
(* volume, what the comparison leaves out: counts and the pages it was     *)
(* seen on.  Collections are sequences, as the crawler stored them.        *)
(***************************************************************************)
EXTENDS Integers, Sequences, SequencesExt, FiniteSets

Rank == [new |-> 0, changed |-> 1, removed |-> 2, unchanged |-> 3]

(* index: the first row of an identity is kept. *)
Index(items) ==
    [id \in {items[i].id : i \in DOMAIN items} |->
       items[SelectInSeq(items, LAMBDA x : x.id = id)]]

ChangedFields(old, new) == {f \in DOMAIN new.material : old.material[f] # new.material[f]}

(* Mutant: volumes are compared too. *)
StatusOfAll(old, new) ==
    IF ChangedFields(old, new) # {} \/ old.volume # new.volume THEN "changed" ELSE "unchanged"

StatusOf(old, new) == IF ChangedFields(old, new) # {} THEN "changed" ELSE "unchanged"

Entry(id, status, fields) == [id |-> id, status |-> status, changedFields |-> fields]

(* diffCollection, all kinds at once: kind is part of the identity. *)
DiffCollection(before, after) ==
    LET previous == Index(before)
        current == Index(after)
    IN {Entry(id, "new", {}) : id \in DOMAIN current \ DOMAIN previous}
       \cup {Entry(id, "removed", {}) : id \in DOMAIN previous \ DOMAIN current}
       \cup {Entry(id, StatusOf(previous[id], current[id]),
                   ChangedFields(previous[id], current[id])) :
               id \in DOMAIN current \cap DOMAIN previous}

Tally(entries) ==
    [status \in DOMAIN Rank |-> Cardinality({e \in entries : e.status = status})]

(* diffScans: by rank of the status, then by fingerprint; precedes is the  *)
(* order of fingerprints, as pairs.                                        *)
DiffScans(before, after, precedes) ==
    LET entries == DiffCollection(before, after)
        Before(x, y) == \/ Rank[x.status] < Rank[y.status]
                        \/ Rank[x.status] = Rank[y.status] /\ <<x.id, y.id>> \in precedes
        kinds == {e.id.kind : e \in entries}
    IN [entries |-> [n \in 1..Cardinality(entries) |->
                       CHOOSE e \in entries :
                         Cardinality({d \in entries : Before(d, e)}) = n - 1],
        totals |-> Tally(entries),
        byKind |-> [k \in kinds |-> Tally({e \in entries : e.id.kind = k})]]
=============================================================================
