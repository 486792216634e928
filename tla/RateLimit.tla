----------------------------- MODULE RateLimit -----------------------------
(***************************************************************************)
(* The fixed-window limiter of the browser-facing routes                   *)
(* (api/lib/rate-limit.ts).  The table is a JavaScript Map from keys to    *)
(* windows: since is when a key was inserted, the order the Map iterates   *)
(* in, which a window that is renewed keeps.                               *)
(***************************************************************************)
EXTENDS Integers, Sequences, SequencesExt, FiniteSets

CONSTANTS
    Limit,          \* rule.limit
    WindowLength,   \* rule.windowMs
    MaxTrackedKeys  \* MAX_TRACKED_KEYS

ASSUME RateAssumption == {Limit, WindowLength, MaxTrackedKeys} \subseteq Nat \ {0}

Live(table, now) == {k \in DOMAIN table : table[k].resetAt > now}

AtCapacity(table) == Cardinality(DOMAIN table) >= MaxTrackedKeys

(* Mutant: only expired windows are dropped, however many are live. *)
EvictOnlyExpired(table, now) == [k \in Live(table, now) |-> table[k]]

LastHalf(table, keys) ==
    {k \in keys : Cardinality({j \in keys : table[j].since >= table[k].since})
                    <= MaxTrackedKeys \div 2}

(* evictExpired: what has expired goes, and if the table is still full the *)
(* longest-known keys go until half of it is left.                         *)
EvictExpired(table, now) ==
    LET live == Live(table, now)
        kept == IF Cardinality(live) < MaxTrackedKeys THEN live ELSE LastHalf(table, live)
    IN [k \in kept |-> table[k]]

Put(table, key, w) == [k \in DOMAIN table \cup {key} |-> IF k = key THEN w ELSE table[k]]

Opening(table, key, now, turn) ==
    [count |-> 1, resetAt |-> now + WindowLength,
     since |-> IF key \in DOMAIN table THEN table[key].since ELSE turn]

(* Mutant: a refused request starts the window again. *)
CountedAnew(w, now) == [w EXCEPT !.count = 1, !.resetAt = now + WindowLength]

Counted(w, now) == [w EXCEPT !.count = @ + 1]

(* checkRateLimit, called for the turn-th time. *)
CheckRateLimit(table, key, now, turn) ==
    IF key \in Live(table, now)
    THEN LET w == Counted(table[key], now)
         IN [table |-> Put(table, key, w), allowed |-> w.count <= Limit,
             remaining |-> IF w.count > Limit THEN 0 ELSE Limit - w.count, forgot |-> FALSE]
    ELSE LET room == IF AtCapacity(table) THEN EvictExpired(table, now) ELSE table
         IN [table |-> Put(room, key, Opening(room, key, now, turn)),
             allowed |-> TRUE, remaining |-> Limit - 1,
             forgot |-> ~(Live(table, now) \subseteq DOMAIN room)]

(* Requests [key, at], answered in order: the table after each of them and *)
(* its answer.                                                             *)
Served(requests) ==
    LET served[n \in 0..Len(requests)] ==
          IF n = 0 THEN [table |-> << >>]
          ELSE CheckRateLimit(served[n - 1].table, requests[n].key, requests[n].at, n)
    IN served
=============================================================================
