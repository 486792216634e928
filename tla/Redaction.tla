------------------------------ MODULE Redaction ------------------------------
(***************************************************************************)
(* Field-level redaction of an outbound request (shared/redaction.ts).     *)
(*                                                                         *)
(* A JSON value is a scalar, an array of values or an object from keys to  *)
(* values.  A key is a word and how it is spelt; an array index is the     *)
(* word "[]" and the index, so that what a path rule ignores is the        *)
(* spelling.  A query or the headers are a set of <<key, scalar>>, with a  *)
(* key of the query as often as it occurs.  Values a rule puts in place of *)
(* a field have types of their own, "masked" and "digest".                 *)
(***************************************************************************)
EXTENDS Integers, Sequences, SequencesExt, FiniteSets

CONSTANTS NoValue, MaxDepth, MaxNodes

Index(i) == [word |-> "[]", spelt |-> i]

(* validateRedactionConfig.  Modes and locations are typed. *)
Valid(config) ==
    /\ \A i, j \in DOMAIN config.rules : config.rules[i].id = config.rules[j].id => i = j
    /\ \A rule \in ToSet(config.rules) : /\ rule.field # << >>
                                         /\ rule.strategy = "hash" => config.salted

(* Mutant: the spelling always counts. *)
SameKeySpelt(rule, a, b) == a.word = b.word /\ (a.word # "[]" => a.spelt = b.spelt)

SameKey(rule, a, b) ==
    a.word = b.word /\ (rule.caseSensitive /\ a.word # "[]" => a.spelt = b.spelt)

PathMatches(rule, path) ==
    Len(rule.field) = Len(path) /\ \A i \in DOMAIN path : SameKey(rule, rule.field[i], path[i])

Matches(rule, location, path) ==
    /\ location \in rule.locations
    /\ IF rule.match = "name" THEN Len(rule.field) = 1 /\ SameKey(rule, rule.field[1], Last(path))
       ELSE PathMatches(rule, path)

(* The first rule that matches; only keys are looked up, never an index. *)
FindRule(rules, location, path) ==
    LET i == SelectInSeq(rules, LAMBDA r : Matches(r, location, path))
    IN IF i = 0 THEN NoValue ELSE rules[i]

(* What takes the field's place.  "hash" without a salt removes it. *)
Transform(rule, config) ==
    CASE rule.strategy = "mask" -> [type |-> "masked"]
      [] rule.strategy = "hash" /\ config.salted -> [type |-> "digest"]
      [] OTHER -> NoValue

(* Where the walk is: <<path, value>>.  A matched field is not descended   *)
(* into.                                                                   *)
Looked(object, path, config) ==
    {k \in DOMAIN object.fields : FindRule(config.rules, "body", Append(path, k)) = NoValue}

Below(node, config) ==
    LET path == node[1]
        value == node[2]
    IN CASE value.type = "scalar" -> {}
         [] value.type = "array" ->
              {<<Append(path, Index(i)), value.items[i]>> : i \in DOMAIN value.items}
         [] value.type = "object" ->
              {<<Append(path, k), value.fields[k]>> : k \in Looked(value, path, config)}

(* The nodes the walk comes to, and at the last depth those it refuses.    *)
Visited(body, config) ==
    LET level[n \in 0..MaxDepth + 1] ==
          IF n = 0 THEN {<<<< >>, body>>}
          ELSE UNION {Below(node, config) : node \in level[n - 1]}
    IN level

(* One node rebuilt, the nodes below it being so. *)
WalkObject(object, path, below, config) ==
    LET RuleAt(k) == FindRule(config.rules, "body", Append(path, k))
        Kept == {k \in DOMAIN object.fields :
                   RuleAt(k) = NoValue \/ Transform(RuleAt(k), config) # NoValue}
    IN [object EXCEPT !.fields =
          [k \in Kept |-> IF RuleAt(k) = NoValue THEN below[<<Append(path, k), @[k]>>]
                          ELSE Transform(RuleAt(k), config)]]

(* Mutant: the walk does not look into arrays. *)
RebuiltPastArrays(node, below, config) ==
    IF node[2].type = "object" THEN WalkObject(node[2], node[1], below, config) ELSE node[2]

Rebuilt(node, below, config) ==
    LET path == node[1]
        value == node[2]
    IN CASE value.type = "scalar" -> value
         [] value.type = "array" ->
              [value EXCEPT !.items = [i \in DOMAIN @ |-> below[<<Append(path, Index(i)), @[i]>>]]]
         [] value.type = "object" -> WalkObject(value, path, below, config)

(* From the deepest nodes up: of those of one depth, what becomes of each. *)
Walk(level, config) ==
    LET rebuilt[n \in 0..MaxDepth] ==
          [node \in level[MaxDepth - n] |->
             Rebuilt(node, IF n = 0 THEN << >> ELSE rebuilt[n - 1], config)]
    IN rebuilt

(* Mutant: of a key that occurs more than once, one value is redacted. *)
RedactOneOfPairs(pairs, location, config) ==
    LET RuleFor(p) == FindRule(config.rules, location, <<p[1]>>)
        First(p) == p = CHOOSE q \in pairs : q[1] = p[1]
    IN {p \in pairs : RuleFor(p) = NoValue \/ ~First(p)}
       \cup {<<p[1], Transform(RuleFor(p), config)>> :
               p \in {p \in pairs : RuleFor(p) # NoValue /\ First(p)
                                    /\ Transform(RuleFor(p), config) # NoValue}}

RedactPairs(pairs, location, config) ==
    LET RuleFor(p) == FindRule(config.rules, location, <<p[1]>>)
    IN {p \in pairs : RuleFor(p) = NoValue}
       \cup {<<p[1], Transform(RuleFor(p), config)>> :
               p \in {p \in pairs : RuleFor(p) # NoValue
                                    /\ Transform(RuleFor(p), config) # NoValue}}

(* redact.  The body is a JSON value, as such or as a string, or NoValue:  *)
(* absent, or a string that is no JSON, which is left alone.  Refused, the *)
(* request comes back as it was.                                           *)
Redact(request, config) ==
    LET body == request.body
        level == Visited(body, config)
        tooMuch == \/ level[MaxDepth + 1] # {}
                   \/ Cardinality(UNION {level[n] : n \in 0..MaxDepth}) > MaxNodes
        refused == ~request.parsable \/ (body # NoValue /\ tooMuch)
        redacted == [request EXCEPT
                       !.body = IF body = NoValue THEN NoValue
                                ELSE Walk(level, config)[MaxDepth][<<<< >>, body>>],
                       !.query = RedactPairs(@, "query", config),
                       !.headers = RedactPairs(@, "header", config)]
    IN [refused |-> refused, request |-> IF refused THEN request ELSE redacted]

(* guardOutboundRequest: what became of the payload, in Firewall's terms. *)
Told(request, redaction) ==
    IF redaction.refused THEN "refused"
    ELSE IF redaction.request # request THEN "applied" ELSE "nothing"

OutcomeOf(request, config) ==
    IF config = NoValue THEN "none"
    ELSE IF ~Valid(config) THEN "rejected" ELSE Told(request, Redact(request, config))
=============================================================================
