----------------------------- MODULE Algorithms -----------------------------
(***************************************************************************)
(* The pure algorithms of the system on bounded inputs: an input is picked *)
(* and the invariants say what must be true of the answer to it.  Only the *)
(* limiter sees its input grow, request by request.                        *)
(***************************************************************************)
EXTENDS RateLimit, Assignment

CONSTANTS
    Rule,            \* the records a policy matrix may hold
    MaxRules,        \* of them in one matrix
    Signal, Regions, \* observations, and the jurisdictions regions map to
    Condition,       \* what a caller of the engine may assert
    Recommendation,  \* what an operator may approve for a vendor
    HostsForVendor, Hosts,
    RobotsRule, AgentNames, Ours, Paths,
    Payload, RedactionRule, MaxDepth, MaxNodes,
    Row, MaxRows,    \* of a scan
    Key, MaxRequests, MaxGap,
    Technology, Override,       \* what a scan saw, what operators may overrule
    Decision, Environment,      \* consent decisions, and configurations of the keys
    MaxDecisions, MaxDeployments

(* What model.ts lets a record of the matrix be. *)
ConsentField == [required : {"true", "false", "conditional"}, withdrawal : BOOLEAN,
                 conditions : SUBSET STRING]

Recorded(rule) ==
    /\ rule.applies \in BOOLEAN /\ rule.derived \in BOOLEAN
    /\ rule.consent # NoValue => rule.consent \in ConsentField

ASSUME MatrixAssumption == \A rule \in Rule : Recorded(rule)
ASSUME NullAssumption ==
    NoValue \notin BOOLEAN /\ NoValue \notin Nat /\ NoValue \notin {"proof/1", "proof/2"}

(* A rule of robots.txt is one way or the other. *)
ASSUME RobotsAssumption ==
    /\ IsFiniteSet(AgentNames)
    /\ \A rule \in RobotsRule : rule.type \in {"allow", "disallow"} /\ Len(rule.path) \in Nat

(* The name of a row is the place of its fingerprint among all, and what   *)
(* is material of it are the fields of its kind.                           *)
ASSUME RowAssumption ==
    /\ \A r \in Row : DOMAIN r = {"id", "material", "volume"} /\ r.id.name \in Int
    /\ \A r, q \in Row :
         /\ r.id.name = q.id.name => r.id = q.id
         /\ r.id = q.id => DOMAIN r.material = DOMAIN q.material

INSTANCE Recommendations
K == INSTANCE ProofDocuments
F == INSTANCE Firewall
N == INSTANCE Redaction
R == INSTANCE Robots
D == INSTANCE ScanDiff

VARIABLE input

Init == input = [of |-> "none"]

UpTo(S, n) == UNION {[1..k -> S] : k \in 0..n}

-----------------------------------------------------------------------------
AskPolicy ==
    /\ input.of = "none"
    /\ \E rules \in {ToSet(s) : s \in UpTo(Rule, MaxRules)},
          asserted \in SUBSET Condition, age \in {TRUE, FALSE, NoValue},
          derived \in BOOLEAN :
         input' = [of |-> "policy", rules |-> rules,
                   activity |-> [jurisdictions |-> {}, actors |-> {"controller"}, asOf |-> 1,
                                 purposes |-> {"ads"}, dataCategories |-> {}, contexts |-> {},
                                 asserted |-> asserted, subjectIsChild |-> age,
                                 includeDerived |-> derived]]

AskAdvice ==
    /\ input.of = "none"
    /\ \E rules \in {ToSet(s) : s \in UpTo(Rule, MaxRules)}, overrides \in SUBSET Override :
         /\ \A o, q \in overrides : o.vendor = q.vendor => o = q
         /\ input' = [of |-> "advice", rules |-> rules, overrides |-> overrides]

SendRequest ==
    /\ input.of = "none"
    /\ \E recommendations \in UpTo(Recommendation, 2), host \in ToSet(Hosts) \cup {NoValue},
          granted \in SUBSET {r.purpose : r \in {q \in Recommendation : q.purpose # NoValue}},
          redaction \in F!Redaction, known \in BOOLEAN :
         input' = [of |-> "request", recommendations |-> recommendations, host |-> host,
                   granted |-> granted, redaction |-> redaction, known |-> known]

SendPayload ==
    /\ input.of = "none"
    /\ \E payload \in Payload, rules \in UpTo(RedactionRule, 2), salted \in BOOLEAN :
         input' = [of |-> "payload", payload |-> payload,
                   config |-> [rules |-> rules, salted |-> salted]]

(* Allocations that do not sum to the whole and reject labels that are     *)
(* blank are among them: validateVariants has to tell.                     *)
SubmitVariants ==
    /\ input.of = "none"
    /\ \E n \in 2..Len(KeyOrder) :
       \E keys \in [1..n -> ToSet(KeyOrder)], allocations \in [1..n -> 0..Whole],
          blank \in 0..n :
         input' = [of |-> "variants",
                   variants |-> [i \in 1..n |->
                      [key |-> keys[i], allocation |-> allocations[i], isControl |-> i = 1,
                       text |-> [body |-> "copy", manage |-> NoValue,
                                 reject_all |-> IF i = blank THEN "blank" ELSE NoValue]]]]

ReadRobots ==
    /\ input.of = "none"
    /\ \/ \E rules \in UpTo(RobotsRule, 3) :
            input' = [of |-> "robots", rules |-> rules, groups |-> << >>]
       \/ \E groups \in [1..2 -> [agents : (SUBSET AgentNames) \ {{}}, rule : RobotsRule]] :
            input' = [of |-> "robots", rules |-> << >>, groups |-> groups]

CompareScans ==
    /\ input.of = "none"
    /\ \E before, after \in UpTo(Row, MaxRows) :
         input' = [of |-> "scans", before |-> before, after |-> after]

ReceiveRequest ==
    /\ \/ input.of = "none"
       \/ input.of = "requests" /\ Len(input.requests) < MaxRequests
    /\ LET so_far == IF input.of = "none" THEN << >> ELSE input.requests
           last == IF so_far = << >> THEN 0 ELSE Last(so_far).at
       IN \E key \in Key, gap \in 0..MaxGap :
            input' = [of |-> "requests",
                      requests |-> Append(so_far, [key |-> key, at |-> last + gap])]

(* Decisions are recorded by one release after the other while keys are    *)
(* configured, rotated and revoked.  At any moment, and once, somebody     *)
(* with access to the table changes a column or deletes a row.             *)
Deploy ==
    /\ \/ input.of = "none"
       \/ input.of = "proofs" /\ input.deployed < MaxDeployments
    /\ \E env \in Environment, release \in DOMAIN K!Release :
         IF input.of = "none"
         THEN input' = [of |-> "proofs", env |-> env, release |-> release, deployed |-> 1,
                        rows |-> {}, recorded |-> 0, changed |-> {}, removed |-> {}]
         ELSE /\ release >= input.release
              /\ input' = [input EXCEPT !.env = env, !.release = release, !.deployed = @ + 1]

Decide ==
    /\ input.of = "proofs" /\ input.recorded < MaxDecisions
    /\ \E decision \in Decision :
         input' = [input EXCEPT
                     !.recorded = @ + 1,
                     !.rows = @ \cup {K!Written(input.recorded + 1, decision, @,
                                                K!Release[input.release], input.env)}]

Untampered == input.changed = {} /\ input.removed = {}

Tamper ==
    /\ input.of = "proofs" /\ Untampered
    /\ \E row \in input.rows :
       \/ input' = [input EXCEPT !.rows = @ \ {row}, !.removed = {row}]
       \/ \E decision \in Decision, column \in {"status", "notice", "variant"} :
            /\ row[column] # decision[column]
            /\ input' = [input EXCEPT
                           !.rows = (@ \ {row}) \cup {[row EXCEPT ![column] = decision[column]]},
                           !.changed = {<<row.id, column>>}]

Next == AskPolicy \/ AskAdvice \/ SendRequest \/ SendPayload \/ SubmitVariants \/ ReadRobots
        \/ CompareScans \/ ReceiveRequest \/ Deploy \/ Decide \/ Tamper

Spec == Init /\ [][Next]_input

-----------------------------------------------------------------------------
DecisionFor(signals) ==
    ResolveContext(signals, {}, input.activity, Regions, input.rules)

(* "ALLOW requires a rule that positively says so" (policy/evaluate.ts:12-14)*)
(* whatever other rules are silent, open or about something else: a rule   *)
(* about a gate, reaching where the visitor is, whose exemption rests on   *)
(* nothing the caller did not assert, and no question open.                *)
Exempting(rule, where) ==
    /\ rule.applies /\ rule.regions \cap where # {}
    /\ rule.children = NoValue /\ Disposition(rule.topic).does = "gate"
    /\ rule.consent # NoValue /\ rule.consent.required = "false"
    /\ rule.consent.conditions \subseteq input.activity.asserted

PolicyPositivelyPermits ==
    input.of = "policy" =>
        \A signals \in SUBSET Signal :
            LET answer == DecisionFor(signals)
                where == answer.resolution.jurisdictions
            IN answer.decision.outcome = "ALLOW"
               => /\ answer.decision.open = {} /\ answer.decision.obligations = {}
                  /\ \E rule \in input.rules : Exempting(rule, where)
                  /\ answer.decision.regimes
                       \subseteq answer.resolution.regimes \cup answer.resolution.derivedRegimes

(* Hosts lists the hosts of every vendor. *)
ASSUME HostsAssumption ==
    /\ Hosts \in Seq(ToSet(Hosts))
    /\ \A r \in Recommendation : HostsForVendor[r.vendor] \subseteq ToSet(Hosts)

(* From the approved recommendations to the wire: nothing of a request is  *)
(* sent to a host every enforced vendor of which is blocked, gated by a    *)
(* purpose not granted, or gated for a visitor nobody can name, nor if the *)
(* payload could not be redacted (api/lib/firewall.ts, shared/consent-     *)
(* firewall.ts:96-187).  The caller is told that it was blocked if nothing *)
(* was sent and only then.  What a gate asks for, the preference centre    *)
(* lists.                                                                  *)
Naming(host) == {r \in ToSet(input.recommendations) :
                   /\ r.action \in F!Enforced
                   /\ \E h \in HostsForVendor[r.vendor] : F!HostMatches(host, h)}

MayPass(r) == \/ r.action = "allow"
              \/ r.action = "require_consent" /\ r.purpose \in input.granted /\ input.known

NothingLeavesUngranted ==
    input.of = "request" /\ input.host # NoValue =>
        LET rules == F!EnforcementFrom(input.recommendations, HostsForVendor, Hosts)
            answer == F!GuardOutboundRequest(input.host, rules, input.granted, input.granted,
                                             input.redaction, input.known)
            listed == F!VendorsByPurpose(input.recommendations)
        IN /\ Naming(input.host) # {} /\ ~(\E r \in Naming(input.host) : MayPass(r))
              => answer.send = "nothing"
           /\ input.redaction \in {"rejected", "refused"} => answer.send = "nothing"
           /\ answer.send = "nothing" <=> answer.effect = "block"
           /\ \A r \in Naming(input.host) :
                r.action = "require_consent" /\ r.purpose # NoValue
                  => r.vendor \in listed[r.purpose]

(* "The interesting bug in a redactor is [...] the second copy of that     *)
(* field somewhere the walk did not go" (shared/redaction.ts:15-20): of    *)
(* what is sent, nothing lies under a key that some rule declares, in any  *)
(* copy, spelling or place, but what the rule put there; what no rule      *)
(* declares is all there; and what could not be walked is not sent.        *)
(* What is one depth below the walk's last is taken as a whole. *)
Opened(node) ==
    LET path == node[1]
        value == node[2]
    IN CASE value.type = "array" ->
              {<<Append(path, N!Index(i)), value.items[i]>> : i \in DOMAIN value.items}
         [] value.type = "object" ->
              {<<Append(path, k), value.fields[k]>> : k \in DOMAIN value.fields}
         [] OTHER -> {node}

OpenedTo(value) ==
    LET opened[n \in 0..MaxDepth + 1] ==
          IF n = 0 THEN {<<<< >>, value>>} ELSE UNION {Opened(node) : node \in opened[n - 1]}
    IN opened

Leaves(value) == OpenedTo(value)[MaxDepth + 1]

(* What a payload and a rule for one are made of.  A key of an object is   *)
(* never an index (redact would take a key "[0]" of the root for one, and  *)
(* redact more).                                                           *)
Spelt(key) == key = [word |-> key.word, spelt |-> key.spelt]

FieldKey(key) == Spelt(key) /\ key.word # "[]"

Parsed(value) ==
    \/ value.type = "scalar"
    \/ /\ value.type = "array" /\ value = [type |-> "array", items |-> value.items]
       /\ value.items \in Seq(ToSet(value.items))
    \/ /\ value.type = "object" /\ value = [type |-> "object", fields |-> value.fields]
       /\ \A k \in DOMAIN value.fields : FieldKey(k)

ASSUME PayloadAssumption ==
    /\ MaxDepth \in Nat
    /\ \A payload \in Payload :
         /\ {"body", "query", "headers"} \subseteq DOMAIN payload
         /\ \A p \in payload.query \cup payload.headers :
              FieldKey(p[1]) /\ p[2].type = "scalar"
         /\ payload.body # NoValue =>
              \A n \in 0..MaxDepth + 1 : \A node \in OpenedTo(payload.body)[n] : Parsed(node[2])

ASSUME RedactionAssumption ==
    /\ NoValue \notin RedactionRule
    /\ \A rule \in RedactionRule : /\ rule.field \in Seq(ToSet(rule.field))
                                   /\ \A i \in DOMAIN rule.field : Spelt(rule.field[i])

Words(path) == [i \in DOMAIN path |-> path[i].word]

Declares(rule, path) ==
    LET of == IF rule.match = "name" THEN <<Last(path)>> ELSE path
    IN /\ Words(of) = Words(rule.field)
       /\ rule.caseSensitive => \A i \in DOMAIN of : of[i].word = "[]" \/ of[i] = rule.field[i]

Declared(path, location) ==
    \E n \in DOMAIN path, rule \in ToSet(input.config.rules) :
        /\ path[n].word # "[]" /\ location \in rule.locations
        /\ Declares(rule, SubSeq(path, 1, n))

Carried(request) ==
    {<<"query", <<p[1]>>, p[2]>> : p \in request.query}
    \cup {<<"header", <<p[1]>>, p[2]>> : p \in request.headers}
    \cup IF request.body = NoValue THEN {}
         ELSE {<<"body", l[1], l[2]>> : l \in Leaves(request.body)}

OnlyFreeFieldsGo(outcome, carried, sent) ==
    LET free == {c \in carried : ~Declared(c[2], c[1])}
    IN /\ outcome \in {"rejected", "refused"} => F!Sent("allow", outcome) = "nothing"
       /\ outcome \in {"applied", "nothing"} =>
            /\ free \subseteq sent
            /\ \A c \in sent \ free :
                 Declared(c[2], c[1]) /\ c[3].type \in {"masked", "digest"}
       /\ outcome = "nothing" => free = carried

DeclaredFieldsStay ==
    input.of = "payload" =>
        OnlyFreeFieldsGo(N!OutcomeOf(input.payload, input.config), Carried(input.payload),
                         Carried(N!Redact(input.payload, input.config).request))

Silent(decision) ==
    decision.open \subseteq {"no_jurisdiction_given", "no_requirements_for_context",
                             "nothing_addressed"} /\ decision.outcome = "REVIEW"

(* "an input the engine cannot resolve produces review rather than allow", *)
(* and "an override always wins" (api/lib/autopilot.ts:18-36): a vendor    *)
(* nobody decided about is allowed only if its category needs no gate, and *)
(* everything an operator decided is there, seen by the scan or not, and   *)
(* once unless the scan saw two technologies of that name.                 *)
(* No control is offered where the decision is silent (api/lib/rights.ts:  *)
(* 162-166), but for complaints, which no verdict speaks of.               *)
Where(signals) == Jurisdictions(signals, {}, Regions)
Advice(signals) ==
    GeneratePolicy(Where(signals), input.rules, Technology, input.overrides, {}, 1)
Offered(signals) == AvailableRights(Where(signals), input.rules, 1).indicated

SeenTwice(vendor) ==
    \E s, t \in Technology : s # t /\ s.vendor = vendor /\ t.vendor = vendor

AdviceNeverPermits ==
    input.of = "advice" =>
        \A signals \in SUBSET Signal :
            LET lines == Advice(signals).recommendations
                decision == Evaluate(WebsiteContext(Where(signals), {}, 1), input.rules)
            IN /\ \A o \in input.overrides :
                    LET of == {l \in lines : l.vendor = o.vendor}
                    IN /\ {<<l.action, l.purpose>> : l \in of} = {<<o.action, o.purpose>>}
                       /\ Cardinality(of) = 1 \/ SeenTwice(o.vendor)
               /\ \A l \in lines : l.action = "allow" =>
                    l.overridden \/ \E t \in Technology :
                                      t.vendor = l.vendor /\ t.category \in Essential
               /\ Silent(decision) => Offered(signals) \subseteq {"complaint"}

SilenceNeverPermits ==
    PolicyPositivelyPermits /\ AdviceNeverPermits /\ NothingLeavesUngranted
    /\ DeclaredFieldsStay

(* "Union, not winner-take-all" (policy/resolve.ts:9): one more observation*)
(* of where the visitor is never loosens a verdict some rule gave; only    *)
(* the REVIEW of a matrix that said nothing may give way to an answer.     *)
(* Nor does it loosen what is recommended for a vendor, or take a control  *)
(* away.                                                                   *)
Strictness(action) ==
    CASE action = "block" -> 2 [] action = "review" -> 1 [] OTHER -> 0

NoneLooser(narrow, wide) ==
    \A n \in narrow : \E w \in wide :
        /\ w.vendor = n.vendor
        /\ IF n.overridden THEN w.action = n.action
           ELSE Strictness(n.action) <= Strictness(w.action)

Grows(narrow, wide) ==
    /\ Offered(narrow) \subseteq Offered(wide)
    /\ NoneLooser(Advice(narrow).recommendations, Advice(wide).recommendations)

WiderNeverLooser ==
    /\ input.of = "policy" =>
        LET decision == [signals \in SUBSET Signal |-> DecisionFor(signals).decision]
        IN \A wide \in SUBSET Signal : \A narrow \in SUBSET wide :
             \/ Silent(decision[narrow])
             \/ Rank(decision[wide].outcome) <= Rank(decision[narrow].outcome)
    /\ input.of = "advice" =>
        \A wide \in SUBSET Signal : \A narrow \in SUBSET wide : Grows(narrow, wide)

-----------------------------------------------------------------------------
Bucket == 0..Whole - 1

(* A set of variants validateVariants accepts gives every arm exactly its  *)
(* share of the buckets, in whatever order the database returns them, "so  *)
(* the order they happen to arrive in cannot reassign everybody" (shared/  *)
(* experiment.ts:316-317), and no arm hides the words a visitor refuses by.*)
ArmsHoldTheirShares ==
    input.of = "variants" /\ Valid(input.variants) =>
        LET vs == input.variants IN
        /\ \A i \in DOMAIN vs :
             Cardinality({b \in Bucket : AssignVariant(b, vs) = vs[i].key}) = vs[i].allocation
        /\ \A b \in Bucket :
             /\ AssignVariant(b, Reverse(vs)) = AssignVariant(b, vs)
             /\ ApplyVariant([f \in Field |-> "own"], ResolveVariant(b, vs)).reject_all # "blank"

(* The order of the rules of a group does not matter (crawler/src/robots.ts:*)
(* 133-146), nor does it whether the group for anyone comes before the one *)
(* that names the scanner.                                                 *)
Lines(groups) ==
    LET Of(g) == SetToSeq({[field |-> "user-agent", value |-> a] : a \in g.agents})
                 \o <<[field |-> g.rule.type, value |-> g.rule.path]>>
    IN Of(groups[1]) \o Of(groups[2])

RulesInAnyOrder ==
    input.of = "robots" =>
        LET named == {i \in DOMAIN input.groups : input.groups[i].agents \cap Ours # {}}
        IN \A path \in Paths :
             /\ R!IsAllowed(Reverse(input.rules), path) = R!IsAllowed(input.rules, path)
             /\ Cardinality(named) = 1 =>
                  R!IsAllowed(R!FetchRobots("fetched", Lines(input.groups)), path)
                    = R!IsAllowed(R!FetchRobots("fetched", Lines(Reverse(input.groups))), path)

(* Comparing two scans the other way round exchanges what is new and what  *)
(* is removed and nothing else, and how often or on which pages a resource *)
(* was seen is no change (crawler/src/diff.ts:190-262).                    *)
Flipped(e) == [e EXCEPT !.status = CASE e.status = "new" -> "removed"
                                     [] e.status = "removed" -> "new"
                                     [] OTHER -> e.status]

ScansEitherWay ==
    input.of = "scans" =>
        LET byName == {p \in {r.id : r \in Row} \X {r.id : r \in Row} : p[1].name < p[2].name}
        Diff(a, b) == D!DiffScans(a, b, byName)
            there == Diff(input.before, input.after)
            back == Diff(input.after, input.before)
            recounted == [i \in DOMAIN input.before |-> [input.before[i] EXCEPT !.volume = 1 - @]]
        IN /\ ToSet(back.entries) = {Flipped(e) : e \in ToSet(there.entries)}
           /\ back.totals["changed"] = there.totals["changed"]
           /\ Diff(input.before, recounted).totals["unchanged"]
                = Cardinality({r.id : r \in ToSet(input.before)})

(* What must not matter to an answer does not. *)
OrderDecidesNothing == ArmsHoldTheirShares /\ RulesInAnyOrder /\ ScansEitherWay

-----------------------------------------------------------------------------
(* The table never outgrows its limit.  A key is refused only if it was    *)
(* permitted Limit times within the window before, and gets fewer than     *)
(* "twice the limit across two adjacent windows" (api/lib/rate-limit.ts:   *)
(* 98-100) through in any span of one window's length, unless the table    *)
(* overflowed in it and live windows were forgotten.                       *)
WindowsHold ==
    input.of = "requests" =>
        LET served == Served(input.requests)
            key(i) == input.requests[i].key
            at(i) == input.requests[i].at
        IN \A i \in DOMAIN input.requests :
             LET span == (at(i) - WindowLength + 1)..at(i)
                 forgot == \E j \in 1..i : served[j].forgot /\ at(j) \in span
                 permitted == {j \in 1..i : key(j) = key(i) /\ served[j].allowed
                                            /\ at(j) \in span}
             IN /\ Cardinality(DOMAIN served[i].table) <= MaxTrackedKeys
                /\ ~served[i].allowed => Cardinality(permitted) >= Limit
                /\ forgot \/ Cardinality(permitted) < 2 * Limit

-----------------------------------------------------------------------------
Changed(row, columns) == \E column \in columns : <<row.id, column>> \in input.changed

(* A key is held that is in the ring or whose private half is active. *)
KeyState(row) ==
    LET key == row.signature.key
        ring == [k \in {k.id : k \in input.env.ring} |->
                   \E e \in input.env.ring : e.id = k /\ e.revoked]
    IN IF row.signature = NoValue THEN "unsigned"
       ELSE IF key \in DOMAIN ring THEN IF ring[key] THEN "revoked_key" ELSE "valid"
       ELSE IF input.env.private /\ input.env.active = key THEN "valid" ELSE "unknown_key"

(* What the verification of a stored decision tells.  A row nobody touched *)
(* is never reported as changed, whichever release wrote it and whatever   *)
(* became of the key since ("a proof made in March must still verify in    *)
(* June", api/lib/proof-keys.ts:26-28); a change of anything its proof     *)
(* binds is; a missing row shows at the one after it; and no other row's   *)
(* proof passes for a row's own (verify/route.ts:68-71).                   *)
ProofsTell ==
    input.of = "proofs" =>
        LET ring == K!KeyRing(input.env)
            rows == K!Chained(input.rows)
            answer == [row \in rows |-> K!Audit(K!ProofFor(row), row, input.rows, ring)]
        IN \A row \in rows :
             LET bound == {"status"} \cup
                          IF row.version = NoValue THEN {} ELSE {"variant"}
                 a == answer[row]
             IN /\ a.integrity = "invalid" <=> Changed(row, bound \cup {"notice"})
                /\ a.signature = IF KeyState(row) \in {"valid", "revoked_key"}
                                    /\ Changed(row, bound)
                                 THEN "invalid" ELSE KeyState(row)
                /\ a.chain = "broken" <=> \E r \in input.removed : r.digest = row.previous
                                                                /\ r.digest # NoValue
                /\ Untampered => \A other \in rows \ {row} :
                     ~K!Audit(K!ProofFor(other), row, input.rows, ring).ok
=============================================================================
