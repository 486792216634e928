------------------------------ MODULE Reports ------------------------------
(***************************************************************************)
(* What operators are told about a site: which URLs are one page, which    *)
(* technologies a crawl saw, what of it their configuration does not       *)
(* account for, how all of it hangs together and what would change if.     *)
(* An input is picked and the invariants say what must be true of the      *)
(* answer to it.                                                           *)
(***************************************************************************)
EXTENDS Integers, Sequences, SequencesExt, FiniteSets, Functions

CONSTANTS
    Null,
    ParsedUrl,                  \* URLs as the parser gives them
    Tracking, MaxQueryParameters, SortedKeys, IndexFile, NonPage,
    PageHost,                   \* the host of the site
    RequestHost, MaxSeen,       \* hosts requests go to, and how many do
    Script, Cookie,             \* what else is seen
    Signatures, Catalogue, HomeCountry, HostOfScript, MaxEvidence,
    SiteEvidence,               \* what gatherSiteEvidence may bring, see below
    SpeltIn, Slug,
    SiteId, MaxNeighbourhood,
    Caps,                       \* <<MAX_NODES, MAX_EDGES>>
    Happened,                   \* [enforcement, experiments]: rows beside the evidence
    Rules, ScenarioChange, MaxChanges

(* gatherSiteEvidence: [results, baseline, approved, version,              *)
(* jurisdictions, purposes, runtime].                                      *)

U == INSTANCE Urls
T == INSTANCE Detectors WITH NoValue <- Null
I == INSTANCE Findings WITH NoValue <- Null
G == INSTANCE ConsentGraph WITH NoValue <- Null
S == INSTANCE Simulation WITH NoValue <- Null

(* A vendor has one category and one country in the catalogue.             *)
ASSUME CatalogueAssumption ==
    \A h, k \in DOMAIN Catalogue :
        Catalogue[h].vendor = Catalogue[k].vendor => Catalogue[h] = Catalogue[k]

VARIABLE told

ReportsInit == told = [of |-> "none"]

ReadUrl ==
    /\ told.of = "none"
    /\ \E url \in ParsedUrl : told' = [of |-> "url", url |-> url]

Seen(hosts, scripts, cookies) ==
    [requests |-> [i \in DOMAIN hosts |->
                     [host |-> hosts[i], third |-> U!IsThirdParty(hosts[i], PageHost)]],
     scripts |-> scripts, cookies |-> cookies, storage |-> << >>]

ReadObservations ==
    /\ told.of = "none"
    /\ \E n \in 0..MaxSeen : \E hosts \in [1..n -> RequestHost],
          scripts \in {<< >>} \cup {<<s>> : s \in Script},
          cookies \in {<< >>} \cup {<<c>> : c \in Cookie} :
         told' = [of |-> "observations", seen |-> Seen(hosts, scripts, cookies)]

ReadEvidence ==
    /\ told.of = "none"
    /\ \E evidence \in SiteEvidence : told' = [of |-> "evidence", evidence |-> evidence]

(* gatherGraph *)
ReadGraph ==
    /\ told.of = "none"
    /\ \E evidence \in SiteEvidence, happened \in Happened, caps \in Caps :
         LET input == [policy |-> evidence.version, jurisdictions |-> evidence.jurisdictions,
                       purposes |-> evidence.purposes, approved |-> evidence.approved,
                       results |-> evidence.results,
                       shadow |-> I!DetectShadowTrackers(evidence),
                       drift |-> I!DetectDrift(evidence),
                       enforcement |-> happened.enforcement,
                       experiments |-> happened.experiments]
         IN told' = [of |-> "graph", input |-> input, caps |-> caps]

AskWhatIf ==
    /\ told.of = "none"
    /\ \E evidence \in SiteEvidence, rules \in Rules, n \in 0..MaxChanges :
       \E changes \in [1..n -> ScenarioChange] :
         told' = [of |-> "scenario", evidence |-> evidence, rules |-> rules, changes |-> changes]

ReportsNext == ReadUrl \/ ReadObservations \/ ReadEvidence \/ ReadGraph \/ AskWhatIf

-----------------------------------------------------------------------------
(* Two URLs of an origin are one page when they name the same directory or *)
(* file, whatever slashes are doubled, and say the same thing under every  *)
(* key that is not there for tracking, in whatever order the keys come     *)
(* (crawler/src/url.ts:90-101).                                            *)
IsDirectory(path) == Last(path) \in IndexFile \cup {""}
Segments(path) ==
    SelectSeq(IF IsDirectory(path) THEN Front(path) ELSE path, LAMBDA s : s # "")

Values(query, key) == SelectSeq(query, LAMBDA p : p[1] = key)

SamePage(u, v) ==
    /\ U!Origin(u) = U!Origin(v)
    /\ Segments(u.path) = Segments(v.path) /\ IsDirectory(u.path) = IsDirectory(v.path)
    /\ \A key \in ToSet(SortedKeys) :
         U!Lower(key) \notin Tracking => Values(u.query, key) = Values(v.query, key)

OnePageOneUrl ==
    told.of = "url" =>
        LET there == U!NormaliseUrl(told.url)
            scope == U!Origin(told.url)
        IN there.ok =>
            /\ U!AcceptLink(there.url, scope) = there
            /\ \A other \in ParsedUrl :
                 LET here == U!NormaliseUrl(other)
                 IN here.ok => (here.url = there.url <=> SamePage(told.url, other))

(* "every third-party host is accounted for and nobody is reported twice"  *)
(* is what detectors.ts:258-311 is for: a host is cited, or the finding of *)
(* its vendor stands for it.  And the order in which the pages' requests   *)
(* arrived decides nothing, or every recurring scan would report phantom   *)
(* churn (api/tests/crawler-browser.test.ts:331-332) - as long as no       *)
(* signature saw more than is cited, and the catalogue knows all hosts of  *)
(* the signature: beyond that the order does decide.                       *)
Outline(finding) ==
    <<finding.id, finding.name, finding.category, finding.confidence, finding.country, finding.crosses>>

Orderly(seen) ==
    \A sig \in ToSet(Signatures) :
        LET evidence == T!EvidenceFor(sig, seen)
            hosts == {r.host : r \in ToSet(seen.requests)}
            of == {h \in hosts : \E p \in sig.hosts : T!HostMatches(h, p)}
        IN /\ Len(evidence) <= MaxEvidence
           /\ \A g, h \in of : T!ClassifyHost(g).country = T!ClassifyHost(h).country

Rotated(s) == IF s = << >> THEN s ELSE Append(Tail(s), Head(s))

ReportedOnce(seen, findings) ==
    LET found == ToSet(findings)
    IN /\ \A f, g \in found : f.id = g.id \/ f.name = g.name => f = g
       /\ Cardinality(found) = Len(findings)
       /\ \A f \in found : Len(f.evidence) \in 1..MaxEvidence
       /\ \A r \in {q \in ToSet(seen.requests) : q.third} :
            \E f \in found : r.host \in T!HostsIn(f) \/ f.name = T!ClassifyHost(r.host).vendor
       /\ Orderly(seen) =>
            \A requests \in {Reverse(seen.requests), Rotated(seen.requests)} :
                {Outline(f) : f \in found}
                  = {Outline(f) : f \in ToSet(T!Detect([seen EXCEPT !.requests = requests]))}

EverybodyReportedOnce ==
    told.of = "observations" => ReportedOnce(told.seen, T!Detect(told.seen))

-----------------------------------------------------------------------------
Ids(s) == [i \in DOMAIN s |-> s[i].id]
OfKind(drift, kind) == {f \in ToSet(drift) : f.kind = kind}

(* The two lists the intelligence endpoint gives are of one site: what     *)
(* drift calls blocked and still active is among the critical shadow       *)
(* trackers, which come first; a blocked vendor is told under whatever id  *)
(* a scanner knows it (intelligence.ts:63-72); once somebody has decided   *)
(* about everything a scan saw nothing of it is unaccounted for ("it is    *)
(* the configuration working", :149-151); and from the other end in time,  *)
(* what was added was removed.                                             *)
Decided(technologies, action) ==
    [i \in DOMAIN technologies |-> [id |-> technologies[i].id, vendor |-> technologies[i].name,
                                    action |-> action, purpose |-> "ads"]]

OneAccount(e, shadow, drift) ==
    LET critical == {f \in ToSet(shadow) : f.severity = "critical"}
        seen == IF e.results = Null THEN {} ELSE ToSet(e.results.technologies)
    IN /\ IsInjective(Ids(shadow)) /\ IsInjective(Ids(drift))
       /\ \A f \in OfKind(drift, "blocked_still_active") :
            \E c \in critical : f.id = <<f.kind, c.id>> /\ c.vendor = f.vendor
       /\ critical # {} => Head(shadow) \in critical
       /\ \A t \in seen, r \in ToSet(e.approved) :
            r.action = "block" /\ r.vendor = t.name
            /\ (\A q \in ToSet(e.approved) : q # r => q.id # t.id /\ q.vendor # t.name)
              => \E c \in critical : c.id = t.id
       /\ e.results # Null =>
            \A action \in {"allow", "require_consent"} :
                I!DetectShadowTrackers([e EXCEPT
                    !.approved = Decided(e.results.technologies, action), !.runtime = << >>])
                  = << >>
       /\ e.results # Null /\ e.baseline # Null =>
            LET back == I!DetectDrift([e EXCEPT !.results = e.baseline, !.baseline = e.results])
                Vendors(d, kind) == {f.vendor : f \in OfKind(d, kind)}
            IN Vendors(drift, "tracker_added") = Vendors(back, "tracker_removed")

FindingsTell ==
    told.of = "evidence" =>
        OneAccount(told.evidence, I!DetectShadowTrackers(told.evidence),
                   I!DetectDrift(told.evidence))

-----------------------------------------------------------------------------
Largest(ranks) == CHOOSE r \in ranks : \A q \in ranks : q <= r

(* Every pass knows something of a node "the others do not" (graph.ts:     *)
(* 106-109): whatever their order, a node shows all of it, and the firmest *)
(* provenance and worst severity any gave.                                 *)
FirmestIsShown(graph, parts) ==
    \A n \in ToSet(graph.nodes) :
        LET of == {p.node : p \in {q \in parts : q.is = "node" /\ q.node.id = n.id}}
        IN /\ G!Rank(n.provenance) = Largest({G!Rank(o.provenance) : o \in of})
           /\ G!SeverityRank(n.severity) = Largest({G!SeverityRank(o.severity) : o \in of})
           /\ n.evidence = UNION {o.evidence : o \in of}

(* "A truncated graph that does not say it was truncated is a graph an     *)
(* operator will read as complete" (shared/graph.ts:148-154).  What a      *)
(* graph that is not shows no node for is a page, tracker or destination   *)
(* an edge names that this scan did not see.                               *)
MissingIsTold(graph, parts) ==
    LET nodes == {n.id : n \in ToSet(graph.nodes)}
        edges == {e.id : e \in ToSet(graph.edges)}
        fits == {p \in parts : p.is = "edge" /\ p.held \subseteq nodes}
    IN /\ "nodes" \in graph.truncated
             <=> \E p \in parts : p.is = "node" /\ p.node.id \notin nodes
       /\ "edges" \in graph.truncated <=> \E p \in fits : p.edge.id \notin edges
       /\ "nodes" \notin graph.truncated =>
            \A id \in UNION {{e.from, e.to} : e \in ToSet(graph.edges)} \ nodes :
                id[1] \in {"page", "tracker", "destination"}

(* "Nodes within `depth` hops of one node, in either direction" (:880):    *)
(* exactly those some walk of so many edges leads to, and so each of the   *)
(* other's.                                                                *)
Beside(graph) ==
    UNION {{<<e.from, e.to>>, <<e.to, e.from>>} : e \in ToSet(graph.edges)}

HopsCount(graph) ==
    LET nodes == {n.id : n \in ToSet(graph.nodes)}
        beside == Beside(graph)
        Near(id, k) == {n.id : n \in ToSet(G!Neighbourhood(graph, id, k))}
    IN \A id \in nodes :
         LET one == {p[2] : p \in {q \in beside : q[1] = id}}
             two == {p[2] : p \in {q \in beside : q[1] \in one}}
         IN /\ Near(id, 1) = ({id} \cup one) \cap nodes
            /\ Near(id, 2) = ({id} \cup one \cup two) \cap nodes
            /\ \A other \in Near(id, 3) : id \in Near(other, 3)

(* A narrowed view is part of the whole, has no loose ends and keeps what  *)
(* was said of the whole being cut off.                                    *)
Unfiltered == [severity |-> Null, provenance |-> Null, wanted |-> << >>, focus |-> Null, depth |-> 1]
Views(graph) ==
    {[Unfiltered EXCEPT !.focus = n.id] : n \in ToSet(graph.nodes)}
    \cup {[Unfiltered EXCEPT !.provenance = "OBSERVED"], [Unfiltered EXCEPT !.severity = "medium"],
          [Unfiltered EXCEPT !.wanted = [kind \in {"vendor"} |-> {"b"}]]}

ViewIsPart(graph) ==
    \A filters \in Views(graph) :
        LET view == G!FilterGraph(graph, filters)
            shown == {n.id : n \in ToSet(view.nodes)}
        IN /\ ToSet(view.nodes) \subseteq ToSet(graph.nodes)
           /\ ToSet(view.edges) \subseteq ToSet(graph.edges)
           /\ \A e \in ToSet(view.edges) : {e.from, e.to} \subseteq shown
           /\ view.truncated = graph.truncated

GraphTells ==
    told.of = "graph" =>
        LET graph == G!BuildConsentGraph(told.input, told.caps[1], told.caps[2])
            parts == ToSet(G!Parts(told.input))
        IN FirmestIsShown(graph, parts) /\ MissingIsTold(graph, parts)
           /\ HopsCount(graph) /\ ViewIsPart(graph)

-----------------------------------------------------------------------------
(* A scenario says nothing but what it changes (simulation.ts:37-42): held *)
(* against what the engine says of the site as it is, only a vendor whose  *)
(* place in the inventory or action the scenario changed gets another      *)
(* action or becomes unaccounted for, unless the markets changed; and the  *)
(* last change asked for is so, or among the unsupported ones.  An action  *)
(* for a vendor the inventory does not have is neither.                    *)
AskedFor(change, result) ==
    LET recs == ToSet(result.recommendations)
        name == IF change.vendor = Null THEN change.tracker ELSE change.vendor
    IN CASE change.operation = "add_tracker" -> \E r \in recs : r.vendor = name
         [] change.operation = "remove_tracker" ->
              change.tracker \in ToSet(result.removed) /\ \A r \in recs : r.vendor # change.tracker
         [] change.operation = "reclassify_tracker" ->
              \E r \in recs : r.vendor = change.tracker
                             /\ r.purpose = S!P!PurposeOf(change.category)
         [] change.operation = "add_jurisdiction" ->
              change.jurisdiction \in ToSet(result.jurisdictions)
         [] change.operation = "remove_jurisdiction" ->
              change.jurisdiction \notin ToSet(result.jurisdictions)
         [] change.operation = "set_enforcement" ->
              \A r \in recs : r.vendor = change.tracker => r.action = change.action
         [] change.operation = "set_enforcement_mode" -> result.enforcement = change.mode
         [] OTHER -> FALSE

OnlyItself(e, asItIs, h, result) ==
    LET Entries(technologies, name) == SelectSeq(technologies, LAMBDA t : t.name = name)
        moved == {name \in DOMAIN Slug :
                    Entries(h.technologies, name) # Entries(asItIs.technologies, name)}
        touched == moved \cup {o[1] : o \in ToSet(h.overrides)}
        Touched(vendor) == vendor \in touched \/ Slug[vendor] \in touched
        sameMarkets == ToSet(result.jurisdictions) = ToSet(e.jurisdictions)
        last == told.changes[Len(told.changes)]
    IN /\ sameMarkets =>
            /\ \A r \in ToSet(result.requirements) : Touched(r.vendor)
            /\ \A f \in ToSet(result.newShadow) : Touched(f.vendor)
       /\ touched = {} /\ sameMarkets =>
            result.rules.before = result.rules.after /\ result.drift.before = result.drift.after
       /\ told.changes # << >> =>
            last \in ToSet(result.unsupported) \/ AskedFor(last, result)

ScenarioSaysOnlyItself ==
    told.of = "scenario" =>
        LET e == told.evidence
            asItIs == S!CopyEvidence(e)
            site == [e EXCEPT !.approved = S!Policy(asItIs.technologies, e.jurisdictions, told.rules)]
        IN OnlyItself(e, asItIs, S!Hypothesis(e, told.changes),
                      S!Simulate(site, told.changes, told.rules))

ReportsAgree ==
    OnePageOneUrl /\ EverybodyReportedOnce /\ FindingsTell /\ GraphTells /\ ScenarioSaysOnlyItself
=============================================================================
