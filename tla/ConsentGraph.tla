---------------------------- MODULE ConsentGraph ----------------------------
(***************************************************************************)
(* The consent dependency graph of a site (api/lib/graph.ts): passes over  *)
(* the configuration, the scan, the findings, enforcement and experiments  *)
(* each add nodes and edges to one builder, which merges what it is given  *)
(* twice and stops at its caps.  Labels and attributes are left out; a     *)
(* node's id is its kind and key, evidence the set of its sources.         *)
(***************************************************************************)
EXTENDS Integers, Sequences, SequencesExt

CONSTANTS NoValue,
          SiteId,
          MaxNeighbourhood   \* MAX_DEPTH

Rank(provenance) ==
    CASE provenance = "UNKNOWN" -> 0 [] provenance = "INFERRED" -> 1
      [] provenance = "CONFIGURED" -> 2 [] provenance \in {"ENFORCED", "OBSERVED"} -> 3

SeverityRank(severity) ==
    CASE severity = NoValue -> 0 [] severity = "info" -> 1 [] severity = "low" -> 2
      [] severity = "medium" -> 3 [] severity = "high" -> 4 [] severity = "critical" -> 5

-----------------------------------------------------------------------------
(* The builder: nodes and edges in the order they came, no id twice.       *)
Place(items, id) == SelectInSeq(items, LAMBDA x : x.id = id)

(* Mutant: the pass that comes last decides. *)
LatestProvenance(old, new) == new

FirmerProvenance(old, new) == IF Rank(new) > Rank(old) THEN new ELSE old

WorseSeverity(old, new) == IF SeverityRank(new) > SeverityRank(old) THEN new ELSE old

(* Mutant: what does not fit is left out without a word. *)
DroppedSilently(b, what) == b

Dropped(b, what) == [b EXCEPT !.truncated = @ \cup {what}]

AddNode(b, node) ==
    LET at == Place(b.nodes, node.id)
    IN IF at # 0
       THEN [b EXCEPT !.nodes[at] =
               [@ EXCEPT !.evidence = @ \cup node.evidence,
                         !.provenance = FirmerProvenance(@, node.provenance),
                         !.severity = WorseSeverity(@, node.severity)]]
       ELSE IF Len(b.nodes) >= b.maxNodes THEN Dropped(b, "nodes")
       ELSE [b EXCEPT !.nodes = Append(@, node)]

(* An edge's ends that were returned by node() must be there; ends that    *)
(* are named by kind and key need not be.                                  *)
AddEdge(b, edge, held) ==
    LET at == Place(b.edges, edge.id)
    IN IF \E id \in held : Place(b.nodes, id) = 0 THEN b
       ELSE IF at # 0
       THEN [b EXCEPT !.edges[at] =
               [@ EXCEPT !.evidence = @ \cup edge.evidence,
                         !.provenance = FirmerProvenance(@, edge.provenance)]]
       ELSE IF Len(b.edges) >= b.maxEdges THEN Dropped(b, "edges")
       ELSE [b EXCEPT !.edges = Append(@, edge)]

Put(b, part) == IF part.is = "node" THEN AddNode(b, part.node)
                ELSE AddEdge(b, part.edge, part.held)

-----------------------------------------------------------------------------
Node(id, provenance, severity, source) ==
    <<[is |-> "node", node |-> [id |-> id, provenance |-> provenance, severity |-> severity,
                                evidence |-> {source}]]>>

Edge(from, kind, to, provenance, severity, source, held) ==
    <<[is |-> "edge", held |-> held,
       edge |-> [id |-> <<from, kind, to>>, from |-> from, to |-> to, kind |-> kind,
                 provenance |-> provenance, severity |-> severity, evidence |-> {source}]]>>

(* Both ends returned by node(), or one of them named. *)
Link(from, kind, to, provenance, source) ==
    Edge(from, kind, to, provenance, NoValue, source, {from, to})
LinkFrom(named, kind, to, provenance, severity, source) ==
    Edge(named, kind, to, provenance, severity, source, {to})

Each(s, Parts(_)) == FlattenSeq([i \in DOMAIN s |-> Parts(s[i])])
If(condition, parts) == IF condition THEN parts ELSE << >>

SiteNode == <<"site", SiteId>>

(* No policy, no node: an edge to it is never added. *)
PolicyNode(input) == <<"policy_version", input.policy>>

ConfigurationParts(input) ==
    Node(SiteNode, "CONFIGURED", NoValue, <<"policy">>)
    \o Each(input.jurisdictions, LAMBDA j :
         Node(<<"jurisdiction", j>>, "CONFIGURED", NoValue, <<"policy">>)
         \o Link(SiteNode, "applies_in", <<"jurisdiction", j>>, "CONFIGURED", <<"policy">>))
    \o If(input.policy # NoValue,
         Node(PolicyNode(input), "CONFIGURED", NoValue, <<"policy">>)
         \o Link(SiteNode, "governed_by", PolicyNode(input), "CONFIGURED", <<"policy">>)
         \o Each(input.jurisdictions, LAMBDA j :
              Edge(PolicyNode(input), "applies_in", <<"jurisdiction", j>>, "CONFIGURED",
                   NoValue, <<"policy">>, {PolicyNode(input)})))
    \o Each(SelectSeq(input.purposes, LAMBDA p : p.active), LAMBDA p :
         Node(<<"purpose", p.code>>, "CONFIGURED", NoValue, <<"policy", p.code>>)
         \o Link(SiteNode, "serves_purpose", <<"purpose", p.code>>, "CONFIGURED", <<"policy">>))

ApprovedParts(input, rec) ==
    LET vendor == <<"vendor", rec.vendor>>
        purpose == <<"purpose", rec.purpose>>
        rule == <<"enforcement_rule", rec.id>>
        source == <<"policy", rec.id>>
    IN Node(vendor, "CONFIGURED", NoValue, source)
       \o If(rec.purpose # NoValue,
            Node(purpose, "CONFIGURED", NoValue, source)
            \o Link(vendor, "serves_purpose", purpose, "CONFIGURED", source)
            \o If(rec.requirement # "not_required",
                 Edge(purpose, "requires_consent", PolicyNode(input), "CONFIGURED",
                      IF rec.requirement = "unknown" THEN "medium" ELSE NoValue, <<"policy">>,
                      {purpose, PolicyNode(input)})))
       \o Each(rec.categories, LAMBDA c :
            Node(<<"data_category", c>>, "CONFIGURED", NoValue, source)
            \o Link(vendor, "processes_category", <<"data_category", c>>, "CONFIGURED", source)
            \o If(rec.purpose # NoValue,
                 LinkFrom(purpose, "processes_category", <<"data_category", c>>, "CONFIGURED",
                          NoValue, source)))
       \o If(rec.action \in {"block", "require_consent"},
            Node(rule, "CONFIGURED", NoValue, source)
            \o Link(vendor, "enforced_by", rule, "CONFIGURED", source)
            \o Link(PolicyNode(input), "enforced_by", rule, "CONFIGURED", <<"policy">>))

(* A technology's hosts are those its evidence names, each once. *)
ScanParts(results) ==
    Each(results.pages, LAMBDA p :
      Node(<<"page", p>>, "OBSERVED", NoValue, <<"scan">>)
      \o Link(SiteNode, "has_page", <<"page", p>>, "OBSERVED", <<"scan">>))
    \o Each(SelectSeq(results.scripts, LAMBDA s : s.third /\ s.host # NoValue), LAMBDA s :
      Node(<<"tracker", s.host>>, "OBSERVED", NoValue, <<"scan">>)
      \o LinkFrom(<<"page", s.page>>, "loads", <<"tracker", s.host>>, "OBSERVED", NoValue, <<"scan">>))
    \o Each(SelectSeq(results.requests, LAMBDA r : r.third), LAMBDA r :
      Node(<<"tracker", r.host>>, "OBSERVED", NoValue, <<"scan">>)
      \o Node(<<"destination", r.host>>, "OBSERVED", NoValue, <<"scan">>)
      \o Link(<<"tracker", r.host>>, "sends_to", <<"destination", r.host>>, "OBSERVED", <<"scan">>))
    \o Each(results.cookies, LAMBDA c :
      Node(<<"cookie", c>>, "OBSERVED", NoValue, <<"scan">>)
      \o LinkFrom(<<"tracker", c.domain>>, "sets_cookie", <<"cookie", c>>, "INFERRED", NoValue, <<"scan">>))
    \o Each(results.technologies, LAMBDA t :
      Node(<<"vendor", t.name>>, "INFERRED", NoValue, <<"catalogue", t.id>>)
      \o Each(t.hosts, LAMBDA h :
           LinkFrom(<<"tracker", h>>, "operated_by", <<"vendor", t.name>>, "INFERRED", NoValue,
                    <<"catalogue", t.id>>)))

FindingParts(kind, edgeKind, finding) ==
    LET node == <<kind, finding.id>>
        From(named) == LinkFrom(named, edgeKind, node, "OBSERVED", finding.severity,
                                <<"intelligence", finding.id>>)
    IN Node(node, "OBSERVED", finding.severity, <<"finding">>)
       \o If(finding.host # NoValue, From(<<"tracker", finding.host>>))
       \o Each(finding.pages, LAMBDA p : From(<<"page", p>>))

EnforcementParts(event) ==
    If(event.host # NoValue,
      Node(<<"enforcement_event", event.id>>, "ENFORCED", event.severity, <<"enforcement", event.id>>)
      \o LinkFrom(<<"destination", event.host>>, "decided", <<"enforcement_event", event.id>>,
                  "ENFORCED", event.severity, <<"enforcement", event.id>>))

ExperimentParts(input, experiment) ==
    LET node == <<"experiment", experiment.id>>
        Variant(key) == <<"experiment_variant", <<experiment.id, key>>>>
    IN Node(node, "CONFIGURED", NoValue, <<"experiment", experiment.id>>)
       \o Link(SiteNode, "varies", node, "CONFIGURED", <<"experiment", experiment.id>>)
       \o Each(experiment.variants, LAMBDA key :
            Node(Variant(key), "CONFIGURED", NoValue, <<"experiment", experiment.id>>)
            \o Link(node, "varies", Variant(key), "CONFIGURED", <<"experiment", experiment.id>>)
            \o If(experiment.serving,
                 Link(Variant(key), "measured_under", PolicyNode(input), "CONFIGURED", <<"experiment", experiment.id>>)))

Parts(input) ==
    ConfigurationParts(input)
    \o Each(input.approved, LAMBDA r : ApprovedParts(input, r))
    \o If(input.results # NoValue, ScanParts(input.results))
    \o Each(input.shadow, LAMBDA f : FindingParts("shadow_finding", "flagged_as", f))
    \o Each(input.drift, LAMBDA f : FindingParts("drift_finding", "drifted", f))
    \o Each(input.enforcement, EnforcementParts)
    \o Each(input.experiments, LAMBDA e : ExperimentParts(input, e))

BuildConsentGraph(input, maxNodes, maxEdges) ==
    FoldLeft(Put, [nodes |-> << >>, edges |-> << >>, truncated |-> {},
                   maxNodes |-> maxNodes, maxEdges |-> maxEdges], Parts(input))

-----------------------------------------------------------------------------
(* Mutant: edges are followed only the way they point. *)
NextOneWay(edges, s) == {e.to : e \in {d \in edges : d.from \in s.frontier}} \ s.reached

(* neighbourhood: both ways along every edge, hop by hop.  Ends that are   *)
(* no nodes are walked over like the others.                               *)
NextHop(edges, s) ==
    ({e.to : e \in {d \in edges : d.from \in s.frontier}}
     \cup {e.from : e \in {d \in edges : d.to \in s.frontier}}) \ s.reached

Neighbourhood(graph, focus, depth) ==
    LET edges == ToSet(graph.edges)
        Hop(s, k) == [reached |-> s.reached \cup NextHop(edges, s), frontier |-> NextHop(edges, s)]
        hops == Max({1, Min({depth, MaxNeighbourhood})})
        walked == FoldLeft(Hop, [reached |-> {focus}, frontier |-> {focus}], [k \in 1..hops |-> k])
    IN IF Place(graph.nodes, focus) = 0 THEN << >>
       ELSE SelectSeq(graph.nodes, LAMBDA n : n.id \in walked.reached)

(* filterGraph: severity and provenance choose among all nodes, a page,    *)
(* vendor, purpose... only among those of its kind (wanted: the keys that  *)
(* match).  A focus replaces what the other filters chose.                 *)
Matches(node, filters) ==
    /\ filters.severity # NoValue => node.severity = filters.severity
    /\ filters.provenance # NoValue => node.provenance = filters.provenance
    /\ node.id[1] \in DOMAIN filters.wanted => node.id[2] \in filters.wanted[node.id[1]]

FilterGraph(graph, filters) ==
    LET nodes == IF filters.focus # NoValue THEN Neighbourhood(graph, filters.focus, filters.depth)
                 ELSE SelectSeq(graph.nodes, LAMBDA n : Matches(n, filters))
        kept == {n.id : n \in ToSet(nodes)}
    IN [graph EXCEPT !.nodes = nodes,
                     !.edges = SelectSeq(@, LAMBDA e : e.from \in kept /\ e.to \in kept)]
=============================================================================
