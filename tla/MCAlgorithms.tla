---------------------------- MODULE MCAlgorithms ----------------------------
(***************************************************************************)
(* The values the algorithms are checked on, and beside them the queue of  *)
(* scans, one crawl and the reports made from what it saw: each behaviour  *)
(* is of one of the four, while the others have not begun.                 *)
(***************************************************************************)
EXTENDS Algorithms, ScanQueue, Crawl, Reports, TLC

Plain == [id |-> 0, regime |-> "gdpr", regions |-> {"eu"}, topic |-> "consent",
          actors |-> {}, derived |-> FALSE, from |-> NoValue, to |-> NoValue,
          purposes |-> {}, dataCategories |-> {}, contexts |-> {}, applies |-> TRUE,
          consent |-> NoValue, children |-> NoValue, optOut |-> NoValue]
Consent(required, conditions) ==
    [required |-> required, conditions |-> conditions, withdrawal |-> FALSE]

Shapes ==
    <<Plain,
      [Plain EXCEPT !.topic = "notice", !.purposes = {"ads"}],
      [Plain EXCEPT !.topic = "security", !.consent = Consent("false", {})],
      [Plain EXCEPT !.topic = "lawful_basis"],
      [Plain EXCEPT !.topic = NoValue],
      [Plain EXCEPT !.applies = FALSE],
      [Plain EXCEPT !.consent = Consent("false", {})],
      [Plain EXCEPT !.consent = Consent("false", {"necessary"}), !.purposes = {"mail"}],
      [Plain EXCEPT !.consent = Consent("false", {"necessary"})],
      [Plain EXCEPT !.consent = Consent("true", {"necessary"})],
      [Plain EXCEPT !.consent = Consent("conditional", {})],
      [Plain EXCEPT !.children = [conditions |-> {}], !.consent = Consent("true", {})],
      [Plain EXCEPT !.topic = "sale_and_sharing", !.optOut = [conditions |-> {}]],
      [Plain EXCEPT !.consent = Consent("false", {}), !.derived = TRUE, !.regime = "model"],
      [Plain EXCEPT !.from = 2],
      [Plain EXCEPT !.actors = {"processor"}],
      [Plain EXCEPT !.topic = "rights"],
      [Plain EXCEPT !.topic = "rights", !.applies = FALSE],
      [Plain EXCEPT !.topic = "accountability"]>>

MCRule == {[Shapes[i] EXCEPT !.id = <<i, j>>, !.regions = {j}] :
              i \in DOMAIN Shapes, j \in {"eu", "us"}}

MCSignal == {[region |-> "DE", source |-> "declared_residence", confidence |-> NoValue],
             [region |-> "CA", source |-> "ip_geolocation", confidence |-> NoValue],
             [region |-> "XX", source |-> "request_context", confidence |-> NoValue]}
MCRegions == [region \in {"DE", "CA"} |-> IF region = "DE" THEN {"eu"} ELSE {"us"}]

MCRecommendation ==
    {[vendor |-> v, action |-> a, purpose |-> p] :
        v \in {"v1", "v2"}, p \in {"ads", NoValue},
        a \in {"allow", "require_consent", "block", "ignore", "review"}}
MCHosts == <<<<"cdn", "v">>, <<"v">>, <<"w">>>>
MCHostsForVendor == [vendor \in {"v1", "v2"} |->
                        IF vendor = "v1" THEN {<<"v">>} ELSE {<<"cdn", "v">>, <<"w">>}]

(* Fields to match and the payloads they occur in: in an object, under     *)
(* another spelling, in objects in arrays, in an array, twice in the       *)
(* query; a payload too deep, one too large and one that is no JSON.       *)
Named(word) == [word |-> word, spelt |-> 0]
Email == Named("email")
Shouted == [word |-> "email", spelt |-> 1]
Fields == {<<"name", <<Email>>>>, <<"name", <<Named("user")>>>>, <<"name", << >>>>,
           <<"path", <<Named("user"), Email>>>>,
           <<"path", <<Named("list"), [word |-> "[]", spelt |-> 0], Email>>>>}
MCRedactionRule ==
    {[id |-> <<f, s[1]>>, match |-> f[1], field |-> f[2], strategy |-> s[1],
      caseSensitive |-> s[2], locations |-> s[3]] :
        f \in Fields, s \in {<<"remove", FALSE, {"body", "query", "header"}>>,
                             <<"mask", TRUE, {"body", "header"}>>,
                             <<"hash", FALSE, {"query", "body"}>>}}

Leaf(i) == [type |-> "scalar", value |-> <<"secret", i>>]
Object(fields) == [type |-> "object", fields |-> fields]
Array(items) == [type |-> "array", items |-> items]
Contact(key, i) == Object([k \in {key, Named("id")} |-> IF k = key THEN Leaf(i) ELSE Leaf(0)])
Bodies == {NoValue,
           Contact(Email, 1),
           Object([k \in {Named("user")} |-> Contact(Shouted, 1)]),
           Object([k \in {Named("list"), Named("user")} |->
                     IF k = Named("list")
                     THEN Array(<<Contact(Email, 1), Contact(Shouted, 2), Leaf(3)>>)
                     ELSE Leaf(4)]),
           Array(<<Array(<<Contact(Email, 1)>>), Contact(Named("user"), 2)>>),
           Object([k \in {Named("user"), Named("list")} |-> Array(<<Array(<<Array(<<Leaf(5)>>)>>)>>)]),
           Array([i \in 1..9 |-> Leaf(i)])}
Pairs == {{}, {<<Email, Leaf(6)>>, <<Email, Leaf(7)>>, <<Shouted, Leaf(8)>>, <<Named("id"), Leaf(0)>>}}
MCPayload == [body : Bodies, query : Pairs, headers : Pairs, parsable : {TRUE}]
             \cup [body : {NoValue}, query : {{}}, headers : Pairs, parsable : {FALSE}]

MCKeyOrder == <<"a", "b", "c">>

MCRobotsRule ==
    [type : {"allow", "disallow"},
     path : {<<"/">>, <<"/", "a">>, <<"/", "*", "b">>, <<"/", "a", "$">>}]
MCPaths == {<<"/">>, <<"/", "a">>, <<"/", "a", "b">>}

MCRow == [id : [kind : {"cookie"}, name : {1, 2}], material : [value : {0, 1}], volume : {0, 1}]

MCTechnology ==
    {[vendor |-> "v1", category |-> "analytics", confidence |-> "high"],
     [vendor |-> "v2", category |-> "cdn", confidence |-> "medium"],
     [vendor |-> "v3", category |-> "unclassified", confidence |-> "low"]}
MCOverride == [vendor : {"v1", "gone"}, action : {"allow", "block"}, purpose : {"ads"}]

MCDecision == {[status |-> "granted", notice |-> "n1", variant |-> "a"],
               [status |-> "withdrawn", notice |-> "n1", variant |-> NoValue],
               [status |-> "granted", notice |-> "n2", variant |-> "a"]}

(* No keys; a first key alone; the second key beside the first, beside the *)
(* first revoked, and alone; a revoked key still active; a key with no id. *)
BothKeys == {[id |-> "k1", revoked |-> FALSE], [id |-> "k2", revoked |-> FALSE]}
OneRevoked == {[id |-> "k1", revoked |-> TRUE], [id |-> "k2", revoked |-> FALSE]}
MCEnvironment ==
    {[private |-> FALSE, active |-> NoValue, ring |-> {}],
     [private |-> TRUE, active |-> "k1", ring |-> {}],
     [private |-> TRUE, active |-> "k2", ring |-> BothKeys],
     [private |-> TRUE, active |-> "k2", ring |-> OneRevoked],
     [private |-> TRUE, active |-> "k2", ring |-> {}],
     [private |-> TRUE, active |-> "k1", ring |-> OneRevoked],
     [private |-> TRUE, active |-> NoValue, ring |-> BothKeys]}

-----------------------------------------------------------------------------
(***************************************************************************)
(* Three sites to crawl: one with a cycle, a relative link that means      *)
(* another page on each of two pages, and a page out of reach of the       *)
(* depth; one whose pages load what the budget does not hold, one of it    *)
(* under a path the document's is the beginning of and one not over http;  *)
(* and one with a redirect, a page that lands elsewhere and one robots.txt *)
(* forbids.                                                                *)
(***************************************************************************)

MCUrl == {"home", "a", "b", "c", "x", "y"}
MCHref == MCUrl \cup {"next", "away"}
MCResolve == [p \in MCUrl \X MCHref |->
   IF p[2] = "away" THEN Nowhere ELSE IF p[2] = "next" THEN (IF p[1] = "a" THEN "x" ELSE "y") ELSE p[2]]
Quiet == [links |-> [u \in MCUrl |-> << >>], lands |-> [u \in MCUrl |-> u],
  loads |-> [u \in MCUrl |-> {}], keys |-> [u \in MCUrl |-> 0], inline |-> {}, dialog |-> {}, forbidden |-> {}]
Res(path, query, script, consent) ==
  [path |-> path, query |-> query, http |-> TRUE, script |-> script, consent |-> consent]
Doc == Res(<<"/">>, << >>, FALSE, FALSE)
Tag == Res(<<"t">>, <<"q">>, TRUE, TRUE)
Part == Res(<<"/", "s">>, << >>, TRUE, FALSE)
Blob == [Res(<<"blob">>, << >>, TRUE, FALSE) EXCEPT !.http = FALSE]
MCSite == {
  [Quiet EXCEPT !.links = [@ EXCEPT !["home"] = <<"a", "b", "c", "a">>, !["a"] = <<"next", "home">>,
                 !["c"] = <<"y", "away">>, !["x"] = <<"y">>], !.dialog = {"c", "x"}],
  [Quiet EXCEPT !.links = [@ EXCEPT !["home"] = <<"a", "b">>, !["b"] = <<"c">>],
           !.loads = [@ EXCEPT !["a"] = {Doc, Part}, !["b"] = {Part, Tag}, !["c"] = {Blob, Tag}],
           !.inline = {"home", "b"}, !.keys = [@ EXCEPT !["home"] = 1, !["a"] = 1, !["b"] = 2]],
  [Quiet EXCEPT !.links = [@ EXCEPT !["home"] = <<"x", "a", "b", "c", "y">>, !["y"] = <<"home", "next">>],
           !.lands = [@ EXCEPT !["x"] = "y", !["b"] = Nowhere], !.forbidden = {"a"}]}
MCLimits == {
  [pages |-> 5, depth |-> 3, concurrency |-> 2, requests |-> 4, scripts |-> 2, keys |-> 2, cookies |-> 1],
  [pages |-> 1, depth |-> 1, concurrency |-> 2, requests |-> 1, scripts |-> 0, keys |-> 1, cookies |-> 1],
  [pages |-> 3, depth |-> 1, concurrency |-> 2, requests |-> 3, scripts |-> 2, keys |-> 4, cookies |-> 0]}

-----------------------------------------------------------------------------
(***************************************************************************)
(* What the reports are made of: URLs, hosts and signatures for the        *)
(* crawler's own answers; scans, approved policies, observations of live   *)
(* pages, enforcement events, experiments and scenarios for the rest.      *)
(***************************************************************************)

QKey(word, spelt) == [word |-> word, spelt |-> spelt]
MCSortedKeys == <<QKey("b", "upper"), QKey("utm", "upper"), QKey("a", "lower"), QKey("hs", "camel")>>
MCTracking == {QKey("utm", "lower"), QKey("hs", "camel")}
MCParams == {<<QKey("b", "upper"), 1>>, <<QKey("b", "upper"), 2>>, <<QKey("a", "lower"), 1>>,
             <<QKey("utm", "upper"), 1>>, <<QKey("hs", "camel"), 1>>}
MCQuery == UNION {[1..n -> MCParams] : n \in 0..2} \cup {<<q, r, q>> : q, r \in MCParams}
MCPath == {<<"">>, <<"", "">>, <<"index">>, <<"a", "">>, <<"a", "", "">>, <<"a", "index">>,
           <<"a">>, <<"pdf">>}
Fragment(scheme, path) == [scheme |-> scheme, host |-> "site", port |-> "", path |-> path,
                           query |-> << >>, fragment |-> "top"]
MCParsedUrl ==
    [scheme : {"https"}, host : {"site", "other"}, port : {""}, path : MCPath, query : MCQuery,
     fragment : {""}]
    \cup {Fragment("ftp", <<"">>), Fragment("http", <<"">>), Fragment("https", <<"a">>)}

(* A signature knows two hosts of one company the catalogue calls          *)
(* differently, and a host beside one the catalogue says is elsewhere.     *)
MCPageHost == <<"shop", "site">>
MCRequestHost == {<<"cdn", "shop", "site">>, <<"px", "a", "net">>, <<"a", "net">>, <<"b", "net">>,
                  <<"c", "net">>, <<"d", "org">>, <<"e", "d", "org">>, <<"x", "org">>}
MCCatalogue == [h \in {<<"a", "net">>, <<"b", "net">>, <<"d", "org">>, <<"e", "d", "org">>} |->
   CASE h = <<"a", "net">> -> [vendor |-> <<"A">>, category |-> "ads", country |-> "us"]
     [] h = <<"b", "net">> -> [vendor |-> <<"A", "Pixel">>, category |-> "ads", country |-> "us"]
     [] OTHER -> [vendor |-> <<"D">>, category |-> "fonts", country |-> "in"]]
MCSignatures ==
    <<[id |-> "a", name |-> <<"A", "Pixel">>, category |-> "ads",
       hosts |-> {<<"a", "net">>, <<"b", "net">>}, matches |-> {"s1", "k1"}],
      [id |-> "c", name |-> <<"C">>, category |-> "errors",
       hosts |-> {<<"c", "net">>, <<"e", "d", "org">>}, matches |-> {"s1"}]>>
MCHostOfScript == [s \in {"s1"} |-> <<"px", "a", "net">>]

(* Scans: one that saw much, one later or earlier that saw other things,   *)
(* one that saw nothing.                                                   *)
Tech(id, name, category, hosts) == [id |-> id, name |-> name, category |-> category, hosts |-> hosts]
TechA == Tech("a-tag", "a tag", "analytics", <<"px.a">>)
TechB == Tech("vendor:b", "b", "advertising", <<"b.net", "px.b">>)
TechC == Tech("host:c", "c.org", "unclassified", <<"c.org">>)
TechD == Tech("d", "d", "cdn", << >>)
Results(pages, scripts, requests, cookies, technologies) ==
    [pages |-> pages, scripts |-> scripts, requests |-> requests, cookies |-> cookies,
     technologies |-> technologies]
Loaded(host, third, page) == [host |-> host, third |-> third, page |-> page]
Requested(host, third) == [host |-> host, third |-> third]
Full == Results(<<"/", "/p">>,
          <<Loaded("px.a", TRUE, "/"), Loaded(Null, FALSE, "/"), Loaded("b.net", TRUE, "/gone")>>,
          <<Requested("px.a", TRUE), Requested("own", FALSE)>>,
          <<[domain |-> "px.a", name |-> "k"], [domain |-> "own", name |-> "s"]>>, <<TechA, TechB>>)
Less == Results(<<"/">>, << >>, <<Requested("b.net", TRUE)>>, << >>, <<TechB, TechC, TechD>>)
Bare == Results(<< >>, << >>, << >>, << >>, << >>)

(* The approved policy knows a vendor by the id of the scan, by the slug   *)
(* of its name or not at all.                                              *)
Rec(id, vendor, action, purpose, categories, requirement) ==
    [id |-> id, vendor |-> vendor, action |-> action, purpose |-> purpose,
     categories |-> categories, requirement |-> requirement]
RecA == Rec("a-tag", "a tag", "block", "analytics", <<"ip">>, "required")
RecB == Rec("b", "b", "block", Null, << >>, "unknown")
RecB2 == Rec("vendor:b", "b", "require_consent", Null, << >>, "conditional")
RecC == Rec("c-org", "c.org", "allow", "ads", <<"ip", "id">>, "not_required")
MCApproved == {<< >>, <<RecA>>, <<RecB>>, <<RecB2>>, <<RecC, RecA>>, <<RecA, RecB>>, <<RecB2, RecC>>}

Component(host, vendor, category, page) ==
    [host |-> host, third |-> TRUE, vendor |-> vendor, category |-> category, page |-> page]
MCRuntime == {<< >>, <<Component("b.net", "b", "advertising", "/p"),
                       Component("b.net", "b", "advertising", "/"),
                       Component("x.org", Null, Null, "/x")>>}
MCEvidence ==
    {e \in [results : {Null, Full, Less, Bare}, baseline : {Null, Full, Less},
            approved : MCApproved, version : {Null, 1}, jurisdictions : {<<"eu">>},
            purposes : {<<[code |-> "ads", active |-> TRUE], [code |-> "old", active |-> FALSE]>>},
            runtime : MCRuntime] :
        /\ e.version = Null => e.approved = << >>
        /\ e.results = Null => e.baseline = Null}
MCSpeltIn == {<<"b", "b.net">>}
MCSlug == [n \in {"a tag", "b", "c.org", "d", "new"} |-> IF n = "a tag" THEN "a-tag" ELSE n]

Event(id, host, severity) == [id |-> id, host |-> host, severity |-> severity]
MCHappened ==
    {[enforcement |-> << >>, experiments |-> << >>],
     [enforcement |-> <<Event(1, "px.a", "high"), Event(2, "else", "info"), Event(3, Null, "info")>>,
      experiments |-> <<[id |-> "e", serving |-> TRUE, variants |-> <<"c", "t">>]>>]}
MCCaps == {<<100, 100>>, <<6, 100>>, <<100, 5>>}

(* Scenarios: each operation as it should be asked for, for something that *)
(* is not there, and incomplete.                                           *)
NoRule == [id |-> 0, regime |-> "gdpr", regions |-> {"eu"}, topic |-> "consent",
          actors |-> {}, derived |-> FALSE, from |-> Null, to |-> Null,
          purposes |-> {}, dataCategories |-> {}, contexts |-> {}, applies |-> TRUE,
          consent |-> Null, children |-> Null, optOut |-> Null]
Requiring(regions) ==
    [NoRule EXCEPT !.id = regions, !.regions = regions,
                   !.consent = [required |-> "true", conditions |-> {}, withdrawal |-> FALSE]]
MCRules == {{}, {Requiring({"eu"})}, {Requiring({"us"})}}
MCScenarioChange ==
  {[S!Change("add_tracker") EXCEPT !.tracker = "new", !.category = "social"],
   [S!Change("add_tracker") EXCEPT !.tracker = "x.org", !.vendor = "b", !.category = "analytics"],
   [S!Change("add_tracker") EXCEPT !.tracker = "new"],
   [S!Change("remove_tracker") EXCEPT !.tracker = "new"],
   [S!Change("remove_tracker") EXCEPT !.tracker = "b"],
   [S!Change("reclassify_tracker") EXCEPT !.tracker = "a tag", !.category = "cdn"],
   [S!Change("reclassify_tracker") EXCEPT !.tracker = "c.org", !.category = "advertising"],
   [S!Change("add_jurisdiction") EXCEPT !.jurisdiction = "us"],
   [S!Change("remove_jurisdiction") EXCEPT !.jurisdiction = "eu"],
   [S!Change("set_enforcement") EXCEPT !.tracker = "a tag", !.action = "allow"],
   [S!Change("set_enforcement") EXCEPT !.tracker = "a-tag", !.action = "block"],
   [S!Change("set_enforcement") EXCEPT !.tracker = "b", !.action = "require_consent"],
   [S!Change("set_enforcement") EXCEPT !.tracker = "b", !.action = "ignore"],
   [S!Change("set_enforcement_mode") EXCEPT !.mode = "enforce"],
   [S!Change("set_enforcement_mode") EXCEPT !.mode = "strict"]}

-----------------------------------------------------------------------------
MCInit == Init /\ QueueInit /\ CrawlInit /\ ReportsInit

Posing == input.of # "none"
Scanning == ~QueueInit
Crawling == crawl.pc # "off"
Reporting == told.of # "none"

MCNext ==
    \/ ~(Scanning \/ Crawling \/ Reporting) /\ Next /\ UNCHANGED <<queueVars, crawl, told>>
    \/ ~(Posing \/ Crawling \/ Reporting) /\ QueueNext /\ UNCHANGED <<input, crawl, told>>
    \/ ~(Posing \/ Scanning \/ Reporting) /\ CrawlNext /\ UNCHANGED <<input, queueVars, told>>
    \/ ~(Posing \/ Scanning \/ Crawling) /\ ReportsNext /\ UNCHANGED <<input, queueVars, crawl>>

MCSpec == MCInit /\ [][MCNext]_<<input, queueVars, crawl, told>>
=============================================================================
