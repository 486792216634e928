------------------------------- MODULE Crawl -------------------------------
(***************************************************************************)
(* One crawl (crawler/src/crawl.ts): a frontier of URLs found, visited in  *)
(* batches that are rendered side by side.  What a page loads arrives as   *)
(* events while it and its neighbours are open, and all of them draw on    *)
(* one budget.  The site, the network and the signal are the environment.  *)
(***************************************************************************)
EXTENDS Integers, Sequences, SequencesExt, FiniteSetsExt

CONSTANTS
    Url,            \* normalised URLs of the scope's origin
    Start,          \* options.startUrl
    Href,           \* what stands in an anchor
    Resolve,        \* acceptLink: [Url \X Href -> Url \cup {Nowhere}], Nowhere if refused
    Site,           \* what there is to crawl, see below
    Limits,         \* options.limits
    Nowhere         \* null

ASSUME CrawlAssumption ==
    /\ Start \in Url /\ Nowhere \notin Url
    /\ Resolve \in [Url \X Href -> Url \cup {Nowhere}]
    /\ \A l \in Limits : {l.pages, l.concurrency} \subseteq Nat \ {0}
                         /\ {l.depth, l.requests, l.scripts, l.keys, l.cookies} \subseteq Nat
    /\ \A s \in Site :
         /\ s.lands \in [Url -> Url \cup {Nowhere}] /\ s.links \in [Url -> Seq(Href)]
         /\ s.keys \in [Url -> Nat]
         /\ \A u \in Url : \A r \in s.loads[u] :
              /\ {r.path, r.query} \subseteq Seq(STRING) /\ r # Nowhere
              /\ {r.http, r.script, r.consent} \subseteq BOOLEAN
    /\ \A name \in {"cancelled", "maxDuration", "maxPages", "maxRequests", "maxScripts",
                    "maxStorageItems", "maxCookies", "queueBound"} : name # Nowhere

(* A site: where a request for a URL lands (Nowhere: on a page of another  *)
(* origin, which has no links here), what a page links to and loads, over  *)
(* http(s) or not ([path, query, http, script, consent]), how many storage *)
(* keys it has, whether it writes scripts inline or shows a consent        *)
(* dialog, and the URLs its robots.txt keeps us from.                      *)

VARIABLE crawl

(* A visit is one execution of visitPage. *)
Visit(item) ==
    [url |-> item.url, depth |-> item.depth, pc |-> "new", rendered |-> FALSE, skipped |-> FALSE,
     sent |-> {}, settled |-> {}, captured |-> << >>, keys |-> 0, read |-> FALSE,
     links |-> << >>, signals |-> {}]

CrawlInit == crawl = [pc |-> "off"]

(* noteLimit *)
Noted(c, limit) == IF c.limit = Nowhere THEN [c EXCEPT !.limit = limit] ELSE c

(* Everything before the loop may refuse the scan as a whole. *)
BeginCrawl ==
    /\ crawl.pc = "off"
    /\ \/ crawl' = [pc |-> "fatal"]
       \/ \E site \in Site, limits \in Limits :
            crawl' = [pc |-> "loop", site |-> site, limits |-> limits,
                      queue |-> <<[url |-> Start, depth |-> 0]>>, seen |-> {Start}, discovered |-> 1,
                      batch |-> << >>, pages |-> << >>, skipped |-> 0, consentOn |-> Nowhere,
                      requests |-> 0, scripts |-> 0, keys |-> 0, cookies |-> 0,
                      limit |-> Nowhere, lost |-> {}]

(* The head of the loop.  Each look at the signal and the clock may be the *)
(* first to see them changed.                                              *)
StopEarly ==
    /\ crawl.pc = "loop" /\ crawl.queue # << >>
    /\ \E limit \in {"cancelled", "maxDuration", "maxPages"} :
         /\ limit = "maxPages" => Len(crawl.pages) >= crawl.limits.pages
         /\ crawl' = [Noted(crawl, limit) EXCEPT !.pc = "cookies"]

Exhausted ==
    /\ crawl.pc = "loop" /\ crawl.queue = << >>
    /\ crawl' = [crawl EXCEPT !.pc = "cookies"]

BatchSize(c) == Max({1, Min({c.limits.concurrency, c.limits.pages - Len(c.pages)})})

TakePages ==
    /\ crawl.pc = "loop" /\ crawl.queue # << >>
    /\ Len(crawl.pages) < crawl.limits.pages
    /\ LET n == Min({BatchSize(crawl), Len(crawl.queue)})
       IN crawl' = [crawl EXCEPT !.pc = "visiting",
                                 !.batch = [i \in 1..n |-> Visit(crawl.queue[i])],
                                 !.queue = SubSeq(@, n + 1, Len(@))]

-----------------------------------------------------------------------------
Visiting(i, pc) ==
    /\ crawl.pc = "visiting" /\ i \in DOMAIN crawl.batch /\ crawl.batch[i].pc = pc

(* isAllowed comes first; the guard or the browser may then refuse.        *)
OpenPage(i) ==
    /\ Visiting(i, "new")
    /\ IF crawl.batch[i].url \in crawl.site.forbidden
       THEN crawl' = [crawl EXCEPT !.batch[i].pc = "over", !.batch[i].skipped = TRUE]
       ELSE \E pc \in {"open", "over"} : crawl' = [crawl EXCEPT !.batch[i].pc = pc]

Landed(i) == crawl.site.lands[crawl.batch[i].url]

(* The page asked for loads what the page it lands on is made of. *)
Loads(i) == IF Landed(i) = Nowhere THEN {} ELSE crawl.site.loads[Landed(i)]

StartsWith(url, path) == IsPrefix(path, url)

(* page.on("request"): captured while the budget of the whole scan lasts,  *)
(* and only then counted as a script or taken for a sign of consent.  The  *)
(* budget is looked at first, so that a request which is not over http(s)  *)
(* and would not be recorded may be the one that finds it spent.           *)
Capture(c, i, r) ==
    IF c.requests >= c.limits.requests
    THEN [Noted(c, "maxRequests") EXCEPT
            !.lost = @ \cup {IF r.http THEN "request" ELSE "unrecorded"}]
    ELSE IF ~r.http THEN c
    ELSE LET full == r.script /\ c.scripts >= c.limits.scripts
             noted == IF full THEN [Noted(c, "maxScripts") EXCEPT !.lost = @ \cup {"script"}] ELSE c
         IN [noted EXCEPT
               !.requests = @ + 1,
               !.scripts = IF r.script /\ ~full THEN @ + 1 ELSE @,
               !.batch[i].captured =
                  Append(@, [path |-> r.path, status |-> Nowhere, failed |-> FALSE]),
               !.batch[i].signals = IF r.consent THEN @ \cup {"script"} ELSE @]

SendLoad(i) ==
    /\ Visiting(i, "open")
    /\ \E r \in Loads(i) \ crawl.batch[i].sent :
         crawl' = Capture([crawl EXCEPT !.batch[i].sent = @ \cup {r}], i, r)

(* find: a position, 0 if there is none. *)
First(positions) == IF positions = {} THEN 0 ELSE Min(positions)

(* page.on("response"): the first request without an answer whose URL the  *)
(* answer's begins with.                                                   *)
AnsweredAt(captured, r) ==
    First({k \in DOMAIN captured : captured[k].status = Nowhere
                                   /\ StartsWith(r.path \o r.query, captured[k].path)})

(* page.on("requestfailed"): the first, answered or not. *)
FailedAt(captured, r) ==
    First({k \in DOMAIN captured : StartsWith(r.path \o r.query, captured[k].path)})

LoadSettles(i) ==
    /\ Visiting(i, "open")
    /\ \E r \in crawl.batch[i].sent \ {s.load : s \in crawl.batch[i].settled}, ok \in BOOLEAN :
         LET captured == crawl.batch[i].captured
             at == IF ok THEN AnsweredAt(captured, r) ELSE FailedAt(captured, r)
             marked == IF at = 0 THEN captured
                       ELSE IF ok THEN [captured EXCEPT ![at].status = r]
                       ELSE [captured EXCEPT ![at].failed = TRUE]
         IN crawl' = [crawl EXCEPT !.batch[i].settled = @ \cup {[load |-> r, ok |-> ok]},
                                   !.batch[i].captured = marked]

(* goto throws, there are too many redirects, or where they end is refused.*)
FailPage(i) ==
    /\ Visiting(i, "open") /\ ~crawl.batch[i].read
    /\ crawl' = [crawl EXCEPT !.batch[i].pc = "over"]

(* The page has settled, or the ceiling is reached: its storage keys.      *)
ReadStorage(i) ==
    /\ Visiting(i, "open") /\ ~crawl.batch[i].read
    /\ LET found == IF Landed(i) = Nowhere THEN 0 ELSE crawl.site.keys[Landed(i)]
           room == crawl.limits.keys - crawl.keys
           noted == IF found > room
                    THEN [Noted(crawl, "maxStorageItems") EXCEPT !.lost = @ \cup {"key"}] ELSE crawl
       IN crawl' = [noted EXCEPT !.keys = @ + Min({found, room}), !.batch[i].keys = Min({found, room}),
                                 !.batch[i].read = TRUE]

(* collectLinks: in document order, each once, resolved against the URL    *)
(* that was asked for.                                                     *)
AddAnchor(links, url, href) ==
    LET link == Resolve[<<url, href>>]
    IN IF link = Nowhere \/ link \in ToSet(links) THEN links ELSE Append(links, link)

Accepted(url, hrefs) ==
    LET links[n \in 0..Len(hrefs)] ==
          IF n = 0 THEN << >> ELSE AddAnchor(links[n - 1], url, hrefs[n])
    IN links[Len(hrefs)]

(* Its inline scripts, which are left out without a word when the budget   *)
(* is spent, its dialog and its links; then the page is closed.            *)
RenderPage(i) ==
    /\ Visiting(i, "open") /\ crawl.batch[i].read
    /\ LET at == Landed(i)
           visit == crawl.batch[i]
           inline == at \in crawl.site.inline
           room == crawl.scripts < crawl.limits.scripts
           rendered ==
             [visit EXCEPT
                !.signals = IF at \in crawl.site.dialog THEN @ \cup {"dialog"} ELSE @,
                !.links = IF at = Nowhere THEN << >>
                          ELSE Accepted(visit.url, crawl.site.links[at]),
                !.rendered = TRUE, !.pc = "over"]
       IN crawl' = [crawl EXCEPT
            !.scripts = IF inline /\ room THEN @ + 1 ELSE @,
            !.lost = IF inline /\ ~room THEN @ \cup {"inline"} ELSE @,
            !.batch[i] = rendered]

-----------------------------------------------------------------------------
AddLink(c, link, depth) ==
    IF link \in c.seen \/ depth > c.limits.depth THEN c
    ELSE IF c.discovered >= 4 * c.limits.pages
    THEN [Noted(c, "queueBound") EXCEPT !.lost = @ \cup {"link"}]
    ELSE [c EXCEPT !.seen = @ \cup {link}, !.discovered = @ + 1,
                   !.queue = Append(@, [url |-> link, depth |-> depth])]

AddLinks(c, links, depth) ==
    LET after[n \in 0..Len(links)] ==
          IF n = 0 THEN c ELSE AddLink(after[n - 1], links[n], depth)
    IN after[Len(links)]

CollectResult(c, visit) ==
    LET noted == [c EXCEPT
          !.pages = Append(@, [url |-> visit.url, depth |-> visit.depth, links |-> visit.links]),
          !.skipped = IF visit.skipped THEN @ + 1 ELSE @,
          !.consentOn = IF visit.signals # {} /\ @ = Nowhere THEN visit.url ELSE @]
    IN AddLinks(noted, visit.links, visit.depth + 1)

CollectResults(c, batch) ==
    LET after[n \in 0..Len(batch)] ==
          IF n = 0 THEN c ELSE CollectResult(after[n - 1], batch[n])
    IN after[Len(batch)]

(* Mutant: results are taken in the order opposite to the frontier's. *)
InReverse(batch) == Reverse(batch)

(* Promise.all returns results in the order of the batch, however they     *)
(* finished.                                                               *)
InOrder(batch) == batch

Collect ==
    /\ crawl.pc = "visiting" /\ \A i \in DOMAIN crawl.batch : crawl.batch[i].pc = "over"
    /\ crawl' = [CollectResults([crawl EXCEPT !.batch = << >>], InOrder(crawl.batch))
                   EXCEPT !.pc = "loop"]

(* The context's cookies, known when all pages are closed, and the end. *)
ReadCookies ==
    /\ crawl.pc = "cookies"
    /\ \E found \in 0..crawl.limits.cookies + 1 :
         LET noted == IF found > crawl.limits.cookies
                      THEN [Noted(crawl, "maxCookies") EXCEPT !.lost = @ \cup {"cookie"}] ELSE crawl
         IN crawl' = [noted EXCEPT !.cookies = Min({found, crawl.limits.cookies}), !.pc = "done"]

CrawlNext ==
    \/ BeginCrawl \/ StopEarly \/ Exhausted \/ TakePages \/ Collect \/ ReadCookies
    \/ \E i \in 1..Max({l.concurrency : l \in Limits}) :
         \/ OpenPage(i) \/ SendLoad(i) \/ LoadSettles(i) \/ FailPage(i)
         \/ ReadStorage(i) \/ RenderPage(i)

-----------------------------------------------------------------------------
Running == crawl.pc \notin {"off", "fatal"}

(* What is found, in the order it was: visited, being visited, to visit.   *)
Found == [i \in DOMAIN crawl.pages |-> [url |-> crawl.pages[i].url, depth |-> crawl.pages[i].depth]]
         \o [i \in DOMAIN crawl.batch |-> [url |-> crawl.batch[i].url, depth |-> crawl.batch[i].depth]]
         \o crawl.queue

(* The URLs n clicks away over the links of pages that were rendered. *)
Within(n) ==
    LET reached[k \in 0..n] ==
          IF k = 0 THEN {Start}
          ELSE reached[k - 1] \cup UNION {ToSet(p.links) : p \in {q \in ToSet(crawl.pages) :
                                                            q.url \in reached[k - 1]}}
    IN reached[n]

(* "records each page once" (api/tests/crawler-browser.test.ts:188) and at *)
(* its distance: no URL is visited twice, at no depth but the fewest       *)
(* clicks that lead there, whichever of two pages rendered side by side    *)
(* ended first; and no limit is exceeded however many pages draw on it     *)
(* ("A page limit that a caller can exceed is not a limit", crawl.ts:215). *)
VisitsOnceAtItsDepth ==
    Running =>
        /\ \A i, j \in DOMAIN Found : Found[i].url = Found[j].url => i = j
        /\ \A f \in ToSet(Found) :
             /\ f.depth <= crawl.limits.depth
             /\ f.url \in Within(f.depth) /\ (f.depth > 0 => f.url \notin Within(f.depth - 1))
        /\ Len(crawl.pages) + Len(crawl.batch) <= crawl.limits.pages
        /\ crawl.requests <= crawl.limits.requests /\ crawl.scripts <= crawl.limits.scripts
        /\ crawl.keys <= crawl.limits.keys

(* "limit_reached is null when the crawl finished naturally" (docs/scan-   *)
(* api.md:191): then every link within the depth was visited and nothing   *)
(* that was seen is missing, but inline scripts; and when it names a       *)
(* limit, something was turned away for it, be it a request that would not *)
(* have been recorded either.                                              *)
LimitTells ==
    crawl.pc = "done" =>
        /\ crawl.limit = Nowhere =>
             /\ crawl.lost \subseteq {"inline"}
             /\ \A p \in ToSet(crawl.pages) : p.depth < crawl.limits.depth =>
                  ToSet(p.links) \subseteq {q.url : q \in ToSet(crawl.pages)}
        /\ crawl.limit # Nowhere => crawl.queue # << >> \/ crawl.lost \ {"inline"} # {}
        /\ crawl.limit = "maxPages" => Len(crawl.pages) = crawl.limits.pages

(* A request is recorded as answered, or as failed, if and only if it was, *)
(* in whatever order answers come, unless another request of the page has  *)
(* a URL that begins with its path or the other way round (crawl.ts:487-   *)
(* 498).                                                                   *)
Apart(r, s) == ~IsPrefix(r.path, s.path \o s.query) /\ ~IsPrefix(s.path, r.path \o r.query)

AnswersAreOwn ==
    Running => \A v \in ToSet(crawl.batch) : \A r \in v.sent, o \in ToSet(v.captured) :
        o.path = r.path /\ (\A s \in v.sent \ {r} : Apart(r, s)) =>
            /\ o.status = (IF [load |-> r, ok |-> TRUE] \in v.settled THEN r ELSE Nowhere)
            /\ o.failed = ([load |-> r, ok |-> FALSE] \in v.settled)

CrawlHonest == VisitsOnceAtItsDepth /\ LimitTells /\ AnswersAreOwn
=============================================================================
