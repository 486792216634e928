# Rift CMP in TLA+

A verification project for the Rift consent management platform: TLA+ models of
the parts of the code whose correctness depends on the order of events, TLC
configurations that check them on small instances, and TLAPS proofs of the
properties that matter most for instances of every size. Paths are relative to
the repository's `src/`.

## The system

A browser SDK asks a visitor for consent, records the decision through an HTTP
API in an append-only log in Postgres, and gates analytics and third-party
scripts on it. A fiduciary's server asks the same API whether data may move, gets
a single-use authorisation, and relays a sealed envelope through it. A worker
crawls sites for trackers; reports and recommendations are derived from what it
found. There is no shared memory between servers: concurrency is between
requests, and the database (unique indexes, conditional updates, triggers,
transactions) is what arbitrates it.

| Component | Code | State | Operations | Hard because |
| --- | --- | --- | --- | --- |
| Consent sessions | `database/consent-sessions.ts`, `api/app/api/v1/consent/session/route.ts` | `principals.secret_hash`, `consent_sessions` rows | open (mint / look up / bind / issue), resolve, charge, purge | every statement is a round trip; a row read is stale when it is used |
| Consent log | `database/consent.ts`, `api/app/api/v1/consent/route.ts`, `shared/consent.ts` | `consent_records`, a proof chain per principal | record, effective state, history | optimistic insert with retries; two clocks; ties |
| Authorisation and transfer | `database/authorisation.ts`, `database/transfers.ts`, triggers | `transfer_authorisations`, `transfer_records` | authorise, submit, collect | single use under races, lapse, dated delivery |
| Event ingestion | `api/app/api/v1/events/route.ts`, `api/lib/ingest-guard.ts` | `sessions`, `events` | ingest a batch | replays, out-of-order batches |
| SDK analytics client | `sdk/src/client.ts` | memory queue, `localStorage` queue shared by tabs, timer, in-flight flag | track, flush, retry, unload | lost answers, page closed in flight, several tabs |
| SDK consent client | `sdk/src/consent.ts` | principal, secret, session, cached state, the pending session request | getState, record, clear, open session | calls sharing one request, answers out of order, clear in flight |
| SDK enforcement and discovery | `sdk/src/enforce.ts`, `discovery.ts`, `index.ts` | wrappers around browser functions | start, stop, re-initialise | awaits inside start; two wrappers of one function |
| Banner and experiment assignment | `sdk/src/ui.ts`, `experiment.ts`, `shared/experiment.ts` | none | validate arms, assign, render | order of arms, edges of allocations |
| Outbound firewall | `shared/consent-firewall.ts`, `shared/redaction.ts`, `api/lib/firewall.ts`, `api/lib/consent-config.ts` | none | decide, classify, guard, redact | one decision taken in two places; a second copy of a field |
| Scan queue and worker | `database/scans.ts`, `crawler/src/worker.ts` | `scans` rows | queue, claim, progress, cancel, persist, fail | cancelled while running, worker death |
| Crawler | `crawler/src/crawl.ts`, `url.ts`, `robots.ts`, `detectors.ts`, `diff.ts` | frontier, what was seen, shared budgets | visit a batch of pages, detect, compare scans | pages rendered side by side draw on one budget; events match requests by prefix; order of arrival |
| Policy approval | `database/consent-policy.ts` | versions of a site's policy | approve | racing transactions arbitrated by two unique indexes |
| Experiments | `database/experiments.ts`, `api/lib/experiments.ts` | definition and status | create, edit, start, pause, archive, serve, count | check and then act |
| Policy engine | `policy/` | none | resolve jurisdictions, select rules, evaluate | silence, uncertainty and unions |
| Proof documents | `shared/consent-signature.ts`, `api/lib/consent-proof.ts`, `api/lib/proof-keys.ts`, `api/app/api/v1/consent/proof/verify/route.ts` | proof columns of decisions, configured keys | build, sign, rebuild, verify | canonical form and keys change while old rows stay |
| Rate limits | `api/lib/rate-limit.ts` | a window per key | limit, evict | eviction at the limit |
| Credentials, tenancy | `api/lib/auth.ts`, `database/tenancy.ts` | keys | authenticate, offboard | single look-ups |
| Policy intelligence | `api/lib/autopilot.ts`, `rights.ts`, `intelligence.ts`, `graph.ts`, `simulation.ts` | none of their own | recommend, offer controls, find, relate, simulate | several answers about one site that must not disagree; caps |
| Dashboard | `rift-frontend-main/` | none of its own | show | presentation |

How they meet: the SDK consent client opens sessions and records decisions; the
consent log is read by the authorisation layer, by event ingestion and by the SDK
(all through `resolveEffectiveConsent`); events are admitted by the decision in
force; experiments decorate decisions; scans feed policy versions.

What makes each correct:

- *sessions*: a session on a minted principal was opened with its secret; a
  session never records more than its cap.
- *log*: one unbroken chain per principal; a decision lost only to a real burst;
  exactly one decision in force per purpose, whatever order rows arrive in;
  future-dating bounded.
- *transfers*: an authorisation is used once or lapses; the answers given stay
  true; nothing is authorised on a grant displaced before the call.
- *events*: no event duplicated; an event the SDK accepted is stored, or
  refused, or still held; a refusal drops what waits (what it does not stop is a
  finding).
- *SDK consent*: whatever a page posts is in the name its session speaks for; what
  calls share is done once; the cache agrees with the log once calls are quiet.
- *page controls*: one client enforces, and what it enforces is its policy; enforcement
  that was stopped leaves the page as it was (discovery does not: a finding); what a site is told of its page is true of it.
- *scans*: one worker per scan; a finished scan stays finished; every queued scan
  finishes while workers live.
- *policy, experiments*: one approved version, the newest; arms that were shown were
  validated and are what is counted; one experiment is served.
- *proofs*: a row nobody touched never looks tampered with, a changed or missing one does.
- *crawl*: every page once, at its distance, within every limit; what is left out is told.
- *reports*: one page has one URL, one company one finding; what the reports of one site
  say agrees; what was cut off is told; a scenario changes nothing it was not asked to.
- *algorithms*: nothing is permitted by silence, more evidence never loosens a verdict,
  and what should not matter (the order of rows, rules, groups) does not.

## Modules

| Module | What it is |
| --- | --- |
| `ConsentSessions` | Sessions of one site. Each call of `openConsentSession` is an `Opener` that walks `start -> [bind ->] issue -> issued`, with the principal row read in one step and written in another. `ConsumeDecision` and `Resolves` are what the log uses. |
| `ConsentLog` | Extends it with requests: `Submit` (session resolved, body checked), `Charge` (the conditional update), `ResolveReferences`, `CreatePrincipal`, `ReadTip`, `Insert`, `Collide` (the retry loop). Calls of the library without a session start at `Import`, with any date: the check of the date is the HTTP route's. |
| `ConsentRegister` | Abstract: the decisions in force, each giving way only to one decided no earlier. |
| `SecureTransfer` | Calls of `authoriseTransfer`, `recordTransfer` and `collectTransfer`, one step per round trip, over a `ConsentRegister`. |
| `SingleUse` | Abstract: a permission is issued, then used by one user or lapsed, and handed over only after use. |
| `ScanQueue` | Rows of `scans`, workers (`find -> claim -> fetch -> crawl -> persist`, or `fail`), progress writes in flight, callers that cancel. Every database call of a worker is answered, takes effect without an answer, or fails; workers get signals and are killed. |
| `EventPipeline` | The tabs of one browser and the ingestion endpoint. A page has a memory queue, a timer and at most one flush (`idle -> asking -> sent -> ok / refused / failed -> idle`); the pages share `localStorage` (`kept`); `wire` is the requests on their way. `Load`, `Track`, `TimerFires`, `Send`, `Delivered`, `Refused`, `Failed`, `Hide`, `Close` are the client's entry points and continuations, `Ingest` and `Reject` the endpoint's, `GiveUp` and `Crash` the network's and the browser's. |
| `ConsentClient` | The consent clients of a browser's tabs, the `localStorage` they share and the two endpoints. A `Call` is one `record()` (`idle -> [session ->] posting -> recorded / failed`); `asking` holds the session requests, by who started them, so that calls sharing one is something `openSession` does; `wire` the decisions on their way; `reading` a `getState()`. `Load`, `Close`, `Record`, `EnsureSession`, `Adopt`, `Rejected`, `AskFails`, `Recorded`, `Refused`, `PostFails`, `GetState`, `GotState`, `Clear` are the client's entry points and continuations; `ServeSession`, `TurnAway`, `Decide`, `AnswerRead` the server's; `Age` the clock. |
| `PolicyApproval` | `approvePolicyVersion` on one site, a statement at a time: read the highest version, supersede the approved row, insert the next version, commit, with the row locks, index waits and rollbacks the database adds, and connections lost. |
| `Experiments` | Extends it with the management calls on experiments (`AskCreate`, `AskEdit`, `AskMove`, then `CheckPolicy` and `CheckServing`, then `Write`), the pages that load the configuration and the decisions counted for their arms. |
| `Firewall` | The enforcement decision shared by browser and server, its classification, the server's outbound guard, and the rules an approved policy yields. Operators only. |
| `PageControls` | Extends it with one page: enforcement clients and discovery wrapping browser functions. A function is the stack of its wrappers. `BeginStart -> LoadConfig -> FinishStart` are the parts of `enforcement.start()` between its awaits. |
| `PageReports` | Extends it with what discovery makes of the calls tags make through those wrappers: destinations, violations, reports on their way (`FlushDiscovery`, `Receive`, `Drop`) and what a re-initialisation forgets. |
| `DiscoveryRows` | Extends it with the rows the server appends for a report's violations. |
| `PolicyEngine`, `Recommendations`, `Redaction`, `ProofDocuments`, `ScanDiff`, `Robots`, `RateLimit`, `Assignment` | The pure algorithms, as operators. `Recommendations` (autopilot and rights) extends `PolicyEngine`. |
| `Algorithms` | Composes them: each initial choice is an input of one of them, and the invariants compare its answer with what it promises. Requests to the rate limiter accumulate, and so do decisions, deployments and a tampering with the rows (`Deploy`, `Decide`, `Tamper`). |
| `Crawl` | One crawl: the frontier, batches of visits (`new -> open -> over`), the requests, answers and failures of the pages that are open, the budgets they share. The pages of a site are a constant, the order in which things happen is not. |
| `Urls`, `Detectors`, `Findings`, `ConsentGraph`, `Simulation` | What is one page; which technologies were seen; what the configuration does not account for and what changed; the dependency graph with its builder, filters and neighbourhoods; what if. Operators only; `Simulation` runs `Recommendations` and `Findings` over the changed inventory, as the code does. |
| `Reports` | Composes them: an input is picked (`ReadUrl`, `ReadObservations`, `ReadEvidence`, `ReadGraph`, `AskWhatIf`) and the invariants compare what is told of it. |
| `MC...` | Instances for TLC. |
| `ConsentLog_proofs`, `SecureTransfer_proofs`, `Scanner_proofs` (of `ScanQueue` and `Crawl`), `EventPipeline_proofs`, `Experiments_proofs`, `ConsentClient_proofs`, `PageReports_proofs`, `Algorithms_proofs` (of `PolicyEngine`, `Recommendations`, `Firewall`, `Redaction`, `RateLimit`, `Assignment`, `Robots`, `ScanDiff` and `ProofDocuments`, through `Algorithms`) | Theorems. |

`ConsentLog` implements `ConsentRegister` under the mapping *governing = the rows
no row of their matter outranks* (`ImplementsRegister`), and `SecureTransfer` uses
that register as its consent log: what is checked of the first justifies what is
assumed by the second. `SecureTransfer` implements `SingleUse` under the mapping
of row statuses to permission states (`ImplementsSingleUse`). The server's half of
`ConsentClient` is what `ConsentLog` and `ConsentSessions` allow a client to see of
them: a session request mints or checks a pair, a decision is recorded, refused or
found mismatched.

How state corresponds to the code:

- A SHA-256 digest is represented by what it is a digest of, a signature by its key and
  what it signs. In `ConsentLog` a proof document's digest is the row's id, which the
  document contains; in `ProofDocuments` it is the whole document.
- Locals of an `async` function are the fields of its process's record, its
  `await`s are the boundaries between actions. Two statements of one Prisma
  `$transaction` are one action; the trigger and index that may abort it are its
  guards (`MayBecome`, `Datable`, `Unused`, `Taken`).
- `slot`, `base` and `since` are history variables: which charge a request made,
  which tip it read first, how many decisions had been taken when a call arrived.
  Nothing reads them but properties. `struck` of `ScanQueue` is another: the scans
  whose worker met a fault.
- The two page counters of a scan (`pagesScanned`, `pagesFailed`) move alike and
  are one, `pages`; the observations of a scan are how many `scan_pages` rows it
  has, `stored`. The 1.5 s throttle of progress writes is a free choice to publish.
- Creation times of scans are their numbers. A worker that runs without `maxScans`
  does not look at its counters, so the model keeps them at zero.
- Queues of events are sets. The order matters to the code only where a cap evicts
  the oldest entries, and `Capped` leaves open which are evicted. Events are
  numbered as they are built, which is the order of their `event_time`.
- A tab's analytics session outlives its pages (`sessionStorage`); the model gives
  each tab one, and `session_start` is one more `Track`. Expiry of a session after
  30 minutes, which starts another row, is left out, and so is the rejection of
  single malformed events inside a batch: the SDK's own are valid.
- Whether the endpoint refuses a batch for lack of consent is a free choice of
  `Reject`, as is every other failure (a limit, a batch beyond
  `EVENT_LIMITS.batchSize`, a 500, a request that never arrives): the decision log
  it would be read from is `ConsentLog`.
- `took` of `EventPipeline` is a history variable: what a page queued or restored
  and consent did not refuse since.
- In `ConsentClient` a principal's secret is represented by the principal, sessions
  are numbered in the order of issue and grow old in that order (they live equally
  long), and an effective state is represented by how many of its principal's decisions
  it covers. `mixed` and `calm` are history variables: whether answers overlapped since
  the page loaded, and whether anything failed, was rejected or was cleared.
- In `PolicyApproval` a row is named after the approval that wrote it. `found` is what
  an update's snapshot matched, `held` what it locked; `lost` (history) that a
  connection was lost under an approval.
- In `Experiments` an arm set is one value; `Sound` are those `validateVariants`
  accepts (what that is, is `Valid` of `Assignment`). `raced` is a history variable: some
  write was made after another call's write that happened since it began.
- In `PageControls` the functions the two clients patch fall into three classes: those
  both wrap (`fetch`), those only enforcement wraps (`insertion`), and
  `Storage.prototype.setItem`, which discovery wraps once per kind of storage.
  `crossed` is a history variable: a stop took off more than its own wrapper.
- In `PageReports` a destination is a host with the one way it is called, so that a host
  stands for a `host|kind` key. `happened` is a history variable: what was recorded, for
  whom. The request counts, storage keys and initiators of a report are left out.
- A host is the sequence of its labels, a path a sequence of characters, so that
  suffixes and patterns are what they are in the code. Rules of the policy matrix are
  a set: the engine sorts them by id and its verdict is a maximum.
- In `Redaction` a key is a word and how it is spelt; the modes, strategies and locations
  of rules are their types' values, and rules with empty path segments are left out.
- In `Crawl` a URL of a request is a path and a query, each a sequence, so that one is the
  beginning of another when the strings are. `lost` is a history variable: the kinds of
  things a limit cost.
- In `Detectors` what a script, cookie or storage key gives away is the set of signatures'
  strings it matches. In `ConsentGraph` a node's id is its kind and key, evidence its
  source and reference; labels, sublabels and attributes are left out.
- In `Simulation` names are compared in small letters and stand in them.
- The model is of one organisation and one site; tenancy is in every `where` of
  the code and would only multiply the instance.

## Runs

| Run | Question | Bounds |
| --- | --- | --- |
| `consent_log` | Do chain, charges and precedence survive races, and does a session prove its principal's secret? | two requests with a session and one import; two openers, two sessions; one minted and one imported principal; two secrets; no notice cited; clock 0..2, lifetime 1, skew 1, two chain attempts, cap 1 |
| `transfer` | Are authorisations used once, and do answers stand? | two calls of each operation; one principal and purpose; an active and an inactive recipient; two decisions, dated 0..2; lifetime 1, clock 0..1 |
| `queues` | Are events neither lost by the page nor stranded, are sessions right, and does the page's queue empty? Do queued scans get taken, and claimed ones end? | one tab; three events, two page loads, one change of consent; batches of two, two events in `localStorage`, one retry; one request on the wire that nobody waits for. Beside it: two scans of one page, a bounded and an unbounded worker, one canceller, one fault (or kill) anywhere |
| `consent_client` | Does a browser always speak for one visitor, do calls that share or retry a request do it once, and is its cache current? | one tab loaded twice; two decisions, one read; two principals, three sessions; anything may be late, lost, refused or aged |
| `site_config` | Is the newest policy version the approved one, and is what visitors see validated and counted for what it was? | three approvals with one lost connection; one experiment, two management calls at a time; five requests in all; two sound arm sets and one that is not; a window that closes |
| `page_reports` | Does a page block what its policy says, and nothing once stopped, does enforcement take its wrappers off, and is what a site is told of its page true of that site? | two sites with different rules; two calls of `start()`, two re-initialisations, two starts of discovery; two hosts, one of them a vendor's that tags call; one purpose; one report on its way |
| `algorithms` | Do the pure algorithms promise what their comments say? Is a scan performed by one worker and stored whole, with honest counters? | below; the queue: as in `queues`, with two pages a scan |
| `cancelled_scan` | Does a cancelled scan stay cancelled? | two scans of two pages, two workers, no faults |
| `overlapping_experiments` | Is at most one experiment served? | two experiments, one call at a time, one window that opens later |
| `sent_again` | Does an observation become one row? | one page, one vendor, nothing enforced |
| `late_send` | Does a page's request leave it only while consent allows? | as `queues`, two events, one page load |
| `stopped` | Does `stop()` restore every function? | as `page_reports` |

Two runs are of several systems that share nothing (`MCQueues`, `MCAlgorithms`): each of
their behaviours is one of one of the systems, while the others have not begun. What is
reached of each is what it reaches alone, without the product of their states, so what
holds in the sum holds of each. `MCQueues` has liveness, and each queue keeps its own
fairness: before a page is loaded none of the pipeline's fair actions is enabled, and a
worker is owed its steps only in behaviours in which no page is ever loaded.

Why the bounds are enough to meet the hazards: two writers and one import make
three contenders for a chain position with two attempts, so that a write can win
at once, win on retry, or be thrown; the clock runs past a session's lifetime, so
it can be purged between resolve and charge; decisions can be dated on both sides
of the clock and tie. A cap of one is reached by two decisions that share a session; two
openers on two secrets race to bind, and two sessions outlive one another. The symmetries
are between openers, secrets and sessions. Two submissions and two authorisations allow a race on one
row and a bystander; the clock runs past expiry, so the same row can be read live
by one submission and expired by another. `MCSecureTransfer` uses symmetry among
calls of one operation, which no definition tells apart. Two workers on two scans
race for one row and leave another behind; two pages let a second progress write
overtake a first and a total exceed what was last published; one fault is enough
for an unanswered claim, a commit without an answer, or a death at any step. The
page cap is not reached at these bounds (the proofs are for every cap).

Three events with batches of two let an event be queued while a batch is in flight
and the queue outgrow a batch and the cap of `localStorage`; one orphaned request
lets an unload flush, or the batch of a page that is gone, be overtaken by what the
next page sends; one retry lets an event fail, be tried again, be exhausted and come
back with the next page. Two tabs are too many states for a run with liveness; what
they share, `localStorage` and the endpoint, is in the proofs, which hold for any
number of tabs. One change of consent covers both directions because `Load` chooses
where it starts.

`consent_client`: two calls on one page are what it takes for a session request to be
shared, for one to be refused because the other was charged, and for two answers to
arrive in either order; two loads let a page start from what an earlier one left
behind, with requests of that one still on their way. Two tabs that share `localStorage`
(`Tab = {a, b}`, one load each, no reads, two sessions) pass too: 1.4 million states,
two minutes. Calls are interchangeable, hence the symmetry.

`site_config`: three approvals let one wait for a row another holds while a third
inserts; a lost connection may strike before, at or after the commit. Two calls on one
experiment are enough for an edit to be written after the start it raced with. The clock
ticks once, past the end of the window.

`page_reports`: two calls of `start()` overlap at every await with each other, with
`stop()` and with a re-initialisation that changes the policy; discovery may be started
under or over each. Two re-initialisations lead away from a site and back to it while a
report of its first page is on its way.

`algorithms` enumerates: every matrix of up to two of 38 rules (19 shapes, one per
branch of `contribute`, of `selectRules` and of `rights.ts`, in two regions) with every
set of three signals; the same matrices with three technologies and overrides of a vendor
that was seen and one that was not; every sequence of up to two recommendations over two
vendors and three hosts, with every redaction outcome; payloads in which a field occurs in
an object, under another spelling, in arrays, in arrays of arrays and twice in the query,
beside one too deep (three levels), one too large (nine fields) and one that is no JSON,
with up to two redaction rules; every two or three variants with allocations in thirds;
every group of up to three robots rules and every two groups of agents; every two scans of
up to two rows; every five requests of three keys over a table of two, with a limit of two;
three decisions under two deployments, each of any of three releases and seven
configurations of keys (none, a first key without a ring, the second key beside the first,
beside the first revoked, alone; a revoked key still active; a key without an id), with one
change or deletion of a row. In the same run, as behaviours of their own: crawls of three
sites (a cycle with a relative link that means two pages; pages whose loads exceed every
budget and share a prefix; a redirect, a page that lands elsewhere, a forbidden one) under
three sets of limits, with batches of two; and the reports: 899 parsed
URLs, every three requests to eight hosts with and without a script and a cookie, two
signatures and five hosts in the catalogue; evidence of any of three scans, one before it,
seven approved policies and what live pages reported; graphs of it with and without
enforcement and experiments, uncapped and at caps small enough to cut them; and every two
changes of fifteen, complete, incomplete and about things that are not there, under three
matrices.

What an id names is assumed to be one key pair: `load` does not compare the private key
with the ring's entry of the same id (`api/lib/proof-keys.ts:154`).

Type invariants are properties of no run where they are proved (`TypeCorrect`,
`TransferTypeCorrect`, `QueueTypeCorrect`, `PipelineTypeCorrect`).

Runs stop in states where all calls have returned and the clock is at its bound (or
where the visitor has left for good), so they set `CHECK_DEADLOCK FALSE`.

**What the violation runs show.**

- `cancelled_scan`: nothing in a running crawl reads the row, and the outcome is
  written whatever its status, so a scan cancelled while it runs is crawled to the
  end and becomes `completed`, though the documentation says the crawl notices.
- `overlapping_experiments`: a start asks whether another experiment is being served
  *now*. One whose window opens later is not, so a second can be started beside it, and
  when the window opens two are served; the comment in `database/experiments.ts:261` says
  at most one is. (Two starts at once slip past the check as well: it and the write are
  separate round trips.) Browsers are given the older of the two.
- `sent_again`: `flush` sends every violation of the page's life each time (every ten
  seconds, and when the page is hidden), and `recordDiscoveryReport` appends a row for
  each: one observation is a row per report. The cumulative `request_count` of each
  destination is added to the stored one in the same way. The comment at
  `sdk/src/discovery.ts:572-573` says that re-sending is idempotent.
- `late_send`: `flushQueue` (`sdk/src/client.ts:314-330`) asks the consent check, takes the
  batch, and awaits the headers of a consent session before `fetch`. A withdrawal during
  that await does not stop the batch: it leaves the browser, and the API decides on its
  own. `docs/sdk-api.md:296-302` says that the check is read at the moment of sending, lest
  it come down to where in the window the withdrawal landed. The unload flush awaits
  nothing, and takes and sends in one step.
- `stopped`: `localStorage.setItem` and `sessionStorage.setItem` are one function of
  `Storage.prototype`, and discovery wraps it twice. `discovery.stop()` runs its undos in
  the order of its patches, so the first puts the browser's function back and the second
  the first wrapper (`sdk/src/discovery.ts:184-187`): every start leaves one for good.
  `docs/discovery.md:80` and the comments at `sdk/src/discovery.ts:183` and
  `sdk/src/index.ts:282` say that `stop()` restores every wrapped API. What does hold,
  `EnforcementRestores`, is that enforcement takes off what it put on: the functions it
  alone wraps are the browser's own once it is stopped, whatever discovery did, and on a
  page that never started discovery all of them are.

**Behaviour the models show where the code and its comments differ**, described here and
left without a run of its own:

- `openConsentSession` (`database/consent-sessions.ts:168`) reads `secret_hash = NULL` and
  later writes the presented secret by id alone. A second opener that read `NULL` too
  overwrites it; the comment at `:110-111` says "The first caller to present a secret for
  such a principal binds it".
- Losing the conditional update of `consumeConsentSessionDecision` (`:290`) to a parallel
  decision on the same session is answered `session_exhausted`, though the comment at
  `:283-284` allows only for exhaustion or revocation. The SDK forgets the session, opens
  another and posts again (`Refused`).
- `recordTransfer` (`database/transfers.ts:383`) answers every failed transaction with "A
  transfer has already been recorded for this authorisation."; when the row had just been
  marked `EXPIRED`, none was.
- A null from `claimNextScan` also means that the candidate was cancelled or taken
  meanwhile; a worker run with `maxScans` treats it as "nothing left to do"
  (`crawler/src/worker.ts:209`) and ends while other scans wait.
- `clear()` of the consent client forgets what is stored and nothing that is in flight: a
  session request answered afterwards writes its identity back
  (`sdk/src/consent.ts:429`). `OneVoice` says that identity and session still belong
  together.
- An approval whose connection is lost while it commits is answered `version_conflict`
  although its version was published (`database/consent-policy.ts:161`).
- `enforcement.stop()`, or a re-initialisation, while `start()` awaits its configuration
  is undone by the continuation of `start()` (`sdk/src/index.ts:431-445`): it enforces the
  configuration it loaded, of the old site if need be. Reports queued for the old site are
  not dropped by a re-initialisation.
- Enforcement and discovery restore the function they found, so stopping them in the
  order they were started drops one's wrapper and may bring the other's back
  (`docs/enforcement.md:163`: "`stop()` restores every global exactly"). A wrapper that comes back
  has no configuration and blocks nothing (`EnforcesItsPolicy`); on `fetch` it may come
  back, on the insertion functions it does not (`EnforcementRestores`). Re-initialising
  stops discovery first.
- Discovery checks consent when it first meets a host under a kind
  (`sdk/src/discovery.ts:230-256`). A host met before `watchConsent` was called (the
  resources `start()` finds, if the calls are made in the order of
  `docs/discovery.md:141-143`), or while its purpose was granted, is never checked
  again, though `docs/discovery.md:114-115` says a violation is recorded when a host is
  contacted while its purpose is not granted. `EvidenceSound` promises the converse: what
  is recorded happened.
- Where discovery's wrapper lies outside enforcement's, a call that enforcement then
  refuses is recorded as a contact.
- The SDK's own requests but one go through the page's patched `fetch`: a policy of
  `unknown_host: "block"` refuses them too (`FlushDiscovery`), though
  `sdk/src/index.ts:181-189` says Rift's own traffic is not subject to it. The server
  never sends that setting.
- `parseRobots` takes the first group that names the scanner and does not merge two groups
  for anyone; an empty `User-agent` value occurs in every name.
- The rate limiter's table is a `Map`, which keeps a renewed window where its key was
  first inserted: eviction drops the longest-known keys, busy or not. Up to `2 * limit - 1`
  requests of a key pass within one window's length, across two windows (`WindowsHold`).
- A REVIEW that only says that nothing in the matrix spoke may become ALLOW when another
  signal adds a jurisdiction whose rules permit; every other verdict only gets stricter
  (`WiderNeverLooser`).

- Autopilot recommends `block` meaning "we suggest you do not load this until the purpose
  is granted" (`docs/consent-autopilot.md:31-33`), but an approved `block` is enforced
  "whatever the visitor chose" (`docs/enforcement.md:84`).
- A ring is built from `RIFT_PROOF_PUBLIC_KEYS` plus the key derived from the active private
  one (`api/lib/proof-keys.ts:150-160`). A first deployment may do without the variable;
  rotating by the letter of `docs/consent-proof.md:134-140` ("append the new public key")
  then drops the first key, and its proofs become `unknown_key` (`ProofsTell` has the case).
- The newest row of a chain can be deleted without leaving a hole.
- A redaction rule whose path ends in `[]` is accepted and never matches: only keys of
  objects are looked up (`shared/redaction.ts:282-287`), though the comment at `:211-212`
  says one rule "covers every element".
- Autopilot's detector ids are slugs of names (`api/lib/autopilot.ts:227-230`), the scanner's
  are not (`vendor:Meta`, `host:...`). `detectDrift` looks an approved vendor up by id alone
  (`api/lib/intelligence.ts:309`): one that is blocked and still runs is no
  `blocked_still_active` and may even be `policy_ahead_of_site`, while the shadow trackers,
  which fall back on the name, call the same vendor critical. `FindingsTell` promises only
  that what drift calls blocked is among the critical ones.
- A simulated removal leaves the scan's rows as they are (`api/lib/simulation.ts:286-298`),
  so what was removed counts as newly unaccounted for, and what was added never does,
  against the wording at `:523-537`. An action set for a vendor the inventory does not have
  is neither applied nor reported as unsupported (`:37-42`); one set by name beats a later
  one by id; `tracker` is documented as "Detector id or host"
  (`shared/simulation.ts:63`), but removal and reclassification match names. Removing a name that occurs twice counts
  two trackers and one destination. The engine is run with `overrides: []` (`:263`), though
  the comment before it says that only the inventory differs from production.
- Edges of the graph that are built from a kind and a key, not from a node that was
  returned, may point at nothing (`api/lib/graph.ts:483`, `:629`, `:667`, `:717`); those of drift
  findings do unless a host is called like the vendor. `neighbourhood` walks through such ends; `filterGraph`
  drops them, and nothing says so. A `focus` replaces what the other filters chose. Ids
  are made of lower-case keys, so pages that differ in case are one node
  (`shared/graph.ts:219`: "cannot collide").
- `classifyHost` takes the most specific pattern, enforcement the first rule that matches
  (`database/tracker-catalogue.ts:186-188`: "the same matching rule").
- The crawl: `docs/scan-api.md:192` lists `maxDepth` as a limit that is named; none is when
  links lie too deep. Inline scripts are left out silently when the script budget is spent,
  as are anchors after the 500th and storage keys after the 200th of a kind. A page that
  redirects to another origin is rendered and recorded (`docs/crawler.md:511`: "Same-origin
  only"), and relative links of a page that redirected are resolved against the URL that
  was asked for (`docs/crawler.md:143`: "the page the link was found on"). Answers and
  failures are matched to requests by the beginning of the URL (`crawler/src/crawl.ts:500-510`), so the
  failure of `/s` may be recorded for `/`; `AnswersAreOwn` says between which requests that
  cannot happen. Signs of consent are kept of the first page that shows any. The deadline is
  looked at between batches.
- `hsCtaTracking` is never dropped from a query, because keys are compared in small letters
  (`crawler/src/url.ts:41`, `:132`).
- The findings of a scan depend on the order of requests when a signature saw more than the
  five pieces of evidence that are kept, and when the catalogue does not know all its hosts:
  `hsadspixel.net` and `sentry-cdn.com` are in signatures and not in the catalogue, so which
  of HubSpot's or Sentry's hosts came first decides the country
  (`api/tests/crawler-browser.test.ts:330-332` expects a stable result). `EverybodyReportedOnce`
  assumes neither happens. A company whose signature and catalogue entry have different
  names ("LinkedIn Insight Tag", "LinkedIn") is two findings.

Behaviour of the event pipeline that no run calls wrong: a success removes the whole
persisted queue, with it events whose attempts were used up and which were waiting
there for the next page load, and the only durable copy of what other tabs have
queued (their memory still has it: `KeepsWhatItTook`); `started_at` of a session is
set by the batch that arrives first and is not lowered by older events that arrive
later (`SessionMatchesEvents` claims no more than that it is the time of one of them).

Behaviour of the scan queue that no run calls wrong, but an operator should know
(both are steps of the model): a scan whose worker dies, whose claim took effect
without an answer, or whose failure could not be written stays `running` for ever;
and a result that was committed but whose answer was lost is afterwards marked
`failed`, with its observations still stored.

**Hazards that no property catches.** Some properties except states in which the code
promises nothing, or less than one might want. The steps that lead there are in the models;
what becomes of them is not judged:

- two openers that bind one imported principal (`SessionProvesSecret` is about minted ones);
- a withdrawal between the evaluation of an authorisation and its row (`NotAfterWithdrawal`
  is about decisions that arrived before the call);
- a date in the future that a library caller records (`PinBounded` is about those posted);
- the scan of a worker that died, or whose call lost its answer (`EveryScanEnds`);
- answers to overlapping decisions, which may leave the older state in the browser's cache
  (`CurrentWhenAlone` leaves out pages that are `mixed`);
- `clear()` during a session request, whose answer writes the identity back (`OneVoice`);
- an experiment's arms replaced between the load of a page and its decision, by a call that
  checked before another wrote (`CountedAsShown` leaves out those that `raced`);
- a `stop()` undone by a `start()` that was waiting, or the old site's configuration under
  a new one (`EnforcesItsPolicy` takes what runs for what is meant);
- `fetch` and its like where enforcement and discovery were stopped crosswise;
- answers to requests of which one's URL begins with the other's, links that lie too deep
  (`CrawlHonest`), technologies beyond the evidence that is kept or whose hosts the
  catalogue does not know, and a blocked vendor that drift does not know by its id
  (`ReportsAgree`).

## Fairness and liveness

`ConsentLog` and `SecureTransfer` assume no fairness: a request is an HTTP handler
that a client or a platform may abandon at any `await`, so stopping at any step is
a behaviour of the code, and the safety properties hold under it (a crash of a
server is a request that takes no further step: nothing here keeps state outside
the database).

`ScanQueue` has progress to promise. `FairQueueSpec` adds weak fairness of each
worker's own steps and of nothing else: `runWorker` is a loop whose every wait is a
timer, a database call that returns or throws, or a page visit under a timeout. New
scans, signals, kills and cancellations are never forced, nor is the landing of a
progress write. Under it a queued scan is eventually taken or cancelled as long as
a worker without a scan limit is left (`QueueDrains`: failed claims are retried and
never end such a worker), and a claimed scan ends unless a fault struck the very
worker that had it (`EveryScanEnds`).

`ConsentClient`, `Experiments` and `PageReports` assume no fairness: calls may be left
at any await. `NobodyWaitsForNothing` is the safety half of progress: a call that waits
waits for a request that exists, so it settles if requests do.

`EventPipeline` adds weak fairness of what a browser owes a loaded page: a timer
fires, the await of a consent session ends, `fetch` settles (with an answer or an
error), and its continuation runs. Nothing makes the visitor act, consent change, an
orphaned request arrive or the API answer well. Under it a page left open ends up with
nothing queued and no flush in progress (`QueueEmpties`): it delivers, is refused or
runs out of attempts. The finitely many events and changes of consent are part of
that claim: a visitor who produces events, or changes their mind while a batch fails,
for ever can keep a queue busy for ever.

## Proofs

`ConsentLog_proofs` (assumptions: those the modules state on their constants)

- `TypeCorrect`, from a per-action argument.
- `ChargesDistinct`: `ChargedOnce` is not inductive. The invariant adds that a
  request at `charge` saw a count below the cap, that no request holds a charge
  beyond its session's count, and that an unissued session was charged by no one:
  the conditional update then hands out a slot above every slot held.
- `ChainNeverForks`: the invariant says positions are positive, distinct and
  downward closed per principal, that every link is to the row one below, and that
  a request at `insert` aims one past a row that is (or was) the tip, with that
  row's id. The unique index turns the aim into an append.

- `SecretsProved`: the invariant, `SecretInv`, adds to `SessionProvesSecret` that the
  row of a minted principal is never unbound, so that no opener on one ever is at `bind`,
  the step that overwrites; that an opener about to issue on one holds its secret; and that
  a request past its charge is for a principal whose row exists, so that `CreatePrincipal`,
  which writes an unbound one, does not meet a minted row. Then no step writes the secret of
  a minted principal twice (`SecretsStand`), and what openers and sessions hold stays true.

- `ThrownOnlyInABurst`, `PinsExpire` and `LogImplementsRegister`, from `LogInv`: rows have
  distinct ids, each of a request that is recorded; no row that came through the route is
  dated more than the allowance ahead of its arrival; and a request is paid for (`PaidFor`): the position it aims at, or
  the tip it has yet to read, is as many above the tip it read first as it has lost attempts,
  because each collision shows it a row it had not seen. `LostOnlyToABurst` is the last case
  of that. For the refinement, a row that
  arrives either ranks above every row of its matter, and is the register's new decision, or
  below one, and changes nothing; the others leave the log as it is.

`SecureTransfer_proofs`

- `TransferTypeCorrect`, `SingleTransfer`, `AnswersStayTrue`, `DatedOnce` rest on
  `TransferInv`: rows are owned by the calls that were answered for them, no two
  submissions share an authorisation, *consumed* is equivalent to *somebody's
  row exists*, and an answer is backed by a status no step takes back.
- `UsesSingly`: every step of `SecureTransfer` is a step of `SingleUse` or a
  stutter, from the same invariant; in particular a stored transfer finds its
  authorisation `AUTHORISED`, because a consumed one has a row and the index
  would refuse.
- `WithdrawalHolds`: the additional invariant says the decision in force is the
  latest-dated of its matter, and that what a call cites had not been displaced by
  any decision that arrived before the call; a new decision's number is above what
  any call has seen.

`Scanner_proofs` (of `Crawl`: that the limits are numbers, pages and concurrency positive,
that a site's pages consist of what they should, and that `Nowhere` is none of them)

- All five safety properties of `ScanQueue`, from `QueueInv`: a worker past its claim
  holds a scan that has left the queue (so the conditional update, which finds it
  queued, hands it to nobody else); a scan in the queue has no counters and no
  writes on their way; and, for a worker that crawls, *what the row shows <= what
  any write on its way carries <= what it has counted <= what it has visited <= the
  page limit*. `CountersGrow` is that chain read step by step, and needs that at
  most one write per scan is on its way.
- `CrawlIsHonest`, from `CrawlInv`. Its heart is `Frontier`: there is a list of everything
  found, visited pages first, then the batch, then the queue, in which depths never fall and
  from the first page not yet collected on differ by at most one (`Ordered`); every URL of it
  but the start was reached by a link of a page one step nearer (`Reached`); and every link of
  a collected page leads to something in it no deeper than one step from the page, or was left
  out because it lay too deep or the queue was full (`Followed`). That a page's depth is its
  distance does not follow from any of these alone, and none survives a step alone: it is the
  order of depths that keeps a link found later from being a shorter way to a page already
  found, whichever page of a batch ended first. `DepthIsDistance` then compares the list with
  the URLs that lie *n* clicks away, by induction on *n*.
- Adding the links of a page, and the results of a batch, are recursions over sequences of any
  length. `Recursion` proves that a function defined by recursion over `0..n` exists, and
  `Induction` is induction over a set of naturals; both from `NatLessThanWellFounded` and
  `WFMin`, which take a relation and a set and no operator. `Adding` is what holds while the
  links of one page are added.
- `LimitTells` is `Tell` carried through: something was lost exactly when a limit was noted,
  inline scripts apart; and `EndTold` when the loop ends.
- `AnswersAreOwn`, from `AnswersOf`: every captured entry is of a request that was sent, a
  request settles once, and a request whose URL is no other's prefix has one entry at most and
  in its state. For such a request the first entry whose path begins its URL is its own.

`EventPipeline_proofs`

- The safety properties of the module, from `Inv`. Its part per
  page, `PageFine`, says which fields a phase leaves meaningful: a batch exists only
  during a flush; an idle page with a queue has a timer; *what the page took* is in its
  queue, its batch, the database or used up; a phase of `ok` means the batch is stored.
  That last clause needs the part about `wire`: a request a page waits for carries that
  page's batch, and only a page at `sent` waits. `localStorage` appears in none of this,
  which is why other tabs cannot disturb it.
- `SessionsAgree` compares a session row before and after a batch arrives: the stored
  events grow by those of the batch, whose minimum and maximum exist because sets of
  events are finite.

`Experiments_proofs` (the assumption beyond ranges: `NoRow` is no approval and no row)

- `ApprovalsSettle`: `ApprovalsSettled` speaks of committed rows, and says nothing of an
  approval between two statements. `ApprovalsInv` does: the version it read is at most the
  newest; if it is still the newest, then the row it holds is the approved one and nobody
  else has inserted; a transaction that has inserted holds the only row of that version. So
  whoever comes second waits on the row or the index and finds itself beaten, and rolls back.
- `OnlySoundIsShown` and `DecisionsCountAsShown`, from `ExperimentsInv`: no write looks at
  what was read before it, so what a call checked holds of the row it writes only while no
  other call wrote. That is enough. Variants are checked and written whole, so a row's are
  sound whoever wrote last; and until a call has `raced`, what a page shows was seen past the
  states in which it can be edited, to which no transition returns.

`ConsentClient_proofs` (that a browser has finitely many tabs and calls; `None` is neither)

- The four properties of the module, from `ClientInv`, which has five parts.
  `WaitInv` says what each phase of a page, a call and a request leaves meaningful: who
  waits, waits for a request of its own page that is under way. `NobodyWaitsForNothing` is
  part of it.
- `VoiceInv`: besides `OneVoice`, every session anybody holds was issued, and an answer on
  its way names the principal of its session. Without the latter the page that adopts it
  could speak with two voices.
- `OnceInv`: the call of a recorded decision is answered or over, which is why a refusal, the
  only answer that is posted again, is never about a recorded one.
- `MintInv` counts: while nothing fails, every principal is paid for by a tab that is
  `Spent`, one that has an identity, has been granted one, or is closed, and no tab is spent
  twice. It needs that a principal comes and goes with its secret, in every page and in
  `localStorage`, and that a request claims what its page has.
- `CurrentInv`: for a page that has the log to itself, what it shows is what the log says
  unless a recorded answer has yet to reach it; there is at most one such answer, because
  overlapping calls count as `mixed`. It starts from `FirstInv`: before the first decision of the
  browser nothing has a principal, so the log holds nobody else's rows.

`PageReports_proofs` (assumptions: those the modules state on their constants)

- `PageEnforcesItsPolicy` and `EnforcementIsUndone`, from `ControlsInv`. A wrapper is taken
  off by writing back what it found, so what `stop()` leaves depends on what every client
  found when it started. The invariant therefore says which wrappers each function has and
  what each undo would restore: only the client of `state.enforcement` has anything to undo;
  it found insertion unwrapped; and while stops came in order the wrapper of `fetch` put on
  last is the outermost and found the other (`FetchOK`), whichever of the two it is. Stops
  came in order as long as discovery was never started (`EnforcementStopsInOrder`), which is
  why every function is restored on such a page.
- `EvidenceIsSound`, from `EvidenceInv`: all the page holds was observed with the credentials
  it has, which a re-initialisation that changes them forgets; so what it sends was observed
  with the credentials it is sent with.

`Algorithms_proofs` (`Algorithms` assumes that the rules are such records as `policy/model.ts`
allows (`MatrixAssumption`), that `NoValue` is no Boolean, number or version
(`NullAssumption`), that bodies, pairs and redaction rules are made of keys and values as JSON
and the configuration are (`PayloadAssumption`, `RedactionAssumption`), that `Hosts` lists
the hosts of every vendor (`HostsAssumption`), that the keys of arms have an order
(`AssignmentAssumption`), that a rule of robots.txt allows or disallows (`RobotsAssumption`), and
that rows of one identity have the same material fields (`RowAssumption`); two of the theorems also need that null is no
function, `NullIsNoFunction`, which TLC cannot evaluate)

- The policy engine and the advice are pure, so most of this is about operators.
  `OnlyPermissionAllows`: the verdict is the least of a set in an order (`TheMostRestrictive`),
  and `ALLOW` is the last of that order, so it is taken only of a set of nothing else
  (`NothingElseAllows`). One rule contributes obligations that are neither `ALLOW`, `REVIEW`
  nor `BLOCK`, and a permission only if it is exempting (`RuleContributes`, one case for each
  branch of `contribute`).
- `WiderIsNoLooser`: more jurisdictions select more rules, of which each contributes the same;
  so the set the verdict is taken of grows. Only an answer nothing was selected for, or to
  which nothing selected contributed, may change to a looser one, and it is `Silent`.
- `OverridesAlwaysWin`, `WiderAdviceIsNoLooser` and `SilenceOffersNothing` carry this to the
  lines of the recommendation and to the controls: a requirement is never found to be
  `not_required`, and every rule that indicates a control obliges, asks or permits something.
- `WiderNeverLoosens` states `WiderNeverLooser` of what `Algorithms` asks, from `Posed`: the
  rules are of the matrix, and no vendor has two overrides.
- `SilencePermitsNothing` states `SilenceNeverPermits`. Two of its four parts are the theorems
  above, for what `Algorithms` asks, with one line for each override of a vendor that was not
  seen twice (`OneLineEach`). `NothingLeaves`: the rules made of the recommendations are those
  of an enforced vendor for one of its hosts, no more and no fewer (`EnforcementIs`), so the
  first that matches a host belongs to a vendor that is named there (`MatchingRuleIs`), and if
  it neither allows nor asks for what was granted, `OnlyPassesGo`.
- `DeclaredStays` is an induction on the depth of a body. What `findRule` answers for a key is
  what the rules declare of its path (`FindRuleTells`), and what is declared of a path is
  declared of every path below it (`DeclaredGrows`). `Beside` relates one depth of four
  things, the body, what the walk visits, what it makes of that from the deepest nodes up, and
  what is found in the result: the walk visits exactly what may go and may hold more, and
  all that is found is being made, is a scalar that may go, or covers something declared.
  `NodeKept` gives this for one array or object, `BesideBelow` carries it one depth down, and
  `BodyWalked` to the last, where nothing is left to visit unless the request was refused.
  The walk and the depths are recursive functions; `VisitedUnfolds`, `OpenedUnfolds` and
  `WalkUnfolds` show that the functions they choose exist as far as the walk goes.
- `WindowsAlwaysHold` states `WindowsHold`, of any limit, window length and table size and any
  number of requests and keys. `WindowsHold` counts requests and the limiter only knows the
  windows of its table; `Guarded` relates them, and holds after every request
  (`AlwaysGuarded`, by induction on their number; `GuardedNext` is one call). What a window has
  counted was let through since it was opened, up to the limit: so what is refused was
  preceded by as many as the limit allows (`RefusedAfterTheLimit`). And since any moment less
  than one window's length ago a key passed less often than the limit if its window is gone or
  older than that moment, and no oftener than that and what its window has counted if the
  window was opened since; unless a live window was forgotten. This is where *twice the limit*
  comes from (`LessThanTwice`). That eviction leaves room, whatever the table holds, is
  `HalfIsLeft` and `RoomIsMade`. The requests only need to come in the order of their times,
  which is part of `Posed`: the `Date.now()` of one process is taken not to go back.
- `OrderNeverDecides` states `OrderDecidesNothing`, of any number of arms, rules, agents and rows.
  What is sorted is read as its places in a strict order (`PlacesInRange`, `EveryPlaceTaken`),
  so valid arms, whose keys differ, are the same sequence from whatever order they came in
  (`BackwardsTheSame`). The allocations before a place grow with it up to the whole
  (`CursorGrows`; `TotalInAnyOrder` counts the units of allocation instead of adding them up, so
  that their sum does not depend on order), and an arm is given exactly the buckets between its
  own two (`ArmOfBucket`, `ShareOfArm`). The best of the rules is allowing or not by which rules
  match and nothing else: it is as long as the longest, and allows if one of those does
  (`BestDecides`). The lines of two groups are read as two groups (`GroupRead`,
  `TwoGroupsRead`, by induction on the agents of each), and the one that names the crawler is
  chosen wherever it is (`NamedIsChosen`). A comparison has one entry for each identity
  (`OneEntryEach`), which the other way round is the same entry flipped (`EntryFlipped`).
- `ProofsAlwaysTell` states `ProofsTell`, of any number of decisions, deployments, keys and
  tamperings. `ProofsTell` compares answers with rows and says nothing of how they came to be;
  `Ledger` does: a row was written by the release that was deployed, over the evidence it was
  made from and the tip of its chain at that time, and every column of it still says so unless
  the column is listed as `changed`; sequence numbers are unique and the removed rows' were
  too; the row before a row is in the table, or was removed. `IntegrityTells`, `SignatureTells`
  and `ChainTells` take one answer of the verifier each. A digest names its row because the
  document it is of contains the row's own sequence and predecessor (`DigestNames`), which is
  also why the proof of another row never passes (`NoneForAnother`).

Only model-checked: `ReportsAgree`, whose algorithms are folds of the community modules and
recursive operators over graphs and catalogues, which the prover cannot unfold; the liveness of
the scan queue and of the event pipeline (it cannot be proved with this prover); and the
violation runs.

## Plan

What is left, most important first:

1. An abstract job board (posted, taken once, delivered at most once) that `ScanQueue`
   implements.
2. The quality score, the analytics of consent (`database/consent-analytics.ts`) and the
   sessions of the dashboard.

## Not modelled

Cryptography (digests, signatures and envelopes are opaque), credentials and tenancy (single
look-ups), what a browser does to render a page, the quality score and the intelligence of
single pages (sums and tables over what `Findings` gives), analytics and audit logs,
dashboard sessions, the user interfaces, and the generated requirement matrix (data that the
policy engine takes as a parameter). `PROJECT.json` lists every component with its status.
