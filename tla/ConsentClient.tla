-------------------------- MODULE ConsentClient --------------------------
(* The consent client of the SDK (sdk/src/consent.ts) in the tabs of one    *)
(* browser, the localStorage they share, and the two endpoints it talks to. *)
(*                                                                          *)
(* A call of record() is a Call; several may be in flight in one page, since*)
(* nothing disables a banner's buttons. Requests for a session are kept by  *)
(* who started them, a call or (for a flush of analytics) a tab, so that    *)
(* sharing one is something the code does and not the shape of the model.   *)
(* A principal's secret is represented by the principal; the state of a     *)
(* principal by how many of its decisions the state covers.                 *)
EXTENDS Naturals, Sequences, FiniteSets

CONSTANTS Tab, Call,
          MaxPrincipals, MaxSessions,
          MaxLoads,     \* page loads per tab
          MaxReads,     \* getState() calls per tab
          None

ASSUME ClientAssumption ==
    /\ {MaxPrincipals, MaxSessions, MaxLoads, MaxReads} \subseteq Nat
    /\ Tab \cap Call = {} /\ IsFiniteSet(Tab \cup Call)
    /\ None \notin Tab \cup Call \cup Nat

Principal == 1..MaxPrincipals
Token == 1..MaxSessions
Starter == Call \cup Tab

VARIABLES
    page,      \* page[t]: the ConsentClient of the page open in t
    stored,    \* localStorage
    call,      \* call[c]: a record(), as its page sees it
    wire,      \* wire[c]: its POST /consent, as network and server see it
    asking,    \* asking[i]: the POST /consent/session that i started
    reading,   \* reading[t]: a GET /consent
    sessions,  \* the principal of each row of consent_sessions
    aged,      \* the sessions up to this one are too old to be used
    minted,    \* principals that exist or existed
    log,       \* the recorded decisions: whose, and the call that posted it
    mixed,     \* history: two answers for t were awaited at once since it loaded
    calm       \* history: t met neither clear(), nor a failed or rejected
               \* request, nor a second page load

server == <<sessions, aged, minted, log>>
vars == <<page, stored, call, wire, asking, reading, server, mixed, calm>>

NoState == [of |-> None, n |-> 0]
StateOf(p, decisions) ==
    [of |-> p, n |-> Cardinality({m \in 1..Len(decisions) : decisions[m].by = p})]

Closed == [open |-> FALSE, loads |-> 0, principal |-> None, secret |-> None,
           token |-> None, state |-> NoState, pending |-> None]
NoCall == [phase |-> "idle", tab |-> None, tries |-> 0, on |-> None]
NoPost == [at |-> "none", token |-> None, principal |-> None, code |-> "none",
           state |-> NoState]
NoAsk == [at |-> "none", tab |-> None, claim |-> None, secret |-> None,
          principal |-> None, token |-> None, fresh |-> FALSE]
NoRead == [at |-> "none", reads |-> 0, principal |-> None, state |-> NoState]
NoStore == [principal |-> None, secret |-> None, token |-> None, state |-> NoState]

Init ==
    /\ page = [t \in Tab |-> Closed]
    /\ stored = NoStore
    /\ call = [c \in Call |-> NoCall]
    /\ wire = [c \in Call |-> NoPost]
    /\ asking = [i \in Starter |-> NoAsk]
    /\ reading = [t \in Tab |-> NoRead]
    /\ sessions = <<>>
    /\ aged = 0
    /\ minted = 0
    /\ log = <<>>
    /\ mixed = [t \in Tab |-> FALSE]
    /\ calm = [t \in Tab |-> TRUE]

-----------------------------------------------------------------------------
(* The client.                                                              *)

\* getSessionToken: the token unless it is about to expire. Sessions live equally
\* long, so they grow old in the order they were issued in.
Live(k) == k # None /\ k > aged

\* What is left of a call in t whose promise has settled.
Settled(t, outcome) == [phase |-> outcome, tab |-> t, tries |-> 0, on |-> None]
Over(c, outcome) == Settled(call[c].tab, outcome)

Busy(t) == {c \in Call : call[c].tab = t /\ call[c].phase \in {"session", "posting"}}
Awaited(t) == Cardinality(Busy(t)) + (IF reading[t].at # "none" THEN 1 ELSE 0)

\* requestSession up to its fetch: the pair is presented when both are there.
Request(t, principal, secret) ==
    [NoAsk EXCEPT !.at = "sent", !.tab = t,
                  !.claim = IF secret # None THEN principal ELSE None,
                  !.secret = IF principal # None THEN secret ELSE None]

\* openSession, called by i in page pg of tab t: concurrent callers share one.
\* Mutant: every caller sends a request of its own.
SharesNever(pg) == FALSE
Shares(pg) == pg.pending # None
Opening(i, t, pg) == IF Shares(pg) THEN pg ELSE [pg EXCEPT !.pending = i]
Opened(i, t, pg) ==
    IF Shares(pg) THEN asking
    ELSE [asking EXCEPT ![i] = Request(t, pg.principal, pg.secret)]

\* The fetch of postDecision, with what the page holds at that moment.
Posted(pg) == [NoPost EXCEPT !.at = "sent", !.token = pg.token, !.principal = pg.principal]

\* postDecision of c in page pg: post with a live token, or await a session.
PostDecision(c, t, pg, tries) ==
    IF Live(pg.token) THEN
        /\ page' = [page EXCEPT ![t] = pg]
        /\ call' = [call EXCEPT ![c] =
              IF pg.principal = None THEN Settled(t, "failed")
              ELSE [phase |-> "posting", tab |-> t, tries |-> tries, on |-> None]]
        /\ wire' = [wire EXCEPT ![c] = IF pg.principal = None THEN NoPost ELSE Posted(pg)]
        /\ UNCHANGED asking
    ELSE
        /\ page' = [page EXCEPT ![t] = Opening(c, t, pg)]
        /\ asking' = Opened(c, t, pg)
        /\ call' = [call EXCEPT ![c] = [phase |-> "session", tab |-> t, tries |-> tries,
                                        on |-> page'[t].pending]]
        /\ wire' = [wire EXCEPT ![c] = NoPost]

\* A page is loaded: the constructor reads the identity, the session unless it
\* has expired, and the last state. (One inside the client's margin is restored,
\* but getSessionToken never returns it: the model drops it at once.)
Load(t) ==
    /\ ~page[t].open
    /\ page[t].loads < MaxLoads
    /\ LET token == IF Live(stored.token) THEN stored.token ELSE None
       IN  /\ page' = [page EXCEPT ![t] =
                 [open |-> TRUE, loads |-> @.loads + 1, principal |-> stored.principal,
                  secret |-> stored.secret, token |-> token, state |-> stored.state,
                  pending |-> None]]
           /\ stored' = [stored EXCEPT !.token = token]
    /\ mixed' = [mixed EXCEPT ![t] = FALSE]
    /\ calm' = [calm EXCEPT ![t] = page[t].loads = 0]
    /\ UNCHANGED <<call, wire, asking, reading, server>>

\* The page is left: whoever awaited an answer is gone, requests on their way
\* are not. (A session request nobody waits for can only leave an orphan row.)
Close(t) ==
    /\ page[t].open
    /\ page' = [page EXCEPT ![t] = [Closed EXCEPT !.loads = page[t].loads]]
    /\ call' = [c \in Call |-> IF c \in Busy(t)
                               THEN Over(c, "failed")
                               ELSE call[c]]
    /\ asking' = [i \in Starter |-> IF asking[i].tab = t THEN NoAsk ELSE asking[i]]
    /\ reading' = [reading EXCEPT ![t] = [NoRead EXCEPT !.reads = reading[t].reads]]
    /\ UNCHANGED <<stored, wire, server, mixed, calm>>

\* The visitor decides: record() up to its first await.
Record(c, t) ==
    /\ page[t].open
    /\ call[c].phase = "idle"
    /\ PostDecision(c, t, page[t], 1)
    /\ mixed' = [mixed EXCEPT ![t] = @ \/ Awaited(t) > 0]
    /\ UNCHANGED <<stored, reading, server, calm>>

\* ensureSessionForKnownPrincipal: what a flush of analytics awaits.
EnsureSession(t) ==
    /\ page[t].open
    /\ ~Live(page[t].token)
    /\ page[t].principal # None /\ page[t].secret # None
    /\ page[t].pending = None
    /\ page' = [page EXCEPT ![t] = Opening(t, t, page[t])]
    /\ asking' = Opened(t, t, page[t])
    /\ UNCHANGED <<stored, call, wire, reading, server, mixed, calm>>

\* However a session request ends, the page may start another (finally).
\* Mutant: the request is kept as the pending one.
EndedOnSuccess(pg) == pg
Ended(pg) == [pg EXCEPT !.pending = None]

\* The waiters of a session request i throw.
Throw(i) == [c \in Call |-> IF call[c].phase = "session" /\ call[c].on = i
                            THEN Over(c, "failed")
                            ELSE call[c]]

\* A session is granted: identity and token are adopted and persisted, the
\* secret only when the answer carries one, and every waiter posts.
\* Mutant: an identity the page has is kept.
AdoptedIfNew(a, pg) == IF pg.principal = None THEN a.principal ELSE pg.principal
Adopted(a, pg) == a.principal

Adopt(i) ==
    LET a == asking[i]
        t == a.tab
        pg == [Ended(page[t]) EXCEPT !.principal = Adopted(a, page[t]), !.token = a.token,
                                     !.secret = IF a.fresh THEN a.principal ELSE @]
        waits(c) == call[c].phase = "session" /\ call[c].on = i
    IN  /\ a.at = "granted"
        /\ page' = [page EXCEPT ![t] = pg]
        /\ stored' = [stored EXCEPT !.principal = a.principal, !.token = a.token,
                                    !.secret = IF a.fresh THEN a.principal ELSE @]
        /\ asking' = [asking EXCEPT ![i] = NoAsk]
        /\ call' = [c \in Call |-> IF waits(c) THEN [call[c] EXCEPT !.phase = "posting", !.on = None]
                                   ELSE call[c]]
        /\ wire' = [c \in Call |-> IF waits(c) THEN Posted(pg) ELSE wire[c]]
        /\ UNCHANGED <<reading, server, mixed, calm>>

\* 401: a page that has an identity drops it, here and in localStorage, and
\* asks again as somebody new; one that has none throws.
Rejected(i) ==
    LET t == asking[i].tab IN
    /\ asking[i].at = "refused"
    /\ calm' = [calm EXCEPT ![t] = FALSE]
    /\ IF page[t].principal # None THEN
          /\ page' = [page EXCEPT ![t].principal = None, ![t].secret = None]
          /\ stored' = [stored EXCEPT !.principal = None, !.secret = None]
          /\ asking' = [asking EXCEPT ![i] = Request(t, None, None)]
          /\ UNCHANGED call
       ELSE
          /\ page' = [page EXCEPT ![t] = Ended(@)]
          /\ asking' = [asking EXCEPT ![i] = NoAsk]
          /\ call' = Throw(i)
          /\ UNCHANGED stored
    /\ UNCHANGED <<wire, reading, server, mixed>>

\* The request or its answer is lost, or the answer is any other error.
AskFails(i) ==
    /\ asking[i].at # "none"
    /\ page' = [page EXCEPT ![asking[i].tab] = Ended(@)]
    /\ asking' = [asking EXCEPT ![i] = NoAsk]
    /\ call' = Throw(i)
    /\ calm' = [calm EXCEPT ![asking[i].tab] = FALSE]
    /\ UNCHANGED <<stored, wire, reading, server, mixed>>

\* The decision is recorded: the state in the answer replaces the cached one.
Recorded(c) ==
    LET t == call[c].tab IN
    /\ call[c].phase = "posting" /\ wire[c].code = "recorded"
    /\ call' = [call EXCEPT ![c] = Over(c, "recorded")]
    /\ page' = [page EXCEPT ![t].state = wire[c].state]
    /\ stored' = [stored EXCEPT !.state = wire[c].state]
    /\ wire' = [wire EXCEPT ![c] = NoPost]
    /\ UNCHANGED <<asking, reading, server, mixed, calm>>

\* 401 or 429: the session is forgotten and the decision posted once more.
MayRetry(c) == call[c].tries = 1

Refused(c) ==
    LET t == call[c].tab IN
    /\ call[c].phase = "posting" /\ wire[c].code = "refused"
    /\ IF MayRetry(c)
       THEN /\ PostDecision(c, t, [page[t] EXCEPT !.token = None], call[c].tries + 1)
            /\ stored' = [stored EXCEPT !.token = None]
       ELSE /\ call' = [call EXCEPT ![c] = Over(c, "failed")]
            /\ wire' = [wire EXCEPT ![c] = NoPost]
            /\ UNCHANGED <<page, stored, asking>>
    /\ UNCHANGED <<reading, server, mixed, calm>>

\* The fetch throws, or the answer is another error (a mismatch, a 500): the
\* request may still be on its way.
PostFails(c) ==
    /\ call[c].phase = "posting"
    /\ call' = [call EXCEPT ![c] = Over(c, "failed")]
    /\ calm' = [calm EXCEPT ![call[c].tab] = FALSE]
    /\ UNCHANGED <<page, stored, wire, asking, reading, server, mixed>>

\* getState(): only for a page that has a principal.
GetState(t) ==
    /\ page[t].open /\ page[t].principal # None
    /\ reading[t].at = "none" /\ reading[t].reads < MaxReads
    /\ reading' = [reading EXCEPT ![t] = [at |-> "sent", reads |-> @.reads + 1,
                                          principal |-> page[t].principal, state |-> NoState]]
    /\ mixed' = [mixed EXCEPT ![t] = @ \/ Awaited(t) > 0]
    /\ UNCHANGED <<page, stored, call, wire, asking, server, calm>>

\* Its answer replaces the cached state; a failure leaves it.
GotState(t) ==
    /\ reading[t].at = "answered"
    /\ page' = [page EXCEPT ![t].state = reading[t].state]
    /\ stored' = [stored EXCEPT !.state = reading[t].state]
    /\ reading' = [reading EXCEPT ![t] = [NoRead EXCEPT !.reads = reading[t].reads]]
    /\ UNCHANGED <<call, wire, asking, server, mixed, calm>>

GetStateFails(t) ==
    /\ reading[t].at # "none"
    /\ reading' = [reading EXCEPT ![t] = [NoRead EXCEPT !.reads = reading[t].reads]]
    /\ UNCHANGED <<page, stored, call, wire, asking, server, mixed, calm>>

\* clear(): identity, session and state are forgotten; nothing in flight is.
Clear(t) ==
    /\ page[t].open
    /\ page' = [page EXCEPT ![t] = [@ EXCEPT !.principal = None, !.secret = None,
                                             !.token = None, !.state = NoState]]
    /\ stored' = NoStore
    /\ calm' = [calm EXCEPT ![t] = FALSE]
    /\ UNCHANGED <<call, wire, asking, reading, server, mixed>>

-----------------------------------------------------------------------------
(* The server, and time.                                                    *)

\* POST /consent/session: a principal is minted, or the pair is checked.
ServeSession(i) ==
    LET a == asking[i]
        p == IF a.claim = None THEN minted + 1 ELSE a.claim
        known == a.claim # None
        valid == known => a.secret = a.claim
    IN  /\ a.at = "sent"
        /\ IF ~valid THEN
              /\ asking' = [asking EXCEPT ![i].at = "refused"]
              /\ UNCHANGED <<sessions, minted>>
           ELSE
              /\ p \in Principal /\ Len(sessions) < MaxSessions
              /\ minted' = IF known THEN minted ELSE p
              /\ sessions' = Append(sessions, p)
              /\ asking' = [asking EXCEPT ![i] = [@ EXCEPT
                     !.at = "granted", !.principal = p, !.fresh = ~known,
                     !.token = Len(sessions) + 1]]
        /\ UNCHANGED <<page, stored, call, wire, reading, aged, log, mixed, calm>>

\* guardIngest answers before either endpoint: 401 for a site key that is no
\* longer good, 429 for a visitor over a limit. The client cannot tell the first
\* from a rejected principal, nor the second from a session that is used up.
TurnAway(i) ==
    /\ asking[i].at = "sent"
    /\ asking' = [asking EXCEPT ![i].at = "refused"]
    /\ UNCHANGED <<page, stored, call, wire, reading, server, mixed, calm>>

\* POST /consent: the session is compared with the body, charged, the decision
\* recorded and the effective state read back. (A session that has expired or is
\* used up, or was charged by a parallel decision since it was read, is a refusal:
\* Submit and Charge of ConsentLog.)
\* Mutant: a refused decision is recorded.
LogAfterAlways(c, charged) ==
    Append(log, [by |-> sessions[wire[c].token], call |-> c])
LogAfter(c, charged) ==
    IF charged THEN Append(log, [by |-> sessions[wire[c].token], call |-> c]) ELSE log

\* Mutant: the state is read before the decision is recorded.
ToldBefore(p) == StateOf(p, log)
Told(p) == StateOf(p, log')

Decide(c) ==
    LET p == sessions[wire[c].token]
        mismatch == p # wire[c].principal
    IN
    /\ wire[c].at = "sent"
    /\ \E charged \in BOOLEAN :
         /\ log' = IF mismatch THEN log ELSE LogAfter(c, charged)
         /\ wire' = [wire EXCEPT ![c].at = "answered",
                ![c].code = IF mismatch THEN "mismatch" ELSE IF charged THEN "recorded" ELSE "refused",
                ![c].state = IF ~mismatch /\ charged THEN Told(p) ELSE NoState]
    /\ UNCHANGED <<page, stored, call, asking, reading, sessions, aged, minted, mixed, calm>>

AnswerRead(t) ==
    /\ reading[t].at = "sent"
    /\ reading' = [reading EXCEPT ![t].at = "answered",
                                  ![t].state = StateOf(reading[t].principal, log)]
    /\ UNCHANGED <<page, stored, call, wire, asking, server, mixed, calm>>

\* The oldest session still in use gets too old.
Age ==
    /\ aged < Len(sessions)
    /\ aged' = aged + 1
    /\ UNCHANGED <<page, stored, call, wire, asking, reading, sessions, minted, log, mixed,
                   calm>>

-----------------------------------------------------------------------------
Settles(c) == Recorded(c) \/ Refused(c) \/ PostFails(c)
AskSettles(i) == Adopt(i) \/ Rejected(i) \/ AskFails(i)

Next ==
    \/ \E t \in Tab : \/ Load(t) \/ Close(t) \/ EnsureSession(t) \/ Clear(t)
                      \/ GetState(t) \/ GotState(t) \/ GetStateFails(t) \/ AnswerRead(t)
                      \/ \E c \in Call : Record(c, t)
    \/ \E c \in Call : Settles(c) \/ Decide(c)
    \/ \E i \in Starter : AskSettles(i) \/ TurnAway(i) \/ ServeSession(i)
    \/ Age

Spec == Init /\ [][Next]_vars

-----------------------------------------------------------------------------
Maybe(S) == S \cup {None}
State == [of : Maybe(Principal), n : Nat]
Page == [open : BOOLEAN, loads : 0..MaxLoads, principal : Maybe(Principal),
         secret : Maybe(Principal), token : Maybe(Token), state : State,
         pending : Maybe(Starter)]
Store == [principal : Maybe(Principal), secret : Maybe(Principal), token : Maybe(Token),
          state : State]
CallState == [phase : {"idle", "session", "posting", "recorded", "failed"},
              tab : Maybe(Tab), tries : 0..2, on : Maybe(Starter)]
Post == [at : {"none", "sent", "answered"}, token : Maybe(Token), principal : Maybe(Principal),
         code : {"none", "refused", "mismatch", "recorded"}, state : State]
Ask == [at : {"none", "sent", "granted", "refused"}, tab : Maybe(Tab),
        claim : Maybe(Principal), secret : Maybe(Principal), principal : Maybe(Principal),
        token : Maybe(Token), fresh : BOOLEAN]
Read == [at : {"none", "sent", "answered"}, reads : 0..MaxReads, principal : Maybe(Principal),
         state : State]

TypeOK ==
    /\ page \in [Tab -> Page] /\ stored \in Store
    /\ call \in [Call -> CallState] /\ wire \in [Call -> Post]
    /\ asking \in [Starter -> Ask] /\ reading \in [Tab -> Read]
    /\ sessions \in Seq(Principal) /\ log \in Seq([by : Principal, call : Call])
    /\ aged \in 0..MaxSessions /\ minted \in 0..MaxPrincipals
    /\ mixed \in [Tab -> BOOLEAN] /\ calm \in [Tab -> BOOLEAN]

\* A page never holds a live session of one principal and the identity of
\* another, nor does localStorage, and no decision is posted in the name of one
\* with the session of another ("a token that outlived the identity it speaks
\* for would let the next visitor keep writing as the last one",
\* sdk/src/consent.ts:345-346), whatever clear(), other tabs and late answers do.
Speaks(h) == h.token # None /\ Live(h.token) /\ h.principal # None
                => sessions[h.token] = h.principal
OneVoice ==
    /\ \A t \in Tab : page[t].open => Speaks(page[t])
    /\ Speaks(stored)
    /\ \A c \in Call : wire[c].code # "mismatch"

\* Decisions taken at once on a first visit make one principal and no orphans
\* (sdk/src/consent.ts:374-380): where nothing failed, was rejected or cleared,
\* there is at most one principal for each tab that was opened.
MintedOnce ==
    (\A t \in Tab : calm[t]) => minted <= Cardinality({t \in Tab : page[t].loads > 0})

\* record() posts again after a refusal (sdk/src/consent.ts:247-251), and a
\* refusal by the server is final for that request, so no decision of a visitor
\* is recorded twice.
RecordedOnce ==
    \A m, n \in 1..Len(log) : log[m].call = log[n].call => m = n

\* What is shared is done once and what is retried takes effect once: one
\* principal for the decisions of a first visit, one row for each decision.
OnceEach == MintedOnce /\ RecordedOnce

\* "There is no read-after-write round trip and no window where the cache
\* disagrees" (sdk/src/consent.ts:488-489), as far as it is true: a page that has
\* the log to itself, whose requests never failed and never overlapped, shows
\* every decision of its principal as soon as its calls have returned.
CurrentWhenAlone ==
    \A t \in Tab :
        page[t].open /\ calm[t] /\ ~mixed[t] /\ Awaited(t) = 0
            /\ page[t].principal # None /\ (\A c \in Call : call[c].tab \in {None, t})
        => page[t].state.n = StateOf(page[t].principal, log).n

\* The promise of record() settles, if requests do: a call that waits for a
\* session waits for a request that is under way, and so will the next one, though
\* calls share requests, start them over, and are refused or retried (types hold).
NobodyWaitsForNothing ==
    /\ TypeOK
    /\ \A c \in Call : call[c].phase = "session" => asking[call[c].on].at # "none"
    /\ \A t \in Tab : page[t].pending # None => asking[page[t].pending].at # "none"
    /\ \A c \in Call : call[c].phase = "posting" => wire[c].at # "none"
=============================================================================
