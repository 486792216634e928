------------------------ MODULE ConsentClient_proofs ------------------------
(***************************************************************************)
(* What holds of the consent client for every number of tabs, calls,       *)
(* principals, sessions, page loads and reads.                             *)
(*                                                                         *)
(* The invariant is in five parts, each resting on those before it: who    *)
(* waits for which request; which sessions are held and in whose name;     *)
(* which decisions have been recorded; which tabs can no longer make the   *)
(* server mint a principal; and what a page that is alone has been told.   *)
(***************************************************************************)
EXTENDS ConsentClient, Integers, FiniteSetTheorems, TLAPS

(***************************************************************************)
(* The invariant.                                                          *)
(***************************************************************************)
\* A page has at most one session request under way: its pending one.
PageOK(t) ==
    /\ ~page[t].open => /\ page[t].principal = None /\ page[t].token = None
                        /\ page[t].pending = None
    /\ page[t].open => page[t].loads > 0
    /\ page[t].loads = 0 => calm[t]
    /\ page[t].pending # None => /\ asking[page[t].pending].at # "none"
                                 /\ asking[page[t].pending].tab = t

AskOK(i) ==
    asking[i].at # "none" =>
        /\ asking[i].tab \in Tab
        /\ page[asking[i].tab].open /\ page[asking[i].tab].pending = i
        /\ i \in Tab => asking[i].tab = i
        /\ i \in Call => /\ call[i].phase = "session" /\ call[i].on = i
                         /\ call[i].tab = asking[i].tab

CallOK(c) ==
    /\ call[c].phase = "idle" <=> call[c].tab = None
    /\ call[c].tab # None => page[call[c].tab].loads > 0
    /\ call[c].phase \in {"idle", "session"} => wire[c].at = "none"
    /\ call[c].phase \in {"session", "posting"} => call[c].tries \in {1, 2}
    /\ call[c].phase = "session" => /\ call[c].on \in Starter
                                    /\ asking[call[c].on].at # "none"
                                    /\ asking[call[c].on].tab = call[c].tab
    /\ call[c].phase = "posting" => page[call[c].tab].open /\ wire[c].at # "none"

Waits ==
    /\ \A t \in Tab : PageOK(t)
    /\ \A i \in Starter : AskOK(i)
    /\ \A c \in Call : CallOK(c)

WaitInv == TypeOK /\ Waits

\* A session that is held was issued, and what is asked or posted with it names
\* its principal.
Issued(k) == k # None => k \in 1..Len(sessions)
Names(h) == h.token \in 1..Len(sessions) /\ h.principal = sessions[h.token]

VoiceInv ==
    /\ aged <= Len(sessions) /\ Len(sessions) <= MaxSessions
    /\ \A t \in Tab : Issued(page[t].token) /\ Speaks(page[t])
    /\ Issued(stored.token) /\ Speaks(stored)
    /\ \A i \in Starter : asking[i].at = "granted" => Names(asking[i])
    /\ \A c \in Call : wire[c].at # "none" => Names(wire[c])
    /\ \A c \in Call : wire[c].code # "mismatch"

\* A decision that is in the log will not be posted again.
Done(c) ==
    \/ wire[c].at = "answered" /\ wire[c].code = "recorded"
    \/ wire[c].at = "none" /\ call[c].phase \in {"recorded", "failed"}

OnceInv ==
    /\ \A c \in Call : wire[c].at # "answered" => wire[c].code = "none"
    /\ \A m \in 1..Len(log) : Done(log[m].call)
    /\ RecordedOnce

\* While nothing fails, a tab whose page has an identity, is about to get one or
\* is closed asks for no new principal.
Spent(t) ==
    /\ page[t].loads > 0
    /\ \/ ~page[t].open
       \/ page[t].principal # None
       \/ page[t].pending # None /\ asking[page[t].pending].at = "granted"

Calm == \A t \in Tab : calm[t]

\* An identity is a pair, in every page and in localStorage, and is shown whole.
Pairs ==
    /\ stored.principal = None <=> stored.secret = None
    /\ \A t \in Tab : page[t].open =>
          /\ page[t].principal = None <=> page[t].secret = None
          /\ page[t].secret # None => stored.secret # None

Claims ==
    \A i \in Starter : asking[i].at # "none" =>
        /\ asking[i].claim = None <=> page[asking[i].tab].principal = None
        /\ asking[i].at = "granted" => (asking[i].fresh <=> asking[i].claim = None)

MintInv ==
    Calm => minted <= Cardinality({t \in Tab : Spent(t)}) /\ Pairs /\ Claims

\* Before the first decision there is no principal to speak for.
Untouched == \A c \in Call : call[c].tab = None

FirstInv ==
    Untouched =>
        /\ log = <<>>
        /\ stored.principal = None /\ stored.secret = None /\ stored.state.n = 0
        /\ \A t \in Tab : page[t].principal = None /\ page[t].secret = None
        /\ \A t \in Tab : page[t].state.n = 0 /\ reading[t].at = "none"
        /\ \A i \in Starter : asking[i].at = "none"

\* A page that has the log to itself, and whose requests came one by one.
Alone(t) ==
    /\ page[t].open /\ calm[t] /\ ~mixed[t]
    /\ \A c \in Call : call[c].tab \in {None, t}

InForce(t) == StateOf(page[t].principal, log).n

Told1(t) ==
    /\ \A m \in 1..Len(log) : log[m].by = page[t].principal
    /\ page[t].principal = None <=> page[t].secret = None
    /\ \A c, d \in Busy(t) : c = d
    /\ reading[t].at # "none" => /\ Busy(t) = {} /\ reading[t].principal # None
                                 /\ reading[t].principal = page[t].principal
    /\ reading[t].at = "answered" => reading[t].state.n = InForce(t)
    /\ \A c \in Call : wire[c].at # "none" =>
          call[c].phase = "posting" /\ wire[c].principal = page[t].principal
    /\ \A c \in Call : wire[c].code = "recorded" => wire[c].state.n = InForce(t)
    /\ (\A c \in Call : wire[c].code # "recorded") => page[t].state.n = InForce(t)
    /\ \A i \in Starter : asking[i].at # "none" /\ asking[i].tab = t =>
          /\ asking[i].claim = page[t].principal
          /\ asking[i].at = "granted" =>
                /\ asking[i].fresh <=> asking[i].claim = None
                /\ asking[i].claim # None => asking[i].principal = asking[i].claim

CurrentInv == FirstInv /\ \A t \in Tab : Alone(t) => Told1(t)

ClientInv == WaitInv /\ VoiceInv /\ OnceInv /\ MintInv /\ CurrentInv

(***************************************************************************)
(* Types.                                                                  *)
(***************************************************************************)
LEMMA ItemTyped ==
    ASSUME NEW S, NEW s \in Seq(S), NEW m \in 1..Len(s)
    PROVE  s[m] \in S
OBVIOUS

LEMMA StateTyped ==
    ASSUME NEW p \in Maybe(Principal), NEW l \in Seq([by : Principal, call : Call])
    PROVE  StateOf(p, l) \in State /\ StateOf(p, l).of = p
<1>. DEFINE M == {m \in 1..Len(l) : l[m].by = p}
<1>1. IsFiniteSet(1..Len(l)) /\ M \subseteq 1..Len(l)
  BY FS_Interval
<1>2. Cardinality(M) \in Nat
  BY <1>1, FS_Subset, FS_CardinalityType
<1>. QED  BY <1>2 DEF StateOf, State

LEMMA NoThings ==
    /\ NoState \in State /\ NoState.n = 0
    /\ NoCall \in CallState /\ NoCall.phase = "idle" /\ NoCall.tab = None
    /\ NoPost \in Post /\ NoPost.at = "none" /\ NoPost.code = "none"
    /\ NoAsk \in Ask /\ NoAsk.at = "none"
    /\ NoStore \in Store /\ NoStore.token = None /\ NoStore.principal = None
    /\ NoRead \in Read /\ NoRead.at = "none"
    /\ Closed \in Page /\ ~Closed.open /\ Closed.pending = None /\ Closed.loads = 0
    /\ Closed.principal = None /\ Closed.token = None
<1>1. NoState \in State /\ NoState.n = 0
  BY DEF NoState, State, Maybe
<1>2. 0 \in 0..MaxLoads /\ 0 \in 0..MaxReads
  BY ClientAssumption
<1>. QED
  BY <1>1, <1>2 DEF NoCall, CallState, NoPost, Post, NoAsk, Ask, NoStore, Store, NoRead, Read,
                    Closed, Page, Maybe

LEMMA SettledIs ==
    ASSUME NEW outcome \in {"recorded", "failed"}, NEW t \in Maybe(Tab)
    PROVE  /\ Settled(t, outcome) \in CallState /\ Settled(t, outcome).phase = outcome
           /\ Settled(t, outcome).tab = t /\ Settled(t, outcome).tries = 0
BY DEF Settled, CallState, Maybe

LEMMA OverIs ==
    ASSUME TypeOK, NEW c \in Call, NEW outcome \in {"recorded", "failed"}
    PROVE  /\ Over(c, outcome) \in CallState /\ Over(c, outcome).phase = outcome
           /\ Over(c, outcome).tab = call[c].tab
<1>1. call[c].tab \in Maybe(Tab)
  BY DEF TypeOK, CallState
<1>. QED  BY <1>1, SettledIs DEF Over

LEMMA RequestIs ==
    ASSUME NEW t \in Tab, NEW p \in Maybe(Principal), NEW s \in Maybe(Principal)
    PROVE  /\ Request(t, p, s) \in Ask /\ Request(t, p, s).at = "sent" /\ Request(t, p, s).tab = t
           /\ Request(t, p, s).claim = (IF s # None THEN p ELSE None)
BY DEF Request, NoAsk, Ask, Maybe

LEMMA PostedIs ==
    ASSUME NEW pg \in Page
    PROVE  /\ Posted(pg) \in Post /\ Posted(pg).at = "sent" /\ Posted(pg).code = "none"
           /\ Posted(pg).token = pg.token /\ Posted(pg).principal = pg.principal
BY DEF Posted, NoPost, Post, Page, NoState, State, Maybe

\* What postDecision leaves of the page, the call, the post and the requests.
LEMMA PostDecisionDoes ==
    ASSUME TypeOK, NEW c \in Call, NEW t \in Tab, NEW pg \in Page, NEW tries \in {1, 2},
           PostDecision(c, t, pg, tries)
    PROVE  \/ /\ Live(pg.token) /\ pg.principal # None
              /\ page' = [page EXCEPT ![t] = pg] /\ asking' = asking
              /\ call' = [call EXCEPT ![c] = [phase |-> "posting", tab |-> t, tries |-> tries,
                                              on |-> None]]
              /\ wire' = [wire EXCEPT ![c] = Posted(pg)]
           \/ /\ Live(pg.token) /\ pg.principal = None
              /\ page' = [page EXCEPT ![t] = pg] /\ asking' = asking
              /\ call' = [call EXCEPT ![c] = Settled(t, "failed")]
              /\ wire' = [wire EXCEPT ![c] = NoPost]
           \/ /\ ~Live(pg.token) /\ pg.pending # None
              /\ page' = [page EXCEPT ![t] = pg] /\ asking' = asking
              /\ call' = [call EXCEPT ![c] = [phase |-> "session", tab |-> t, tries |-> tries,
                                              on |-> pg.pending]]
              /\ wire' = [wire EXCEPT ![c] = NoPost]
           \/ /\ ~Live(pg.token) /\ pg.pending = None
              /\ page' = [page EXCEPT ![t] = [pg EXCEPT !.pending = c]]
              /\ asking' = [asking EXCEPT ![c] = Request(t, pg.principal, pg.secret)]
              /\ call' = [call EXCEPT ![c] = [phase |-> "session", tab |-> t, tries |-> tries,
                                              on |-> c]]
              /\ wire' = [wire EXCEPT ![c] = NoPost]
<1>1. CASE Live(pg.token)
  BY <1>1 DEF PostDecision
<1>2. CASE ~Live(pg.token) /\ pg.pending # None
  <2>1. page' = [page EXCEPT ![t] = pg] /\ asking' = asking
    BY <1>2 DEF PostDecision, Opening, Opened, Shares
  <2>2. page'[t] = pg
    BY <2>1 DEF TypeOK
  <2>. QED  BY <1>2, <2>1, <2>2 DEF PostDecision
<1>3. CASE ~Live(pg.token) /\ pg.pending = None
  <2>1. /\ page' = [page EXCEPT ![t] = [pg EXCEPT !.pending = c]]
        /\ asking' = [asking EXCEPT ![c] = Request(t, pg.principal, pg.secret)]
    BY <1>3 DEF PostDecision, Opening, Opened, Shares
  <2>2. page'[t].pending = c
    BY <2>1 DEF TypeOK, Page
  <2>. QED  BY <1>3, <2>1, <2>2 DEF PostDecision
<1>. QED  BY <1>1, <1>2, <1>3

(***************************************************************************)
(* Who waits for what: one lemma for each kind of step.                    *)
(***************************************************************************)
\* A step after which the same calls wait for the same requests.
LEMMA QuietKeepsWaits ==
    ASSUME WaitInv, call' = call,
           \A u \in Tab : /\ page'[u].open <=> page[u].open
                          /\ page'[u].loads = page[u].loads
                          /\ page'[u].pending = page[u].pending
                          /\ \/ page[u].open
                             \/ /\ page'[u].principal = page[u].principal
                                /\ page'[u].token = page[u].token /\ calm'[u] = calm[u],
           \A i \in Starter : /\ asking'[i].tab = asking[i].tab
                              /\ asking'[i].at = "none" <=> asking[i].at = "none",
           \A c \in Call : wire'[c].at = "none" <=> wire[c].at = "none"
    PROVE  Waits'
<1>0. /\ \A u \in Tab : page[u].pending \in Maybe(Starter)
      /\ \A c \in Call : call[c].tab \in Maybe(Tab) /\ call[c].on \in Maybe(Starter)
      /\ \A i \in Starter : asking[i].tab \in Maybe(Tab)
  BY DEF WaitInv, TypeOK, Page, CallState, Ask
<1>1. ASSUME NEW u \in Tab  PROVE PageOK(u)'
  <2>1. PageOK(u)
    BY DEF WaitInv, Waits
  <2>2. page[u].pending # None => page[u].pending \in Starter
    BY <1>0 DEF Maybe
  <2>. QED  BY <2>1, <2>2 DEF PageOK
<1>2. ASSUME NEW i \in Starter  PROVE AskOK(i)'
  BY DEF WaitInv, Waits, AskOK
<1>3. ASSUME NEW c \in Call  PROVE CallOK(c)'
  <2>1. CallOK(c)
    BY DEF WaitInv, Waits
  <2>2. call[c].tab # None => call[c].tab \in Tab
    BY <1>0 DEF Maybe
  <2>3. call[c].phase = "posting" => call[c].tab \in Tab
    BY <2>1, <2>2 DEF CallOK
  <2>. QED  BY <2>1, <2>2, <2>3 DEF CallOK
<1>. QED  BY <1>1, <1>2, <1>3 DEF Waits

\* The page of a call under way is open in its tab.
LEMMA BusyIsOpen ==
    ASSUME WaitInv, NEW c \in Call, call[c].phase \in {"session", "posting"}
    PROVE  /\ call[c].tab \in Tab /\ page[call[c].tab].open /\ page[call[c].tab].loads > 0
           /\ call[c].tries \in {1, 2}
<1>1. CallOK(c) /\ call[c].tab \in Maybe(Tab) /\ call[c].on \in Maybe(Starter)
  BY DEF WaitInv, Waits, TypeOK, CallState
<1>2. call[c].tab \in Tab
  BY <1>1 DEF CallOK, Maybe
<1>3. page[call[c].tab].open
  <2>1. CASE call[c].phase = "posting"
    BY <1>1, <2>1 DEF CallOK
  <2>2. CASE call[c].phase = "session"
    <3>1. /\ call[c].on \in Starter /\ asking[call[c].on].at # "none"
          /\ asking[call[c].on].tab = call[c].tab
      BY <1>1, <2>2 DEF CallOK
    <3>. QED  BY <3>1 DEF WaitInv, Waits, AskOK
  <2>. QED  BY <2>1, <2>2
<1>. QED  BY <1>1, <1>2, <1>3 DEF WaitInv, Waits, PageOK, CallOK

\* A request ends: the page may start another, and every call that waited for it
\* goes on to post or is over.
LEMMA EndingKeepsWaits ==
    ASSUME WaitInv, NEW i \in Starter, asking[i].at # "none",
           asking' = [asking EXCEPT ![i] = NoAsk],
           \A u \in Tab : /\ page'[u].open <=> page[u].open
                          /\ page'[u].loads = page[u].loads
                          /\ u # asking[i].tab => page'[u] = page[u] /\ calm'[u] = calm[u],
           page'[asking[i].tab].pending = None,
           \A c \in Call :
              IF call[c].phase = "session" /\ call[c].on = i
              THEN /\ call'[c].tab = call[c].tab
                   /\ \/ call'[c].phase = "failed"
                      \/ /\ call'[c].phase = "posting" /\ call'[c].tries = call[c].tries
                         /\ wire'[c].at # "none"
              ELSE call'[c] = call[c] /\ wire'[c] = wire[c]
    PROVE  Waits'
<1>0. /\ AskOK(i) /\ asking[i].tab \in Tab /\ page[asking[i].tab].open
      /\ page[asking[i].tab].pending = i /\ page[asking[i].tab].loads > 0
  BY DEF WaitInv, Waits, AskOK, PageOK
<1>1. /\ asking'[i].at = "none" /\ \A j \in Starter \ {i} : asking'[j] = asking[j]
  BY NoThings DEF WaitInv, TypeOK
<1>2. /\ \A u \in Tab : page[u].pending \in Maybe(Starter)
      /\ \A c \in Call : call[c].tab \in Maybe(Tab) /\ call[c].on \in Maybe(Starter)
  BY DEF WaitInv, TypeOK, Page, CallState
<1>3. ASSUME NEW u \in Tab  PROVE PageOK(u)'
  <2>1. PageOK(u)
    BY DEF WaitInv, Waits
  <2>2. CASE u = asking[i].tab
    BY <1>0, <2>2 DEF PageOK
  <2>3. CASE u # asking[i].tab
    <3>1. page[u].pending # None => page[u].pending \in Starter \ {i}
      BY <1>0, <1>2, <2>1, <2>3 DEF PageOK, Maybe
    <3>. QED  BY <1>1, <2>1, <2>3, <3>1 DEF PageOK
  <2>. QED  BY <2>2, <2>3
<1>4. ASSUME NEW j \in Starter  PROVE AskOK(j)'
  <2>1. AskOK(j)
    BY DEF WaitInv, Waits
  <2>2. CASE j = i
    BY <1>1, <2>2 DEF AskOK
  <2>3. CASE j # i /\ asking[j].at # "none"
    <3>1. asking[j].tab # asking[i].tab
      BY <1>0, <2>1, <2>3 DEF AskOK
    <3>2. j \in Call => call'[j] = call[j]
      BY <2>1, <2>3 DEF AskOK
    <3>. QED  BY <1>1, <2>1, <2>3, <3>1, <3>2 DEF AskOK
  <2>. QED  BY <1>1, <2>2, <2>3 DEF AskOK
<1>5. ASSUME NEW c \in Call  PROVE CallOK(c)'
  <2>1. CallOK(c)
    BY DEF WaitInv, Waits
  <2>2. call[c].tab # None => call[c].tab \in Tab
    BY <1>2 DEF Maybe
  <2>3. CASE call[c].phase = "session" /\ call[c].on = i
    <3>1. call[c].tab \in Tab /\ page[call[c].tab].open /\ call[c].tries \in {1, 2}
      BY <2>3, BusyIsOpen
    <3>2. call'[c].tab = call[c].tab /\ call'[c].phase \in {"failed", "posting"}
      BY <2>3
    <3>. QED  BY <2>1, <2>2, <2>3, <3>1, <3>2 DEF CallOK
  <2>4. CASE ~(call[c].phase = "session" /\ call[c].on = i)
    <3>1. call'[c] = call[c] /\ wire'[c] = wire[c]
      BY <2>4
    <3>2. call[c].phase = "session" => asking'[call[c].on] = asking[call[c].on]
      BY <1>1, <2>1, <2>4 DEF CallOK
    <3>3. call[c].phase = "posting" => call[c].tab \in Tab
      BY BusyIsOpen
    <3>. QED  BY <2>1, <2>2, <3>1, <3>2, <3>3 DEF CallOK
  <2>. QED  BY <2>3, <2>4
<1>. QED  BY <1>3, <1>4, <1>5 DEF Waits

\* A call posts, or awaits a session.
LEMMA PostDecisionKeepsWaits ==
    ASSUME WaitInv, NEW c \in Call, NEW t \in Tab, NEW pg \in Page, NEW tries \in {1, 2},
           page[t].open, pg.open, pg.loads = page[t].loads, pg.pending = page[t].pending,
           call[c].phase \in {"idle", "posting"}, PostDecision(c, t, pg, tries), calm' = calm
    PROVE  /\ page' \in [Tab -> Page] /\ call' \in [Call -> CallState]
           /\ wire' \in [Call -> Post] /\ asking' \in [Starter -> Ask]
           /\ Waits'
<1>0. /\ page \in [Tab -> Page] /\ call \in [Call -> CallState]
      /\ wire \in [Call -> Post] /\ asking \in [Starter -> Ask]
      /\ c \in Starter /\ t # None /\ c # None /\ c \notin Tab /\ c \in Maybe(Starter)
      /\ None \notin Starter
      /\ \A u \in Tab : page[u].pending # None => page[u].pending \in Starter
  BY ClientAssumption DEF WaitInv, TypeOK, Starter, Maybe, Page
<1>1. /\ \A u \in Tab : PageOK(u)
      /\ \A i \in Starter : AskOK(i)
      /\ \A d \in Call : CallOK(d)
      /\ asking[c].at = "none"
  BY <1>0 DEF WaitInv, Waits, AskOK
<1>2. pg.loads > 0
  BY <1>1 DEF PageOK
<1>3. ASSUME page' = [page EXCEPT ![t] = pg], asking' = asking,
             call' \in [Call -> CallState], \A d \in Call \ {c} : call'[d] = call[d],
             wire' \in [Call -> Post], \A d \in Call \ {c} : wire'[d] = wire[d],
             call'[c].tab = t, call'[c].phase \in {"posting", "session", "failed"},
             call'[c].phase # "failed" => call'[c].tries \in {1, 2},
             call'[c].phase = "posting" => wire'[c].at # "none",
             call'[c].phase = "session" => /\ wire'[c].at = "none"
                                           /\ call'[c].on = pg.pending /\ pg.pending # None
      PROVE  page' \in [Tab -> Page] /\ asking' \in [Starter -> Ask] /\ Waits'
  <2>1. page'[t] = pg /\ \A u \in Tab \ {t} : page'[u] = page[u]
    BY <1>0, <1>3
  <2>2. \A u \in Tab : PageOK(u)'
    BY <1>1, <1>2, <1>3, <2>1 DEF PageOK
  <2>3. \A j \in Starter : AskOK(j)'
    BY <1>1, <1>3, <2>1 DEF AskOK
  <2>4. CallOK(c)'
    BY <1>0, <1>1, <1>2, <1>3, <2>1 DEF CallOK, PageOK
  <2>5. \A d \in Call \ {c} : CallOK(d)'
    BY <1>0, <1>1, <1>3, <2>1 DEF CallOK
  <2>. QED  BY <1>0, <1>3, <2>2, <2>3, <2>4, <2>5 DEF Waits
<1>4. CASE /\ ~Live(pg.token) /\ pg.pending = None
           /\ page' = [page EXCEPT ![t] = [pg EXCEPT !.pending = c]]
           /\ asking' = [asking EXCEPT ![c] = Request(t, pg.principal, pg.secret)]
           /\ call' = [call EXCEPT ![c] = [phase |-> "session", tab |-> t, tries |-> tries,
                                           on |-> c]]
           /\ wire' = [wire EXCEPT ![c] = NoPost]
  <2>. DEFINE new == [phase |-> "session", tab |-> t, tries |-> tries, on |-> c]
              now == [pg EXCEPT !.pending = c]
              ask == Request(t, pg.principal, pg.secret)
  <2>1. /\ new \in CallState /\ new.phase = "session" /\ new.tab = t /\ new.on = c
        /\ new.tries = tries
    BY <1>0 DEF CallState, Maybe
  <2>2. /\ now \in Page /\ now.open /\ now.loads = pg.loads /\ now.pending = c
    BY <1>0 DEF Page
  <2>3. ask \in Ask /\ ask.at = "sent" /\ ask.tab = t
    <3>1. pg.principal \in Maybe(Principal) /\ pg.secret \in Maybe(Principal)
      BY DEF Page
    <3>. QED  BY <3>1, RequestIs
  <2>4. /\ page' = [page EXCEPT ![t] = now] /\ asking' = [asking EXCEPT ![c] = ask]
        /\ call' = [call EXCEPT ![c] = new] /\ wire' = [wire EXCEPT ![c] = NoPost]
    BY <1>4
  <2>. HIDE DEF new, now, ask
  <2>5. /\ page'[t] = now /\ \A u \in Tab \ {t} : page'[u] = page[u]
        /\ call'[c] = new /\ \A d \in Call \ {c} : call'[d] = call[d]
        /\ wire'[c].at = "none" /\ \A d \in Call \ {c} : wire'[d] = wire[d]
        /\ asking'[c] = ask /\ \A i \in Starter \ {c} : asking'[i] = asking[i]
    BY <1>0, <2>4, NoThings
  <2>6. \A u \in Tab : PageOK(u)'
    BY <1>0, <1>1, <1>2, <1>4, <2>2, <2>3, <2>5 DEF PageOK
  <2>7. \A i \in Starter : asking[i].at # "none" => asking[i].tab # t /\ i # c
    <3>1. page[t].pending = None
      BY <1>4
    <3>2. TAKE i \in Starter
    <3>3. HAVE asking[i].at # "none"
    <3>4. page[asking[i].tab].pending = i /\ i # None
      BY <1>0, <1>1, <3>3 DEF AskOK
    <3>. QED  BY <1>1, <3>1, <3>3, <3>4
  <2>8. \A i \in Starter : AskOK(i)'
    BY <1>0, <1>1, <2>1, <2>2, <2>3, <2>5, <2>7 DEF AskOK
  <2>9. \A d \in Call : CallOK(d)'
    <3>1. CallOK(c)'
      BY <1>0, <1>2, <2>1, <2>2, <2>3, <2>5 DEF CallOK
    <3>2. ASSUME NEW d \in Call \ {c}  PROVE CallOK(d)'
      <4>1. /\ CallOK(d) /\ call'[d] = call[d] /\ wire'[d] = wire[d]
            /\ call[d].tab \in Maybe(Tab)
        BY <1>0, <1>1, <2>5 DEF CallState
      <4>2. \A u \in Tab : (page'[u].open <=> page[u].open) /\ page'[u].loads = page[u].loads
        BY <2>2, <2>5
      <4>3. call[d].phase = "session" => call[d].on # c /\ asking'[call[d].on] = asking[call[d].on]
        BY <1>1, <2>5, <4>1 DEF CallOK
      <4>. QED  BY <4>1, <4>2, <4>3 DEF CallOK, Maybe
    <3>. QED  BY <3>1, <3>2
  <2>. QED
    BY <1>0, <2>1, <2>2, <2>3, <2>4, <2>6, <2>8, <2>9, NoThings DEF Waits
<1>5. CASE /\ page' = [page EXCEPT ![t] = pg] /\ asking' = asking
           /\ call' = [call EXCEPT ![c] = [phase |-> "posting", tab |-> t, tries |-> tries,
                                           on |-> None]]
           /\ wire' = [wire EXCEPT ![c] = Posted(pg)]
  <2>. DEFINE new == [phase |-> "posting", tab |-> t, tries |-> tries, on |-> None]
  <2>1. /\ new \in CallState /\ new.phase = "posting" /\ new.tab = t /\ new.tries = tries
    BY <1>0 DEF CallState, Maybe
  <2>2. call' = [call EXCEPT ![c] = new]
    BY <1>5
  <2>. HIDE DEF new
  <2>3. /\ call' \in [Call -> CallState] /\ call'[c] = new
        /\ wire' \in [Call -> Post] /\ wire'[c].at = "sent"
        /\ \A d \in Call \ {c} : call'[d] = call[d] /\ wire'[d] = wire[d]
    BY <1>0, <1>5, <2>1, <2>2, PostedIs
  <2>. QED  BY <1>3, <1>5, <2>1, <2>3
<1>6. CASE /\ page' = [page EXCEPT ![t] = pg] /\ asking' = asking
           /\ call' = [call EXCEPT ![c] = Settled(t, "failed")]
           /\ wire' = [wire EXCEPT ![c] = NoPost]
  <2>. DEFINE new == Settled(t, "failed")
  <2>1. /\ new \in CallState /\ new.phase = "failed" /\ new.tab = t /\ new.tries = 0
    BY <1>0, SettledIs DEF Maybe
  <2>2. call' = [call EXCEPT ![c] = new]
    BY <1>6
  <2>. HIDE DEF new
  <2>3. /\ call' \in [Call -> CallState] /\ call'[c] = new
        /\ wire' \in [Call -> Post] /\ wire'[c].at = "none"
        /\ \A d \in Call \ {c} : call'[d] = call[d] /\ wire'[d] = wire[d]
    BY <1>0, <1>6, <2>1, <2>2, NoThings
  <2>. QED  BY <1>3, <1>6, <2>1, <2>3
<1>7. CASE /\ pg.pending # None
           /\ page' = [page EXCEPT ![t] = pg] /\ asking' = asking
           /\ call' = [call EXCEPT ![c] = [phase |-> "session", tab |-> t, tries |-> tries,
                                           on |-> pg.pending]]
           /\ wire' = [wire EXCEPT ![c] = NoPost]
  <2>. DEFINE new == [phase |-> "session", tab |-> t, tries |-> tries, on |-> pg.pending]
  <2>0. pg.pending \in Maybe(Starter)
    BY DEF Page
  <2>1. /\ new \in CallState /\ new.phase = "session" /\ new.tab = t /\ new.tries = tries
        /\ new.on = pg.pending
    BY <1>0, <2>0 DEF CallState, Maybe
  <2>2. call' = [call EXCEPT ![c] = new]
    BY <1>7
  <2>. HIDE DEF new
  <2>3. /\ call' \in [Call -> CallState] /\ call'[c] = new
        /\ wire' \in [Call -> Post] /\ wire'[c].at = "none"
        /\ \A d \in Call \ {c} : call'[d] = call[d] /\ wire'[d] = wire[d]
    BY <1>0, <1>7, <2>1, <2>2, NoThings
  <2>. QED  BY <1>3, <1>7, <2>1, <2>3
<1>. QED
  <2>1. TypeOK
    BY DEF WaitInv
  <2>. HIDE DEF Waits
  <2>2. CASE Live(pg.token) /\ pg.principal # None
    BY <1>5, <2>1, <2>2, PostDecisionDoes
  <2>3. CASE Live(pg.token) /\ pg.principal = None
    BY <1>6, <2>1, <2>3, PostDecisionDoes
  <2>4. CASE ~Live(pg.token) /\ pg.pending # None
    BY <1>7, <2>1, <2>4, PostDecisionDoes
  <2>5. CASE ~Live(pg.token) /\ pg.pending = None
    BY <1>4, <2>1, <2>5, PostDecisionDoes
  <2>. QED  BY <2>2, <2>3, <2>4, <2>5

\* What a page may do on its own.
LEMMA LoadKeepsWaits ==
    ASSUME ClientAssumption, WaitInv, NEW t \in Tab, Load(t)
    PROVE  WaitInv'
<1>. DEFINE token == IF Live(stored.token) THEN stored.token ELSE None
            now == [open |-> TRUE, loads |-> page[t].loads + 1, principal |-> stored.principal,
                    secret |-> stored.secret, token |-> token, state |-> stored.state,
                    pending |-> None]
<1>1. /\ page' = [page EXCEPT ![t] = now] /\ stored' = [stored EXCEPT !.token = token]
      /\ ~page[t].open /\ page[t].loads < MaxLoads
      /\ mixed' = [mixed EXCEPT ![t] = FALSE] /\ calm' = [calm EXCEPT ![t] = page[t].loads = 0]
      /\ UNCHANGED <<call, wire, asking, reading, sessions, aged, minted, log>>
  BY DEF Load, server
<1>2. token \in Maybe(Token) /\ stored \in Store
  BY DEF WaitInv, TypeOK, Store, Maybe
<1>3. page[t].loads \in 0..MaxLoads /\ MaxLoads \in Nat
  BY ClientAssumption DEF WaitInv, TypeOK, Page
<1>4. /\ now \in Page /\ now.open /\ now.loads = page[t].loads + 1 /\ now.pending = None
      /\ now.loads \in Nat \ {0}
  <2>1. page[t].loads + 1 \in 0..MaxLoads /\ page[t].loads + 1 \in Nat \ {0}
    BY <1>1, <1>3
  <2>. HIDE DEF token
  <2>. QED  BY <1>2, <2>1 DEF Page, Store, Maybe
<1>5. stored' \in Store
  <2>. HIDE DEF token
  <2>. QED  BY <1>1, <1>2 DEF Store
<1>. HIDE DEF now, token
<1>6. /\ page' \in [Tab -> Page] /\ page'[t] = now /\ \A u \in Tab \ {t} : page'[u] = page[u]
      /\ calm' \in [Tab -> BOOLEAN] /\ mixed' \in [Tab -> BOOLEAN]
      /\ \A u \in Tab \ {t} : calm'[u] = calm[u]
  BY <1>1, <1>4 DEF WaitInv, TypeOK
<1>7. TypeOK'
  BY <1>1, <1>5, <1>6 DEF WaitInv, TypeOK
<1>8. Waits'
  <2>1. ASSUME NEW u \in Tab  PROVE PageOK(u)'
    BY <1>1, <1>4, <1>6 DEF WaitInv, Waits, PageOK
  <2>2. ASSUME NEW i \in Starter  PROVE AskOK(i)'
    BY <1>1, <1>6 DEF WaitInv, Waits, AskOK
  <2>3. ASSUME NEW c \in Call  PROVE CallOK(c)'
    <3>1. /\ CallOK(c) /\ call[c].tab \in Maybe(Tab)
      BY DEF WaitInv, Waits, TypeOK, CallState
    <3>2. call[c].phase = "posting" => call[c].tab \in Tab /\ call[c].tab # t
      BY <1>1, BusyIsOpen
    <3>3. call[c].tab # None => call[c].tab \in Tab /\ page'[call[c].tab].loads > 0
      BY <1>4, <1>6, <3>1 DEF CallOK, Maybe
    <3>. QED  BY <1>1, <1>6, <3>1, <3>2, <3>3 DEF CallOK
  <2>. QED  BY <2>1, <2>2, <2>3 DEF Waits
<1>. QED  BY <1>7, <1>8 DEF WaitInv

LEMMA CloseKeepsWaits ==
    ASSUME WaitInv, NEW t \in Tab, Close(t)
    PROVE  WaitInv'
<1>. DEFINE now == [Closed EXCEPT !.loads = page[t].loads]
            none == [NoRead EXCEPT !.reads = reading[t].reads]
<1>1. /\ page' = [page EXCEPT ![t] = now] /\ reading' = [reading EXCEPT ![t] = none]
      /\ call' = [c \in Call |-> IF c \in Busy(t) THEN Over(c, "failed") ELSE call[c]]
      /\ asking' = [i \in Starter |-> IF asking[i].tab = t THEN NoAsk ELSE asking[i]]
      /\ page[t].open
      /\ UNCHANGED <<stored, wire, sessions, aged, minted, log, mixed, calm>>
  BY DEF Close, server
<1>2. /\ page[t].loads \in 0..MaxLoads /\ reading[t].reads \in 0..MaxReads
  BY DEF WaitInv, TypeOK, Page, Read
<1>3. /\ now \in Page /\ ~now.open /\ now.loads = page[t].loads /\ now.pending = None
      /\ now.principal = None /\ now.token = None
  BY <1>2, NoThings DEF Page, Closed
<1>4. none \in Read
  BY <1>2, NoThings DEF Read
<1>. HIDE DEF now, none
<1>5. /\ page' \in [Tab -> Page] /\ page'[t] = now /\ \A u \in Tab \ {t} : page'[u] = page[u]
      /\ reading' \in [Tab -> Read]
  BY <1>1, <1>3, <1>4 DEF WaitInv, TypeOK
<1>6. \A c \in Call : IF c \in Busy(t) THEN call'[c] = Over(c, "failed") ELSE call'[c] = call[c]
  BY <1>1
<1>7. \A i \in Starter : IF asking[i].tab = t THEN asking'[i] = NoAsk ELSE asking'[i] = asking[i]
  BY <1>1
<1>8. TypeOK'
  <2>1. call' \in [Call -> CallState]
    BY <1>1, OverIs DEF WaitInv, TypeOK
  <2>2. asking' \in [Starter -> Ask]
    BY <1>1, NoThings DEF WaitInv, TypeOK
  <2>. QED  BY <1>1, <1>5, <2>1, <2>2 DEF WaitInv, TypeOK
<1>9. Waits'
  <2>1. ASSUME NEW u \in Tab  PROVE PageOK(u)'
    <3>1. PageOK(u) /\ page[u].pending \in Maybe(Starter)
      BY DEF WaitInv, Waits, TypeOK, Page
    <3>2. CASE u = t
      BY <1>1, <1>3, <1>5, <3>1, <3>2 DEF PageOK
    <3>3. CASE u # t
      BY <1>1, <1>5, <1>7, <3>1, <3>3 DEF PageOK, Maybe
    <3>. QED  BY <3>2, <3>3
  <2>2. ASSUME NEW i \in Starter  PROVE AskOK(i)'
    <3>1. AskOK(i)
      BY DEF WaitInv, Waits
    <3>2. CASE asking[i].tab = t
      BY <1>7, <3>2, NoThings DEF AskOK
    <3>3. CASE asking[i].tab # t
      <4>1. i \in Call /\ asking[i].at # "none" => call'[i] = call[i]
        BY <1>6, <3>1, <3>3 DEF AskOK, Busy
      <4>. QED  BY <1>5, <1>7, <3>1, <3>3, <4>1 DEF AskOK
    <3>. QED  BY <3>2, <3>3
  <2>3. ASSUME NEW c \in Call  PROVE CallOK(c)'
    <3>1. /\ CallOK(c) /\ call[c].tab \in Maybe(Tab)
      BY DEF WaitInv, Waits, TypeOK, CallState
    <3>2. call[c].tab # None => call[c].tab \in Tab /\ page'[call[c].tab].loads > 0
      BY <1>3, <1>5, <3>1 DEF CallOK, Maybe
    <3>3. CASE c \in Busy(t)
      <4>1. call'[c].phase = "failed" /\ call'[c].tab = call[c].tab
        BY <1>6, <3>3, OverIs DEF WaitInv
      <4>2. call[c].tab = t /\ t # None
        BY <3>3, ClientAssumption DEF Busy
      <4>. QED  BY <3>2, <4>1, <4>2 DEF CallOK
    <3>4. CASE c \notin Busy(t)
      <4>1. call'[c] = call[c] /\ wire'[c] = wire[c]
        BY <1>1, <1>6, <3>4
      <4>2. call[c].phase \in {"session", "posting"} => call[c].tab \in Tab \ {t}
        BY <3>4, BusyIsOpen DEF Busy
      <4>3. call[c].phase = "session" => asking'[call[c].on] = asking[call[c].on]
        BY <1>7, <3>1, <4>2 DEF CallOK
      <4>. QED  BY <1>5, <3>1, <3>2, <4>1, <4>2, <4>3 DEF CallOK
    <3>. QED  BY <3>3, <3>4
  <2>. QED  BY <2>1, <2>2, <2>3 DEF Waits
<1>. QED  BY <1>8, <1>9 DEF WaitInv

LEMMA RecordKeepsWaits ==
    ASSUME WaitInv, NEW c \in Call, NEW t \in Tab, Record(c, t)
    PROVE  WaitInv'
<1>1. page[t] \in Page /\ page[t].open /\ call[c].phase \in {"idle", "posting"}
  BY DEF WaitInv, TypeOK, Record
<1>2. PostDecision(c, t, page[t], 1) /\ calm' = calm
  BY DEF Record
<1>3. /\ page' \in [Tab -> Page] /\ call' \in [Call -> CallState]
      /\ wire' \in [Call -> Post] /\ asking' \in [Starter -> Ask]
      /\ Waits'
  BY <1>1, <1>2, PostDecisionKeepsWaits
<1>4. mixed' \in [Tab -> BOOLEAN]
  <2>1. mixed' = [mixed EXCEPT ![t] = mixed[t] \/ Awaited(t) > 0]
    BY DEF Record
  <2>. QED  BY <2>1 DEF WaitInv, TypeOK
<1>. QED  BY <1>3, <1>4 DEF WaitInv, TypeOK, Record, server

LEMMA EnsureSessionKeepsWaits ==
    ASSUME WaitInv, NEW t \in Tab, EnsureSession(t)
    PROVE  WaitInv'
<1>. DEFINE now == [page[t] EXCEPT !.pending = t]
            ask == Request(t, page[t].principal, page[t].secret)
<1>0. /\ page \in [Tab -> Page] /\ asking \in [Starter -> Ask] /\ page[t] \in Page
      /\ t \in Starter /\ t \notin Call /\ t # None
  BY ClientAssumption DEF WaitInv, TypeOK, Starter
<1>1. /\ page' = [page EXCEPT ![t] = now] /\ asking' = [asking EXCEPT ![t] = ask]
      /\ page[t].open /\ page[t].pending = None
      /\ UNCHANGED <<stored, call, wire, reading, sessions, aged, minted, log, mixed, calm>>
  BY DEF EnsureSession, Opening, Opened, Shares, server
<1>2. /\ now \in Page /\ now.open /\ now.loads = page[t].loads /\ now.pending = t
  BY <1>0, <1>1 DEF Page, Maybe
<1>3. ask \in Ask /\ ask.at = "sent" /\ ask.tab = t
  <2>1. page[t].principal \in Maybe(Principal) /\ page[t].secret \in Maybe(Principal)
    BY <1>0 DEF Page
  <2>. QED  BY <2>1, RequestIs
<1>. HIDE DEF now, ask
<1>4. /\ page' \in [Tab -> Page] /\ page'[t] = now /\ \A u \in Tab \ {t} : page'[u] = page[u]
      /\ asking' \in [Starter -> Ask] /\ asking'[t] = ask
      /\ \A i \in Starter \ {t} : asking'[i] = asking[i]
  BY <1>0, <1>1, <1>2, <1>3
<1>5. TypeOK'
  BY <1>1, <1>4 DEF WaitInv, TypeOK
<1>6. ASSUME NEW i \in Starter, asking[i].at # "none"
      PROVE  asking[i].tab # t /\ i # t
  <2>1. /\ page[asking[i].tab].pending = i /\ i # None
        /\ i \in Tab => asking[i].tab = i
    BY <1>6, ClientAssumption DEF WaitInv, Waits, AskOK, Starter
  <2>. QED  BY <1>1, <2>1
<1>7. Waits'
  <2>1. ASSUME NEW u \in Tab  PROVE PageOK(u)'
    <3>1. PageOK(u) /\ page[u].pending \in Maybe(Starter)
      BY DEF WaitInv, Waits, TypeOK, Page
    <3>2. CASE u = t
      BY <1>1, <1>2, <1>3, <1>4, <3>1, <3>2 DEF PageOK
    <3>3. CASE u # t
      BY <1>0, <1>1, <1>4, <1>6, <3>1, <3>3 DEF PageOK, Maybe
    <3>. QED  BY <3>2, <3>3
  <2>2. ASSUME NEW i \in Starter  PROVE AskOK(i)'
    <3>1. AskOK(i)
      BY DEF WaitInv, Waits
    <3>2. CASE i = t
      BY <1>0, <1>2, <1>3, <1>4, <3>2 DEF AskOK
    <3>3. CASE i # t
      BY <1>1, <1>4, <1>6, <3>1, <3>3 DEF AskOK
    <3>. QED  BY <3>2, <3>3
  <2>3. ASSUME NEW c \in Call  PROVE CallOK(c)'
    <3>1. /\ CallOK(c) /\ call[c].tab \in Maybe(Tab)
      BY DEF WaitInv, Waits, TypeOK, CallState
    <3>2. \A u \in Tab : (page'[u].open <=> page[u].open) /\ page'[u].loads = page[u].loads
      BY <1>1, <1>2, <1>4
    <3>3. call[c].phase = "session" => asking'[call[c].on] = asking[call[c].on]
      BY <1>0, <1>4, <1>6, <3>1 DEF CallOK
    <3>4. call[c].phase = "posting" => call[c].tab \in Tab
      BY BusyIsOpen
    <3>. QED  BY <1>1, <3>1, <3>2, <3>3, <3>4 DEF CallOK, Maybe
  <2>. QED  BY <2>1, <2>2, <2>3 DEF Waits
<1>. QED  BY <1>5, <1>7 DEF WaitInv

LEMMA ClearKeepsWaits ==
    ASSUME WaitInv, NEW t \in Tab, Clear(t)
    PROVE  WaitInv'
<1>. DEFINE now == [page[t] EXCEPT !.principal = None, !.secret = None, !.token = None,
                                   !.state = NoState]
<1>1. /\ page' = [page EXCEPT ![t] = now] /\ stored' = NoStore
      /\ calm' = [calm EXCEPT ![t] = FALSE] /\ page[t].open
      /\ UNCHANGED <<call, wire, asking, reading, sessions, aged, minted, log, mixed>>
  BY DEF Clear, server
<1>2. page[t] \in Page
  BY DEF WaitInv, TypeOK
<1>3. /\ now \in Page /\ now.open /\ now.loads = page[t].loads /\ now.pending = page[t].pending
  BY <1>1, <1>2, NoThings DEF Page, Maybe
<1>. HIDE DEF now
<1>4. TypeOK'
  BY <1>1, <1>3, NoThings DEF WaitInv, TypeOK
<1>5. Waits'
  BY <1>1, <1>3, QuietKeepsWaits DEF WaitInv, TypeOK
<1>. QED  BY <1>4, <1>5 DEF WaitInv

\* How a request for a session ends.
LEMMA AdoptDoes ==
    ASSUME WaitInv, NEW i \in Starter, Adopt(i)
    PROVE  /\ asking[i].at = "granted" /\ asking[i].tab \in Tab /\ page[asking[i].tab].open
           /\ page' \in [Tab -> Page] /\ \A u \in Tab \ {asking[i].tab} : page'[u] = page[u]
           /\ page'[asking[i].tab].open
           /\ page'[asking[i].tab].loads = page[asking[i].tab].loads
           /\ page'[asking[i].tab].pending = None
           /\ page'[asking[i].tab].state = page[asking[i].tab].state
           /\ page'[asking[i].tab].token = asking[i].token
           /\ page'[asking[i].tab].principal = asking[i].principal
           /\ page'[asking[i].tab].secret = IF asking[i].fresh THEN asking[i].principal
                                            ELSE page[asking[i].tab].secret
           /\ stored' \in Store /\ stored'.state = stored.state
           /\ stored'.token = asking[i].token /\ stored'.principal = asking[i].principal
           /\ stored'.secret = IF asking[i].fresh THEN asking[i].principal ELSE stored.secret
           /\ asking' \in [Starter -> Ask] /\ asking' = [asking EXCEPT ![i] = NoAsk]
           /\ call' \in [Call -> CallState] /\ wire' \in [Call -> Post]
           /\ \A c \in Call :
                IF call[c].phase = "session" /\ call[c].on = i
                THEN /\ call'[c].tab = call[c].tab /\ call'[c].phase = "posting"
                     /\ call'[c].tries = call[c].tries
                     /\ wire'[c].at = "sent" /\ wire'[c].code = "none"
                     /\ wire'[c].token = asking[i].token
                     /\ wire'[c].principal = asking[i].principal
                ELSE call'[c] = call[c] /\ wire'[c] = wire[c]
           /\ UNCHANGED <<reading, sessions, aged, minted, log, mixed, calm>>
<1>. DEFINE a == asking[i]
            t == asking[i].tab
            now == [Ended(page[t]) EXCEPT !.principal = Adopted(a, page[t]), !.token = a.token,
                                          !.secret = IF a.fresh THEN a.principal ELSE @]
            kept == [stored EXCEPT !.principal = a.principal, !.token = a.token,
                                   !.secret = IF a.fresh THEN a.principal ELSE @]
            waits(c) == call[c].phase = "session" /\ call[c].on = i
<1>1. /\ a.at = "granted"
      /\ page' = [page EXCEPT ![t] = now] /\ stored' = kept
      /\ asking' = [asking EXCEPT ![i] = NoAsk]
      /\ call' = [c \in Call |-> IF waits(c) THEN [call[c] EXCEPT !.phase = "posting", !.on = None]
                                 ELSE call[c]]
      /\ wire' = [c \in Call |-> IF waits(c) THEN Posted(now) ELSE wire[c]]
      /\ UNCHANGED <<reading, sessions, aged, minted, log, mixed, calm>>
  BY DEF Adopt, server
<1>2. a \in Ask /\ t \in Tab /\ page[t] \in Page /\ page[t].open /\ stored \in Store
  BY <1>1 DEF WaitInv, TypeOK, Waits, AskOK
<1>3. /\ now \in Page /\ now.open /\ now.loads = page[t].loads
      /\ now.pending = None /\ now.state = page[t].state /\ now.token = a.token
      /\ now.principal = a.principal
      /\ now.secret = IF a.fresh THEN a.principal ELSE page[t].secret
  BY <1>2 DEF Ended, Adopted, Page, Ask, Maybe
<1>4. /\ kept \in Store /\ kept.state = stored.state /\ kept.token = a.token
      /\ kept.principal = a.principal
      /\ kept.secret = IF a.fresh THEN a.principal ELSE stored.secret
  BY <1>2 DEF Store, Ask, Maybe
<1>. HIDE DEF now, kept
<1>5. /\ page' \in [Tab -> Page] /\ page'[t] = now /\ \A u \in Tab \ {t} : page'[u] = page[u]
  BY <1>1, <1>2, <1>3 DEF WaitInv, TypeOK
<1>6. ASSUME NEW c \in Call
      PROVE  /\ call'[c] \in CallState /\ wire'[c] \in Post
             /\ IF waits(c)
                THEN /\ call'[c].tab = call[c].tab /\ call'[c].phase = "posting"
                     /\ call'[c].tries = call[c].tries
                     /\ wire'[c].at = "sent" /\ wire'[c].code = "none"
                     /\ wire'[c].token = a.token /\ wire'[c].principal = a.principal
                ELSE call'[c] = call[c] /\ wire'[c] = wire[c]
  <2>1. call[c] \in CallState /\ wire[c] \in Post
    BY DEF WaitInv, TypeOK
  <2>2. CASE waits(c)
    <3>1. /\ call'[c] = [call[c] EXCEPT !.phase = "posting", !.on = None]
          /\ wire'[c] = Posted(now)
      BY <1>1, <2>2
    <3>2. /\ wire'[c] \in Post /\ wire'[c].at = "sent" /\ wire'[c].code = "none"
          /\ wire'[c].token = a.token /\ wire'[c].principal = a.principal
      BY <1>3, <3>1, PostedIs
    <3>. QED  BY <2>1, <2>2, <3>1, <3>2 DEF CallState, Maybe
  <2>3. CASE ~waits(c)
    BY <1>1, <2>1, <2>3
  <2>. QED  BY <2>2, <2>3
<1>7. call' \in [Call -> CallState] /\ wire' \in [Call -> Post]
  BY <1>1, <1>6
<1>8. asking' \in [Starter -> Ask]
  BY <1>1, NoThings DEF WaitInv, TypeOK
<1>. QED  BY <1>1, <1>2, <1>3, <1>4, <1>5, <1>6, <1>7, <1>8

LEMMA AdoptKeepsWaits ==
    ASSUME WaitInv, NEW i \in Starter, Adopt(i)
    PROVE  WaitInv'
<1>1. TypeOK'
  <2>1. /\ page' \in [Tab -> Page] /\ stored' \in Store /\ asking' \in [Starter -> Ask]
        /\ call' \in [Call -> CallState] /\ wire' \in [Call -> Post]
        /\ UNCHANGED <<reading, sessions, aged, minted, log, mixed, calm>>
    BY AdoptDoes
  <2>. QED  BY <2>1 DEF WaitInv, TypeOK
<1>2. Waits'
  <2>1. /\ asking[i].at # "none" /\ page'[asking[i].tab].pending = None
        /\ asking' = [asking EXCEPT ![i] = NoAsk]
    BY AdoptDoes
  <2>2. ASSUME NEW u \in Tab
        PROVE  /\ page'[u].open <=> page[u].open
               /\ page'[u].loads = page[u].loads
               /\ u # asking[i].tab => page'[u] = page[u] /\ calm'[u] = calm[u]
    BY AdoptDoes
  <2>3. ASSUME NEW c \in Call
        PROVE  IF call[c].phase = "session" /\ call[c].on = i
               THEN /\ call'[c].tab = call[c].tab
                    /\ \/ call'[c].phase = "failed"
                       \/ /\ call'[c].phase = "posting" /\ call'[c].tries = call[c].tries
                          /\ wire'[c].at # "none"
               ELSE call'[c] = call[c] /\ wire'[c] = wire[c]
    BY AdoptDoes
  <2>. QED  BY <2>1, <2>2, <2>3, EndingKeepsWaits
<1>. QED  BY <1>1, <1>2 DEF WaitInv

\* The request is over and those who waited for it throw.
LEMMA ThrowKeepsWaits ==
    ASSUME WaitInv, NEW i \in Starter, asking[i].at # "none",
           page' = [page EXCEPT ![asking[i].tab] = Ended(@)],
           asking' = [asking EXCEPT ![i] = NoAsk], call' = Throw(i),
           calm' = [calm EXCEPT ![asking[i].tab] = FALSE],
           UNCHANGED <<stored, wire, reading, sessions, aged, minted, log, mixed>>
    PROVE  WaitInv'
<1>. DEFINE t == asking[i].tab
            now == Ended(page[t])
<1>1. t \in Tab /\ page[t] \in Page
  BY DEF WaitInv, TypeOK, Waits, AskOK
<1>2. page' = [page EXCEPT ![t] = now]
  OBVIOUS
<1>3. /\ now \in Page /\ (now.open <=> page[t].open) /\ now.loads = page[t].loads
      /\ now.pending = None
  BY <1>1 DEF Ended, Page, Maybe
<1>. HIDE DEF now
<1>4. /\ page' \in [Tab -> Page] /\ page'[t] = now /\ \A u \in Tab \ {t} : page'[u] = page[u]
      /\ calm' \in [Tab -> BOOLEAN] /\ \A u \in Tab \ {t} : calm'[u] = calm[u]
  BY <1>1, <1>2, <1>3 DEF WaitInv, TypeOK
<1>5. ASSUME NEW c \in Call
      PROVE  /\ call'[c] \in CallState
             /\ IF call[c].phase = "session" /\ call[c].on = i
                THEN call'[c].tab = call[c].tab /\ call'[c].phase = "failed"
                ELSE call'[c] = call[c]
  BY OverIs DEF Throw, WaitInv, TypeOK
<1>6. TypeOK'
  <2>1. call' \in [Call -> CallState]
    BY <1>5 DEF Throw
  <2>2. asking' \in [Starter -> Ask]
    BY NoThings DEF WaitInv, TypeOK
  <2>. QED  BY <1>4, <2>1, <2>2 DEF WaitInv, TypeOK
<1>7. Waits'
  <2>1. page'[asking[i].tab].pending = None
    BY <1>3, <1>4
  <2>2. ASSUME NEW u \in Tab
        PROVE  /\ page'[u].open <=> page[u].open
               /\ page'[u].loads = page[u].loads
               /\ u # asking[i].tab => page'[u] = page[u] /\ calm'[u] = calm[u]
    BY <1>3, <1>4
  <2>3. ASSUME NEW c \in Call
        PROVE  IF call[c].phase = "session" /\ call[c].on = i
               THEN /\ call'[c].tab = call[c].tab
                    /\ \/ call'[c].phase = "failed"
                       \/ /\ call'[c].phase = "posting" /\ call'[c].tries = call[c].tries
                          /\ wire'[c].at # "none"
               ELSE call'[c] = call[c] /\ wire'[c] = wire[c]
    BY <1>5
  <2>. QED  BY <2>1, <2>2, <2>3, EndingKeepsWaits
<1>. QED  BY <1>6, <1>7 DEF WaitInv

LEMMA RejectedKeepsWaits ==
    ASSUME WaitInv, NEW i \in Starter, Rejected(i)
    PROVE  WaitInv'
<1>. DEFINE t == asking[i].tab
<1>1. asking[i].at = "refused" /\ t \in Tab /\ page[t] \in Page /\ page[t].open /\ stored \in Store
  BY DEF Rejected, WaitInv, TypeOK, Waits, AskOK
<1>2. CASE page[t].principal = None
  <2>1. /\ page' = [page EXCEPT ![t] = Ended(@)] /\ asking' = [asking EXCEPT ![i] = NoAsk]
        /\ call' = Throw(i) /\ calm' = [calm EXCEPT ![t] = FALSE]
        /\ UNCHANGED <<stored, wire, reading, sessions, aged, minted, log, mixed>>
    BY <1>2 DEF Rejected, server
  <2>. QED  BY <1>1, <2>1, ThrowKeepsWaits
<1>3. CASE page[t].principal # None
  <2>. DEFINE now == [page[t] EXCEPT !.principal = None, !.secret = None]
              kept == [stored EXCEPT !.principal = None, !.secret = None]
              ask == Request(t, None, None)
  <2>1. /\ page' = [page EXCEPT ![t].principal = None, ![t].secret = None]
        /\ stored' = kept
        /\ asking' = [asking EXCEPT ![i] = ask] /\ calm' = [calm EXCEPT ![t] = FALSE]
        /\ UNCHANGED <<call, wire, reading, sessions, aged, minted, log, mixed>>
    BY <1>3 DEF Rejected, server
  <2>2. page' = [page EXCEPT ![t] = now]
    BY <1>1, <2>1 DEF WaitInv, TypeOK, Page
  <2>3. /\ now \in Page /\ now.open /\ now.loads = page[t].loads /\ now.pending = page[t].pending
        /\ kept \in Store
    BY <1>1 DEF Page, Store, Maybe
  <2>4. ask \in Ask /\ ask.at = "sent" /\ ask.tab = t
    <3>1. None \in Maybe(Principal)
      BY DEF Maybe
    <3>. QED  BY <1>1, <3>1, RequestIs
  <2>. HIDE DEF now, kept, ask
  <2>5. /\ page' \in [Tab -> Page] /\ page'[t] = now /\ \A u \in Tab \ {t} : page'[u] = page[u]
        /\ asking' \in [Starter -> Ask] /\ asking'[i] = ask
        /\ \A j \in Starter \ {i} : asking'[j] = asking[j]
        /\ calm' \in [Tab -> BOOLEAN] /\ \A u \in Tab \ {t} : calm'[u] = calm[u]
    <3>1. /\ page \in [Tab -> Page] /\ asking \in [Starter -> Ask] /\ calm \in [Tab -> BOOLEAN]
      BY DEF WaitInv, TypeOK
    <3>2. page' \in [Tab -> Page] /\ page'[t] = now /\ \A u \in Tab \ {t} : page'[u] = page[u]
      BY <1>1, <2>2, <2>3, <3>1
    <3>3. /\ asking' \in [Starter -> Ask] /\ asking'[i] = ask
          /\ \A j \in Starter \ {i} : asking'[j] = asking[j]
      BY <2>1, <2>4, <3>1
    <3>. QED  BY <1>1, <2>1, <3>1, <3>2, <3>3
  <2>6. TypeOK'
    BY <2>1, <2>3, <2>5 DEF WaitInv, TypeOK
  <2>7. Waits'
    BY <1>1, <2>1, <2>3, <2>4, <2>5, QuietKeepsWaits
  <2>. QED  BY <2>6, <2>7 DEF WaitInv
<1>. QED  BY <1>2, <1>3

LEMMA AskFailsKeepsWaits ==
    ASSUME WaitInv, NEW i \in Starter, AskFails(i)
    PROVE  WaitInv'
BY ThrowKeepsWaits DEF AskFails, server

\* How a call ends: its promise settles, whatever becomes of its post.
LEMMA SettlingKeepsWaits ==
    ASSUME WaitInv, NEW c \in Call, call[c].phase = "posting",
           NEW outcome \in {"recorded", "failed"},
           call' = [call EXCEPT ![c] = Over(c, outcome)], asking' = asking,
           \A d \in Call \ {c} : wire'[d] = wire[d],
           \A u \in Tab : /\ page'[u].open <=> page[u].open
                          /\ page'[u].loads = page[u].loads
                          /\ page'[u].pending = page[u].pending
                          /\ page[u].open \/ (page'[u] = page[u] /\ calm'[u] = calm[u])
    PROVE  call' \in [Call -> CallState] /\ Waits'
<1>1. /\ call' \in [Call -> CallState] /\ call'[c].phase = outcome /\ call'[c].tab = call[c].tab
      /\ \A d \in Call \ {c} : call'[d] = call[d]
  BY OverIs DEF WaitInv, TypeOK
<1>2. ASSUME NEW u \in Tab  PROVE PageOK(u)'
  <2>1. PageOK(u) /\ page[u].pending \in Maybe(Starter)
    BY DEF WaitInv, Waits, TypeOK, Page
  <2>. QED  BY <2>1 DEF PageOK
<1>3. ASSUME NEW i \in Starter  PROVE AskOK(i)'
  BY <1>1 DEF WaitInv, Waits, AskOK
<1>4. ASSUME NEW d \in Call  PROVE CallOK(d)'
  <2>1. CallOK(d) /\ call[d].tab \in Maybe(Tab)
    BY DEF WaitInv, Waits, TypeOK, CallState
  <2>2. call[d].phase = "posting" => call[d].tab \in Tab
    BY BusyIsOpen
  <2>3. CASE d = c
    <3>1. call[c].tab \in Tab /\ page[call[c].tab].loads > 0 /\ call[c].tab # None
      BY BusyIsOpen, ClientAssumption
    <3>. QED  BY <1>1, <2>3, <3>1 DEF CallOK
  <2>4. CASE d # c
    BY <1>1, <2>1, <2>2, <2>4 DEF CallOK, Maybe
  <2>. QED  BY <2>3, <2>4
<1>. QED  BY <1>1, <1>2, <1>3, <1>4 DEF Waits

LEMMA RecordedKeepsWaits ==
    ASSUME WaitInv, NEW c \in Call, Recorded(c)
    PROVE  WaitInv'
<1>. DEFINE t == call[c].tab
            now == [page[t] EXCEPT !.state = wire[c].state]
<1>1. /\ call[c].phase = "posting" /\ t \in Tab /\ page[t].open
      /\ page[t] \in Page /\ stored \in Store /\ wire[c] \in Post /\ page \in [Tab -> Page]
  BY BusyIsOpen DEF Recorded, WaitInv, TypeOK
<1>2. /\ call' = [call EXCEPT ![c] = Over(c, "recorded")]
      /\ page' = [page EXCEPT ![t].state = wire[c].state]
      /\ stored' = [stored EXCEPT !.state = wire[c].state]
      /\ wire' = [wire EXCEPT ![c] = NoPost]
      /\ UNCHANGED <<asking, reading, sessions, aged, minted, log, mixed, calm>>
  BY DEF Recorded, server
<1>3. page' = [page EXCEPT ![t] = now]
  BY <1>1, <1>2 DEF Page
<1>4. /\ now \in Page /\ (now.open <=> page[t].open) /\ now.loads = page[t].loads
      /\ now.pending = page[t].pending
      /\ stored' \in Store
  BY <1>1, <1>2 DEF Page, Post, Store
<1>. HIDE DEF now
<1>5. /\ page' \in [Tab -> Page] /\ page'[t] = now /\ \A u \in Tab \ {t} : page'[u] = page[u]
  BY <1>1, <1>3, <1>4
<1>6. /\ wire' \in [Call -> Post] /\ \A d \in Call \ {c} : wire'[d] = wire[d]
  BY <1>2, NoThings DEF WaitInv, TypeOK
<1>7. call' \in [Call -> CallState] /\ Waits'
  <2>1. ASSUME NEW u \in Tab
        PROVE  /\ page'[u].open <=> page[u].open
               /\ page'[u].loads = page[u].loads
               /\ page'[u].pending = page[u].pending
               /\ page[u].open \/ (page'[u] = page[u] /\ calm'[u] = calm[u])
    BY <1>1, <1>2, <1>4, <1>5
  <2>. QED  BY <1>1, <1>2, <1>6, <2>1, SettlingKeepsWaits
<1>. QED  BY <1>2, <1>4, <1>5, <1>6, <1>7 DEF WaitInv, TypeOK

LEMMA RefusedKeepsWaits ==
    ASSUME WaitInv, NEW c \in Call, Refused(c)
    PROVE  WaitInv'
<1>. DEFINE t == call[c].tab
            pg == [page[t] EXCEPT !.token = None]
<1>1. /\ call[c].phase = "posting" /\ t \in Tab /\ page[t].open
      /\ page[t] \in Page /\ stored \in Store
  BY BusyIsOpen DEF Refused, WaitInv, TypeOK
<1>2. UNCHANGED <<reading, sessions, aged, minted, log, mixed, calm>>
  BY DEF Refused, server
<1>3. CASE MayRetry(c)
  <2>1. /\ PostDecision(c, t, pg, call[c].tries + 1) /\ stored' = [stored EXCEPT !.token = None]
    BY <1>3 DEF Refused
  <2>2. call[c].tries + 1 = 2
    BY <1>3 DEF MayRetry
  <2>3. /\ pg \in Page /\ pg.open /\ pg.loads = page[t].loads /\ pg.pending = page[t].pending
        /\ stored' \in Store
    BY <1>1, <2>1 DEF Page, Store, Maybe
  <2>. HIDE DEF pg
  <2>4. /\ page' \in [Tab -> Page] /\ call' \in [Call -> CallState]
        /\ wire' \in [Call -> Post] /\ asking' \in [Starter -> Ask]
        /\ Waits'
    <3>1. PostDecision(c, t, pg, 2) /\ calm' = calm
      BY <1>2, <2>1, <2>2
    <3>. QED  BY <1>1, <2>3, <3>1, PostDecisionKeepsWaits
  <2>. QED  BY <1>2, <2>3, <2>4 DEF WaitInv, TypeOK
<1>4. CASE ~MayRetry(c)
  <2>1. /\ call' = [call EXCEPT ![c] = Over(c, "failed")]
        /\ wire' = [wire EXCEPT ![c] = NoPost]
        /\ UNCHANGED <<page, stored, asking>>
    BY <1>4 DEF Refused
  <2>2. /\ wire' \in [Call -> Post] /\ \A d \in Call \ {c} : wire'[d] = wire[d]
    BY <2>1, NoThings DEF WaitInv, TypeOK
  <2>3. call' \in [Call -> CallState] /\ Waits'
    BY <1>1, <1>2, <2>1, <2>2, SettlingKeepsWaits
  <2>. QED  BY <1>2, <2>1, <2>2, <2>3 DEF WaitInv, TypeOK
<1>. QED  BY <1>3, <1>4

LEMMA PostFailsKeepsWaits ==
    ASSUME WaitInv, NEW c \in Call, PostFails(c)
    PROVE  WaitInv'
<1>1. /\ call[c].phase = "posting" /\ call[c].tab \in Tab /\ page[call[c].tab].open
      /\ call' = [call EXCEPT ![c] = Over(c, "failed")]
      /\ calm' = [calm EXCEPT ![call[c].tab] = FALSE]
      /\ UNCHANGED <<page, stored, wire, asking, reading, sessions, aged, minted, log, mixed>>
  BY BusyIsOpen DEF PostFails, server
<1>2. calm' \in [Tab -> BOOLEAN] /\ \A u \in Tab \ {call[c].tab} : calm'[u] = calm[u]
  BY <1>1 DEF WaitInv, TypeOK
<1>3. call' \in [Call -> CallState] /\ Waits'
  BY <1>1, <1>2, SettlingKeepsWaits
<1>. QED  BY <1>1, <1>2, <1>3 DEF WaitInv, TypeOK

\* The reads of the state.
LEMMA GetStateKeepsWaits ==
    ASSUME ClientAssumption, WaitInv, NEW t \in Tab, GetState(t)
    PROVE  WaitInv'
<1>. DEFINE new == [at |-> "sent", reads |-> reading[t].reads + 1,
                    principal |-> page[t].principal, state |-> NoState]
<1>1. /\ reading' = [reading EXCEPT ![t] = new] /\ reading[t].reads < MaxReads
      /\ mixed' = [mixed EXCEPT ![t] = mixed[t] \/ Awaited(t) > 0]
      /\ UNCHANGED <<page, stored, call, wire, asking, sessions, aged, minted, log, calm>>
  BY DEF GetState, server
<1>2. new \in Read
  <2>1. reading[t].reads \in 0..MaxReads /\ MaxReads \in Nat /\ page[t].principal \in Maybe(Principal)
    BY ClientAssumption DEF WaitInv, TypeOK, Read, Page
  <2>2. reading[t].reads + 1 \in 0..MaxReads
    BY <1>1, <2>1
  <2>. QED  BY <2>1, <2>2, NoThings DEF Read
<1>. HIDE DEF new
<1>3. TypeOK'
  BY <1>1, <1>2 DEF WaitInv, TypeOK
<1>4. Waits'
  BY <1>1, QuietKeepsWaits
<1>. QED  BY <1>3, <1>4 DEF WaitInv

LEMMA GotStateKeepsWaits ==
    ASSUME WaitInv, NEW t \in Tab, GotState(t) \/ GetStateFails(t) \/ AnswerRead(t)
    PROVE  WaitInv'
<1>. DEFINE none == [NoRead EXCEPT !.reads = reading[t].reads]
            now == [page[t] EXCEPT !.state = reading[t].state]
<1>1. /\ reading[t] \in Read /\ page[t] \in Page /\ stored \in Store
      /\ reading \in [Tab -> Read] /\ page \in [Tab -> Page]
  BY DEF WaitInv, TypeOK
<1>2. none \in Read
  BY <1>1, NoThings DEF Read
<1>3. CASE GotState(t)
  <2>1. /\ reading[t].at = "answered"
        /\ page' = [page EXCEPT ![t].state = reading[t].state]
        /\ stored' = [stored EXCEPT !.state = reading[t].state]
        /\ reading' = [reading EXCEPT ![t] = none]
        /\ UNCHANGED <<call, wire, asking, sessions, aged, minted, log, mixed, calm>>
    BY <1>3 DEF GotState, server
  <2>2. /\ now \in Page /\ (now.open <=> page[t].open) /\ now.loads = page[t].loads
        /\ now.pending = page[t].pending /\ now.principal = page[t].principal
        /\ now.token = page[t].token
        /\ stored' \in Store
    BY <1>1, <2>1 DEF Page, Read, Store
  <2>3. page' = [page EXCEPT ![t] = now]
    BY <1>1, <2>1 DEF Page
  <2>. HIDE DEF now, none
  <2>4. /\ page' \in [Tab -> Page] /\ page'[t] = now /\ \A u \in Tab \ {t} : page'[u] = page[u]
        /\ reading' \in [Tab -> Read]
    BY <1>1, <1>2, <2>1, <2>2, <2>3
  <2>5. TypeOK'
    BY <2>1, <2>2, <2>4 DEF WaitInv, TypeOK
  <2>6. Waits'
    BY <2>1, <2>2, <2>4, QuietKeepsWaits
  <2>. QED  BY <2>5, <2>6 DEF WaitInv
<1>4. CASE GetStateFails(t)
  <2>1. /\ reading' = [reading EXCEPT ![t] = none]
        /\ UNCHANGED <<page, stored, call, wire, asking, sessions, aged, minted, log, mixed, calm>>
    BY <1>4 DEF GetStateFails, server
  <2>. HIDE DEF none
  <2>2. TypeOK'
    BY <1>2, <2>1 DEF WaitInv, TypeOK
  <2>. QED  BY <2>1, <2>2, QuietKeepsWaits DEF WaitInv
<1>5. CASE AnswerRead(t)
  <2>. DEFINE new == [reading[t] EXCEPT !.at = "answered",
                                        !.state = StateOf(reading[t].principal, log)]
  <2>1. /\ reading' = [reading EXCEPT ![t].at = "answered",
                                      ![t].state = StateOf(reading[t].principal, log)]
        /\ UNCHANGED <<page, stored, call, wire, asking, sessions, aged, minted, log, mixed, calm>>
    BY <1>5 DEF AnswerRead, server
  <2>2. StateOf(reading[t].principal, log) \in State
    BY <1>1, StateTyped DEF WaitInv, TypeOK, Read
  <2>3. new \in Read
    BY <1>1, <2>2 DEF Read
  <2>4. reading' = [reading EXCEPT ![t] = new]
    BY <1>1, <2>1 DEF Read
  <2>. HIDE DEF new
  <2>5. TypeOK'
    BY <2>1, <2>3, <2>4 DEF WaitInv, TypeOK
  <2>. QED  BY <2>1, <2>5, QuietKeepsWaits DEF WaitInv
<1>. QED  BY <1>3, <1>4, <1>5

\* The server, and time.
LEMMA ServeSessionKeepsWaits ==
    ASSUME WaitInv, NEW i \in Starter, ServeSession(i) \/ TurnAway(i)
    PROVE  WaitInv'
<1>1. /\ asking[i] \in Ask /\ asking \in [Starter -> Ask]
      /\ minted \in 0..MaxPrincipals /\ sessions \in Seq(Principal)
      /\ MaxPrincipals \in Nat /\ MaxSessions \in Nat
  BY ClientAssumption DEF WaitInv, TypeOK
<1>2. asking[i].at = "sent"
  BY DEF ServeSession, TurnAway
<1>3. CASE asking' = [asking EXCEPT ![i].at = "refused"] /\ UNCHANGED <<page, stored, call, wire,
              reading, sessions, aged, minted, log, mixed, calm>>
  <2>. DEFINE new == [asking[i] EXCEPT !.at = "refused"]
  <2>1. new \in Ask /\ new.at = "refused" /\ new.tab = asking[i].tab
    BY <1>1 DEF Ask
  <2>2. asking' = [asking EXCEPT ![i] = new]
    BY <1>1, <1>3 DEF Ask
  <2>. HIDE DEF new
  <2>3. /\ asking' \in [Starter -> Ask] /\ asking'[i] = new
        /\ \A j \in Starter \ {i} : asking'[j] = asking[j]
    BY <1>1, <2>1, <2>2
  <2>4. TypeOK'
    BY <1>3, <2>3 DEF WaitInv, TypeOK
  <2>5. Waits'
    BY <1>2, <1>3, <2>1, <2>3, QuietKeepsWaits
  <2>. QED  BY <2>4, <2>5 DEF WaitInv
<1>4. CASE ~(asking' = [asking EXCEPT ![i].at = "refused"] /\ UNCHANGED <<page, stored, call, wire,
              reading, sessions, aged, minted, log, mixed, calm>>)
  <2>. DEFINE known == asking[i].claim # None
              p == IF asking[i].claim = None THEN minted + 1 ELSE asking[i].claim
              new == [asking[i] EXCEPT !.at = "granted", !.principal = p, !.fresh = ~known,
                                       !.token = Len(sessions) + 1]
  <2>1. ServeSession(i) /\ ~(~((asking[i].claim # None) => (asking[i].secret = asking[i].claim)))
    BY <1>4 DEF ServeSession, TurnAway, server
  <2>2. /\ p \in Principal /\ Len(sessions) < MaxSessions
        /\ minted' = (IF known THEN minted ELSE p)
        /\ sessions' = Append(sessions, p)
        /\ asking' = [asking EXCEPT ![i] = new]
        /\ UNCHANGED <<page, stored, call, wire, reading, aged, log, mixed, calm>>
    BY <2>1 DEF ServeSession
  <2>3. Len(sessions) + 1 \in Token /\ Len(sessions) \in Nat
    BY <1>1, <2>2 DEF Token
  <2>4. new \in Ask /\ new.at = "granted" /\ new.tab = asking[i].tab
    <3>. HIDE DEF p
    <3>. QED  BY <1>1, <2>2, <2>3 DEF Ask, Maybe
  <2>5. minted' \in 0..MaxPrincipals /\ sessions' \in Seq(Principal)
    <3>. HIDE DEF p
    <3>. QED  BY <1>1, <2>2 DEF Principal
  <2>. HIDE DEF new, p
  <2>6. /\ asking' \in [Starter -> Ask] /\ asking'[i] = new
        /\ \A j \in Starter \ {i} : asking'[j] = asking[j]
    BY <1>1, <2>2, <2>4
  <2>7. TypeOK'
    BY <2>2, <2>5, <2>6 DEF WaitInv, TypeOK
  <2>8. Waits'
    BY <1>2, <2>2, <2>4, <2>6, QuietKeepsWaits
  <2>. QED  BY <2>7, <2>8 DEF WaitInv
<1>. QED  BY <1>3, <1>4

\* What a decision does, field by field; the session it is posted with was issued.
LEMMA DecideDoes ==
    ASSUME WaitInv, NEW c \in Call, wire[c].token \in 1..Len(sessions), Decide(c)
    PROVE  /\ wire[c].at = "sent" /\ wire'[c].at = "answered" /\ wire' \in [Call -> Post]
           /\ wire'[c].token = wire[c].token /\ wire'[c].principal = wire[c].principal
           /\ \A d \in Call \ {c} : wire'[d] = wire[d]
           /\ UNCHANGED <<page, stored, call, asking, reading, sessions, aged, minted, mixed, calm>>
           /\ \/ /\ wire'[c].code = "mismatch" /\ log' = log
                 /\ sessions[wire[c].token] # wire[c].principal
              \/ wire'[c].code = "refused" /\ log' = log
              \/ /\ wire'[c].code = "recorded"
                 /\ log' = Append(log, [by |-> sessions[wire[c].token], call |-> c])
                 /\ wire'[c].state = StateOf(sessions[wire[c].token], log')
                 /\ sessions[wire[c].token] = wire[c].principal
           /\ log' \in Seq([by : Principal, call : Call])
<1>. DEFINE p == sessions[wire[c].token]
            mismatch == p # wire[c].principal
<1>1. /\ wire[c] \in Post /\ wire \in [Call -> Post] /\ p \in Principal
      /\ log \in Seq([by : Principal, call : Call])
  BY DEF WaitInv, TypeOK
<1>2. /\ wire[c].at = "sent"
      /\ UNCHANGED <<page, stored, call, asking, reading, sessions, aged, minted, mixed, calm>>
  BY DEF Decide
<1>3. PICK charged \in BOOLEAN :
        /\ log' = IF mismatch THEN log ELSE LogAfter(c, charged)
        /\ wire' = [wire EXCEPT ![c].at = "answered",
               ![c].code = IF mismatch THEN "mismatch" ELSE IF charged THEN "recorded" ELSE "refused",
               ![c].state = IF ~mismatch /\ charged THEN Told(p) ELSE NoState]
  BY DEF Decide
<1>4. /\ log' = IF ~mismatch /\ charged THEN Append(log, [by |-> p, call |-> c]) ELSE log
      /\ log' \in Seq([by : Principal, call : Call])
  <2>1. CASE ~mismatch /\ charged
    <3>1. [by |-> p, call |-> c] \in [by : Principal, call : Call]
      BY <1>1
    <3>. HIDE DEF p
    <3>2. log' = Append(log, [by |-> p, call |-> c])
      BY <1>3, <2>1 DEF LogAfter, p
    <3>. QED  BY <1>1, <2>1, <3>1, <3>2
  <2>2. CASE ~(~mismatch /\ charged)
    BY <1>1, <1>3, <2>2 DEF LogAfter
  <2>. QED  BY <2>1, <2>2
<1>. DEFINE code == IF mismatch THEN "mismatch" ELSE IF charged THEN "recorded" ELSE "refused"
            state == IF ~mismatch /\ charged THEN StateOf(p, log') ELSE NoState
<1>5. code \in {"refused", "mismatch", "recorded"} /\ state \in State
  <2>1. p \in Maybe(Principal)
    BY <1>1 DEF Maybe
  <2>. HIDE DEF p
  <2>2. StateOf(p, log') \in State
    BY <1>4, <2>1, StateTyped
  <2>. QED  BY <2>2, NoThings
<1>6. wire' = [wire EXCEPT ![c].at = "answered", ![c].code = code, ![c].state = state]
  BY <1>3 DEF Told
<1>7. /\ wire'[c].at = "answered" /\ wire'[c].code = code /\ wire'[c].state = state
      /\ wire'[c].token = wire[c].token /\ wire'[c].principal = wire[c].principal
      /\ wire' \in [Call -> Post] /\ \A d \in Call \ {c} : wire'[d] = wire[d]
  <2>. HIDE DEF code, state
  <2>. QED  BY <1>1, <1>5, <1>6 DEF Post
<1>8. CASE mismatch
  BY <1>2, <1>4, <1>7, <1>8
<1>9. CASE ~mismatch /\ ~charged
  BY <1>2, <1>4, <1>7, <1>9
<1>10. CASE ~mismatch /\ charged
  BY <1>2, <1>4, <1>7, <1>10
<1>. QED  BY <1>8, <1>9, <1>10

LEMMA DecideKeepsWaits ==
    ASSUME WaitInv, NEW c \in Call, wire[c].token \in 1..Len(sessions), Decide(c)
    PROVE  WaitInv'
<1>1. /\ wire[c].at = "sent" /\ wire'[c].at = "answered" /\ wire' \in [Call -> Post]
      /\ \A d \in Call \ {c} : wire'[d] = wire[d]
      /\ UNCHANGED <<page, stored, call, asking, reading, sessions, aged, minted, mixed, calm>>
      /\ log' \in Seq([by : Principal, call : Call])
  BY DecideDoes
<1>2. TypeOK'
  BY <1>1 DEF WaitInv, TypeOK
<1>3. Waits'
  BY <1>1, QuietKeepsWaits
<1>. QED  BY <1>2, <1>3 DEF WaitInv

LEMMA AgeKeepsWaits ==
    ASSUME ClientAssumption, WaitInv, VoiceInv, Age
    PROVE  WaitInv'
<1>1. /\ aged < Len(sessions) /\ aged' = aged + 1
      /\ UNCHANGED <<page, stored, call, wire, asking, reading, sessions, minted, log, mixed, calm>>
  BY DEF Age
<1>2. aged' \in 0..MaxSessions
  BY <1>1, ClientAssumption DEF WaitInv, TypeOK, VoiceInv
<1>3. TypeOK'
  BY <1>1, <1>2 DEF WaitInv, TypeOK
<1>. QED  BY <1>1, <1>3, QuietKeepsWaits DEF WaitInv

(***************************************************************************)
(* Which sessions are held, and in whose name.                             *)
(***************************************************************************)
\* A step that issues no session: what is held was held before, by the same page
\* or in localStorage, or was granted just now; and what is posted names its own.
LEMMA HeldKeepsVoice ==
    ASSUME TypeOK, VoiceInv, sessions' = sessions, aged' = aged,
           \A u \in Tab :
              \/ page'[u].token = None
              \/ page'[u].token = page[u].token
                    /\ page'[u].principal \in {page[u].principal, None}
              \/ page'[u].token = stored.token /\ page'[u].principal = stored.principal
              \/ Names(page'[u]),
           \/ stored'.token = None
           \/ stored'.token = stored.token /\ stored'.principal \in {stored.principal, None}
           \/ Names(stored'),
           \A i \in Starter : asking'[i].at = "granted" => asking'[i] = asking[i],
           \A c \in Call : \/ wire'[c] = wire[c]
                           \/ /\ wire'[c].at # "none" => Names(wire'[c])
                              /\ wire'[c].code # "mismatch"
    PROVE  VoiceInv'
<1>1. ASSUME NEW u \in Tab  PROVE (Issued(page[u].token) /\ Speaks(page[u]))'
  BY DEF VoiceInv, Issued, Speaks, Names, Live
<1>2. (Issued(stored.token) /\ Speaks(stored))'
  BY DEF VoiceInv, Issued, Speaks, Names, Live
<1>3. ASSUME NEW i \in Starter  PROVE (asking[i].at = "granted" => Names(asking[i]))'
  BY DEF VoiceInv, Names
<1>4. ASSUME NEW c \in Call
      PROVE  ((wire[c].at # "none" => Names(wire[c])) /\ wire[c].code # "mismatch")'
  BY DEF VoiceInv, Names
<1>5. (aged <= Len(sessions) /\ Len(sessions) <= MaxSessions)'
  BY DEF VoiceInv
<1>. QED  BY <1>1, <1>2, <1>3, <1>4, <1>5 DEF VoiceInv

\* A decision is posted with the session and in the name the page holds.
LEMMA PostDecisionKeepsVoice ==
    ASSUME TypeOK, VoiceInv, UNCHANGED <<sessions, aged>>,
           NEW c \in Call, NEW t \in Tab, NEW pg \in Page, NEW tries \in {1, 2},
           PostDecision(c, t, pg, tries),
           pg.token \in {page[t].token, None}, pg.principal = page[t].principal,
           stored'.token \in {stored.token, None}, stored'.principal = stored.principal
    PROVE  VoiceInv'
<1>0. /\ page \in [Tab -> Page] /\ wire \in [Call -> Post] /\ asking \in [Starter -> Ask]
      /\ c \in Starter /\ page[t].principal \in Maybe(Principal)
      /\ pg.principal \in Maybe(Principal) /\ pg.secret \in Maybe(Principal)
  BY DEF TypeOK, Starter, Page
<1>1. /\ \A u \in Tab : u # t => page'[u] = page[u]
      /\ page'[t].token = pg.token /\ page'[t].principal = pg.principal
  <2>1. \/ page' = [page EXCEPT ![t] = pg]
        \/ page' = [page EXCEPT ![t] = [pg EXCEPT !.pending = c]]
    BY PostDecisionDoes
  <2>2. [pg EXCEPT !.pending = c].token = pg.token /\ [pg EXCEPT !.pending = c].principal = pg.principal
    BY DEF Page
  <2>. QED  BY <1>0, <2>1, <2>2
<1>2. ASSUME NEW i \in Starter  PROVE asking'[i].at = "granted" => asking'[i] = asking[i]
  <2>1. \/ asking' = asking
        \/ asking' = [asking EXCEPT ![c] = Request(t, pg.principal, pg.secret)]
    BY PostDecisionDoes
  <2>2. Request(t, pg.principal, pg.secret).at = "sent"
    BY <1>0, RequestIs
  <2>. QED  BY <1>0, <2>1, <2>2
<1>3. ASSUME NEW d \in Call
      PROVE  \/ wire'[d] = wire[d]
             \/ /\ wire'[d].at # "none" => Names(wire'[d])
                /\ wire'[d].code # "mismatch"
  <2>1. CASE Live(pg.token) /\ pg.principal # None
    <3>1. wire' = [wire EXCEPT ![c] = Posted(pg)]
      BY <2>1, PostDecisionDoes
    <3>2. Names(pg)
      BY <2>1 DEF VoiceInv, Issued, Speaks, Names, Live
    <3>. QED  BY <1>0, <3>1, <3>2, PostedIs DEF Names
  <2>2. CASE ~(Live(pg.token) /\ pg.principal # None)
    <3>1. wire' = [wire EXCEPT ![c] = NoPost]
      BY <2>2, PostDecisionDoes
    <3>. QED  BY <1>0, <3>1, NoThings
  <2>. QED  BY <2>1, <2>2
<1>4. ASSUME NEW u \in Tab
      PROVE  \/ page'[u].token = None
             \/ page'[u].token = page[u].token
                   /\ page'[u].principal \in {page[u].principal, None}
             \/ page'[u].token = stored.token /\ page'[u].principal = stored.principal
             \/ Names(page'[u])
  BY <1>1
<1>. QED  BY <1>2, <1>3, <1>4, HeldKeepsVoice

\* A tab's own steps.
LEMMA TabKeepsVoice ==
    ASSUME WaitInv, VoiceInv, NEW t \in Tab,
           \/ Load(t) \/ Close(t) \/ EnsureSession(t) \/ Clear(t)
           \/ GetState(t) \/ GotState(t) \/ GetStateFails(t) \/ AnswerRead(t)
           \/ \E c \in Call : Record(c, t)
    PROVE  VoiceInv'
<1>0. /\ TypeOK /\ page \in [Tab -> Page] /\ asking \in [Starter -> Ask] /\ stored \in Store
      /\ page[t] \in Page
  BY DEF WaitInv, TypeOK
<1>1. CASE Load(t)
  <2>. DEFINE token == IF Live(stored.token) THEN stored.token ELSE None
              now == [open |-> TRUE, loads |-> page[t].loads + 1, principal |-> stored.principal,
                      secret |-> stored.secret, token |-> token, state |-> stored.state,
                      pending |-> None]
  <2>1. /\ page' = [page EXCEPT ![t] = now] /\ stored' = [stored EXCEPT !.token = token]
        /\ UNCHANGED <<asking, wire, sessions, aged>>
    BY <1>1 DEF Load, server
  <2>2. /\ now.token \in {stored.token, None} /\ now.principal = stored.principal
        /\ stored'.token \in {stored.token, None} /\ stored'.principal = stored.principal
    BY <1>0, <2>1 DEF Store
  <2>. HIDE DEF now, token
  <2>3. page'[t] = now /\ \A u \in Tab \ {t} : page'[u] = page[u]
    BY <1>0, <2>1
  <2>4. ASSUME NEW u \in Tab
        PROVE  \/ page'[u].token = None
               \/ page'[u].token = page[u].token
                     /\ page'[u].principal \in {page[u].principal, None}
               \/ page'[u].token = stored.token /\ page'[u].principal = stored.principal
               \/ Names(page'[u])
    BY <2>2, <2>3
  <2>. QED  BY <1>0, <2>1, <2>2, <2>4, HeldKeepsVoice
<1>2. CASE Close(t)
  <2>1. /\ page' = [page EXCEPT ![t] = [Closed EXCEPT !.loads = page[t].loads]]
        /\ asking' = [i \in Starter |-> IF asking[i].tab = t THEN NoAsk ELSE asking[i]]
        /\ UNCHANGED <<stored, wire, sessions, aged>>
    BY <1>2 DEF Close, server
  <2>2. [Closed EXCEPT !.loads = page[t].loads].token = None
    BY DEF Closed
  <2>3. \A u \in Tab : page'[u].token = None \/ page'[u] = page[u]
    BY <1>0, <2>1, <2>2
  <2>4. \A i \in Starter : asking'[i].at = "granted" => asking'[i] = asking[i]
    BY <2>1, NoThings
  <2>. QED  BY <1>0, <2>1, <2>3, <2>4, HeldKeepsVoice
<1>3. CASE EnsureSession(t)
  <2>. DEFINE ask == Request(t, page[t].principal, page[t].secret)
              now == [page[t] EXCEPT !.pending = t]
  <2>1. /\ page' = [page EXCEPT ![t] = now] /\ asking' = [asking EXCEPT ![t] = ask]
        /\ UNCHANGED <<stored, wire, sessions, aged>>
    BY <1>3 DEF EnsureSession, Opening, Opened, Shares, server
  <2>2. ask.at = "sent"
    BY <1>0, RequestIs DEF Page
  <2>3. now.token = page[t].token /\ now.principal = page[t].principal
    BY <1>0 DEF Page
  <2>. HIDE DEF ask, now
  <2>4. \A i \in Starter : asking'[i].at = "granted" => asking'[i] = asking[i]
    BY <1>0, <2>1, <2>2 DEF Starter
  <2>5. \A u \in Tab : page'[u].token = page[u].token /\ page'[u].principal = page[u].principal
    BY <1>0, <2>1, <2>3
  <2>. QED  BY <1>0, <2>1, <2>4, <2>5, HeldKeepsVoice
<1>4. CASE Clear(t)
  <2>. DEFINE now == [page[t] EXCEPT !.principal = None, !.secret = None, !.token = None,
                                     !.state = NoState]
  <2>1. /\ page' = [page EXCEPT ![t] = now] /\ stored' = NoStore
        /\ UNCHANGED <<asking, wire, sessions, aged>>
    BY <1>4 DEF Clear, server
  <2>2. now.token = None
    BY <1>0 DEF Page
  <2>. HIDE DEF now
  <2>3. \A u \in Tab : page'[u].token = None \/ page'[u] = page[u]
    BY <1>0, <2>1, <2>2
  <2>. QED  BY <1>0, <2>1, <2>3, NoThings, HeldKeepsVoice
<1>5. CASE GetState(t) \/ GetStateFails(t) \/ AnswerRead(t)
  BY <1>0, <1>5, HeldKeepsVoice DEF GetState, GetStateFails, AnswerRead, server
<1>6. CASE GotState(t)
  <2>1. /\ page' = [page EXCEPT ![t].state = reading[t].state]
        /\ stored' = [stored EXCEPT !.state = reading[t].state]
        /\ UNCHANGED <<asking, wire, sessions, aged>>
    BY <1>6 DEF GotState, server
  <2>2. \A u \in Tab : page'[u].token = page[u].token /\ page'[u].principal = page[u].principal
    BY <1>0, <2>1 DEF Page
  <2>3. stored'.token = stored.token /\ stored'.principal = stored.principal
    BY <1>0, <2>1 DEF Store
  <2>. QED  BY <1>0, <2>1, <2>2, <2>3, HeldKeepsVoice
<1>7. ASSUME NEW c \in Call, Record(c, t)  PROVE VoiceInv'
  <2>1. PostDecision(c, t, page[t], 1) /\ UNCHANGED <<stored, sessions, aged>>
    BY <1>7 DEF Record, server
  <2>. QED  BY <1>0, <2>1, PostDecisionKeepsVoice
<1>. QED  BY <1>1, <1>2, <1>3, <1>4, <1>5, <1>6, <1>7

LEMMA AskSettlesKeepsVoice ==
    ASSUME WaitInv, VoiceInv, NEW i \in Starter, AskSettles(i)
    PROVE  VoiceInv'
<1>0. /\ TypeOK /\ page \in [Tab -> Page] /\ asking \in [Starter -> Ask] /\ stored \in Store
  BY DEF WaitInv, TypeOK
<1>1. CASE Adopt(i)
  <2>1. /\ asking[i].at = "granted" /\ asking[i].tab \in Tab
        /\ \A u \in Tab \ {asking[i].tab} : page'[u] = page[u]
        /\ page'[asking[i].tab].token = asking[i].token
        /\ page'[asking[i].tab].principal = asking[i].principal
        /\ stored'.token = asking[i].token /\ stored'.principal = asking[i].principal
        /\ asking' = [asking EXCEPT ![i] = NoAsk]
        /\ UNCHANGED <<sessions, aged>>
    BY <1>1, AdoptDoes
  <2>2. \A c \in Call : \/ wire'[c] = wire[c]
                        \/ /\ wire'[c].code = "none" /\ wire'[c].token = asking[i].token
                           /\ wire'[c].principal = asking[i].principal
    BY <1>1, AdoptDoes
  <2>3. Names(asking[i])
    BY <2>1 DEF VoiceInv
  <2>4. \A u \in Tab : page'[u] = page[u] \/ Names(page'[u])
    BY <2>1, <2>3 DEF Names
  <2>5. \A j \in Starter : asking'[j].at = "granted" => asking'[j] = asking[j]
    BY <1>0, <2>1, NoThings
  <2>6. \A c \in Call : \/ wire'[c] = wire[c]
                        \/ /\ wire'[c].at # "none" => Names(wire'[c])
                           /\ wire'[c].code # "mismatch"
    BY <2>2, <2>3 DEF Names
  <2>7. Names(stored')
    BY <2>1, <2>3 DEF Names
  <2>. QED  BY <1>0, <2>1, <2>4, <2>5, <2>6, <2>7, HeldKeepsVoice
<1>2. ASSUME Rejected(i) \/ AskFails(i)  PROVE VoiceInv'
  <2>. DEFINE t == asking[i].tab
  <2>1. t \in Tab /\ page[t] \in Page /\ UNCHANGED <<wire, sessions, aged>>
    BY <1>0, <1>2 DEF Rejected, AskFails, WaitInv, Waits, AskOK, server
  <2>2. \A u \in Tab : page'[u].token = page[u].token
                          /\ page'[u].principal \in {page[u].principal, None}
    <3>1. CASE page' = [page EXCEPT ![t] = Ended(@)]
      BY <1>0, <2>1, <3>1 DEF Ended, Page
    <3>2. CASE page' = [page EXCEPT ![t].principal = None, ![t].secret = None]
      BY <1>0, <2>1, <3>2 DEF Page
    <3>. QED  BY <1>2, <3>1, <3>2 DEF Rejected, AskFails
  <2>3. stored'.token = stored.token /\ stored'.principal \in {stored.principal, None}
    BY <1>0, <1>2 DEF Rejected, AskFails, Store
  <2>4. \A j \in Starter : asking'[j].at = "granted" => asking'[j] = asking[j]
    <3>1. \/ asking' = [asking EXCEPT ![i] = NoAsk]
          \/ asking' = [asking EXCEPT ![i] = Request(t, None, None)]
      BY <1>2 DEF Rejected, AskFails
    <3>2. Request(t, None, None).at = "sent"
      BY <2>1, RequestIs DEF Maybe
    <3>. QED  BY <1>0, <3>1, <3>2, NoThings
  <2>. QED  BY <1>0, <2>1, <2>2, <2>3, <2>4, HeldKeepsVoice
<1>. QED  BY <1>1, <1>2 DEF AskSettles

LEMMA SettlesKeepsVoice ==
    ASSUME WaitInv, VoiceInv, NEW c \in Call, Settles(c)
    PROVE  VoiceInv'
<1>. DEFINE t == call[c].tab
<1>0. /\ TypeOK /\ page \in [Tab -> Page] /\ wire \in [Call -> Post] /\ stored \in Store
      /\ t \in Tab /\ page[t] \in Page /\ call[c].tries \in {1, 2}
      /\ UNCHANGED <<sessions, aged>>
  BY BusyIsOpen DEF WaitInv, TypeOK, Settles, Recorded, Refused, PostFails, server
<1>1. CASE Recorded(c)
  <2>1. /\ page' = [page EXCEPT ![t].state = wire[c].state]
        /\ stored' = [stored EXCEPT !.state = wire[c].state]
        /\ wire' = [wire EXCEPT ![c] = NoPost] /\ asking' = asking
    BY <1>1 DEF Recorded
  <2>2. \A u \in Tab : page'[u].token = page[u].token /\ page'[u].principal = page[u].principal
    BY <1>0, <2>1 DEF Page
  <2>3. stored'.token = stored.token /\ stored'.principal = stored.principal
    BY <1>0, <2>1 DEF Store
  <2>. QED  BY <1>0, <2>1, <2>2, <2>3, NoThings, HeldKeepsVoice
<1>2. CASE Refused(c) /\ MayRetry(c)
  <2>. DEFINE pg == [page[t] EXCEPT !.token = None]
  <2>1. PostDecision(c, t, pg, call[c].tries + 1) /\ stored' = [stored EXCEPT !.token = None]
    BY <1>2 DEF Refused
  <2>2. call[c].tries + 1 = 2
    BY <1>2 DEF MayRetry
  <2>3. /\ pg \in Page /\ pg.token = None /\ pg.principal = page[t].principal
        /\ stored'.token = None /\ stored'.principal = stored.principal
    BY <1>0, <2>1 DEF Page, Store, Maybe
  <2>. HIDE DEF pg
  <2>4. PostDecision(c, t, pg, 2)
    BY <2>1, <2>2
  <2>. QED  BY <1>0, <2>3, <2>4, PostDecisionKeepsVoice
<1>3. CASE Refused(c) /\ ~MayRetry(c)
  <2>1. wire' = [wire EXCEPT ![c] = NoPost] /\ UNCHANGED <<page, stored, asking>>
    BY <1>3 DEF Refused
  <2>. QED  BY <1>0, <2>1, NoThings, HeldKeepsVoice
<1>4. CASE PostFails(c)
  <2>1. UNCHANGED <<page, stored, asking, wire>>
    BY <1>4 DEF PostFails
  <2>. QED  BY <1>0, <2>1, HeldKeepsVoice
<1>. QED  BY <1>1, <1>2, <1>3, <1>4 DEF Settles

LEMMA ServerKeepsVoice ==
    ASSUME ClientAssumption, WaitInv, VoiceInv,
           \/ \E i \in Starter : TurnAway(i) \/ ServeSession(i)
           \/ \E c \in Call : Decide(c)
           \/ Age
    PROVE  VoiceInv'
<1>0. /\ TypeOK /\ asking \in [Starter -> Ask] /\ sessions \in Seq(Principal)
      /\ minted \in 0..MaxPrincipals /\ wire \in [Call -> Post]
      /\ aged \in 0..MaxSessions /\ MaxSessions \in Nat
  BY ClientAssumption DEF WaitInv, TypeOK
<1>1. ASSUME NEW i \in Starter, asking' = [asking EXCEPT ![i].at = "refused"],
             UNCHANGED <<page, stored, wire, sessions, aged>>
      PROVE  VoiceInv'
  <2>1. \A j \in Starter : asking'[j].at = "granted" => asking'[j] = asking[j]
    BY <1>0, <1>1 DEF Ask
  <2>. QED  BY <1>0, <1>1, <2>1, HeldKeepsVoice
<1>2. ASSUME NEW i \in Starter, ServeSession(i),
             (asking[i].claim # None) => (asking[i].secret = asking[i].claim)
      PROVE  VoiceInv'
  <2>. DEFINE p == IF asking[i].claim = None THEN minted + 1 ELSE asking[i].claim
              known == asking[i].claim # None
              new == [asking[i] EXCEPT !.at = "granted", !.principal = p, !.fresh = ~known,
                                       !.token = Len(sessions) + 1]
  <2>1. /\ p \in Principal /\ Len(sessions) < MaxSessions
        /\ sessions' = Append(sessions, p)
        /\ asking' = [asking EXCEPT ![i] = new]
        /\ UNCHANGED <<page, stored, wire, aged>>
    BY <1>2 DEF ServeSession
  <2>2. new.token = Len(sessions) + 1 /\ new.principal = p
    <3>1. asking[i] \in Ask
      BY <1>0
    <3>. HIDE DEF p
    <3>. QED  BY <3>1 DEF Ask
  <2>. HIDE DEF p, new
  <2>3. /\ Len(sessions') = Len(sessions) + 1 /\ Len(sessions) \in Nat
        /\ sessions'[Len(sessions) + 1] = p
        /\ \A k \in 1..Len(sessions) : sessions'[k] = sessions[k]
    BY <1>0, <2>1
  <2>4. \A k \in 1..Len(sessions) : k \in 1..Len(sessions')
    BY <2>3
  <2>5. ASSUME NEW u \in Tab  PROVE (Issued(page[u].token) /\ Speaks(page[u]))'
    BY <2>1, <2>3, <2>4 DEF VoiceInv, Issued, Speaks, Live
  <2>6. (Issued(stored.token) /\ Speaks(stored))'
    BY <2>1, <2>3, <2>4 DEF VoiceInv, Issued, Speaks, Live
  <2>7. ASSUME NEW j \in Starter  PROVE (asking[j].at = "granted" => Names(asking[j]))'
    <3>1. CASE j = i
      <4>1. asking'[j] = new
        BY <1>0, <2>1, <3>1
      <4>2. Len(sessions) + 1 \in 1..Len(sessions')
        BY <2>3
      <4>. QED  BY <2>2, <2>3, <4>1, <4>2 DEF Names
    <3>2. CASE j # i
      <4>1. asking'[j] = asking[j]
        BY <1>0, <2>1, <3>2
      <4>. QED  BY <2>3, <2>4, <4>1 DEF Names, VoiceInv
    <3>. QED  BY <3>1, <3>2
  <2>8. ASSUME NEW c \in Call
        PROVE  ((wire[c].at # "none" => Names(wire[c])) /\ wire[c].code # "mismatch")'
    BY <2>1, <2>3, <2>4 DEF VoiceInv, Names
  <2>9. (aged <= Len(sessions) /\ Len(sessions) <= MaxSessions)'
    BY <1>0, <2>1, <2>3 DEF VoiceInv
  <2>. QED  BY <2>5, <2>6, <2>7, <2>8, <2>9 DEF VoiceInv
<1>3. ASSUME NEW c \in Call, Decide(c)  PROVE VoiceInv'
  <2>1. wire[c].at = "sent"
    BY <1>3 DEF Decide
  <2>2. Names(wire[c])
    BY <2>1 DEF VoiceInv
  <2>3. /\ wire'[c].token = wire[c].token /\ wire'[c].principal = wire[c].principal
        /\ \A d \in Call \ {c} : wire'[d] = wire[d]
        /\ UNCHANGED <<page, stored, asking, sessions, aged>>
        /\ wire'[c].code = "mismatch" => sessions[wire[c].token] # wire[c].principal
    BY <1>3, <2>2, DecideDoes DEF Names
  <2>4. \A d \in Call : \/ wire'[d] = wire[d]
                        \/ /\ wire'[d].at # "none" => Names(wire'[d])
                           /\ wire'[d].code # "mismatch"
    BY <2>2, <2>3 DEF Names
  <2>. QED  BY <1>0, <2>3, <2>4, HeldKeepsVoice
<1>4. CASE Age
  <2>1. /\ aged < Len(sessions) /\ aged' = aged + 1
        /\ UNCHANGED <<page, stored, wire, asking, sessions>>
    BY <1>4 DEF Age
  <2>2. ASSUME NEW k \in Maybe(Token), k > aged + 1  PROVE k = None \/ k > aged
    BY <1>0, <2>2 DEF Maybe, Token
  <2>3. ASSUME NEW u \in Tab  PROVE (Issued(page[u].token) /\ Speaks(page[u]))'
    <3>1. page[u].token \in Maybe(Token)
      BY <1>0 DEF TypeOK, Page
    <3>. QED  BY <2>1, <2>2, <3>1 DEF VoiceInv, Issued, Speaks, Live
  <2>4. (Issued(stored.token) /\ Speaks(stored))'
    <3>1. stored.token \in Maybe(Token)
      BY <1>0 DEF TypeOK, Store
    <3>. QED  BY <2>1, <2>2, <3>1 DEF VoiceInv, Issued, Speaks, Live
  <2>5. (aged <= Len(sessions) /\ Len(sessions) <= MaxSessions)'
    BY <1>0, <2>1 DEF VoiceInv
  <2>. QED  BY <2>1, <2>3, <2>4, <2>5 DEF VoiceInv, Names
<1>. QED
  <2>1. ASSUME NEW i \in Starter, TurnAway(i)  PROVE VoiceInv'
    BY <1>1, <2>1 DEF TurnAway, server
  <2>2. ASSUME NEW i \in Starter, ServeSession(i)  PROVE VoiceInv'
    <3>1. CASE (asking[i].claim # None) => (asking[i].secret = asking[i].claim)
      BY <1>2, <2>2, <3>1
    <3>2. CASE ~((asking[i].claim # None) => (asking[i].secret = asking[i].claim))
      BY <1>1, <2>2, <3>2 DEF ServeSession
    <3>. QED  BY <3>1, <3>2
  <2>. QED  BY <1>3, <1>4, <2>1, <2>2

(***************************************************************************)
(* Which decisions are in the log.                                         *)
(***************************************************************************)
\* A step that records nothing: a decision that is in the log is posted no more.
LEMMA NothingNewKeepsOnce ==
    ASSUME TypeOK, OnceInv, log' = log,
           \A c \in Call :
              \/ wire'[c] = wire[c] /\ call'[c] = call[c]
              \/ wire'[c] = wire[c] /\ call'[c].phase = "failed"
              \/ ~Done(c) /\ wire'[c].code = "none"
              \/ /\ wire'[c].at = "none" /\ wire'[c].code = "none"
                 /\ call'[c].phase \in {"recorded", "failed"}
    PROVE  OnceInv'
<1>1. \A c \in Call : Done(c) => Done(c)'
  BY DEF Done
<1>2. \A c \in Call : (wire[c].at # "answered" => wire[c].code = "none")'
  BY DEF OnceInv
<1>3. ASSUME NEW m \in 1..Len(log)  PROVE log[m].call \in Call
  <2>1. log \in Seq([by : Principal, call : Call])
    BY DEF TypeOK
  <2>2. log[m] \in [by : Principal, call : Call]
    BY <2>1, ItemTyped
  <2>. QED  BY <2>2
<1>4. (\A m \in 1..Len(log) : Done(log[m].call))'
  BY <1>1, <1>3 DEF OnceInv
<1>5. RecordedOnce'
  BY DEF OnceInv, RecordedOnce
<1>. QED  BY <1>2, <1>4, <1>5 DEF OnceInv

LEMMA PostDecisionKeepsOnce ==
    ASSUME TypeOK, OnceInv, log' = log,
           NEW c \in Call, NEW t \in Tab, NEW pg \in Page, NEW tries \in {1, 2},
           PostDecision(c, t, pg, tries), ~Done(c)
    PROVE  OnceInv'
<1>1. wire'[c].code = "none" /\ \A d \in Call \ {c} : wire'[d] = wire[d]
  <2>1. wire' = [wire EXCEPT ![c] = Posted(pg)] \/ wire' = [wire EXCEPT ![c] = NoPost]
    BY PostDecisionDoes
  <2>. QED  BY <2>1, NoThings, PostedIs DEF TypeOK
<1>2. \A d \in Call \ {c} : call'[d] = call[d]
  BY PostDecisionDoes DEF TypeOK
<1>. QED  BY <1>1, <1>2, NothingNewKeepsOnce

LEMMA TabKeepsOnce ==
    ASSUME WaitInv, OnceInv, NEW t \in Tab,
           \/ Load(t) \/ Close(t) \/ EnsureSession(t) \/ Clear(t)
           \/ GetState(t) \/ GotState(t) \/ GetStateFails(t) \/ AnswerRead(t)
           \/ \E c \in Call : Record(c, t)
    PROVE  OnceInv'
<1>0. TypeOK /\ page[t] \in Page
  BY DEF WaitInv, TypeOK
<1>1. CASE Close(t)
  <2>1. /\ call' = [c \in Call |-> IF c \in Busy(t) THEN Over(c, "failed") ELSE call[c]]
        /\ wire' = wire /\ log' = log
    BY <1>1 DEF Close, server
  <2>2. \A c \in Call : call'[c] = call[c] \/ call'[c].phase = "failed"
    BY <1>0, <2>1, OverIs
  <2>. QED  BY <1>0, <2>1, <2>2, NothingNewKeepsOnce
<1>2. ASSUME NEW c \in Call, Record(c, t)  PROVE OnceInv'
  <2>1. PostDecision(c, t, page[t], 1) /\ log' = log /\ call[c].phase = "idle"
    BY <1>2 DEF Record, server
  <2>2. wire[c].at = "none"
    BY <2>1 DEF WaitInv, Waits, CallOK
  <2>3. ~Done(c)
    BY <2>1, <2>2 DEF Done
  <2>. QED  BY <1>0, <2>1, <2>3, PostDecisionKeepsOnce
<1>3. CASE \/ Load(t) \/ EnsureSession(t) \/ Clear(t)
           \/ GetState(t) \/ GotState(t) \/ GetStateFails(t) \/ AnswerRead(t)
  <2>1. UNCHANGED <<call, wire, log>>
    BY <1>3 DEF Load, EnsureSession, Clear, GetState, GotState, GetStateFails, AnswerRead, server
  <2>. QED  BY <1>0, <2>1, NothingNewKeepsOnce
<1>. QED  BY <1>1, <1>2, <1>3

LEMMA AskSettlesKeepsOnce ==
    ASSUME WaitInv, OnceInv, NEW i \in Starter, AskSettles(i)
    PROVE  OnceInv'
<1>0. TypeOK
  BY DEF WaitInv
<1>1. CASE Adopt(i)
  <2>1. ASSUME NEW c \in Call
        PROVE  \/ wire'[c] = wire[c] /\ call'[c] = call[c]
               \/ ~Done(c) /\ wire'[c].code = "none"
    <3>1. CASE call[c].phase = "session" /\ call[c].on = i
      <4>1. wire[c].at = "none"
        BY <3>1 DEF WaitInv, Waits, CallOK
      <4>2. wire'[c].code = "none"
        BY <1>1, <3>1, AdoptDoes
      <4>. QED  BY <3>1, <4>1, <4>2 DEF Done
    <3>2. CASE ~(call[c].phase = "session" /\ call[c].on = i)
      BY <1>1, <3>2, AdoptDoes
    <3>. QED  BY <3>1, <3>2
  <2>2. log' = log
    BY <1>1, AdoptDoes
  <2>. QED  BY <1>0, <2>1, <2>2, NothingNewKeepsOnce
<1>2. CASE Rejected(i) \/ AskFails(i)
  <2>1. wire' = wire /\ log' = log
    BY <1>2 DEF Rejected, AskFails, server
  <2>2. call' = call \/ call' = Throw(i)
    BY <1>2 DEF Rejected, AskFails
  <2>3. \A c \in Call : call'[c] = call[c] \/ call'[c].phase = "failed"
    BY <1>0, <2>2, OverIs DEF Throw
  <2>. QED  BY <1>0, <2>1, <2>3, NothingNewKeepsOnce
<1>. QED  BY <1>1, <1>2 DEF AskSettles

LEMMA SettlesKeepsOnce ==
    ASSUME WaitInv, OnceInv, NEW c \in Call, Settles(c)
    PROVE  OnceInv'
<1>. DEFINE t == call[c].tab
<1>0. /\ TypeOK /\ t \in Tab /\ page[t] \in Page /\ call[c].tries \in {1, 2}
      /\ call[c].phase = "posting" /\ log' = log
      /\ call \in [Call -> CallState] /\ wire \in [Call -> Post]
  BY BusyIsOpen DEF WaitInv, TypeOK, Settles, Recorded, Refused, PostFails, server
<1>1. CASE Recorded(c) \/ (Refused(c) /\ ~MayRetry(c))
  <2>1. PICK outcome \in {"recorded", "failed"} : call' = [call EXCEPT ![c] = Over(c, outcome)]
    BY <1>1 DEF Recorded, Refused
  <2>2. wire' = [wire EXCEPT ![c] = NoPost]
    BY <1>1 DEF Recorded, Refused
  <2>3. /\ call'[c].phase \in {"recorded", "failed"}
        /\ wire'[c].at = "none" /\ wire'[c].code = "none"
    BY <1>0, <2>1, <2>2, OverIs, NoThings
  <2>4. \A d \in Call \ {c} : wire'[d] = wire[d] /\ call'[d] = call[d]
    BY <1>0, <2>1, <2>2
  <2>. QED  BY <1>0, <2>3, <2>4, NothingNewKeepsOnce
<1>2. CASE Refused(c) /\ MayRetry(c)
  <2>. DEFINE pg == [page[t] EXCEPT !.token = None]
  <2>1. PostDecision(c, t, pg, call[c].tries + 1) /\ wire[c].code = "refused"
    BY <1>2 DEF Refused
  <2>2. call[c].tries + 1 = 2 /\ pg \in Page
    BY <1>0, <1>2 DEF MayRetry, Page, Maybe
  <2>3. ~Done(c)
    BY <1>0, <2>1 DEF Done
  <2>. HIDE DEF pg
  <2>4. PostDecision(c, t, pg, 2)
    BY <2>1, <2>2
  <2>. QED  BY <1>0, <2>2, <2>3, <2>4, PostDecisionKeepsOnce
<1>3. CASE PostFails(c)
  <2>1. wire' = wire /\ call' = [call EXCEPT ![c] = Over(c, "failed")]
    BY <1>3 DEF PostFails
  <2>2. call'[c].phase = "failed" /\ \A d \in Call \ {c} : call'[d] = call[d]
    BY <1>0, <2>1, OverIs
  <2>. QED  BY <1>0, <2>1, <2>2, NothingNewKeepsOnce
<1>. QED  BY <1>1, <1>2, <1>3 DEF Settles

LEMMA ServerKeepsOnce ==
    ASSUME WaitInv, VoiceInv, OnceInv,
           \/ \E i \in Starter : TurnAway(i) \/ ServeSession(i)
           \/ \E c \in Call : Decide(c)
           \/ Age
    PROVE  OnceInv'
<1>0. TypeOK /\ log \in Seq([by : Principal, call : Call])
  BY DEF WaitInv, TypeOK
<1>1. CASE (\E i \in Starter : TurnAway(i) \/ ServeSession(i)) \/ Age
  <2>1. UNCHANGED <<call, wire, log>>
    BY <1>1 DEF TurnAway, ServeSession, Age, server
  <2>. QED  BY <1>0, <2>1, NothingNewKeepsOnce
<1>2. ASSUME NEW c \in Call, Decide(c)  PROVE OnceInv'
  <2>1. wire[c].at = "sent"
    BY <1>2 DEF Decide
  <2>2. wire[c].token \in 1..Len(sessions)
    BY <2>1 DEF VoiceInv, Names
  <2>3. ~Done(c)
    BY <2>1 DEF Done
  <2>4. /\ wire'[c].at = "answered" /\ call' = call
        /\ \A d \in Call \ {c} : wire'[d] = wire[d]
    BY <1>2, <2>2, DecideDoes
  <2>5. (\A d \in Call : wire[d].at # "answered" => wire[d].code = "none")'
    BY <2>4 DEF OnceInv
  <2>6. ASSUME NEW m \in 1..Len(log)  PROVE log[m].call \in Call \ {c} /\ Done(log[m].call)
    <3>1. log[m] \in [by : Principal, call : Call]
      BY <1>0, ItemTyped
    <3>2. Done(log[m].call)
      BY DEF OnceInv
    <3>. QED  BY <2>3, <3>1, <3>2
  <2>7. \A d \in Call \ {c} : Done(d) => Done(d)'
    BY <2>4 DEF Done
  <2>8. CASE log' = log
    <3>1. (\A m \in 1..Len(log) : Done(log[m].call))'
      BY <2>6, <2>7, <2>8
    <3>. QED  BY <2>5, <2>8, <3>1 DEF OnceInv, RecordedOnce
  <2>9. CASE /\ wire'[c].code = "recorded"
             /\ log' = Append(log, [by |-> sessions[wire[c].token], call |-> c])
    <3>1. /\ Len(log') = Len(log) + 1 /\ Len(log) \in Nat /\ log'[Len(log) + 1].call = c
          /\ \A m \in 1..Len(log) : log'[m] = log[m]
      BY <1>0, <2>9
    <3>2. Done(c)'
      BY <2>4, <2>9 DEF Done
    <3>3. (\A m \in 1..Len(log) : Done(log[m].call))'
      <4>1. ASSUME NEW m \in 1..Len(log')  PROVE Done(log[m].call)'
        <5>1. CASE m \in 1..Len(log)
          <6>1. log'[m].call \in Call \ {c} /\ Done(log'[m].call)
            BY <2>6, <3>1, <5>1
          <6>. QED  BY <2>7, <6>1
        <5>2. CASE m = Len(log) + 1
          BY <3>1, <3>2, <5>2
        <5>. QED  BY <3>1, <5>1, <5>2
      <4>. QED  BY <4>1
    <3>4. RecordedOnce'
      BY <2>6, <3>1 DEF OnceInv, RecordedOnce
    <3>. QED  BY <2>5, <3>3, <3>4 DEF OnceInv
  <2>. QED  BY <1>2, <2>2, <2>8, <2>9, DecideDoes
<1>. QED  BY <1>1, <1>2

(***************************************************************************)
(* Which tabs can still make the server mint a principal.                  *)
(***************************************************************************)
LEMMA FinitelyMany == IsFiniteSet(Tab) /\ IsFiniteSet(Call)
BY ClientAssumption, FS_Subset

\* A tab that was spent stays so, and each principal minted spends another one.
LEMMA SpentCovers ==
    ASSUME TypeOK, minted <= Cardinality({t \in Tab : Spent(t)}),
           \A u \in Tab : Spent(u) => Spent(u)',
           \/ minted' = minted
           \/ minted' = minted + 1 /\ \E u \in Tab : ~Spent(u) /\ Spent(u)'
    PROVE  (minted <= Cardinality({t \in Tab : Spent(t)}))'
<1>. DEFINE S == {t \in Tab : Spent(t)}
            N == {t \in Tab : Spent(t)'}
<1>1. IsFiniteSet(N) /\ IsFiniteSet(S) /\ S \subseteq N
  BY FinitelyMany, FS_Subset
<1>2. Cardinality(S) \in Nat /\ Cardinality(N) \in Nat /\ Cardinality(S) <= Cardinality(N)
  BY <1>1, FS_Subset, FS_CardinalityType
<1>3. minted \in Nat
  BY DEF TypeOK
<1>4. CASE minted' = minted
  BY <1>2, <1>3, <1>4
<1>5. CASE minted' = minted + 1
  <2>1. PICK u \in Tab : ~Spent(u) /\ Spent(u)'
    BY <1>3, <1>5
  <2>2. S \cup {u} \subseteq N /\ u \notin S
    BY <1>1, <2>1
  <2>3. Cardinality(S \cup {u}) = Cardinality(S) + 1 /\ IsFiniteSet(S \cup {u})
    BY <1>1, <2>2, FS_AddElement
  <2>4. Cardinality(S \cup {u}) <= Cardinality(N)
    BY <1>1, <2>2, FS_Subset
  <2>. QED  BY <1>2, <1>3, <1>5, <2>3, <2>4
<1>. QED  BY <1>4, <1>5

\* A step after which every page has the identity it had.
LEMMA QuietKeepsMint ==
    ASSUME WaitInv, MintInv, Calm' => Calm, minted' = minted,
           stored'.principal = stored.principal, stored'.secret = stored.secret,
           \A u \in Tab : /\ page'[u].open <=> page[u].open
                          /\ page'[u].loads = page[u].loads
                          /\ page'[u].principal = page[u].principal
                          /\ page'[u].secret = page[u].secret
                          /\ page'[u].pending = page[u].pending \/ page[u].pending = None,
           \A i \in Starter :
              \/ asking'[i] = asking[i]
              \/ /\ asking[i].at # "granted" /\ asking'[i].tab \in Tab
                 /\ Calm => /\ asking'[i].claim = None <=> page[asking'[i].tab].principal = None
                            /\ asking'[i].at = "granted"
                                  => (asking'[i].fresh <=> asking'[i].claim = None)
    PROVE  MintInv'
<1>. SUFFICES ASSUME Calm, Calm'
              PROVE  (minted <= Cardinality({t \in Tab : Spent(t)}) /\ Pairs /\ Claims)'
  BY DEF MintInv
<1>0. /\ minted <= Cardinality({t \in Tab : Spent(t)}) /\ Pairs /\ Claims
      /\ \A u \in Tab : page[u].pending \in Maybe(Starter)
      /\ TypeOK
  BY DEF MintInv, WaitInv, TypeOK, Page
<1>1. ASSUME NEW u \in Tab, Spent(u)  PROVE Spent(u)'
  <2>1. CASE page[u].pending # None /\ asking[page[u].pending].at = "granted"
    <3>1. page[u].pending \in Starter
      BY <1>0, <2>1 DEF Maybe
    <3>2. asking'[page[u].pending] = asking[page[u].pending]
      BY <2>1, <3>1
    <3>. QED  BY <1>1, <2>1, <3>2 DEF Spent
  <2>2. CASE ~page[u].open \/ page[u].principal # None
    BY <1>1, <2>2 DEF Spent
  <2>. QED  BY <1>1, <2>1, <2>2 DEF Spent
<1>2. Pairs'
  BY <1>0 DEF Pairs
<1>3. ASSUME NEW i \in Starter, asking'[i].at # "none"
      PROVE  /\ asking'[i].claim = None <=> page'[asking'[i].tab].principal = None
             /\ asking'[i].at = "granted" => (asking'[i].fresh <=> asking'[i].claim = None)
  <2>1. CASE asking'[i] = asking[i]
    <3>1. asking[i].tab \in Tab
      BY <1>3, <2>1 DEF WaitInv, Waits, AskOK
    <3>. QED  BY <1>0, <1>3, <2>1, <3>1 DEF Claims
  <2>2. CASE asking'[i] # asking[i]
    BY <1>3, <2>2
  <2>. QED  BY <2>1, <2>2
<1>4. Claims'
  BY <1>3 DEF Claims
<1>5. (minted <= Cardinality({t \in Tab : Spent(t)}))'
  BY <1>0, <1>1, SpentCovers
<1>. QED  BY <1>2, <1>4, <1>5

LEMMA PostDecisionKeepsMint ==
    ASSUME WaitInv, MintInv, calm' = calm, minted' = minted,
           stored'.principal = stored.principal, stored'.secret = stored.secret,
           NEW c \in Call, NEW t \in Tab, NEW pg \in Page, NEW tries \in {1, 2},
           PostDecision(c, t, pg, tries), page[t].open, call[c].phase \in {"idle", "posting"},
           pg.open, pg.loads = page[t].loads, pg.pending = page[t].pending,
           pg.principal = page[t].principal, pg.secret = page[t].secret
    PROVE  MintInv'
<1>0. /\ TypeOK /\ page \in [Tab -> Page] /\ asking \in [Starter -> Ask] /\ c \in Starter
      /\ pg.principal \in Maybe(Principal) /\ pg.secret \in Maybe(Principal)
  BY DEF WaitInv, TypeOK, Starter, Page
<1>1. /\ page'[t].open /\ page'[t].loads = page[t].loads
      /\ page'[t].principal = page[t].principal /\ page'[t].secret = page[t].secret
      /\ page'[t].pending = page[t].pending \/ page[t].pending = None
      /\ \A u \in Tab \ {t} : page'[u] = page[u]
  <2>1. \/ page' = [page EXCEPT ![t] = pg]
        \/ /\ pg.pending = None
           /\ page' = [page EXCEPT ![t] = [pg EXCEPT !.pending = c]]
    BY <1>0, PostDecisionDoes
  <2>2. CASE page' = [page EXCEPT ![t] = pg]
    BY <1>0, <2>2
  <2>3. CASE pg.pending = None /\ page' = [page EXCEPT ![t] = [pg EXCEPT !.pending = c]]
    BY <1>0, <2>3 DEF Page
  <2>. QED  BY <2>1, <2>2, <2>3
<1>2. ASSUME NEW i \in Starter
      PROVE  \/ asking'[i] = asking[i]
             \/ /\ asking[i].at # "granted" /\ asking'[i].tab \in Tab
                /\ Calm => /\ asking'[i].claim = None <=> page[asking'[i].tab].principal = None
                           /\ asking'[i].at = "granted"
                                 => (asking'[i].fresh <=> asking'[i].claim = None)
  <2>. DEFINE ask == Request(t, pg.principal, pg.secret)
  <2>1. asking' = asking \/ asking' = [asking EXCEPT ![c] = ask]
    BY <1>0, PostDecisionDoes
  <2>2. /\ ask.at = "sent" /\ ask.tab = t
        /\ ask.claim = (IF pg.secret # None THEN pg.principal ELSE None)
    BY <1>0, RequestIs
  <2>3. asking[c].at = "none"
    BY <1>0 DEF WaitInv, Waits, AskOK
  <2>4. Calm => (pg.principal = None <=> pg.secret = None)
    BY DEF MintInv, Pairs
  <2>. HIDE DEF ask
  <2>5. asking'[i] = asking[i] \/ (i = c /\ asking'[i] = ask)
    BY <1>0, <2>1
  <2>. QED  BY <2>2, <2>3, <2>4, <2>5
<1>3. Calm' => Calm
  BY DEF Calm
<1>4. minted' = minted
  OBVIOUS
<1>5. \A u \in Tab : /\ page'[u].open <=> page[u].open
                     /\ page'[u].loads = page[u].loads
                     /\ page'[u].principal = page[u].principal
                     /\ page'[u].secret = page[u].secret
                     /\ page'[u].pending = page[u].pending \/ page[u].pending = None
  BY <1>1
<1>. QED  BY <1>2, <1>3, <1>4, <1>5, QuietKeepsMint

LEMMA LoadKeepsMint ==
    ASSUME WaitInv, MintInv, NEW t \in Tab, Load(t)
    PROVE  MintInv'
<1>. DEFINE token == IF Live(stored.token) THEN stored.token ELSE None
            now == [open |-> TRUE, loads |-> page[t].loads + 1, principal |-> stored.principal,
                    secret |-> stored.secret, token |-> token, state |-> stored.state,
                    pending |-> None]
<1>0. /\ TypeOK /\ page \in [Tab -> Page] /\ stored \in Store /\ calm \in [Tab -> BOOLEAN]
      /\ page[t].loads \in Nat /\ PageOK(t)
  BY DEF WaitInv, TypeOK, Page, Waits
<1>1. /\ page' = [page EXCEPT ![t] = now] /\ stored' = [stored EXCEPT !.token = token]
      /\ ~page[t].open /\ calm' = [calm EXCEPT ![t] = page[t].loads = 0]
      /\ UNCHANGED <<asking, minted>>
  BY DEF Load, server
<1>2. /\ now.open /\ now.loads = page[t].loads + 1 /\ now.principal = stored.principal
      /\ now.secret = stored.secret
      /\ stored'.principal = stored.principal /\ stored'.secret = stored.secret
  BY <1>0, <1>1 DEF Store
<1>. HIDE DEF now, token
<1>3. page'[t] = now /\ \A u \in Tab \ {t} : page'[u] = page[u]
  BY <1>0, <1>1
<1>. SUFFICES ASSUME Calm'
              PROVE  (minted <= Cardinality({u \in Tab : Spent(u)}) /\ Pairs /\ Claims)'
  BY DEF MintInv
<1>4. page[t].loads = 0 /\ Calm
  <2>1. page[t].loads = 0
    BY <1>0, <1>1 DEF Calm
  <2>2. calm[t]
    BY <1>0, <2>1 DEF PageOK
  <2>3. \A u \in Tab \ {t} : calm[u] = calm'[u]
    BY <1>0, <1>1
  <2>. QED  BY <2>1, <2>2, <2>3 DEF Calm
<1>5. minted <= Cardinality({u \in Tab : Spent(u)}) /\ Pairs /\ Claims
  BY <1>4 DEF MintInv
<1>6. ASSUME NEW u \in Tab, Spent(u)  PROVE Spent(u)'
  <2>1. u # t
    BY <1>4, <1>6 DEF Spent
  <2>. QED  BY <1>1, <1>3, <1>6, <2>1 DEF Spent
<1>7. (minted <= Cardinality({u \in Tab : Spent(u)}))'
  BY <1>0, <1>1, <1>5, <1>6, SpentCovers
<1>8. Pairs'
  BY <1>2, <1>3, <1>5 DEF Pairs
<1>9. Claims'
  <2>1. ASSUME NEW i \in Starter, asking[i].at # "none"
        PROVE  page'[asking[i].tab] = page[asking[i].tab]
    <3>1. asking[i].tab \in Tab \ {t}
      BY <1>1, <2>1 DEF WaitInv, Waits, AskOK
    <3>. QED  BY <1>3, <3>1
  <2>. QED  BY <1>1, <1>5, <2>1 DEF Claims
<1>. QED  BY <1>7, <1>8, <1>9

LEMMA CloseKeepsMint ==
    ASSUME WaitInv, MintInv, NEW t \in Tab, Close(t)
    PROVE  MintInv'
<1>. DEFINE now == [Closed EXCEPT !.loads = page[t].loads]
<1>0. /\ TypeOK /\ page \in [Tab -> Page] /\ page[t].open /\ page[t].loads > 0
      /\ \A u \in Tab : page[u].pending \in Maybe(Starter)
  BY DEF WaitInv, TypeOK, Page, Waits, PageOK, Close
<1>1. /\ page' = [page EXCEPT ![t] = now]
      /\ asking' = [i \in Starter |-> IF asking[i].tab = t THEN NoAsk ELSE asking[i]]
      /\ UNCHANGED <<stored, minted, calm>>
  BY DEF Close, server
<1>2. ~now.open /\ now.loads = page[t].loads
  BY DEF Closed
<1>. HIDE DEF now
<1>3. page'[t] = now /\ \A u \in Tab \ {t} : page'[u] = page[u]
  BY <1>0, <1>1
<1>. SUFFICES ASSUME Calm'
              PROVE  (minted <= Cardinality({u \in Tab : Spent(u)}) /\ Pairs /\ Claims)'
  BY DEF MintInv
<1>4. minted <= Cardinality({u \in Tab : Spent(u)}) /\ Pairs /\ Claims
  BY <1>1 DEF MintInv, Calm
<1>5. \A i \in Starter : asking'[i] = (IF asking[i].tab = t THEN NoAsk ELSE asking[i])
  BY <1>1
<1>6. ASSUME NEW u \in Tab, Spent(u)  PROVE Spent(u)'
  <2>1. CASE u = t
    BY <1>0, <1>2, <1>3, <2>1 DEF Spent
  <2>2. CASE u # t /\ page[u].pending # None /\ asking[page[u].pending].at = "granted"
    <3>1. page[u].pending \in Starter /\ asking[page[u].pending].tab = u
      BY <1>0, <2>2 DEF Maybe, WaitInv, Waits, PageOK
    <3>2. asking'[page[u].pending] = asking[page[u].pending]
      BY <1>5, <2>2, <3>1
    <3>. QED  BY <1>3, <1>6, <2>2, <3>2 DEF Spent
  <2>3. CASE u # t /\ (~page[u].open \/ page[u].principal # None)
    BY <1>3, <1>6, <2>3 DEF Spent
  <2>. QED  BY <1>6, <2>1, <2>2, <2>3 DEF Spent
<1>7. (minted <= Cardinality({u \in Tab : Spent(u)}))'
  BY <1>0, <1>1, <1>4, <1>6, SpentCovers
<1>8. Pairs'
  BY <1>1, <1>2, <1>3, <1>4 DEF Pairs
<1>9. ASSUME NEW i \in Starter, asking'[i].at # "none"
      PROVE  /\ asking'[i].claim = None <=> page'[asking'[i].tab].principal = None
             /\ asking'[i].at = "granted" => (asking'[i].fresh <=> asking'[i].claim = None)
  <2>1. asking'[i] = asking[i] /\ asking[i].tab # t
    BY <1>5, <1>9, NoThings
  <2>2. asking[i].tab \in Tab
    BY <1>9, <2>1 DEF WaitInv, Waits, AskOK
  <2>. QED  BY <1>3, <1>4, <1>9, <2>1, <2>2 DEF Claims
<1>. QED  BY <1>7, <1>8, <1>9 DEF Claims

LEMMA TabKeepsMint ==
    ASSUME WaitInv, MintInv, NEW t \in Tab,
           \/ Load(t) \/ Close(t) \/ EnsureSession(t) \/ Clear(t)
           \/ GetState(t) \/ GotState(t) \/ GetStateFails(t) \/ AnswerRead(t)
           \/ \E c \in Call : Record(c, t)
    PROVE  MintInv'
<1>0. /\ TypeOK /\ page \in [Tab -> Page] /\ asking \in [Starter -> Ask] /\ stored \in Store
      /\ page[t] \in Page /\ calm \in [Tab -> BOOLEAN]
  BY DEF WaitInv, TypeOK
<1>1. CASE EnsureSession(t)
  <2>. DEFINE ask == Request(t, page[t].principal, page[t].secret)
              now == [page[t] EXCEPT !.pending = t]
  <2>1. /\ page' = [page EXCEPT ![t] = now] /\ asking' = [asking EXCEPT ![t] = ask]
        /\ page[t].pending = None /\ page[t].principal # None /\ page[t].secret # None
        /\ UNCHANGED <<stored, minted, calm>>
    BY <1>1 DEF EnsureSession, Opening, Opened, Shares, server
  <2>2. ask.at = "sent" /\ ask.tab = t /\ ask.claim = page[t].principal
    <3>1. page[t].principal \in Maybe(Principal) /\ page[t].secret \in Maybe(Principal)
      BY <1>0 DEF Page
    <3>. QED  BY <2>1, <3>1, RequestIs
  <2>3. /\ now.open = page[t].open /\ now.loads = page[t].loads
        /\ now.principal = page[t].principal /\ now.secret = page[t].secret
    BY <1>0 DEF Page
  <2>4. asking[t].at # "granted"
    <3>1. t \in Starter /\ t # None
      BY ClientAssumption DEF Starter
    <3>. QED  BY <2>1, <3>1 DEF WaitInv, Waits, AskOK
  <2>. HIDE DEF ask, now
  <2>5. \A u \in Tab : /\ page'[u].open <=> page[u].open
                       /\ page'[u].loads = page[u].loads
                       /\ page'[u].principal = page[u].principal
                       /\ page'[u].secret = page[u].secret
                       /\ page'[u].pending = page[u].pending \/ page[u].pending = None
    BY <1>0, <2>1, <2>3
  <2>6. ASSUME NEW i \in Starter
        PROVE  \/ asking'[i] = asking[i]
               \/ /\ asking[i].at # "granted" /\ asking'[i].tab \in Tab
                  /\ Calm => /\ asking'[i].claim = None <=> page[asking'[i].tab].principal = None
                             /\ asking'[i].at = "granted"
                                   => (asking'[i].fresh <=> asking'[i].claim = None)
    BY <1>0, <2>1, <2>2, <2>4
  <2>7. Calm' => Calm
    BY <2>1 DEF Calm
  <2>. QED  BY <2>1, <2>5, <2>6, <2>7, QuietKeepsMint
<1>2. CASE Clear(t)
  BY <1>0, <1>2 DEF Clear, MintInv, Calm
<1>3. CASE GetState(t) \/ GetStateFails(t) \/ AnswerRead(t)
  <2>1. UNCHANGED <<page, stored, asking, minted, calm>>
    BY <1>3 DEF GetState, GetStateFails, AnswerRead, server
  <2>2. Calm' => Calm
    BY <2>1 DEF Calm
  <2>. QED  BY <2>1, <2>2, QuietKeepsMint
<1>4. CASE GotState(t)
  <2>1. /\ page' = [page EXCEPT ![t].state = reading[t].state]
        /\ stored' = [stored EXCEPT !.state = reading[t].state]
        /\ UNCHANGED <<asking, minted, calm>>
    BY <1>4 DEF GotState, server
  <2>2. \A u \in Tab : /\ page'[u].open = page[u].open
                       /\ page'[u].loads = page[u].loads
                       /\ page'[u].principal = page[u].principal
                       /\ page'[u].secret = page[u].secret
                       /\ page'[u].pending = page[u].pending
    BY <1>0, <2>1 DEF Page
  <2>3. stored'.principal = stored.principal /\ stored'.secret = stored.secret
    BY <1>0, <2>1 DEF Store
  <2>4. Calm' => Calm
    BY <2>1 DEF Calm
  <2>. QED  BY <2>1, <2>2, <2>3, <2>4, QuietKeepsMint
<1>5. ASSUME NEW c \in Call, Record(c, t)  PROVE MintInv'
  <2>1. /\ PostDecision(c, t, page[t], 1) /\ UNCHANGED <<stored, minted, calm>>
        /\ page[t].open /\ call[c].phase \in {"idle", "posting"}
    BY <1>5 DEF Record, server
  <2>. QED  BY <1>0, <2>1, PostDecisionKeepsMint
<1>. QED  BY <1>1, <1>2, <1>3, <1>4, <1>5, LoadKeepsMint, CloseKeepsMint

LEMMA AskSettlesKeepsMint ==
    ASSUME WaitInv, VoiceInv, MintInv, NEW i \in Starter, AskSettles(i)
    PROVE  MintInv'
<1>. DEFINE t == asking[i].tab
<1>0. /\ TypeOK /\ page \in [Tab -> Page] /\ asking \in [Starter -> Ask]
      /\ calm \in [Tab -> BOOLEAN]
      /\ \A u \in Tab : page[u].pending \in Maybe(Starter) /\ PageOK(u)
  BY DEF WaitInv, TypeOK, Waits, Page
<1>1. t \in Tab /\ page[t].open /\ page[t].pending = i /\ i # None
  <2>1. asking[i].at # "none"
    BY DEF AskSettles, Adopt, Rejected, AskFails
  <2>. QED  BY <2>1, ClientAssumption DEF WaitInv, Waits, AskOK, Starter
<1>2. CASE Rejected(i) \/ AskFails(i)
  <2>1. calm' = [calm EXCEPT ![t] = FALSE]
    BY <1>2 DEF Rejected, AskFails
  <2>. QED  BY <1>0, <1>1, <2>1 DEF MintInv, Calm
<1>3. CASE Adopt(i)
  <2>1. /\ asking[i].at = "granted"
        /\ \A u \in Tab \ {t} : page'[u] = page[u]
        /\ page'[t].open /\ page'[t].loads = page[t].loads
        /\ page'[t].principal = asking[i].principal
        /\ page'[t].secret = IF asking[i].fresh THEN asking[i].principal ELSE page[t].secret
        /\ stored'.principal = asking[i].principal
        /\ stored'.secret = IF asking[i].fresh THEN asking[i].principal ELSE stored.secret
        /\ asking' = [asking EXCEPT ![i] = NoAsk]
        /\ UNCHANGED <<minted, calm>>
    BY <1>3, AdoptDoes
  <2>2. asking[i].principal # None
    <3>1. asking[i].token \in 1..Len(sessions) /\ asking[i].principal = sessions[asking[i].token]
      BY <2>1 DEF VoiceInv, Names
    <3>2. sessions \in Seq(Principal)
      BY <1>0 DEF TypeOK
    <3>3. asking[i].principal \in Principal
      BY <3>1, <3>2, ItemTyped
    <3>. QED  BY <3>3, ClientAssumption DEF Principal
  <2>. SUFFICES ASSUME Calm'
                PROVE  (minted <= Cardinality({u \in Tab : Spent(u)}) /\ Pairs /\ Claims)'
    BY DEF MintInv
  <2>3. minted <= Cardinality({u \in Tab : Spent(u)}) /\ Pairs /\ Claims
    BY <2>1 DEF MintInv, Calm
  <2>4. asking'[i].at = "none" /\ \A j \in Starter \ {i} : asking'[j] = asking[j]
    BY <1>0, <2>1, NoThings
  <2>5. ASSUME NEW u \in Tab, Spent(u)  PROVE Spent(u)'
    <3>1. CASE u = t
      BY <1>0, <1>1, <2>1, <2>2, <3>1 DEF Spent, PageOK
    <3>2. CASE u # t /\ page[u].pending # None /\ asking[page[u].pending].at = "granted"
      <4>1. page[u].pending \in Starter /\ asking[page[u].pending].tab = u
        BY <1>0, <3>2 DEF Maybe, PageOK
      <4>2. asking'[page[u].pending] = asking[page[u].pending]
        BY <2>4, <3>2, <4>1
      <4>. QED  BY <2>1, <2>5, <3>2, <4>2 DEF Spent
    <3>3. CASE u # t /\ (~page[u].open \/ page[u].principal # None)
      BY <2>1, <2>5, <3>3 DEF Spent
    <3>. QED  BY <2>5, <3>1, <3>2, <3>3 DEF Spent
  <2>6. (minted <= Cardinality({u \in Tab : Spent(u)}))'
    BY <1>0, <2>1, <2>3, <2>5, SpentCovers
  <2>7. Pairs'
    <3>1. page'[t].secret # None /\ stored'.secret # None
      <4>1. CASE asking[i].fresh
        BY <2>1, <2>2, <4>1
      <4>2. CASE ~asking[i].fresh
        <5>1. page[t].principal # None
          BY <2>1, <2>3, <4>2 DEF Claims
        <5>. QED  BY <1>1, <2>1, <2>3, <4>2, <5>1 DEF Pairs
      <4>. QED  BY <4>1, <4>2
    <3>. QED  BY <1>1, <2>1, <2>2, <2>3, <3>1 DEF Pairs
  <2>8. ASSUME NEW j \in Starter, asking'[j].at # "none"
        PROVE  /\ asking'[j].claim = None <=> page'[asking'[j].tab].principal = None
               /\ asking'[j].at = "granted" => (asking'[j].fresh <=> asking'[j].claim = None)
    <3>1. j # i /\ asking'[j] = asking[j]
      BY <2>4, <2>8
    <3>2. asking[j].tab \in Tab \ {t}
      BY <1>1, <2>8, <3>1 DEF WaitInv, Waits, AskOK
    <3>. QED  BY <2>1, <2>3, <2>8, <3>1, <3>2 DEF Claims
  <2>. QED  BY <2>6, <2>7, <2>8 DEF Claims
<1>. QED  BY <1>2, <1>3 DEF AskSettles

LEMMA SettlesKeepsMint ==
    ASSUME WaitInv, MintInv, NEW c \in Call, Settles(c)
    PROVE  MintInv'
<1>. DEFINE t == call[c].tab
<1>0. /\ TypeOK /\ page \in [Tab -> Page] /\ stored \in Store /\ calm \in [Tab -> BOOLEAN]
      /\ t \in Tab /\ page[t] \in Page /\ page[t].open /\ call[c].phase = "posting"
  BY BusyIsOpen DEF WaitInv, TypeOK, Settles, Recorded, Refused, PostFails
<1>1. CASE Recorded(c)
  <2>1. /\ page' = [page EXCEPT ![t].state = wire[c].state]
        /\ stored' = [stored EXCEPT !.state = wire[c].state]
        /\ UNCHANGED <<asking, minted, calm>>
    BY <1>1 DEF Recorded, server
  <2>2. \A u \in Tab : /\ page'[u].open = page[u].open
                       /\ page'[u].loads = page[u].loads
                       /\ page'[u].principal = page[u].principal
                       /\ page'[u].secret = page[u].secret
                       /\ page'[u].pending = page[u].pending
    BY <1>0, <2>1 DEF Page
  <2>3. stored'.principal = stored.principal /\ stored'.secret = stored.secret
    BY <1>0, <2>1 DEF Store
  <2>4. Calm' => Calm
    BY <2>1 DEF Calm
  <2>. QED  BY <2>1, <2>2, <2>3, <2>4, QuietKeepsMint
<1>2. CASE Refused(c) /\ MayRetry(c)
  <2>. DEFINE pg == [page[t] EXCEPT !.token = None]
  <2>1. /\ PostDecision(c, t, pg, call[c].tries + 1) /\ stored' = [stored EXCEPT !.token = None]
        /\ calm' = calm /\ minted' = minted
    BY <1>2 DEF Refused, server
  <2>2. call[c].tries + 1 = 2
    BY <1>2 DEF MayRetry
  <2>3. /\ pg \in Page /\ pg.open /\ pg.loads = page[t].loads /\ pg.pending = page[t].pending
        /\ pg.principal = page[t].principal /\ pg.secret = page[t].secret
        /\ stored'.principal = stored.principal /\ stored'.secret = stored.secret
    BY <1>0, <2>1 DEF Page, Store, Maybe
  <2>. HIDE DEF pg
  <2>4. PostDecision(c, t, pg, 2)
    BY <2>1, <2>2
  <2>. QED  BY <1>0, <2>1, <2>3, <2>4, PostDecisionKeepsMint
<1>3. CASE Refused(c) /\ ~MayRetry(c)
  <2>1. UNCHANGED <<page, stored, asking, minted, calm>>
    BY <1>3 DEF Refused, server
  <2>2. Calm' => Calm
    BY <2>1 DEF Calm
  <2>. QED  BY <2>1, <2>2, QuietKeepsMint
<1>4. CASE PostFails(c)
  BY <1>0, <1>4 DEF PostFails, MintInv, Calm
<1>. QED  BY <1>1, <1>2, <1>3, <1>4 DEF Settles

\* What a session request that is granted is told.
LEMMA GrantDoes ==
    ASSUME WaitInv, NEW i \in Starter, ServeSession(i),
           (asking[i].claim # None) => (asking[i].secret = asking[i].claim)
    PROVE  /\ asking[i].at = "sent" /\ asking'[i].at = "granted"
           /\ asking'[i].tab = asking[i].tab /\ asking'[i].claim = asking[i].claim
           /\ asking'[i].fresh <=> asking[i].claim = None
           /\ asking'[i].principal = IF asking[i].claim = None THEN minted + 1 ELSE asking[i].claim
           /\ minted' = IF asking[i].claim = None THEN minted + 1 ELSE minted
           /\ \A j \in Starter \ {i} : asking'[j] = asking[j]
           /\ UNCHANGED <<page, stored, call, wire, reading, aged, log, mixed, calm>>
<1>. DEFINE p == IF asking[i].claim = None THEN minted + 1 ELSE asking[i].claim
            known == asking[i].claim # None
            new == [asking[i] EXCEPT !.at = "granted", !.principal = p, !.fresh = ~known,
                                     !.token = Len(sessions) + 1]
<1>0. asking \in [Starter -> Ask] /\ asking[i] \in Ask
  BY DEF WaitInv, TypeOK
<1>1. /\ asking[i].at = "sent" /\ minted' = (IF known THEN minted ELSE p)
      /\ asking' = [asking EXCEPT ![i] = new]
      /\ UNCHANGED <<page, stored, call, wire, reading, aged, log, mixed, calm>>
  BY DEF ServeSession
<1>2. /\ new.at = "granted" /\ new.tab = asking[i].tab /\ new.claim = asking[i].claim
      /\ new.fresh = ~known /\ new.principal = p
  <2>. HIDE DEF p
  <2>. QED  BY <1>0 DEF Ask
<1>. HIDE DEF new
<1>3. asking'[i] = new /\ \A j \in Starter \ {i} : asking'[j] = asking[j]
  BY <1>0, <1>1
<1>. QED  BY <1>1, <1>2, <1>3

LEMMA ServerKeepsMint ==
    ASSUME WaitInv, MintInv,
           \/ \E i \in Starter : TurnAway(i) \/ ServeSession(i)
           \/ \E c \in Call : Decide(c)
           \/ Age
    PROVE  MintInv'
<1>0. /\ TypeOK /\ page \in [Tab -> Page] /\ asking \in [Starter -> Ask]
      /\ \A i \in Starter : asking[i] \in Ask
  BY DEF WaitInv, TypeOK
<1>1. ASSUME NEW i \in Starter, asking[i].at = "sent",
             asking' = [asking EXCEPT ![i].at = "refused"],
             UNCHANGED <<page, stored, minted, calm>>
      PROVE  MintInv'
  <2>1. /\ asking'[i].at = "refused" /\ asking'[i].tab = asking[i].tab
        /\ asking'[i].claim = asking[i].claim
        /\ \A j \in Starter \ {i} : asking'[j] = asking[j]
    BY <1>0, <1>1 DEF Ask
  <2>2. asking[i].tab \in Tab
    BY <1>1 DEF WaitInv, Waits, AskOK
  <2>3. Calm => (asking[i].claim = None <=> page[asking[i].tab].principal = None)
    BY <1>1 DEF MintInv, Claims
  <2>4. Calm' => Calm
    BY <1>1 DEF Calm
  <2>. QED  BY <1>1, <2>1, <2>2, <2>3, <2>4, QuietKeepsMint
<1>2. ASSUME NEW i \in Starter, ServeSession(i),
             (asking[i].claim # None) => (asking[i].secret = asking[i].claim)
      PROVE  MintInv'
  <2>1. /\ asking[i].at = "sent" /\ asking'[i].at = "granted"
        /\ asking'[i].tab = asking[i].tab /\ asking'[i].claim = asking[i].claim
        /\ asking'[i].fresh <=> asking[i].claim = None
        /\ minted' = IF asking[i].claim = None THEN minted + 1 ELSE minted
        /\ \A j \in Starter \ {i} : asking'[j] = asking[j]
        /\ UNCHANGED <<page, stored, calm>>
    BY <1>2, GrantDoes
  <2>2. /\ asking[i].tab \in Tab /\ page[asking[i].tab].open
        /\ page[asking[i].tab].pending = i /\ i # None
        /\ page[asking[i].tab].loads > 0
    BY <2>1, ClientAssumption DEF WaitInv, Waits, AskOK, PageOK, Starter
  <2>3. Calm => (asking[i].claim = None <=> page[asking[i].tab].principal = None)
    BY <2>1 DEF MintInv, Claims
  <2>4. Calm' => Calm
    BY <2>1 DEF Calm
  <2>5. CASE asking[i].claim # None
    BY <2>1, <2>2, <2>3, <2>4, <2>5, QuietKeepsMint
  <2>6. CASE asking[i].claim = None
    <3>. SUFFICES ASSUME Calm'
                  PROVE  (minted <= Cardinality({u \in Tab : Spent(u)}) /\ Pairs /\ Claims)'
      BY DEF MintInv
    <3>1. minted <= Cardinality({u \in Tab : Spent(u)}) /\ Pairs /\ Claims
      BY <2>4 DEF MintInv
    <3>2. ASSUME NEW u \in Tab, Spent(u)  PROVE Spent(u)'
      <4>1. page[u].pending \in Maybe(Starter)
        BY <1>0 DEF Page
      <4>2. CASE page[u].pending # None /\ asking[page[u].pending].at = "granted"
        <5>1. page[u].pending \in Starter \ {i}
          BY <2>1, <4>1, <4>2 DEF Maybe
        <5>. QED  BY <2>1, <3>2, <4>2, <5>1 DEF Spent
      <4>3. CASE ~page[u].open \/ page[u].principal # None
        BY <2>1, <3>2, <4>3 DEF Spent
      <4>. QED  BY <3>2, <4>2, <4>3 DEF Spent
    <3>3. ASSUME NEW u \in Tab, u = asking[i].tab  PROVE ~Spent(u) /\ Spent(u)'
      <4>1. page[asking[i].tab].principal = None
        BY <2>3, <2>4, <2>6
      <4>. QED  BY <2>1, <2>2, <3>3, <4>1 DEF Spent
    <3>4. (minted <= Cardinality({u \in Tab : Spent(u)}))'
      <4>1. \E u \in Tab : ~Spent(u) /\ Spent(u)'
        BY <2>2, <3>3
      <4>. QED  BY <1>0, <2>1, <2>6, <3>1, <3>2, <4>1, SpentCovers
    <3>5. Pairs'
      BY <2>1, <3>1 DEF Pairs
    <3>6. Claims'
      <4>1. ASSUME NEW j \in Starter, asking'[j].at # "none"
            PROVE  /\ asking'[j].claim = None <=> page'[asking'[j].tab].principal = None
                   /\ asking'[j].at = "granted" => (asking'[j].fresh <=> asking'[j].claim = None)
        <5>1. CASE j = i
          BY <2>1, <2>3, <2>4, <5>1
        <5>2. CASE j # i
          BY <2>1, <3>1, <4>1, <5>2 DEF Claims
        <5>. QED  BY <5>1, <5>2
      <4>. QED  BY <4>1 DEF Claims
    <3>. QED  BY <3>4, <3>5, <3>6
  <2>. QED  BY <2>5, <2>6
<1>3. ASSUME NEW i \in Starter, TurnAway(i)  PROVE MintInv'
  BY <1>1, <1>3 DEF TurnAway, server
<1>4. ASSUME NEW i \in Starter, ServeSession(i)  PROVE MintInv'
  <2>1. CASE (asking[i].claim # None) => (asking[i].secret = asking[i].claim)
    BY <1>2, <1>4, <2>1
  <2>2. CASE ~((asking[i].claim # None) => (asking[i].secret = asking[i].claim))
    BY <1>1, <1>4, <2>2 DEF ServeSession
  <2>. QED  BY <2>1, <2>2
<1>5. CASE (\E c \in Call : Decide(c)) \/ Age
  <2>1. UNCHANGED <<page, stored, asking, minted, calm>>
    BY <1>5 DEF Decide, Age
  <2>2. Calm' => Calm
    BY <2>1 DEF Calm
  <2>. QED  BY <2>1, <2>2, QuietKeepsMint
<1>. QED  BY <1>3, <1>4, <1>5

(***************************************************************************)
(* What a page that is alone has been told.                                *)
(***************************************************************************)
\* A call stays with its tab.
LEMMA CallsKeepTheirTab ==
    ASSUME WaitInv, Next, NEW c \in Call, call[c].tab # None
    PROVE  call'[c].tab = call[c].tab
<1>0. /\ TypeOK /\ call \in [Call -> CallState] /\ page \in [Tab -> Page]
      /\ \A d \in Call : CallOK(d)
  BY DEF WaitInv, TypeOK, Waits
<1>1. ASSUME NEW t \in Tab, Close(t)  PROVE call'[c].tab = call[c].tab
  <2>1. call' = [d \in Call |-> IF d \in Busy(t) THEN Over(d, "failed") ELSE call[d]]
    BY <1>1 DEF Close
  <2>. QED  BY <1>0, <2>1, OverIs
<1>2. ASSUME NEW t \in Tab, NEW d \in Call, Record(d, t)  PROVE call'[c].tab = call[c].tab
  <2>1. PostDecision(d, t, page[t], 1) /\ call[d].phase = "idle"
    BY <1>2 DEF Record
  <2>2. d # c
    BY <1>0, <2>1 DEF CallOK
  <2>3. page[t] \in Page
    BY <1>0
  <2>. QED  BY <1>0, <2>1, <2>2, <2>3, PostDecisionDoes
<1>3. ASSUME NEW i \in Starter, AskSettles(i)  PROVE call'[c].tab = call[c].tab
  <2>1. CASE Adopt(i)
    BY <2>1, AdoptDoes
  <2>2. CASE Rejected(i) \/ AskFails(i)
    <3>1. call' = call \/ call' = Throw(i)
      BY <2>2 DEF Rejected, AskFails
    <3>. QED  BY <1>0, <3>1, OverIs DEF Throw
  <2>. QED  BY <1>3, <2>1, <2>2 DEF AskSettles
<1>4. ASSUME NEW d \in Call, Settles(d)  PROVE call'[c].tab = call[c].tab
  <2>1. CASE \E outcome \in {"recorded", "failed"} : call' = [call EXCEPT ![d] = Over(d, outcome)]
    BY <1>0, <2>1, OverIs
  <2>2. CASE Refused(d) /\ MayRetry(d)
    <3>. DEFINE t == call[d].tab
                pg == [page[t] EXCEPT !.token = None]
    <3>1. PostDecision(d, t, pg, call[d].tries + 1) /\ call[d].phase = "posting"
      BY <2>2 DEF Refused
    <3>2. t \in Tab /\ call[d].tries + 1 = 2
      BY <2>2, <3>1, BusyIsOpen DEF MayRetry
    <3>3. pg \in Page
      BY <1>0, <3>2 DEF Page, Maybe
    <3>. HIDE DEF pg
    <3>4. PostDecision(d, t, pg, 2)
      BY <3>1, <3>2
    <3>5. call'[d].tab = t /\ \A e \in Call \ {d} : call'[e] = call[e]
      <4>1. Settled(t, "failed").tab = t
        BY DEF Settled
      <4>2. \E new : call' = [call EXCEPT ![d] = new] /\ new.tab = t
        BY <1>0, <3>2, <3>3, <3>4, <4>1, PostDecisionDoes
      <4>. QED  BY <1>0, <4>2
    <3>. QED  BY <3>5
  <2>. QED  BY <1>4, <2>1, <2>2 DEF Settles, Recorded, Refused, PostFails
<1>5. ASSUME NEW t \in Tab,
             \/ Load(t) \/ EnsureSession(t) \/ Clear(t)
             \/ GetState(t) \/ GotState(t) \/ GetStateFails(t) \/ AnswerRead(t)
      PROVE  call' = call
  BY <1>5 DEF Load, EnsureSession, Clear, GetState, GotState, GetStateFails, AnswerRead
<1>6. ASSUME \/ \E i \in Starter : TurnAway(i) \/ ServeSession(i)
             \/ \E d \in Call : Decide(d)
             \/ Age
      PROVE  call' = call
  BY <1>6 DEF TurnAway, ServeSession, Decide, Age
<1>. QED  BY <1>1, <1>2, <1>3, <1>4, <1>5, <1>6 DEF Next

\* What spoils a page's calm, or mixes its answers, is remembered while it is open.
LEMMA HistoryGrows ==
    ASSUME WaitInv, Next, NEW t \in Tab, page[t].open
    PROVE  (calm'[t] => calm[t]) /\ (mixed[t] => mixed'[t])
<1>0. calm \in [Tab -> BOOLEAN] /\ mixed \in [Tab -> BOOLEAN]
  BY DEF WaitInv, TypeOK
<1>1. ASSUME NEW u \in Tab, Load(u)  PROVE (calm'[t] => calm[t]) /\ (mixed[t] => mixed'[t])
  BY <1>0, <1>1 DEF Load
<1>2. ASSUME NEW u \in Tab,
             \/ Close(u) \/ EnsureSession(u) \/ Clear(u)
             \/ GetState(u) \/ GotState(u) \/ GetStateFails(u) \/ AnswerRead(u)
             \/ \E c \in Call : Record(c, u)
      PROVE  (calm'[t] => calm[t]) /\ (mixed[t] => mixed'[t])
  BY <1>0, <1>2 DEF Close, EnsureSession, Clear, GetState, GotState, GetStateFails, AnswerRead,
                    Record
<1>3. ASSUME NEW i \in Starter, AskSettles(i) \/ TurnAway(i) \/ ServeSession(i)
      PROVE  (calm'[t] => calm[t]) /\ (mixed[t] => mixed'[t])
  BY <1>0, <1>3 DEF AskSettles, Adopt, Rejected, AskFails, TurnAway, ServeSession
<1>4. ASSUME NEW c \in Call, Settles(c) \/ Decide(c)
      PROVE  (calm'[t] => calm[t]) /\ (mixed[t] => mixed'[t])
  BY <1>0, <1>4 DEF Settles, Recorded, Refused, PostFails, Decide
<1>5. CASE Age
  BY <1>5 DEF Age
<1>. QED  BY <1>1, <1>2, <1>3, <1>4, <1>5 DEF Next

LEMMA AloneBefore ==
    ASSUME WaitInv, Next, NEW t \in Tab, Alone(t)', page[t].open
    PROVE  Alone(t)
<1>1. calm[t] /\ ~mixed[t]
  BY HistoryGrows DEF Alone
<1>2. \A c \in Call : call[c].tab \in {None, t}
  BY CallsKeepTheirTab DEF Alone
<1>. QED  BY <1>1, <1>2 DEF Alone

\* Before the first decision nothing is asked, posted or read.
LEMMA NothingBeforeTheFirst ==
    ASSUME WaitInv, FirstInv, Untouched
    PROVE  /\ \A c \in Call : call[c].phase = "idle" /\ wire[c].at = "none"
           /\ \A i \in Starter : asking[i].at = "none"
           /\ \A t \in Tab : page[t].principal = None /\ reading[t].at = "none"
<1>1. \A c \in Call : call[c].phase = "idle"
  BY DEF Untouched, WaitInv, Waits, CallOK
<1>2. \A c \in Call : wire[c].at = "none"
  BY <1>1 DEF WaitInv, Waits, CallOK
<1>. QED  BY <1>1, <1>2 DEF FirstInv

LEMMA NextKeepsFirst ==
    ASSUME WaitInv, FirstInv, Next
    PROVE  FirstInv'
<1>. SUFFICES ASSUME Untouched'  PROVE FirstInv'
  BY DEF FirstInv
<1>1. Untouched
  BY CallsKeepTheirTab DEF Untouched
<1>2. /\ \A c \in Call : call[c].phase = "idle" /\ wire[c].at = "none"
      /\ \A i \in Starter : asking[i].at = "none"
      /\ \A t \in Tab : page[t].principal = None /\ reading[t].at = "none"
  BY <1>1, NothingBeforeTheFirst
<1>3. /\ log = <<>>
      /\ stored.principal = None /\ stored.secret = None /\ stored.state.n = 0
      /\ \A t \in Tab : page[t].principal = None /\ page[t].secret = None
      /\ \A t \in Tab : page[t].state.n = 0 /\ reading[t].at = "none"
      /\ \A i \in Starter : asking[i].at = "none"
  BY <1>1 DEF FirstInv
<1>0. page \in [Tab -> Page] /\ stored \in Store /\ reading \in [Tab -> Read]
  BY DEF WaitInv, TypeOK
<1>4. ASSUME NEW t \in Tab, Load(t)  PROVE FirstInv'
  <2>. DEFINE token == IF Live(stored.token) THEN stored.token ELSE None
              now == [open |-> TRUE, loads |-> page[t].loads + 1, principal |-> stored.principal,
                      secret |-> stored.secret, token |-> token, state |-> stored.state,
                      pending |-> None]
  <2>1. /\ page' = [page EXCEPT ![t] = now] /\ stored' = [stored EXCEPT !.token = token]
        /\ UNCHANGED <<asking, reading, log>>
    BY <1>4 DEF Load, server
  <2>2. now.principal = None /\ now.secret = None /\ now.state.n = 0
    BY <1>3
  <2>3. stored'.principal = None /\ stored'.secret = None /\ stored'.state.n = 0
    BY <1>0, <1>3, <2>1 DEF Store
  <2>. HIDE DEF now, token
  <2>4. \A u \in Tab : page'[u] = page[u] \/ page'[u] = now
    BY <1>0, <2>1
  <2>. QED  BY <1>3, <2>1, <2>2, <2>3, <2>4 DEF FirstInv
<1>5. ASSUME NEW t \in Tab, Close(t)  PROVE FirstInv'
  <2>. DEFINE now == [Closed EXCEPT !.loads = page[t].loads]
              none == [NoRead EXCEPT !.reads = reading[t].reads]
  <2>1. /\ page' = [page EXCEPT ![t] = now] /\ reading' = [reading EXCEPT ![t] = none]
        /\ asking' = [i \in Starter |-> IF asking[i].tab = t THEN NoAsk ELSE asking[i]]
        /\ UNCHANGED <<stored, log>>
    BY <1>5 DEF Close, server
  <2>2. now.principal = None /\ now.secret = None /\ now.state.n = 0 /\ none.at = "none"
    BY NoThings DEF Closed, NoRead
  <2>. HIDE DEF now, none
  <2>3. \A u \in Tab : (page'[u] = page[u] \/ page'[u] = now)
                          /\ (reading'[u] = reading[u] \/ reading'[u] = none)
    BY <1>0, <2>1
  <2>4. \A i \in Starter : asking'[i].at = "none"
    BY <1>3, <2>1, NoThings
  <2>. QED  BY <1>3, <2>1, <2>2, <2>3, <2>4 DEF FirstInv
<1>6. ASSUME NEW t \in Tab, Clear(t)  PROVE FirstInv'
  <2>. DEFINE now == [page[t] EXCEPT !.principal = None, !.secret = None, !.token = None,
                                     !.state = NoState]
  <2>1. /\ page' = [page EXCEPT ![t] = now] /\ stored' = NoStore
        /\ UNCHANGED <<asking, reading, log>>
    BY <1>6 DEF Clear, server
  <2>2. now.principal = None /\ now.secret = None /\ now.state.n = 0
    BY <1>0, NoThings DEF Page
  <2>3. stored'.principal = None /\ stored'.secret = None /\ stored'.state.n = 0
    BY <2>1, NoThings DEF NoStore
  <2>. HIDE DEF now
  <2>4. \A u \in Tab : page'[u] = page[u] \/ page'[u] = now
    BY <1>0, <2>1
  <2>. QED  BY <1>3, <2>1, <2>2, <2>3, <2>4 DEF FirstInv
<1>7. ASSUME NEW t \in Tab, NEW c \in Call, Record(c, t)  PROVE FALSE
  <2>1. PostDecision(c, t, page[t], 1) /\ page[t] \in Page /\ TypeOK
    BY <1>0, <1>7 DEF Record, WaitInv
  <2>2. Settled(t, "failed").tab = t
    BY DEF Settled
  <2>3. call \in [Call -> CallState] /\ t # None
    BY ClientAssumption DEF WaitInv, TypeOK
  <2>4. \E new : call' = [call EXCEPT ![c] = new] /\ new.tab = t
    BY <2>1, <2>2, PostDecisionDoes
  <2>5. call'[c].tab = t
    BY <2>3, <2>4
  <2>. QED  BY <2>3, <2>5 DEF Untouched
<1>8. ASSUME NEW t \in Tab, \/ EnsureSession(t) \/ GetState(t) \/ GotState(t)
                            \/ GetStateFails(t) \/ AnswerRead(t)
      PROVE  FALSE
  BY <1>2, <1>8 DEF EnsureSession, GetState, GotState, GetStateFails, AnswerRead
<1>9. ASSUME NEW i \in Starter, AskSettles(i) \/ TurnAway(i) \/ ServeSession(i)  PROVE FALSE
  BY <1>2, <1>9 DEF AskSettles, Adopt, Rejected, AskFails, TurnAway, ServeSession
<1>10. ASSUME NEW c \in Call, Settles(c) \/ Decide(c)  PROVE FALSE
  BY <1>2, <1>10 DEF Settles, Recorded, Refused, PostFails, Decide
<1>11. CASE Age
  BY <1>3, <1>11 DEF Age, FirstInv
<1>. QED  BY <1>4, <1>5, <1>6, <1>7, <1>8, <1>9, <1>10, <1>11 DEF Next

\* Nothing but a load opens a page.
LEMMA OnlyLoadOpens ==
    ASSUME WaitInv, Next, NEW t \in Tab, page'[t].open, ~Load(t)
    PROVE  page[t].open
<1>0. /\ TypeOK /\ page \in [Tab -> Page] /\ \A u \in Tab : page[u] \in Page
  BY DEF WaitInv, TypeOK
<1>1. ASSUME NEW u \in Tab, Load(u)  PROVE page[t].open
  <2>1. u # t
    BY <1>1
  <2>. QED  BY <1>0, <1>1, <2>1 DEF Load
<1>2. ASSUME NEW u \in Tab, Close(u)  PROVE page[t].open
  <2>1. page' = [page EXCEPT ![u] = [Closed EXCEPT !.loads = page[u].loads]] /\ page[u].open
    BY <1>2 DEF Close
  <2>. QED  BY <1>0, <2>1
<1>3. ASSUME NEW u \in Tab, EnsureSession(u) \/ Clear(u) \/ \E c \in Call : Record(c, u)
      PROVE  page[t].open
  <2>1. page[u].open
    BY <1>3 DEF EnsureSession, Clear, Record
  <2>2. t # u => page'[t] = page[t]
    <3>1. CASE EnsureSession(u) \/ Clear(u)
      BY <1>0, <3>1 DEF EnsureSession, Clear
    <3>2. ASSUME NEW c \in Call, Record(c, u)  PROVE t # u => page'[t] = page[t]
      <4>1. PostDecision(c, u, page[u], 1)
        BY <3>2 DEF Record
      <4>2. \E new : page' = [page EXCEPT ![u] = new]
        BY <1>0, <4>1, PostDecisionDoes
      <4>. QED  BY <1>0, <4>2
    <3>. QED  BY <1>3, <3>1, <3>2
  <2>. QED  BY <2>1, <2>2
<1>4. ASSUME NEW u \in Tab, GetState(u) \/ GotState(u) \/ GetStateFails(u) \/ AnswerRead(u)
      PROVE  page[t].open
  <2>1. CASE GotState(u)
    BY <1>0, <2>1 DEF GotState, Page
  <2>2. CASE GetState(u) \/ GetStateFails(u) \/ AnswerRead(u)
    BY <2>2 DEF GetState, GetStateFails, AnswerRead
  <2>. QED  BY <1>4, <2>1, <2>2
<1>5. ASSUME NEW i \in Starter, AskSettles(i)  PROVE page[t].open
  <2>1. CASE Adopt(i)
    BY <2>1, AdoptDoes
  <2>2. CASE Rejected(i) \/ AskFails(i)
    <3>1. asking[i].tab \in Tab /\ page[asking[i].tab].open
      BY <2>2 DEF Rejected, AskFails, WaitInv, Waits, AskOK
    <3>2. t # asking[i].tab => page'[t] = page[t]
      BY <1>0, <2>2 DEF Rejected, AskFails
    <3>. QED  BY <3>1, <3>2
  <2>. QED  BY <1>5, <2>1, <2>2 DEF AskSettles
<1>6. ASSUME NEW c \in Call, Settles(c)  PROVE page[t].open
  <2>. DEFINE u == call[c].tab
  <2>1. u \in Tab /\ page[u].open /\ call[c].tries \in {1, 2}
    BY <1>6, BusyIsOpen DEF Settles, Recorded, Refused, PostFails
  <2>2. \/ page' = page
        \/ page' = [page EXCEPT ![u].state = wire[c].state]
        \/ Refused(c) /\ MayRetry(c)
    BY <1>6 DEF Settles, Recorded, Refused, PostFails
  <2>3. CASE Refused(c) /\ MayRetry(c)
    <3>. DEFINE pg == [page[u] EXCEPT !.token = None]
    <3>1. PostDecision(c, u, pg, call[c].tries + 1) /\ call[c].tries + 1 = 2
      BY <2>3 DEF Refused, MayRetry
    <3>2. pg \in Page
      BY <1>0, <2>1 DEF Page, Maybe
    <3>. HIDE DEF pg
    <3>3. PostDecision(c, u, pg, 2)
      BY <3>1
    <3>4. \/ page' = [page EXCEPT ![u] = pg]
          \/ page' = [page EXCEPT ![u] = [pg EXCEPT !.pending = c]]
      BY <1>0, <2>1, <3>2, <3>3, PostDecisionDoes
    <3>. QED  BY <1>0, <2>1, <3>4
  <2>. QED  BY <1>0, <2>1, <2>2, <2>3
<1>7. ASSUME \/ \E i \in Starter : TurnAway(i) \/ ServeSession(i)
             \/ \E d \in Call : Decide(d)
             \/ Age
      PROVE  page' = page
  BY <1>7 DEF TurnAway, ServeSession, Decide, Age
<1>. QED  BY <1>1, <1>2, <1>3, <1>4, <1>5, <1>6, <1>7 DEF Next

\* Every call under way is the page's own, and there is one of them.
LEMMA ItsOwnCalls ==
    ASSUME WaitInv, OnceInv, NEW t \in Tab, Alone(t), Told1(t), NEW c \in Call
    PROVE  /\ call[c].phase \in {"session", "posting"} => call[c].tab = t /\ c \in Busy(t)
           /\ wire[c].at # "none" => /\ c \in Busy(t) /\ call[c].tab = t
                                     /\ \A d \in Call \ {c} : wire[d].at = "none"
                                     /\ reading[t].at = "none"
           /\ wire[c].at = "none" => wire[c].code = "none"
<1>1. ASSUME NEW d \in Call, call[d].phase \in {"session", "posting"}
      PROVE  call[d].tab = t /\ d \in Busy(t)
  <2>1. call[d].tab \in Tab /\ call[d].tab \in {None, t}
    BY <1>1, BusyIsOpen DEF Alone
  <2>. QED  BY <1>1, <2>1, ClientAssumption DEF Busy
<1>2. \A d \in Call : wire[d].at # "none" => call[d].phase = "posting"
  BY DEF Told1
<1>3. \A d, e \in Busy(t) : d = e
  BY DEF Told1
<1>4. wire[c].at # "none" => reading[t].at = "none"
  BY <1>1, <1>2 DEF Told1
<1>5. wire[c].at = "none" => wire[c].code = "none"
  BY DEF OnceInv
<1>. QED  BY <1>1, <1>2, <1>3, <1>4, <1>5

\* A step that is none of the page's business.
LEMMA ElsewhereKeepsTold ==
    ASSUME NEW t \in Tab, Told1(t),
           page'[t].principal = page[t].principal, page'[t].secret = page[t].secret,
           page'[t].state = page[t].state,
           reading'[t] = reading[t], UNCHANGED <<call, wire, log>>,
           \A i \in Starter :
              \/ asking'[i] = asking[i]
              \/ asking'[i].at # "none" /\ asking'[i].tab = t =>
                    /\ asking'[i].claim = page[t].principal
                    /\ asking'[i].at = "granted" =>
                          /\ asking'[i].fresh <=> asking'[i].claim = None
                          /\ asking'[i].claim # None => asking'[i].principal = asking'[i].claim
    PROVE  Told1(t)'
<1>1. InForce(t)' = InForce(t)
  BY DEF InForce, StateOf
<1>2. Busy(t)' = Busy(t)
  BY DEF Busy
<1>3. ASSUME NEW i \in Starter, asking'[i].at # "none", asking'[i].tab = t
      PROVE  /\ asking'[i].claim = page'[t].principal
             /\ asking'[i].at = "granted" =>
                   /\ asking'[i].fresh <=> asking'[i].claim = None
                   /\ asking'[i].claim # None => asking'[i].principal = asking'[i].claim
  <2>1. CASE asking'[i] = asking[i]
    BY <1>3, <2>1 DEF Told1
  <2>. QED  BY <1>3, <2>1
<1>. QED  BY <1>1, <1>2, <1>3 DEF Told1

\* The page posts, or awaits a session, with nothing else under way.
LEMMA PostDecisionKeepsTold ==
    ASSUME WaitInv, OnceInv, NEW t \in Tab, Alone(t), Told1(t), NEW c \in Call,
           NEW pg \in Page, NEW tries \in {1, 2}, PostDecision(c, t, pg, tries),
           pg.principal = page[t].principal, pg.secret = page[t].secret,
           pg.state = page[t].state,
           Busy(t) \subseteq {c}, reading[t].at = "none",
           \A d \in Call \ {c} : wire[d].at = "none", wire[c].code # "recorded",
           UNCHANGED <<reading, log>>
    PROVE  Told1(t)'
<1>0. /\ TypeOK /\ page \in [Tab -> Page] /\ call \in [Call -> CallState]
      /\ wire \in [Call -> Post] /\ asking \in [Starter -> Ask] /\ c \in Starter
      /\ pg.principal \in Maybe(Principal) /\ pg.secret \in Maybe(Principal)
  BY DEF WaitInv, TypeOK, Starter, Page
<1>1. /\ page'[t].principal = page[t].principal /\ page'[t].secret = page[t].secret
      /\ page'[t].state = page[t].state
  <2>1. \/ page' = [page EXCEPT ![t] = pg]
        \/ page' = [page EXCEPT ![t] = [pg EXCEPT !.pending = c]]
    BY <1>0, PostDecisionDoes
  <2>2. CASE page' = [page EXCEPT ![t] = pg]
    BY <1>0, <2>2
  <2>3. CASE page' = [page EXCEPT ![t] = [pg EXCEPT !.pending = c]]
    BY <1>0, <2>3 DEF Page
  <2>. QED  BY <2>1, <2>2, <2>3
<1>2. InForce(t)' = InForce(t)
  BY <1>1 DEF InForce, StateOf
<1>3. \A d \in Call \ {c} : call'[d] = call[d] /\ wire'[d] = wire[d]
  <2>1. (\E new : call' = [call EXCEPT ![c] = new]) /\ (\E new : wire' = [wire EXCEPT ![c] = new])
    BY <1>0, PostDecisionDoes
  <2>. QED  BY <1>0, <2>1
<1>4. Busy(t)' \subseteq {c}
  BY <1>3 DEF Busy
<1>5. /\ wire'[c].code = "none"
      /\ wire'[c].at # "none" => /\ call'[c].phase = "posting"
                                 /\ wire'[c].principal = page[t].principal
  <2>1. CASE Live(pg.token) /\ pg.principal # None
    <3>1. /\ wire' = [wire EXCEPT ![c] = Posted(pg)]
          /\ call' = [call EXCEPT ![c] = [phase |-> "posting", tab |-> t, tries |-> tries,
                                          on |-> None]]
      BY <1>0, <2>1, PostDecisionDoes
    <3>. QED  BY <1>0, <3>1, PostedIs
  <2>2. CASE ~(Live(pg.token) /\ pg.principal # None)
    <3>1. wire' = [wire EXCEPT ![c] = NoPost]
      BY <1>0, <2>2, PostDecisionDoes
    <3>. QED  BY <1>0, <3>1, NoThings
  <2>. QED  BY <2>1, <2>2
<1>6. \A d \in Call : wire[d].code # "recorded" /\ wire'[d].code # "recorded"
  BY <1>3, <1>5 DEF OnceInv
<1>7. page[t].state.n = InForce(t)
  BY <1>6 DEF Told1
<1>8. ASSUME NEW i \in Starter, asking'[i].at # "none", asking'[i].tab = t
      PROVE  /\ asking'[i].claim = page[t].principal
             /\ asking'[i].at = "granted" =>
                   /\ asking'[i].fresh <=> asking'[i].claim = None
                   /\ asking'[i].claim # None => asking'[i].principal = asking'[i].claim
  <2>. DEFINE ask == Request(t, pg.principal, pg.secret)
  <2>1. asking' = asking \/ asking' = [asking EXCEPT ![c] = ask]
    BY <1>0, PostDecisionDoes
  <2>2. ask.at = "sent" /\ ask.claim = (IF pg.secret # None THEN pg.principal ELSE None)
    BY <1>0, RequestIs
  <2>3. pg.principal = None <=> pg.secret = None
    BY DEF Told1
  <2>. HIDE DEF ask
  <2>4. CASE asking'[i] = ask
    BY <2>2, <2>3, <2>4
  <2>5. CASE asking'[i] = asking[i]
    BY <1>8, <2>5 DEF Told1
  <2>. QED  BY <1>0, <2>1, <2>4, <2>5
<1>9. (\A m \in 1..Len(log) : log[m].by = page[t].principal)'
  BY <1>1 DEF Told1
<1>10. (page[t].principal = None <=> page[t].secret = None)'
  BY <1>1 DEF Told1
<1>. QED
  BY <1>1, <1>2, <1>3, <1>4, <1>5, <1>6, <1>7, <1>8, <1>9, <1>10 DEF Told1

\* Nothing is recorded in an empty log.
LEMMA NothingInForce ==
    ASSUME NEW p
    PROVE  StateOf(p, <<>>).n = 0
<1>1. {m \in 1..Len(<<>>) : <<>>[m].by = p} = {}
  OBVIOUS
<1>2. Cardinality({}) = 0
  BY FS_EmptySet
<1>. QED  BY <1>1, <1>2 DEF StateOf

\* The first page of a tab that has every call to itself: nothing has happened.
LEMMA FirstLoadTells ==
    ASSUME WaitInv, OnceInv, FirstInv, Next, NEW t \in Tab, Load(t), Alone(t)'
    PROVE  Told1(t)'
<1>. DEFINE token == IF Live(stored.token) THEN stored.token ELSE None
            now == [open |-> TRUE, loads |-> page[t].loads + 1, principal |-> stored.principal,
                    secret |-> stored.secret, token |-> token, state |-> stored.state,
                    pending |-> None]
<1>0. /\ page \in [Tab -> Page] /\ calm \in [Tab -> BOOLEAN] /\ page[t].loads \in Nat
      /\ call \in [Call -> CallState]
  BY DEF WaitInv, TypeOK, Page
<1>1. /\ page' = [page EXCEPT ![t] = now] /\ calm' = [calm EXCEPT ![t] = page[t].loads = 0]
      /\ UNCHANGED <<call, wire, asking, reading, log>>
  BY DEF Load, server
<1>2. page[t].loads = 0
  BY <1>0, <1>1 DEF Alone
<1>3. Untouched
  <2>1. ASSUME NEW c \in Call  PROVE call[c].tab = None
    <3>1. call[c].tab \in {None, t}
      BY <1>1 DEF Alone
    <3>2. call[c].tab # None => page[call[c].tab].loads > 0
      BY DEF WaitInv, Waits, CallOK
    <3>. QED  BY <1>2, <3>1, <3>2
  <2>. QED  BY <2>1 DEF Untouched
<1>4. /\ \A c \in Call : call[c].phase = "idle" /\ wire[c].at = "none" /\ wire[c].code = "none"
      /\ \A i \in Starter : asking[i].at = "none"
      /\ reading[t].at = "none"
      /\ log = <<>> /\ stored.principal = None /\ stored.secret = None /\ stored.state.n = 0
  BY <1>3, NothingBeforeTheFirst DEF FirstInv, OnceInv
<1>5. now.principal = None /\ now.secret = None /\ now.state.n = 0
  BY <1>4
<1>. HIDE DEF now, token
<1>6. page'[t] = now
  BY <1>0, <1>1
<1>7. InForce(t)' = 0
  <2>1. InForce(t)' = StateOf(page'[t].principal, log').n
    BY DEF InForce, StateOf
  <2>. QED  BY <1>1, <1>4, <2>1, NothingInForce
<1>8. Busy(t)' = {}
  BY <1>1, <1>4 DEF Busy
<1>9. (\A m \in 1..Len(log) : log[m].by = page[t].principal)'
  BY <1>1, <1>4
<1>. QED  BY <1>1, <1>4, <1>5, <1>6, <1>7, <1>8, <1>9 DEF Told1

LEMMA TabKeepsTold ==
    ASSUME ClientAssumption, WaitInv, OnceInv, NEW t \in Tab, Alone(t), Told1(t), Alone(t)',
           NEW u \in Tab,
           \/ Load(u) \/ Close(u) \/ EnsureSession(u) \/ Clear(u)
           \/ GetState(u) \/ GotState(u) \/ GetStateFails(u) \/ AnswerRead(u)
           \/ \E c \in Call : Record(c, u)
    PROVE  Told1(t)'
<1>0. /\ TypeOK /\ page \in [Tab -> Page] /\ asking \in [Starter -> Ask]
      /\ reading \in [Tab -> Read] /\ call \in [Call -> CallState]
      /\ mixed \in [Tab -> BOOLEAN] /\ calm \in [Tab -> BOOLEAN]
      /\ page[u] \in Page /\ page[t].open /\ t # None /\ u # None
  BY ClientAssumption DEF WaitInv, TypeOK, Alone
\* Nobody else awaits an answer when the page begins to.
<1>. DEFINE Alone0 == Busy(t) = {} /\ reading[t].at = "none"
<1>1. ASSUME u = t, mixed' = [mixed EXCEPT ![u] = mixed[u] \/ Awaited(u) > 0]
      PROVE  Alone0
  <2>1. ~(Awaited(t) > 0)
    BY <1>0, <1>1 DEF Alone
  <2>2. IsFiniteSet(Busy(t)) /\ Cardinality(Busy(t)) \in Nat
    BY FinitelyMany, FS_Subset, FS_CardinalityType DEF Busy
  <2>3. Cardinality(Busy(t)) = 0 /\ reading[t].at = "none"
    BY <2>1, <2>2 DEF Awaited
  <2>. QED  BY <2>2, <2>3, FS_EmptySet
<1>2. CASE Load(u)
  <2>1. u # t
    BY <1>0, <1>2 DEF Load
  <2>2. UNCHANGED <<call, wire, asking, reading, log>> /\ page'[t] = page[t]
    BY <1>0, <1>2, <2>1 DEF Load, server
  <2>. QED  BY <2>2, ElsewhereKeepsTold
<1>3. CASE Close(u)
  <2>1. /\ page' = [page EXCEPT ![u] = [Closed EXCEPT !.loads = page[u].loads]]
        /\ call' = [c \in Call |-> IF c \in Busy(u) THEN Over(c, "failed") ELSE call[c]]
        /\ asking' = [i \in Starter |-> IF asking[i].tab = u THEN NoAsk ELSE asking[i]]
        /\ reading' = [reading EXCEPT ![u] = [NoRead EXCEPT !.reads = reading[u].reads]]
        /\ UNCHANGED <<wire, log>>
    BY <1>3 DEF Close, server
  <2>2. u # t
    <3>1. ~[Closed EXCEPT !.loads = page[u].loads].open
      BY DEF Closed
    <3>. QED  BY <1>0, <2>1, <3>1 DEF Alone
  <2>3. page'[t] = page[t] /\ reading'[t] = reading[t]
    BY <1>0, <2>1, <2>2
  <2>4. call' = call
    <3>1. Busy(u) = {}
      BY <1>0, <2>2 DEF Alone, Busy
    <3>2. \A c \in Call : call'[c] = call[c]
      BY <2>1, <3>1
    <3>. QED  BY <1>0, <2>1, <3>2
  <2>5. \A i \in Starter : asking'[i] = asking[i] \/ asking'[i].at = "none"
    BY <2>1, NoThings
  <2>. QED  BY <2>1, <2>3, <2>4, <2>5, ElsewhereKeepsTold
<1>4. CASE EnsureSession(u)
  <2>. DEFINE ask == Request(u, page[u].principal, page[u].secret)
              now == [page[u] EXCEPT !.pending = u]
  <2>1. /\ page' = [page EXCEPT ![u] = now] /\ asking' = [asking EXCEPT ![u] = ask]
        /\ page[u].principal # None /\ page[u].secret # None
        /\ UNCHANGED <<call, wire, reading, log>>
    BY <1>4 DEF EnsureSession, Opening, Opened, Shares, server
  <2>2. ask.at = "sent" /\ ask.tab = u /\ ask.claim = page[u].principal
    <3>1. page[u].principal \in Maybe(Principal) /\ page[u].secret \in Maybe(Principal)
      BY <1>0 DEF Page
    <3>. QED  BY <2>1, <3>1, RequestIs
  <2>3. now.principal = page[u].principal /\ now.secret = page[u].secret /\ now.state = page[u].state
    BY <1>0 DEF Page
  <2>. HIDE DEF ask, now
  <2>4. /\ page'[t].principal = page[t].principal /\ page'[t].secret = page[t].secret
        /\ page'[t].state = page[t].state
    BY <1>0, <2>1, <2>3
  <2>5. \A i \in Starter : asking'[i] = asking[i] \/ (asking'[i] = ask /\ i = u)
    BY <1>0, <2>1
  <2>6. ASSUME NEW i \in Starter
        PROVE  \/ asking'[i] = asking[i]
               \/ asking'[i].at # "none" /\ asking'[i].tab = t =>
                     /\ asking'[i].claim = page[t].principal
                     /\ asking'[i].at = "granted" =>
                           /\ asking'[i].fresh <=> asking'[i].claim = None
                           /\ asking'[i].claim # None => asking'[i].principal = asking'[i].claim
    BY <2>2, <2>5
  <2>. QED  BY <2>1, <2>4, <2>6, ElsewhereKeepsTold
<1>5. CASE Clear(u)
  <2>1. calm' = [calm EXCEPT ![u] = FALSE] /\ UNCHANGED <<call, wire, asking, reading, log>>
    BY <1>5 DEF Clear, server
  <2>2. u # t
    BY <1>0, <2>1 DEF Alone
  <2>3. page'[t] = page[t]
    BY <1>0, <1>5, <2>2 DEF Clear
  <2>. QED  BY <2>1, <2>3, ElsewhereKeepsTold
<1>6. CASE u # t /\ (GetState(u) \/ GotState(u) \/ GetStateFails(u) \/ AnswerRead(u))
  <2>1. /\ UNCHANGED <<call, wire, asking, log>> /\ page'[t] = page[t]
    BY <1>0, <1>6 DEF GetState, GotState, GetStateFails, AnswerRead, server
  <2>2. reading'[t] = reading[t]
    BY <1>0, <1>6 DEF GetState, GotState, GetStateFails, AnswerRead
  <2>. QED  BY <2>1, <2>2, ElsewhereKeepsTold
<1>7. CASE u = t /\ GetState(t)
  <2>. DEFINE new == [at |-> "sent", reads |-> reading[t].reads + 1,
                      principal |-> page[t].principal, state |-> NoState]
  <2>1. /\ reading' = [reading EXCEPT ![t] = new] /\ page[t].principal # None
        /\ mixed' = [mixed EXCEPT ![t] = mixed[t] \/ Awaited(t) > 0]
        /\ UNCHANGED <<page, call, wire, asking, log>>
    BY <1>7 DEF GetState, server
  <2>2. Alone0
    BY <1>1, <1>7, <2>1
  <2>3. reading'[t].at = "sent" /\ reading'[t].principal = page[t].principal
    BY <1>0, <2>1
  <2>4. InForce(t)' = InForce(t) /\ Busy(t)' = {}
    BY <2>1, <2>2 DEF InForce, StateOf, Busy
  <2>. QED  BY <2>1, <2>3, <2>4 DEF Told1
<1>8. CASE u = t /\ GotState(t)
  <2>. DEFINE none == [NoRead EXCEPT !.reads = reading[t].reads]
  <2>1. /\ reading[t].at = "answered"
        /\ page' = [page EXCEPT ![t].state = reading[t].state]
        /\ reading' = [reading EXCEPT ![t] = none]
        /\ UNCHANGED <<call, wire, asking, log>>
    BY <1>8 DEF GotState, server
  <2>2. none.at = "none"
    BY NoThings DEF NoRead
  <2>. HIDE DEF none
  <2>3. reading'[t].at = "none"
    BY <1>0, <2>1, <2>2
  <2>4. /\ page'[t].principal = page[t].principal /\ page'[t].secret = page[t].secret
        /\ page'[t].state = reading[t].state
    BY <1>0, <1>8, <2>1 DEF Page
  <2>5. InForce(t)' = InForce(t) /\ Busy(t)' = Busy(t)
    BY <2>1, <2>4 DEF InForce, StateOf, Busy
  <2>6. page'[t].state.n = InForce(t)
    BY <2>1, <2>4 DEF Told1
  <2>. QED  BY <2>1, <2>3, <2>4, <2>5, <2>6 DEF Told1
<1>9. CASE u = t /\ GetStateFails(t)
  <2>. DEFINE none == [NoRead EXCEPT !.reads = reading[t].reads]
  <2>1. reading' = [reading EXCEPT ![t] = none] /\ UNCHANGED <<page, call, wire, asking, log>>
    BY <1>9 DEF GetStateFails, server
  <2>2. none.at = "none"
    BY NoThings DEF NoRead
  <2>. HIDE DEF none
  <2>3. reading'[t].at = "none"
    BY <1>0, <2>1, <2>2
  <2>4. InForce(t)' = InForce(t) /\ Busy(t)' = Busy(t)
    BY <2>1 DEF InForce, StateOf, Busy
  <2>. QED  BY <2>1, <2>3, <2>4 DEF Told1
<1>10. CASE u = t /\ AnswerRead(t)
  <2>. DEFINE new == [reading[t] EXCEPT !.at = "answered",
                                        !.state = StateOf(reading[t].principal, log)]
  <2>1. /\ reading[t].at = "sent"
        /\ reading' = [reading EXCEPT ![t].at = "answered",
                                      ![t].state = StateOf(reading[t].principal, log)]
        /\ UNCHANGED <<page, call, wire, asking, log>>
    BY <1>10 DEF AnswerRead, server
  <2>2. /\ reading'[t].at = "answered" /\ reading'[t].principal = reading[t].principal
        /\ reading'[t].state = StateOf(reading[t].principal, log)
    <3>1. reading[t] \in Read
      BY <1>0
    <3>. HIDE DEF new
    <3>. QED  BY <1>0, <2>1, <3>1 DEF Read
  <2>3. InForce(t)' = InForce(t) /\ Busy(t)' = Busy(t)
    BY <2>1 DEF InForce, StateOf, Busy
  <2>4. reading'[t].state.n = InForce(t)
    BY <2>1, <2>2 DEF Told1, InForce
  <2>. QED  BY <2>1, <2>2, <2>3, <2>4 DEF Told1
<1>11. ASSUME NEW c \in Call, Record(c, u)  PROVE Told1(t)'
  <2>1. /\ PostDecision(c, u, page[u], 1) /\ call[c].phase = "idle"
        /\ mixed' = [mixed EXCEPT ![u] = mixed[u] \/ Awaited(u) > 0]
        /\ UNCHANGED <<reading, log>>
    BY <1>11 DEF Record, server
  <2>2. u = t
    <3>1. Settled(u, "failed").tab = u
      BY DEF Settled
    <3>2. \E new : call' = [call EXCEPT ![c] = new] /\ new.tab = u
      BY <1>0, <2>1, <3>1, PostDecisionDoes
    <3>3. call'[c].tab = u
      BY <1>0, <3>2
    <3>. QED  BY <1>0, <3>3 DEF Alone
  <2>3. Alone0
    BY <1>1, <2>1, <2>2
  <2>4. \A d \in Call : wire[d].at = "none" /\ wire[d].code # "recorded"
    BY <2>3, ItsOwnCalls
  <2>. QED  BY <1>0, <2>1, <2>2, <2>3, <2>4, PostDecisionKeepsTold
<1>. QED
  BY <1>2, <1>3, <1>4, <1>5, <1>6, <1>7, <1>8, <1>9, <1>10, <1>11

LEMMA AskSettlesKeepsTold ==
    ASSUME ClientAssumption, WaitInv, VoiceInv, OnceInv,
           NEW t \in Tab, Alone(t), Told1(t), Alone(t)',
           NEW i \in Starter, AskSettles(i)
    PROVE  Told1(t)'
<1>. DEFINE u == asking[i].tab
<1>0. /\ TypeOK /\ page \in [Tab -> Page] /\ asking \in [Starter -> Ask]
      /\ call \in [Call -> CallState] /\ wire \in [Call -> Post]
      /\ calm \in [Tab -> BOOLEAN]
  BY DEF WaitInv, TypeOK
<1>1. u \in Tab /\ page[u].open /\ page[u].pending = i /\ asking[i].at # "none"
  BY DEF AskSettles, Adopt, Rejected, AskFails, WaitInv, Waits, AskOK
\* Those who wait for the request are the page's own.
<1>2. ASSUME NEW c \in Call, call[c].phase = "session", call[c].on = i
      PROVE  u = t
  <2>1. asking[call[c].on].tab = call[c].tab
    BY <1>2 DEF WaitInv, Waits, CallOK
  <2>2. call[c].tab = t
    BY <1>2, ItsOwnCalls
  <2>. QED  BY <1>2, <2>1, <2>2
<1>3. CASE Rejected(i) \/ AskFails(i)
  <2>1. calm' = [calm EXCEPT ![u] = FALSE] /\ UNCHANGED <<wire, reading, log>>
    BY <1>3 DEF Rejected, AskFails, server
  <2>2. u # t
    BY <1>0, <2>1 DEF Alone
  <2>3. page'[t] = page[t]
    BY <1>0, <1>3, <2>2 DEF Rejected, AskFails
  <2>4. call' = call
    <3>1. CASE call' = Throw(i)
      <4>1. \A c \in Call : call'[c] = call[c]
        BY <1>2, <2>2, <3>1 DEF Throw
      <4>. QED  BY <1>0, <3>1, <4>1 DEF Throw
    <3>. QED  BY <1>3, <3>1 DEF Rejected, AskFails
  <2>5. ASSUME NEW j \in Starter
        PROVE  asking'[j] = asking[j] \/ asking'[j].at = "none" \/ asking'[j].tab # t
    <3>1. \/ asking' = [asking EXCEPT ![i] = NoAsk]
          \/ asking' = [asking EXCEPT ![i] = Request(u, None, None)]
      BY <1>3 DEF Rejected, AskFails
    <3>2. Request(u, None, None).tab = u
      BY <1>1, RequestIs DEF Maybe
    <3>. QED  BY <1>0, <2>2, <3>1, <3>2, NoThings
  <2>. QED  BY <2>1, <2>3, <2>4, <2>5, ElsewhereKeepsTold
<1>4. CASE Adopt(i) /\ u # t
  <2>1. /\ page'[t] = page[t] /\ asking' = [asking EXCEPT ![i] = NoAsk]
        /\ call' \in [Call -> CallState] /\ wire' \in [Call -> Post]
        /\ UNCHANGED <<reading, log>>
    BY <1>4, AdoptDoes
  <2>2. \A c \in Call : call'[c] = call[c] /\ wire'[c] = wire[c]
    BY <1>2, <1>4, AdoptDoes
  <2>3. call' = call /\ wire' = wire
    BY <1>0, <2>1, <2>2
  <2>4. \A j \in Starter : asking'[j] = asking[j] \/ asking'[j].at = "none"
    BY <1>0, <2>1, NoThings
  <2>. QED  BY <2>1, <2>3, <2>4, ElsewhereKeepsTold
<1>5. CASE Adopt(i) /\ u = t
  <2>. DEFINE a == asking[i]
              waits(c) == call[c].phase = "session" /\ call[c].on = i
  <2>1. /\ a.at = "granted" /\ page'[t].state = page[t].state
        /\ page'[t].principal = a.principal
        /\ page'[t].secret = IF a.fresh THEN a.principal ELSE page[t].secret
        /\ asking' = [asking EXCEPT ![i] = NoAsk]
        /\ UNCHANGED <<reading, log>>
    BY <1>5, AdoptDoes
  <2>2. ASSUME NEW c \in Call
        PROVE  IF waits(c)
               THEN /\ call'[c].tab = call[c].tab /\ call'[c].phase = "posting"
                    /\ wire'[c].at = "sent" /\ wire'[c].code = "none"
                    /\ wire'[c].principal = a.principal
               ELSE call'[c] = call[c] /\ wire'[c] = wire[c]
    BY <1>5, AdoptDoes
  <2>3. /\ a.claim = page[t].principal
        /\ a.fresh <=> a.claim = None
        /\ a.claim # None => a.principal = a.claim
    BY <1>1, <1>5, <2>1 DEF Told1
  <2>4. ASSUME NEW k, k \in 1..Len(sessions)  PROVE sessions[k] # None
    <3>1. sessions \in Seq(Principal)
      BY <1>0 DEF TypeOK
    <3>2. sessions[k] \in Principal
      BY <2>4, <3>1, ItemTyped
    <3>. QED  BY <3>2, ClientAssumption DEF Principal
  <2>5. a.principal # None
    BY <2>1, <2>4 DEF VoiceInv, Names
  <2>6. Busy(t)' = Busy(t)
    BY <2>2 DEF Busy
  <2>7. (page[t].principal = None <=> page[t].secret = None)'
    BY <2>1, <2>3, <2>5 DEF Told1
  <2>8. ASSUME NEW j \in Starter, asking'[j].at # "none"  PROVE asking'[j].tab # t
    <3>1. j # i /\ asking'[j] = asking[j]
      BY <1>0, <2>1, <2>8, NoThings
    <3>2. page[asking[j].tab].pending = j
      BY <2>8, <3>1 DEF WaitInv, Waits, AskOK
    <3>. QED  BY <1>1, <1>5, <3>1, <3>2
  <2>9. ASSUME NEW c \in Call
        PROVE  /\ wire'[c].code = "recorded" <=> wire[c].code = "recorded"
               /\ wire'[c].code = "recorded" => wire'[c] = wire[c]
    <3>1. CASE waits(c)
      <4>1. wire[c].at = "none"
        BY <3>1 DEF WaitInv, Waits, CallOK
      <4>2. wire[c].code = "none"
        BY <4>1 DEF OnceInv
      <4>. QED  BY <2>2, <3>1, <4>2
    <3>2. CASE ~waits(c)
      BY <2>2, <3>2
    <3>. QED  BY <3>1, <3>2
  <2>10. CASE a.claim # None
    <3>1. page'[t].principal = page[t].principal
      BY <2>1, <2>3, <2>10
    <3>2. InForce(t)' = InForce(t)
      BY <2>1, <3>1 DEF InForce, StateOf
    <3>3. ASSUME NEW c \in Call, wire'[c].at # "none"
          PROVE  call'[c].phase = "posting" /\ wire'[c].principal = page[t].principal
      <4>1. CASE waits(c)
        BY <2>1, <2>2, <3>1, <4>1
      <4>2. CASE ~waits(c)
        BY <2>2, <3>3, <4>2 DEF Told1
      <4>. QED  BY <4>1, <4>2
    <3>4. (\A m \in 1..Len(log) : log[m].by = page[t].principal)'
      BY <2>1, <3>1 DEF Told1
    <3>5. (reading[t].at # "none" => /\ Busy(t) = {} /\ reading[t].principal # None
                                     /\ reading[t].principal = page[t].principal)'
      BY <2>1, <2>6, <3>1 DEF Told1
    <3>6. (reading[t].at = "answered" => reading[t].state.n = InForce(t))'
      BY <2>1, <3>2 DEF Told1
    <3>7. (\A c \in Call : wire[c].code = "recorded" => wire[c].state.n = InForce(t))'
      BY <2>9, <3>2 DEF Told1
    <3>8. ((\A c \in Call : wire[c].code # "recorded") => page[t].state.n = InForce(t))'
      BY <2>1, <2>9, <3>2 DEF Told1
    <3>9. (\A c, d \in Busy(t) : c = d)'
      BY <2>6 DEF Told1
    <3>. QED  BY <2>7, <2>8, <3>1, <3>3, <3>4, <3>5, <3>6, <3>7, <3>8, <3>9 DEF Told1
  <2>11. CASE a.claim = None
    <3>1. page[t].principal = None /\ reading[t].at = "none"
      BY <2>3, <2>11 DEF Told1
    <3>2. log = <<>>
      <4>1. log \in Seq([by : Principal, call : Call])
        BY <1>0 DEF TypeOK
      <4>2. ASSUME NEW m \in 1..Len(log)  PROVE FALSE
        <5>1. log[m] \in [by : Principal, call : Call]
          BY <4>1, ItemTyped
        <5>2. log[m].by = None
          BY <3>1 DEF Told1
        <5>. QED  BY <5>1, <5>2, ClientAssumption DEF Principal
      <4>3. Len(log) = 0
        BY <4>1, <4>2
      <4>. QED  BY <4>1, <4>3
    <3>3. ASSUME NEW c \in Call  PROVE wire[c].at = "none" /\ wire[c].code = "none"
      <4>1. ASSUME wire[c].at # "none"  PROVE FALSE
        <5>1. wire[c].principal = None
          BY <3>1, <4>1 DEF Told1
        <5>. QED  BY <2>4, <4>1, <5>1 DEF VoiceInv, Names
      <4>. QED  BY <4>1, ItsOwnCalls
    <3>4. InForce(t)' = 0 /\ InForce(t) = 0
      BY <2>1, <3>2, NothingInForce DEF InForce
    <3>5. page[t].state.n = 0
      BY <3>3, <3>4 DEF Told1
    <3>6. ASSUME NEW c \in Call, wire'[c].at # "none"
          PROVE  call'[c].phase = "posting" /\ wire'[c].principal = page'[t].principal
      BY <2>1, <2>2, <3>3, <3>6
    <3>7. \A c \in Call : wire'[c].code # "recorded"
      BY <2>9, <3>3
    <3>8. (\A c, d \in Busy(t) : c = d)'
      BY <2>6 DEF Told1
    <3>9. (\A m \in 1..Len(log) : log[m].by = page[t].principal)'
      BY <2>1, <3>2
    <3>. QED  BY <2>1, <2>7, <2>8, <3>1, <3>4, <3>5, <3>6, <3>7, <3>8, <3>9 DEF Told1
  <2>. QED  BY <2>10, <2>11
<1>. QED  BY <1>3, <1>4, <1>5 DEF AskSettles

LEMMA SettlesKeepsTold ==
    ASSUME ClientAssumption, WaitInv, OnceInv,
           NEW t \in Tab, Alone(t), Told1(t), Alone(t)',
           NEW c \in Call, Settles(c)
    PROVE  Told1(t)'
<1>0. /\ TypeOK /\ page \in [Tab -> Page] /\ call \in [Call -> CallState]
      /\ wire \in [Call -> Post] /\ calm \in [Tab -> BOOLEAN] /\ page[t] \in Page
  BY DEF WaitInv, TypeOK
<1>1. call[c].phase = "posting"
  BY DEF Settles, Recorded, Refused, PostFails
<1>2. call[c].tab = t /\ c \in Busy(t) /\ reading[t].at = "none"
  BY <1>1, ItsOwnCalls DEF Told1
<1>3. \A d \in Call \ {c} : wire[d].at = "none" /\ wire[d].code # "recorded"
  <2>1. \A d \in Call : wire[d].at # "none" => d \in Busy(t)
    BY ItsOwnCalls
  <2>. QED  BY <1>2, <2>1, ItsOwnCalls DEF Told1
<1>4. CASE PostFails(c)
  BY <1>0, <1>2, <1>4 DEF PostFails, Alone
<1>5. CASE Recorded(c) \/ (Refused(c) /\ ~MayRetry(c))
  <2>1. PICK outcome \in {"recorded", "failed"} : call' = [call EXCEPT ![c] = Over(c, outcome)]
    BY <1>5 DEF Recorded, Refused
  <2>2. /\ wire' = [wire EXCEPT ![c] = NoPost]
        /\ UNCHANGED <<asking, reading, log>>
    BY <1>5 DEF Recorded, Refused, server
  <2>3. /\ \A d \in Call : wire'[d].at = "none" /\ wire'[d].code # "recorded"
        /\ call'[c].phase = outcome
        /\ \A d \in Call \ {c} : call'[d] = call[d]
    BY <1>0, <1>3, <2>1, <2>2, OverIs, NoThings
  <2>4. Busy(t)' \subseteq Busy(t)
    BY <2>3 DEF Busy
  <2>5. /\ page'[t].principal = page[t].principal /\ page'[t].secret = page[t].secret
        /\ page'[t].state.n = InForce(t)
    <3>1. CASE Recorded(c)
      <4>1. page' = [page EXCEPT ![t].state = wire[c].state] /\ wire[c].code = "recorded"
        BY <1>2, <3>1 DEF Recorded
      <4>2. wire[c].state.n = InForce(t)
        BY <4>1 DEF Told1
      <4>. QED  BY <1>0, <4>1, <4>2 DEF Page
    <3>2. CASE Refused(c) /\ ~MayRetry(c)
      <4>1. page' = page /\ wire[c].code = "refused"
        BY <3>2 DEF Refused
      <4>2. page[t].state.n = InForce(t)
        BY <1>3, <4>1 DEF Told1
      <4>. QED  BY <4>1, <4>2
    <3>. QED  BY <1>5, <3>1, <3>2
  <2>6. InForce(t)' = InForce(t)
    BY <2>2, <2>5 DEF InForce, StateOf
  <2>7. (\A d, e \in Busy(t) : d = e)'
    BY <2>4 DEF Told1
  <2>8. (\A m \in 1..Len(log) : log[m].by = page[t].principal)'
    BY <2>2, <2>5 DEF Told1
  <2>9. ASSUME NEW i \in Starter, asking'[i].at # "none", asking'[i].tab = t
        PROVE  /\ asking'[i].claim = page'[t].principal
               /\ asking'[i].at = "granted" =>
                     /\ asking'[i].fresh <=> asking'[i].claim = None
                     /\ asking'[i].claim # None => asking'[i].principal = asking'[i].claim
    BY <2>2, <2>5, <2>9 DEF Told1
  <2>10. (page[t].principal = None <=> page[t].secret = None)'
    BY <2>5 DEF Told1
  <2>11. reading'[t].at = "none"
    BY <1>2, <2>2
  <2>. QED  BY <2>3, <2>5, <2>6, <2>7, <2>8, <2>9, <2>10, <2>11 DEF Told1
<1>6. CASE Refused(c) /\ MayRetry(c)
  <2>. DEFINE pg == [page[t] EXCEPT !.token = None]
  <2>1. /\ PostDecision(c, t, pg, call[c].tries + 1) /\ wire[c].code = "refused"
        /\ UNCHANGED <<reading, log>>
    BY <1>2, <1>6 DEF Refused, server
  <2>2. call[c].tries + 1 = 2
    BY <1>6 DEF MayRetry
  <2>3. /\ pg \in Page /\ pg.principal = page[t].principal /\ pg.secret = page[t].secret
        /\ pg.state = page[t].state
    BY <1>0 DEF Page, Maybe
  <2>. HIDE DEF pg
  <2>4. PostDecision(c, t, pg, 2)
    BY <2>1, <2>2
  <2>5. Busy(t) \subseteq {c}
    BY <1>2 DEF Told1
  <2>. QED  BY <1>2, <1>3, <2>1, <2>3, <2>4, <2>5, PostDecisionKeepsTold
<1>. QED  BY <1>4, <1>5, <1>6 DEF Settles

LEMMA ServerKeepsTold ==
    ASSUME ClientAssumption, WaitInv, VoiceInv, OnceInv, NEW t \in Tab, Alone(t), Told1(t),
           \/ \E i \in Starter : TurnAway(i) \/ ServeSession(i)
           \/ \E c \in Call : Decide(c)
           \/ Age
    PROVE  Told1(t)'
<1>0. /\ TypeOK /\ page \in [Tab -> Page] /\ asking \in [Starter -> Ask]
      /\ log \in Seq([by : Principal, call : Call])
  BY DEF WaitInv, TypeOK
<1>1. ASSUME NEW i \in Starter, asking[i].at = "sent",
             asking' = [asking EXCEPT ![i].at = "refused"],
             UNCHANGED <<page, call, wire, reading, log>>
      PROVE  Told1(t)'
  <2>1. /\ asking'[i].at = "refused" /\ asking'[i].tab = asking[i].tab
        /\ asking'[i].claim = asking[i].claim
        /\ \A j \in Starter \ {i} : asking'[j] = asking[j]
    BY <1>0, <1>1 DEF Ask
  <2>2. asking[i].tab = t => asking[i].claim = page[t].principal
    BY <1>1 DEF Told1
  <2>3. ASSUME NEW j \in Starter
        PROVE  \/ asking'[j] = asking[j]
               \/ asking'[j].at # "none" /\ asking'[j].tab = t =>
                     /\ asking'[j].claim = page[t].principal
                     /\ asking'[j].at = "granted" =>
                           /\ asking'[j].fresh <=> asking'[j].claim = None
                           /\ asking'[j].claim # None => asking'[j].principal = asking'[j].claim
    BY <2>1, <2>2
  <2>. QED  BY <1>1, <2>3, ElsewhereKeepsTold
<1>2. ASSUME NEW i \in Starter, ServeSession(i),
             (asking[i].claim # None) => (asking[i].secret = asking[i].claim)
      PROVE  Told1(t)'
  <2>1. /\ asking[i].at = "sent" /\ asking'[i].tab = asking[i].tab
        /\ asking'[i].claim = asking[i].claim
        /\ asking'[i].fresh <=> asking[i].claim = None
        /\ asking'[i].principal = IF asking[i].claim = None THEN minted + 1 ELSE asking[i].claim
        /\ \A j \in Starter \ {i} : asking'[j] = asking[j]
        /\ UNCHANGED <<page, call, wire, reading, log>>
    BY <1>2, GrantDoes
  <2>2. asking[i].tab = t => asking[i].claim = page[t].principal
    BY <2>1 DEF Told1
  <2>3. ASSUME NEW j \in Starter
        PROVE  \/ asking'[j] = asking[j]
               \/ asking'[j].at # "none" /\ asking'[j].tab = t =>
                     /\ asking'[j].claim = page[t].principal
                     /\ asking'[j].at = "granted" =>
                           /\ asking'[j].fresh <=> asking'[j].claim = None
                           /\ asking'[j].claim # None => asking'[j].principal = asking'[j].claim
    BY <2>1, <2>2
  <2>. QED  BY <2>1, <2>3, ElsewhereKeepsTold
<1>3. ASSUME NEW c \in Call, Decide(c)  PROVE Told1(t)'
  <2>1. wire[c].at = "sent" /\ Names(wire[c])
    BY <1>3 DEF Decide, VoiceInv
  <2>2. /\ wire'[c].at = "answered" /\ wire'[c].principal = wire[c].principal
        /\ \A d \in Call \ {c} : wire'[d] = wire[d]
        /\ UNCHANGED <<page, call, asking, reading>>
        /\ \/ wire'[c].code # "recorded" /\ log' = log
           \/ /\ wire'[c].code = "recorded"
              /\ log' = Append(log, [by |-> wire[c].principal, call |-> c])
              /\ wire'[c].state = StateOf(wire[c].principal, log')
    BY <1>3, <2>1, DecideDoes DEF Names
  <2>3. /\ call[c].phase = "posting" /\ wire[c].principal = page[t].principal
        /\ reading[t].at = "none"
        /\ \A d \in Call \ {c} : wire[d].at = "none" /\ wire[d].code = "none"
        /\ wire[c].code = "none"
    <3>1. call[c].phase = "posting" /\ wire[c].principal = page[t].principal
      BY <2>1 DEF Told1
    <3>2. reading[t].at = "none" /\ \A d \in Call \ {c} : wire[d].at = "none"
      BY <2>1, ItsOwnCalls
    <3>3. wire[c].code = "none"
      BY <2>1 DEF OnceInv
    <3>. QED  BY <3>1, <3>2, <3>3, ItsOwnCalls
  <2>4. Busy(t)' = Busy(t)
    BY <2>2 DEF Busy
  <2>5. \A d \in Call : wire'[d].at # "none" =>
           call'[d].phase = "posting" /\ wire'[d].principal = page'[t].principal
    BY <2>2, <2>3
  <2>6. page[t].state.n = InForce(t)
    <3>1. \A d \in Call : wire[d].code # "recorded"
      BY <2>3
    <3>. QED  BY <3>1 DEF Told1
  <2>7. CASE log' = log /\ wire'[c].code # "recorded"
    <3>1. InForce(t)' = InForce(t)
      BY <2>2, <2>7 DEF InForce, StateOf
    <3>2. \A d \in Call : wire'[d].code # "recorded"
      BY <2>2, <2>3, <2>7
    <3>. QED  BY <2>2, <2>3, <2>4, <2>5, <2>6, <2>7, <3>1, <3>2 DEF Told1
  <2>8. CASE /\ wire'[c].code = "recorded"
             /\ log' = Append(log, [by |-> wire[c].principal, call |-> c])
             /\ wire'[c].state = StateOf(wire[c].principal, log')
    <3>1. wire'[c].state.n = InForce(t)'
      BY <2>2, <2>3, <2>8 DEF InForce, StateOf
    <3>2. ASSUME NEW d \in Call, wire'[d].code = "recorded"  PROVE wire'[d].state.n = InForce(t)'
      <4>1. d = c
        BY <2>2, <2>3, <3>2
      <4>. QED  BY <3>1, <4>1
    <3>3. (\A m \in 1..Len(log) : log[m].by = page[t].principal)'
      <4>1. /\ Len(log') = Len(log) + 1 /\ Len(log) \in Nat
            /\ log'[Len(log) + 1].by = page[t].principal
            /\ \A m \in 1..Len(log) : log'[m] = log[m]
        BY <1>0, <2>3, <2>8
      <4>. QED  BY <2>2, <4>1 DEF Told1
    <3>. QED  BY <2>2, <2>3, <2>4, <2>5, <2>8, <3>2, <3>3 DEF Told1
  <2>. QED  BY <2>2, <2>7, <2>8
<1>4. ASSUME NEW i \in Starter, TurnAway(i)  PROVE Told1(t)'
  BY <1>1, <1>4 DEF TurnAway, server
<1>5. ASSUME NEW i \in Starter, ServeSession(i)  PROVE Told1(t)'
  <2>1. CASE (asking[i].claim # None) => (asking[i].secret = asking[i].claim)
    BY <1>2, <1>5, <2>1
  <2>2. CASE ~((asking[i].claim # None) => (asking[i].secret = asking[i].claim))
    BY <1>1, <1>5, <2>2 DEF ServeSession
  <2>. QED  BY <2>1, <2>2
<1>6. CASE Age
  <2>1. UNCHANGED <<page, call, wire, asking, reading, log>>
    BY <1>6 DEF Age
  <2>. QED  BY <2>1, ElsewhereKeepsTold
<1>. QED  BY <1>3, <1>4, <1>5, <1>6

(***************************************************************************)
(* The invariant holds from the start and no step breaks it.               *)
(***************************************************************************)
LEMMA InitClientInv ==
    Init => ClientInv
<1>. SUFFICES ASSUME Init  PROVE ClientInv
  OBVIOUS
<1>0. ClientAssumption
  BY ClientAssumption
<1>1. TypeOK
  <2>1. 0 \in 0..MaxSessions /\ 0 \in 0..MaxPrincipals
    BY <1>0
  <2>2. <<>> \in Seq(Principal) /\ <<>> \in Seq([by : Principal, call : Call])
    OBVIOUS
  <2>. QED  BY <2>1, <2>2, NoThings DEF Init, TypeOK
<1>2. /\ \A t \in Tab : page[t] = Closed /\ reading[t] = NoRead /\ calm[t]
      /\ \A i \in Starter : asking[i] = NoAsk
      /\ \A c \in Call : call[c] = NoCall /\ wire[c] = NoPost
      /\ stored = NoStore /\ sessions = <<>> /\ log = <<>> /\ aged = 0 /\ minted = 0
  BY DEF Init
<1>3. WaitInv
  BY <1>1, <1>2, NoThings DEF WaitInv, Waits, PageOK, AskOK, CallOK
<1>4. VoiceInv
  <2>1. Len(sessions) = 0 /\ 0 <= MaxSessions
    BY <1>0, <1>2
  <2>. QED  BY <1>2, <2>1, NoThings DEF VoiceInv, Issued, Speaks
<1>5. OnceInv
  BY <1>2, NoThings DEF OnceInv, RecordedOnce
<1>6. MintInv
  <2>1. {t \in Tab : Spent(t)} = {}
    BY <1>2, NoThings DEF Spent
  <2>2. Cardinality({t \in Tab : Spent(t)}) = 0
    BY <2>1, FS_EmptySet
  <2>3. Pairs
    BY <1>2, NoThings DEF Pairs, NoStore
  <2>4. Claims
    BY <1>2, NoThings DEF Claims
  <2>. QED  BY <1>2, <2>2, <2>3, <2>4 DEF MintInv
<1>7. CurrentInv
  <2>1. /\ NoStore.secret = None /\ NoStore.state.n = 0 /\ Closed.secret = None
        /\ Closed.state.n = 0
    BY NoThings DEF NoStore, Closed
  <2>2. FirstInv
    BY <1>2, <2>1, NoThings DEF FirstInv
  <2>. QED  BY <1>2, <2>2, NoThings DEF CurrentInv, Alone
<1>. QED  BY <1>3, <1>4, <1>5, <1>6, <1>7 DEF ClientInv

LEMMA NextClientInv ==
    ClientInv /\ [Next]_vars => ClientInv'
<1>. SUFFICES ASSUME ClientInv, [Next]_vars  PROVE ClientInv'
  OBVIOUS
<1>0. WaitInv /\ VoiceInv /\ OnceInv /\ MintInv /\ CurrentInv /\ ClientAssumption
  BY ClientAssumption DEF ClientInv
<1>1. CASE UNCHANGED vars
  <2>1. UNCHANGED <<page, stored, call, wire, asking, reading, sessions, aged, minted, log,
                    mixed, calm>>
    BY <1>1 DEF vars, server
  <2>2. TypeOK'
    BY <1>0, <2>1 DEF WaitInv, TypeOK
  <2>3. Waits'
    BY <1>0, <2>1, QuietKeepsWaits
  <2>4. VoiceInv'
    BY <1>0, <2>1, HeldKeepsVoice DEF WaitInv
  <2>5. OnceInv'
    BY <1>0, <2>1, NothingNewKeepsOnce DEF WaitInv
  <2>6. MintInv'
    <3>1. Calm' => Calm
      BY <2>1 DEF Calm
    <3>. QED  BY <1>0, <2>1, <3>1, QuietKeepsMint
  <2>7. CurrentInv'
    <3>1. FirstInv'
      BY <1>0, <2>1 DEF CurrentInv, FirstInv, Untouched
    <3>2. ASSUME NEW t \in Tab, Alone(t)'  PROVE Told1(t)'
      <4>1. Alone(t)
        BY <2>1, <3>2 DEF Alone
      <4>2. Told1(t)
        BY <1>0, <4>1 DEF CurrentInv
      <4>. QED  BY <2>1, <4>2, ElsewhereKeepsTold
    <3>. QED  BY <3>1, <3>2 DEF CurrentInv
  <2>. QED  BY <2>2, <2>3, <2>4, <2>5, <2>6, <2>7 DEF ClientInv, WaitInv
<1>2. CASE Next
  <2>1. ASSUME NEW t \in Tab,
               \/ Load(t) \/ Close(t) \/ EnsureSession(t) \/ Clear(t)
               \/ GetState(t) \/ GotState(t) \/ GetStateFails(t) \/ AnswerRead(t)
               \/ \E c \in Call : Record(c, t)
        PROVE  /\ WaitInv' /\ VoiceInv' /\ OnceInv' /\ MintInv'
               /\ \A u \in Tab : Alone(u) /\ Told1(u) /\ Alone(u)' => Told1(u)'
    <3>1. WaitInv'
      BY <1>0, <2>1, LoadKeepsWaits, CloseKeepsWaits, EnsureSessionKeepsWaits, ClearKeepsWaits,
         GetStateKeepsWaits, GotStateKeepsWaits, RecordKeepsWaits
    <3>2. VoiceInv' /\ OnceInv' /\ MintInv'
      BY <1>0, <2>1, TabKeepsVoice, TabKeepsOnce, TabKeepsMint
    <3>3. \A u \in Tab : Alone(u) /\ Told1(u) /\ Alone(u)' => Told1(u)'
      BY <1>0, <2>1, TabKeepsTold
    <3>. QED  BY <3>1, <3>2, <3>3
  <2>2. ASSUME NEW i \in Starter, AskSettles(i)
        PROVE  /\ WaitInv' /\ VoiceInv' /\ OnceInv' /\ MintInv'
               /\ \A u \in Tab : Alone(u) /\ Told1(u) /\ Alone(u)' => Told1(u)'
    <3>1. WaitInv'
      BY <1>0, <2>2, AdoptKeepsWaits, RejectedKeepsWaits, AskFailsKeepsWaits DEF AskSettles
    <3>2. VoiceInv' /\ OnceInv' /\ MintInv'
      BY <1>0, <2>2, AskSettlesKeepsVoice, AskSettlesKeepsOnce, AskSettlesKeepsMint
    <3>3. \A u \in Tab : Alone(u) /\ Told1(u) /\ Alone(u)' => Told1(u)'
      BY <1>0, <2>2, AskSettlesKeepsTold
    <3>. QED  BY <3>1, <3>2, <3>3
  <2>3. ASSUME NEW c \in Call, Settles(c)
        PROVE  /\ WaitInv' /\ VoiceInv' /\ OnceInv' /\ MintInv'
               /\ \A u \in Tab : Alone(u) /\ Told1(u) /\ Alone(u)' => Told1(u)'
    <3>1. WaitInv'
      BY <1>0, <2>3, RecordedKeepsWaits, RefusedKeepsWaits, PostFailsKeepsWaits DEF Settles
    <3>2. VoiceInv' /\ OnceInv' /\ MintInv'
      BY <1>0, <2>3, SettlesKeepsVoice, SettlesKeepsOnce, SettlesKeepsMint
    <3>3. \A u \in Tab : Alone(u) /\ Told1(u) /\ Alone(u)' => Told1(u)'
      BY <1>0, <2>3, SettlesKeepsTold
    <3>. QED  BY <3>1, <3>2, <3>3
  <2>4. ASSUME \/ \E i \in Starter : TurnAway(i) \/ ServeSession(i)
               \/ \E c \in Call : Decide(c)
               \/ Age
        PROVE  /\ WaitInv' /\ VoiceInv' /\ OnceInv' /\ MintInv'
               /\ \A u \in Tab : Alone(u) /\ Told1(u) /\ Alone(u)' => Told1(u)'
    <3>1. WaitInv'
      <4>1. ASSUME NEW c \in Call, Decide(c)  PROVE WaitInv'
        <5>1. wire[c].token \in 1..Len(sessions)
          BY <1>0, <4>1 DEF Decide, VoiceInv, Names
        <5>. QED  BY <1>0, <4>1, <5>1, DecideKeepsWaits
      <4>. QED  BY <1>0, <2>4, <4>1, ServeSessionKeepsWaits, AgeKeepsWaits
    <3>2. VoiceInv' /\ OnceInv' /\ MintInv'
      BY <1>0, <2>4, ServerKeepsVoice, ServerKeepsOnce, ServerKeepsMint
    <3>3. \A u \in Tab : Alone(u) /\ Told1(u) /\ Alone(u)' => Told1(u)'
      BY <1>0, <2>4, ServerKeepsTold
    <3>. QED  BY <3>1, <3>2, <3>3
  <2>5. /\ WaitInv' /\ VoiceInv' /\ OnceInv' /\ MintInv'
        /\ \A u \in Tab : Alone(u) /\ Told1(u) /\ Alone(u)' => Told1(u)'
    BY <1>2, <2>1, <2>2, <2>3, <2>4 DEF Next
  <2>6. FirstInv'
    BY <1>0, <1>2, NextKeepsFirst DEF CurrentInv
  <2>7. ASSUME NEW t \in Tab, Alone(t)'  PROVE Told1(t)'
    <3>1. CASE page[t].open
      <4>1. Alone(t)
        BY <1>0, <1>2, <2>7, <3>1, AloneBefore
      <4>2. Told1(t)
        BY <1>0, <4>1 DEF CurrentInv
      <4>. QED  BY <2>5, <2>7, <4>1, <4>2
    <3>2. CASE ~page[t].open
      <4>1. Load(t)
        BY <1>0, <1>2, <2>7, <3>2, OnlyLoadOpens DEF Alone
      <4>. QED  BY <1>0, <1>2, <2>7, <4>1, FirstLoadTells DEF CurrentInv
    <3>. QED  BY <3>1, <3>2
  <2>. QED  BY <2>5, <2>6, <2>7 DEF ClientInv, CurrentInv
<1>. QED  BY <1>1, <1>2

LEMMA ClientInvHolds ==
    Spec => []ClientInv
BY InitClientInv, NextClientInv, PTL DEF Spec

(***************************************************************************)
(* What follows from it.                                                   *)
(***************************************************************************)
\* A page, localStorage and every post speak for one principal at a time: no live
\* session is held beside the identity of another, and no decision is posted in
\* the name of one with the session of another (Adopt, Rejected, Clear and the
\* answers that come late: sdk/src/consent.ts:345-401).
THEOREM OneVoiceAlways ==
    Spec => []OneVoice
<1>1. ClientInv => OneVoice
  BY DEF ClientInv, VoiceInv, OneVoice
<1>. QED  BY <1>1, ClientInvHolds, PTL

\* What is shared is done once and what is retried takes effect once: one
\* principal for the decisions of a first visit however many are taken at once,
\* one row for each decision however often it is posted.
THEOREM OnceEachAlways ==
    Spec => []OnceEach
<1>1. ASSUME ClientInv, \A t \in Tab : calm[t]
      PROVE  minted <= Cardinality({t \in Tab : page[t].loads > 0})
  <2>. DEFINE S == {t \in Tab : Spent(t)}
              L == {t \in Tab : page[t].loads > 0}
  <2>1. minted <= Cardinality(S) /\ minted \in Nat
    BY <1>1 DEF ClientInv, MintInv, Calm, WaitInv, TypeOK
  <2>2. S \subseteq L /\ IsFiniteSet(L)
    BY FinitelyMany, FS_Subset DEF Spent
  <2>3. Cardinality(S) <= Cardinality(L) /\ Cardinality(S) \in Nat /\ Cardinality(L) \in Nat
    BY <2>2, FS_Subset, FS_CardinalityType
  <2>. QED  BY <2>1, <2>3
<1>2. ClientInv => OnceEach
  BY <1>1 DEF OnceEach, MintedOnce, ClientInv, OnceInv
<1>. QED  BY <1>2, ClientInvHolds, PTL

\* The promise of record() waits for something that is under way: a call for a
\* session, for a request its page has open; a call that posts, for its post. What
\* the tab shares, starts over or abandons never leaves a call behind (types hold).
THEOREM NobodyWaitsInVain ==
    Spec => []NobodyWaitsForNothing
<1>1. ClientInv => NobodyWaitsForNothing
  BY DEF ClientInv, WaitInv, Waits, PageOK, CallOK, NobodyWaitsForNothing
<1>. QED  BY <1>1, ClientInvHolds, PTL

\* A page that has the log to itself, and whose requests neither failed nor
\* overlapped, shows every decision of its principal once its calls have returned.
THEOREM CurrentWhenAloneAlways ==
    Spec => []CurrentWhenAlone
<1>1. ASSUME ClientInv, NEW t \in Tab,
             page[t].open /\ calm[t] /\ ~mixed[t] /\ Awaited(t) = 0,
             \A c \in Call : call[c].tab \in {None, t}
      PROVE  page[t].state.n = StateOf(page[t].principal, log).n
  <2>1. Alone(t) /\ Told1(t)
    BY <1>1 DEF ClientInv, CurrentInv, Alone
  <2>2. Busy(t) = {}
    <3>1. IsFiniteSet(Busy(t)) /\ Cardinality(Busy(t)) \in Nat
      BY FinitelyMany, FS_Subset, FS_CardinalityType DEF Busy
    <3>2. Cardinality(Busy(t)) = 0
      BY <1>1, <3>1 DEF Awaited
    <3>. QED  BY <3>1, <3>2, FS_EmptySet
  <2>3. ASSUME NEW c \in Call  PROVE wire[c].code # "recorded"
    <3>1. wire[c].at = "none"
      BY <1>1, <2>1, <2>2, ItsOwnCalls DEF ClientInv
    <3>. QED  BY <1>1, <3>1 DEF ClientInv, OnceInv
  <2>. QED  BY <2>1, <2>3 DEF Told1, InForce
<1>2. ClientInv => CurrentWhenAlone
  BY <1>1 DEF CurrentWhenAlone
<1>. QED  BY <1>2, ClientInvHolds, PTL
=============================================================================
