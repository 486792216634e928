------------------------ MODULE PageReports_proofs -------------------------
(***************************************************************************)
(* What holds of a page for every number of start() calls, however often   *)
(* it is re-initialised and discovery started, and for every policy.       *)
(*                                                                         *)
(* A wrapper is taken off by writing back what it found, so everything     *)
(* turns on what the clients found: the invariant says which wrappers each *)
(* function has and what each undo would restore.                          *)
(***************************************************************************)
EXTENDS PageReports, FiniteSetTheorems, SequenceTheorems, TLAPS

(***************************************************************************)
(* The page's functions.                                                   *)
(***************************************************************************)
ClientRecord ==
    [running : BOOLEAN, site : Site, mode : Mode, undo : {<< >>} \cup [Patches -> Stack]]

ControlsTyped ==
    /\ site \in Site /\ granted \subseteq Purpose
    /\ stack \in [Wrapped -> Stack]
    /\ client \in Seq(ClientRecord)
    /\ enforcement \in 0..Len(client)
    /\ discovery \in [started : BOOLEAN, undo : Seq([api : Wrapped, found : Stack])]
    /\ call \in [Call -> [pc : {"idle", "config", "state", "done"}, site : Site \cup {NoValue}]]
    /\ \A c \in Call : call[c].pc # "idle" => call[c].site \in Site
    /\ inits \in Nat /\ watches \in Nat /\ crossed \in BOOLEAN

\* Only the client of state.enforcement runs, and it found insertion unwrapped.
ClientsOK ==
    \A n \in 1..Len(client) :
        /\ client[n].running => /\ n = enforcement
                                /\ client[n].undo \in [Patches -> Stack]
                                /\ client[n].undo["insertion"] = << >>
        /\ ~client[n].running => client[n].mode = "off" /\ client[n].undo = << >>

Enforces == enforcement # 0 /\ client[enforcement].running

InsertionOK == stack["insertion"] = IF Enforces THEN <<enforcement>> ELSE << >>

\* The last of discovery's undos of setItem restores its own first wrapper.
DiscoveryOK ==
    /\ ~discovery.started => discovery.undo = << >> /\ Len(stack["setItem"]) = watches
    /\ discovery.started => /\ Len(discovery.undo) = 3
                            /\ discovery.undo[1].api = "fetch"
                            /\ discovery.undo[2].api = "setItem"
                            /\ discovery.undo[3].api = "setItem"
                            /\ Len(discovery.undo[3].found) = watches

\* Where stops came in order, the wrapper put on last is the outermost and found
\* the other.
Found == client[enforcement].undo["fetch"]
Observed == discovery.undo[1].found

FetchOK ==
    ~crossed =>
        /\ ~Enforces /\ ~discovery.started => stack["fetch"] = << >>
        /\ Enforces /\ ~discovery.started => stack["fetch"] = <<enforcement>> /\ Found = << >>
        /\ ~Enforces /\ discovery.started => stack["fetch"] = <<Observer>> /\ Observed = << >>
        /\ Enforces /\ discovery.started =>
              \/ stack["fetch"] = <<enforcement, Observer>> /\ Found = <<Observer>>
                 /\ Observed = << >>
              \/ stack["fetch"] = <<Observer, enforcement>> /\ Found = << >>
                 /\ Observed = <<enforcement>>

ControlsInv == ControlsTyped /\ ClientsOK /\ InsertionOK /\ DiscoveryOK /\ FetchOK

LEMMA RunningIsEnforcing ==
    ASSUME ControlsInv
    PROVE  /\ enforcement \in Running <=> Enforces
           /\ \A n \in Running : n = enforcement
           /\ DOMAIN client = 1..Len(client)
BY DEF ControlsInv, ControlsTyped, ClientsOK, Running, Enforces

\* What StopEnforcement and FinishStart find when the client is stopped.
LEMMA RestoredFunctions ==
    ASSUME ControlsInv
    PROVE  LET s == Restored(enforcement) IN
           /\ s \in [Wrapped -> Stack]
           /\ s["insertion"] = << >>
           /\ s["setItem"] = stack["setItem"]
           /\ s["fetch"] = IF Enforces THEN Found ELSE stack["fetch"]
<1>. DEFINE s == Restored(enforcement)
<1>1. \A api \in Wrapped :
         s[api] = IF enforcement # 0 /\ api \in DOMAIN client[enforcement].undo
                  THEN client[enforcement].undo[api] ELSE stack[api]
  BY DEF Restored
<1>2. CASE Enforces
  <2>1. client[enforcement].undo \in [Patches -> Stack]
        /\ client[enforcement].undo["insertion"] = << >> /\ enforcement # 0
    BY <1>2 DEF ControlsInv, ControlsTyped, ClientsOK, Enforces
  <2>2. DOMAIN client[enforcement].undo = {"fetch", "insertion"}
    BY <2>1 DEF Patches
  <2>3. s["fetch"] = Found /\ s["insertion"] = << >> /\ s["setItem"] = stack["setItem"]
    BY <1>1, <2>1, <2>2 DEF Wrapped, Found
  <2>4. Found \in Stack /\ << >> \in Stack /\ stack["setItem"] \in Stack
    BY <2>1 DEF Found, Patches, Stack, ControlsInv, ControlsTyped, Wrapped
  <2>5. s = [api \in Wrapped |-> s[api]]
    BY DEF Restored
  <2>. QED  BY <1>2, <2>3, <2>4, <2>5 DEF Wrapped
<1>3. CASE ~Enforces
  <2>1. enforcement # 0 => DOMAIN client[enforcement].undo = {}
    BY <1>3 DEF ControlsInv, ControlsTyped, ClientsOK, Enforces
  <2>2. \A api \in Wrapped : s[api] = stack[api]
    BY <1>1, <2>1
  <2>3. s = [api \in Wrapped |-> s[api]]
    BY DEF Restored
  <2>4. s = stack
    BY <2>2, <2>3 DEF ControlsInv, ControlsTyped
  <2>. QED  BY <1>3, <2>4 DEF ControlsInv, ControlsTyped, InsertionOK
<1>. QED  BY <1>2, <1>3

LEMMA UnwrappedClients ==
    ASSUME ControlsInv
    PROVE  LET cs == Unwrapped(enforcement) IN
           /\ cs \in Seq(ClientRecord)
           /\ Len(cs) = Len(client)
           /\ \A n \in 1..Len(client) :
                 ~cs[n].running /\ cs[n].mode = "off" /\ cs[n].undo = << >>
<1>1. CASE enforcement = 0
  BY <1>1 DEF Unwrapped, ControlsInv, ControlsTyped, ClientsOK
<1>2. CASE enforcement # 0
  <2>. DEFINE c == client[enforcement]
              cs == [client EXCEPT ![enforcement] = Stopped(@)]
  <2>1. enforcement \in 1..Len(client) /\ c \in ClientRecord
    BY <1>2 DEF ControlsInv, ControlsTyped
  <2>2. /\ Stopped(c) \in ClientRecord
        /\ ~Stopped(c).running /\ Stopped(c).mode = "off" /\ Stopped(c).undo = << >>
    BY <2>1 DEF Stopped, ClientRecord, Mode
  <2>3. cs = [client EXCEPT ![enforcement] = Stopped(c)]
    OBVIOUS
  <2>. HIDE DEF c, cs
  <2>4. /\ cs \in Seq(ClientRecord) /\ Len(cs) = Len(client)
        /\ cs[enforcement] = Stopped(c)
        /\ \A n \in 1..Len(client) : n # enforcement => cs[n] = client[n]
    BY <2>1, <2>2, <2>3 DEF ControlsInv, ControlsTyped
  <2>5. \A n \in 1..Len(client) : n # enforcement =>
           ~client[n].running /\ client[n].mode = "off" /\ client[n].undo = << >>
    BY DEF ControlsInv, ClientsOK
  <2>6. Unwrapped(enforcement) = cs
    BY <1>2 DEF Unwrapped, cs
  <2>. QED  BY <2>2, <2>4, <2>5, <2>6
<1>. QED  BY <1>1, <1>2

\* What StopDiscovery and getClient find when discovery is stopped.
LEMMA UnwatchedFunctions ==
    ASSUME ControlsInv
    PROVE  LET s == Unwatched(discovery.undo) IN
           /\ s \in [Wrapped -> Stack]
           /\ s["insertion"] = stack["insertion"]
           /\ Len(s["setItem"]) = watches
           /\ s["fetch"] = IF discovery.started THEN Observed ELSE stack["fetch"]
<1>. DEFINE u == discovery.undo
            of(api) == {i \in DOMAIN u : u[i].api = api}
            s == Unwatched(u)
<1>0. u \in Seq([api : Wrapped, found : Stack]) /\ stack \in [Wrapped -> Stack]
  BY DEF ControlsInv, ControlsTyped
<1>1. s = [api \in Wrapped |-> IF of(api) = {} THEN stack[api] ELSE u[Max(of(api))].found]
  BY DEF Unwatched
<1>2. CASE discovery.started
  <2>1. /\ DOMAIN u = {1, 2, 3}
        /\ u[1].api = "fetch" /\ u[2].api = "setItem" /\ u[3].api = "setItem"
        /\ u[1].found \in Stack /\ u[3].found \in Stack
        /\ Len(u[3].found) = watches
    <3>1. Len(u) = 3 /\ DOMAIN u = 1..3
      BY <1>0, <1>2 DEF ControlsInv, DiscoveryOK
    <3>2. \A i \in 1..3 : u[i] \in [api : Wrapped, found : Stack]
      <4>. HIDE DEF u
      <4>. QED  BY <1>0, <3>1, ElementOfSeq
    <3>3. u[1].found \in Stack /\ u[3].found \in Stack
      BY <3>2
    <3>. QED  BY <1>2, <3>1, <3>3 DEF ControlsInv, DiscoveryOK
  <2>. HIDE DEF u
  <2>2. of("fetch") = {1} /\ of("setItem") = {2, 3} /\ of("insertion") = {}
    BY <2>1
  <2>3. Max({1}) = 1 /\ Max({2, 3}) = 3
    <3>1. \A x \in {1} : x = 1
      OBVIOUS
    <3>2. Max({1}) = 1
      BY <3>1 DEF Max
    <3>3. \A x \in {2, 3} : (\A y \in {2, 3} : x >= y) <=> x = 3
      OBVIOUS
    <3>4. Max({2, 3}) = 3
      BY <3>3 DEF Max
    <3>. QED  BY <3>2, <3>4
  <2>. HIDE DEF of
  <2>4. s["fetch"] = u[1].found /\ s["setItem"] = u[3].found
        /\ s["insertion"] = stack["insertion"]
    BY <1>1, <2>2, <2>3 DEF Wrapped
  <2>5. stack["insertion"] \in Stack
    BY <1>0 DEF Wrapped
  <2>6. s \in [Wrapped -> Stack]
    BY <1>1, <2>1, <2>4, <2>5 DEF Wrapped
  <2>. QED  BY <1>2, <2>1, <2>4, <2>6 DEF Observed, u
<1>3. CASE ~discovery.started
  <2>1. DOMAIN u = {}
    BY <1>3 DEF ControlsInv, DiscoveryOK
  <2>2. \A api : of(api) = {}
    BY <2>1
  <2>. HIDE DEF of
  <2>3. s = stack
    BY <1>0, <1>1, <2>2
  <2>. QED  BY <1>0, <1>3, <2>3 DEF ControlsInv, DiscoveryOK
<1>. QED  BY <1>2, <1>3

(***************************************************************************)
(* Steps of enforcement.                                                   *)
(***************************************************************************)
LEMMA PrefixIsHead ==
    ASSUME NEW s \in Stack, NEW n \in Int, IsPrefix(<<n>>, s)
    PROVE  s # << >> /\ s[1] = n
BY DEF IsPrefix, Stack

\* Stopped in order, the client leaves discovery's wrapper or none.
LEMMA StopsLast ==
    ASSUME ControlsInv, ~crossed, InOrder(enforcement)
    PROVE  /\ Restored(enforcement)["fetch"] =
                 IF discovery.started THEN <<Observer>> ELSE << >>
           /\ discovery.started => Observed = << >>
<1>1. Restored(enforcement)["fetch"] = IF Enforces THEN Found ELSE stack["fetch"]
  BY RestoredFunctions
<1>2. stack["fetch"] \in Stack /\ enforcement \in Nat /\ Observer \in Int /\ Observer <= 0
  BY DEF ControlsInv, ControlsTyped, Wrapped, Observer
<1>3. CASE Enforces
  <2>1. stack["fetch"][1] = enforcement /\ enforcement # 0
    BY <1>2, <1>3, RunningIsEnforcing, PrefixIsHead DEF InOrder, Enforces
  <2>2. stack["fetch"] # <<Observer, enforcement>>
    BY <1>2, <2>1
  <2>. QED  BY <1>1, <1>3, <2>2 DEF ControlsInv, FetchOK
<1>4. CASE ~Enforces
  BY <1>1, <1>4 DEF ControlsInv, FetchOK
<1>. QED  BY <1>3, <1>4

LEMMA StopEnforcementKeeps ==
    ASSUME ControlsInv, StopEnforcement
    PROVE  ControlsInv'
<1>. DEFINE s == Restored(enforcement)
            cs == Unwrapped(enforcement)
<1>1. /\ s \in [Wrapped -> Stack] /\ s["insertion"] = << >> /\ s["setItem"] = stack["setItem"]
  BY RestoredFunctions
<1>2. /\ cs \in Seq(ClientRecord) /\ Len(cs) = Len(client)
      /\ \A n \in 1..Len(client) : ~cs[n].running /\ cs[n].mode = "off" /\ cs[n].undo = << >>
  BY UnwrappedClients
<1>3. /\ stack' = s /\ client' = cs /\ crossed' = (crossed \/ ~InOrder(enforcement))
      /\ UNCHANGED <<site, granted, enforcement, discovery, call, inits, watches>>
  BY DEF StopEnforcement
<1>4. ~crossed' => /\ s["fetch"] = IF discovery.started THEN <<Observer>> ELSE << >>
                   /\ discovery.started => Observed = << >>
  BY <1>3, StopsLast
<1>. HIDE DEF s, cs
<1>5. ControlsTyped'
  BY <1>1, <1>2, <1>3 DEF ControlsInv, ControlsTyped
<1>6. ~Enforces'
  BY <1>2, <1>3 DEF Enforces, ControlsInv, ControlsTyped
<1>7. ClientsOK'
  BY <1>2, <1>3 DEF ClientsOK
<1>8. InsertionOK'
  BY <1>1, <1>3, <1>6 DEF InsertionOK
<1>9. DiscoveryOK'
  BY <1>1, <1>3 DEF ControlsInv, DiscoveryOK
<1>10. FetchOK'
  BY <1>3, <1>4, <1>6 DEF FetchOK, Observer, Observed
<1>. QED  BY <1>5, <1>7, <1>8, <1>9, <1>10 DEF ControlsInv

LEMMA CallsKeep ==
    ASSUME ControlsInv, NEW c \in Call, BeginStart(c) \/ LoadConfig(c)
    PROVE  ControlsInv'
<1>1. UNCHANGED <<site, granted, stack, client, enforcement, discovery, inits, watches, crossed>>
  BY DEF BeginStart, LoadConfig
<1>2. PICK next \in {"config", "state", "done"}, to \in Site :
         call' = [call EXCEPT ![c] = [pc |-> next, site |-> to]]
  <2>1. CASE BeginStart(c)
    BY <2>1 DEF BeginStart, ControlsInv, ControlsTyped
  <2>2. CASE LoadConfig(c)
    <3>1. call[c] = [pc |-> "config", site |-> call[c].site] /\ call[c].site \in Site
      BY <2>2 DEF LoadConfig, ControlsInv, ControlsTyped
    <3>2. PICK next \in {"state", "done"} : call' = [call EXCEPT ![c].pc = next]
      BY <2>2 DEF LoadConfig
    <3>3. [call[c] EXCEPT !.pc = next] = [pc |-> next, site |-> call[c].site]
      BY <3>1
    <3>4. call' = [call EXCEPT ![c] = [pc |-> next, site |-> call[c].site]]
      BY <3>2, <3>3
    <3>. QED  BY <3>1, <3>4
  <2>. QED  BY <2>1, <2>2
<1>3. ControlsTyped'
  BY <1>1, <1>2 DEF ControlsInv, ControlsTyped
<1>4. ClientsOK' /\ InsertionOK' /\ DiscoveryOK'
  BY <1>1 DEF ControlsInv, ClientsOK, InsertionOK, DiscoveryOK, Enforces
<1>5. FetchOK'
  BY <1>1 DEF ControlsInv, FetchOK, Enforces, Found, Observed, Observer
<1>. QED  BY <1>3, <1>4, <1>5 DEF ControlsInv

LEMMA DecideKeeps ==
    ASSUME ControlsInv, Decide
    PROVE  ControlsInv'
<1>1. /\ UNCHANGED <<site, stack, client, enforcement, discovery, call, inits, watches, crossed>>
      /\ granted' \in SUBSET Purpose
  BY DEF Decide
<1>2. ControlsTyped'
  BY <1>1 DEF ControlsInv, ControlsTyped
<1>3. ClientsOK' /\ InsertionOK' /\ DiscoveryOK'
  BY <1>1 DEF ControlsInv, ClientsOK, InsertionOK, DiscoveryOK, Enforces
<1>4. FetchOK'
  BY <1>1 DEF ControlsInv, FetchOK, Enforces, Found, Observed, Observer
<1>. QED  BY <1>2, <1>3, <1>4 DEF ControlsInv

LEMMA OnTop ==
    ASSUME NEW m \in Int
    PROVE  <<m>> \o << >> = <<m>> /\ \A x \in Int : <<m>> \o <<x>> = <<m, x>>
<1>1. <<m>> \in Seq(Int)
  OBVIOUS
<1>2. <<m>> \o << >> = <<m>>
  BY <1>1, ConcatEmptySeq
<1>3. ASSUME NEW x \in Int  PROVE <<m>> \o <<x>> = <<m, x>>
  <2>1. <<x>> \in Seq(Int) /\ <<m, x>> \in Seq(Int)
    OBVIOUS
  <2>2. /\ <<m>> \o <<x>> \in Seq(Int)
        /\ Len(<<m>> \o <<x>>) = 2
        /\ \A i \in 1..2 : (<<m>> \o <<x>>)[i] = IF i <= 1 THEN m ELSE x
    <3>1. /\ <<m>> \o <<x>> \in Seq(Int)
          /\ Len(<<m>> \o <<x>>) = Len(<<m>>) + Len(<<x>>)
          /\ \A i \in 1..Len(<<m>>) + Len(<<x>>) : (<<m>> \o <<x>>)[i] =
                IF i <= Len(<<m>>) THEN <<m>>[i] ELSE <<x>>[i - Len(<<m>>)]
      BY <1>1, <2>1, ConcatProperties
    <3>2. Len(<<m>>) = 1 /\ Len(<<x>>) = 1
      OBVIOUS
    <3>3. \A i \in 1..2 : IF i <= 1 THEN i = 1 ELSE i = 2
      OBVIOUS
    <3>. QED  BY <3>1, <3>2, <3>3
  <2>3. Len(<<m, x>>) = 2 /\ \A i \in 1..2 : <<m, x>>[i] = IF i <= 1 THEN m ELSE x
    OBVIOUS
  <2>. QED  BY <2>1, <2>2, <2>3, SeqEqual
<1>. QED  BY <1>2, <1>3

\* A client that is started wraps what the one it replaces has left.
LEMMA FinishStartKeeps ==
    ASSUME ControlsInv, NEW c \in Call, FinishStart(c)
    PROVE  ControlsInv'
<1>. DEFINE s == Restored(enforcement)
            cs == Unwrapped(enforcement)
            m == Len(client) + 1
<1>0. PICK mode \in {Approved[call[c].site].mode, "observe", "enforce"} :
         /\ client' = Append(cs, Started(call[c].site, mode, s))
         /\ stack' = Patched(Started(call[c].site, mode, s), m, s)
  BY DEF FinishStart, Replaced
<1>. DEFINE new == Started(call[c].site, mode, s)
<1>1. /\ s \in [Wrapped -> Stack] /\ s["insertion"] = << >> /\ s["setItem"] = stack["setItem"]
  BY RestoredFunctions
<1>2. /\ cs \in Seq(ClientRecord) /\ Len(cs) = Len(client)
      /\ \A n \in 1..Len(client) : ~cs[n].running /\ cs[n].mode = "off" /\ cs[n].undo = << >>
  BY UnwrappedClients
<1>3. /\ enforcement' = m /\ crossed' = (crossed \/ ~InOrder(enforcement))
      /\ call[c].pc = "state" /\ call' = [call EXCEPT ![c].pc = "done"]
      /\ UNCHANGED <<site, granted, discovery, inits, watches>>
  BY DEF FinishStart
<1>4. ~crossed' => /\ s["fetch"] = IF discovery.started THEN <<Observer>> ELSE << >>
                   /\ discovery.started => Observed = << >>
  BY <1>3, StopsLast
<1>5. call[c].site \in Site /\ mode \in Mode
  BY <1>3, PageAssumption DEF ControlsInv, ControlsTyped, Mode
<1>6. /\ new \in ClientRecord
      /\ new.running => new.undo = [api \in Patches |-> s[api]]
      /\ ~new.running => new.mode = "off" /\ new.undo = << >>
  <2>1. [api \in Patches |-> s[api]] \in [Patches -> Stack]
    BY <1>1 DEF Patches, Wrapped
  <2>2. CASE WorthStarting(Approved[call[c].site])
    <3>1. new = [running |-> TRUE, site |-> call[c].site, mode |-> mode,
                 undo |-> [api \in Patches |-> s[api]]]
      BY <2>2 DEF Started
    <3>. QED  BY <1>5, <2>1, <3>1 DEF ClientRecord
  <2>3. CASE ~WorthStarting(Approved[call[c].site])
    <3>1. new = [running |-> FALSE, site |-> call[c].site, mode |-> "off", undo |-> << >>]
      BY <2>3 DEF Started
    <3>. QED  BY <1>5, <3>1 DEF ClientRecord, Mode
  <2>. QED  BY <2>2, <2>3
<1>7. /\ stack' \in [Wrapped -> Stack]
      /\ stack'["setItem"] = s["setItem"]
      /\ new.running => /\ stack'["insertion"] = <<m>> \o s["insertion"]
                        /\ stack'["fetch"] = <<m>> \o s["fetch"]
      /\ ~new.running => stack'["insertion"] = s["insertion"] /\ stack'["fetch"] = s["fetch"]
  <2>. HIDE DEF new, s
  <2>1. stack' = [api \in Wrapped |-> IF new.running /\ api \in Patches
                                      THEN <<m>> \o s[api] ELSE s[api]]
    BY <1>0 DEF Patched, new, s
  <2>2. m \in Int /\ \A api \in Wrapped : s[api] \in Stack /\ <<m>> \o s[api] \in Stack
    BY <1>1 DEF Stack, ControlsInv, ControlsTyped
  <2>. QED  BY <2>1, <2>2 DEF Wrapped, Patches
<1>8. client' = Append(cs, new)
  BY <1>0
<1>. HIDE DEF s, cs, new
<1>9. /\ client' \in Seq(ClientRecord) /\ Len(client') = m /\ client'[m] = new
      /\ \A n \in 1..Len(client) : client'[n] = cs[n]
  BY <1>2, <1>6, <1>8
<1>10. m \in Nat \ {0} /\ Len(client) \in Nat
  BY DEF ControlsInv, ControlsTyped
<1>11. ControlsTyped'
  <2>1. call' \in [Call -> [pc : {"idle", "config", "state", "done"}, site : Site \cup {NoValue}]]
        /\ \A b \in Call : call'[b].pc # "idle" => call'[b].site \in Site
    BY <1>3, <1>5 DEF ControlsInv, ControlsTyped
  <2>2. /\ site' \in Site /\ granted' \subseteq Purpose
        /\ discovery' \in [started : BOOLEAN, undo : Seq([api : Wrapped, found : Stack])]
        /\ inits' \in Nat /\ watches' \in Nat
    BY <1>3 DEF ControlsInv, ControlsTyped
  <2>3. enforcement' \in 0..Len(client') /\ crossed' \in BOOLEAN
    BY <1>3, <1>9, <1>10 DEF ControlsInv, ControlsTyped
  <2>. QED  BY <1>7, <1>9, <2>1, <2>2, <2>3 DEF ControlsTyped
<1>12. Enforces' <=> new.running
  BY <1>3, <1>9, <1>10 DEF Enforces
<1>13. new.running => /\ new.undo \in [Patches -> Stack] /\ new.undo["insertion"] = << >>
                      /\ new.undo["fetch"] = s["fetch"]
  BY <1>1, <1>6 DEF Patches, Wrapped
<1>14. ClientsOK'
  <2>. SUFFICES ASSUME NEW n \in 1..m
                PROVE  /\ client'[n].running => /\ n = m
                                                /\ client'[n].undo \in [Patches -> Stack]
                                                /\ client'[n].undo["insertion"] = << >>
                       /\ ~client'[n].running => client'[n].mode = "off" /\ client'[n].undo = << >>
    BY <1>3, <1>9 DEF ClientsOK
  <2>1. CASE n = m
    BY <1>6, <1>9, <1>13, <2>1
  <2>2. CASE n # m
    <3>1. n \in 1..Len(client)
      BY <1>10, <2>2
    <3>. QED  BY <1>2, <1>9, <3>1
  <2>. QED  BY <2>1, <2>2
<1>15. InsertionOK'
  BY <1>1, <1>3, <1>7, <1>10, <1>12, OnTop DEF InsertionOK
<1>16. DiscoveryOK'
  BY <1>1, <1>3, <1>7 DEF ControlsInv, DiscoveryOK
<1>17. FetchOK'
  <2>. SUFFICES ASSUME ~crossed' PROVE FetchOK'
    BY DEF FetchOK
  <2>1. Observer' = Observer /\ Observed' = Observed /\ discovery' = discovery /\ Observer \in Int
    BY <1>3 DEF Observer, Observed, ControlsInv, ControlsTyped
  <2>2. new.running => Found' = s["fetch"]
    BY <1>3, <1>9, <1>13 DEF Found
  <2>3. new.running => stack'["fetch"] = IF discovery.started THEN <<m, Observer>> ELSE <<m>>
    <3>1. <<m>> \o << >> = <<m>> /\ <<m>> \o <<Observer>> = <<m, Observer>>
      BY <1>10, <2>1, OnTop
    <3>. QED  BY <1>4, <1>7, <3>1
  <2>. QED  BY <1>3, <1>4, <1>7, <1>12, <2>1, <2>2, <2>3 DEF FetchOK
<1>. QED  BY <1>11, <1>14, <1>15, <1>16, <1>17 DEF ControlsInv

(***************************************************************************)
(* Steps of discovery.                                                     *)
(***************************************************************************)
\* Stopped in order, discovery leaves the client's wrapper or none.
LEMMA DiscoveryLast ==
    ASSUME ControlsInv, ~crossed, StopsInOrder
    PROVE  /\ Unwatched(discovery.undo)["fetch"] = IF Enforces THEN <<enforcement>> ELSE << >>
           /\ Enforces => Found = << >>
<1>1. Unwatched(discovery.undo)["fetch"] =
         IF discovery.started THEN Observed ELSE stack["fetch"]
  BY UnwatchedFunctions
<1>2. stack["fetch"] \in Stack /\ enforcement \in Nat /\ Observer \in Int /\ Observer <= 0
  BY DEF ControlsInv, ControlsTyped, Wrapped, Observer
<1>3. CASE discovery.started
  <2>1. stack["fetch"][1] = Observer
    BY <1>2, <1>3, PrefixIsHead DEF StopsInOrder
  <2>2. Enforces => stack["fetch"] # <<enforcement, Observer>>
    BY <1>2, <2>1 DEF Enforces
  <2>. QED  BY <1>1, <1>3, <2>2 DEF ControlsInv, FetchOK
<1>4. CASE ~discovery.started
  BY <1>1, <1>4 DEF ControlsInv, FetchOK
<1>. QED  BY <1>3, <1>4

LEMMA StopDiscoveryKeeps ==
    ASSUME ControlsInv, StopDiscovery
    PROVE  ControlsInv'
<1>. DEFINE s == Unwatched(discovery.undo)
<1>1. /\ s \in [Wrapped -> Stack] /\ s["insertion"] = stack["insertion"]
      /\ Len(s["setItem"]) = watches
  BY UnwatchedFunctions
<1>2. /\ stack' = s /\ discovery' = NotWatching /\ crossed' = (crossed \/ ~StopsInOrder)
      /\ UNCHANGED <<site, granted, client, enforcement, call, inits, watches>>
  BY DEF StopDiscovery
<1>3. ~crossed' => /\ s["fetch"] = IF Enforces THEN <<enforcement>> ELSE << >>
                   /\ Enforces => Found = << >>
  BY <1>2, DiscoveryLast
<1>. HIDE DEF s
<1>4. /\ NotWatching \in [started : BOOLEAN, undo : Seq([api : Wrapped, found : Stack])]
      /\ ~NotWatching.started /\ NotWatching.undo = << >>
  BY DEF NotWatching
<1>5. ControlsTyped'
  BY <1>1, <1>2, <1>4 DEF ControlsInv, ControlsTyped
<1>6. ClientsOK' /\ InsertionOK'
  BY <1>1, <1>2 DEF ControlsInv, ClientsOK, InsertionOK, Enforces
<1>7. DiscoveryOK'
  BY <1>1, <1>2, <1>4 DEF DiscoveryOK
<1>8. FetchOK'
  BY <1>2, <1>3, <1>4 DEF FetchOK, Enforces, Found
<1>. QED  BY <1>5, <1>6, <1>7, <1>8 DEF ControlsInv

LEMMA StartDiscoveryKeeps ==
    ASSUME ControlsInv, StartDiscovery
    PROVE  ControlsInv'
<1>. DEFINE f == stack["fetch"]
            i == stack["setItem"]
            u == <<[api |-> "fetch", found |-> f], [api |-> "setItem", found |-> i],
                   [api |-> "setItem", found |-> <<Observer>> \o i]>>
            Undo == [api : Wrapped, found : Stack]
<1>1. /\ ~discovery.started /\ discovery.undo = << >> /\ Len(i) = watches
      /\ watches' = watches + 1 /\ watches \in Nat
      /\ UNCHANGED <<site, granted, client, enforcement, call, inits, crossed>>
  BY DEF StartDiscovery, MayWatch, ControlsInv, ControlsTyped, DiscoveryOK
<1>2. f \in Stack /\ i \in Stack /\ Observer \in Int
  BY DEF ControlsInv, ControlsTyped, Wrapped, Observer
<1>3. /\ <<Observer>> \o f \in Stack /\ <<Observer>> \o i \in Stack
      /\ Len(<<Observer>> \o i) = watches + 1
      /\ <<Observer, Observer>> \o i \in Stack /\ Len(<<Observer, Observer>> \o i) = watches + 2
  <2>. HIDE DEF f, i
  <2>. QED  BY <1>1, <1>2 DEF Stack
<1>4. /\ u \in Seq(Undo) /\ Len(u) = 3
      /\ u[1].api = "fetch" /\ u[2].api = "setItem" /\ u[3].api = "setItem"
      /\ u[1].found = f /\ Len(u[3].found) = watches + 1
  <2>. HIDE DEF f, i
  <2>1. /\ [api |-> "fetch", found |-> f] \in Undo /\ [api |-> "setItem", found |-> i] \in Undo
        /\ [api |-> "setItem", found |-> <<Observer>> \o i] \in Undo
    BY <1>2, <1>3 DEF Wrapped
  <2>. HIDE DEF Undo
  <2>2. u \in Seq(Undo) /\ Len(u) = 3
    BY <2>1
  <2>. QED  BY <1>3, <2>2
<1>5. discovery' = [started |-> TRUE, undo |-> u]
  <2>1. discovery' = [started |-> TRUE, undo |-> << >> \o u]
    BY <1>1 DEF StartDiscovery, WatchedInOrder
  <2>2. << >> \o u = u
    <3>. HIDE DEF u, Undo
    <3>. QED  BY <1>4, ConcatEmptySeq
  <2>. QED  BY <2>1, <2>2
<1>6. /\ stack' \in [Wrapped -> Stack]
      /\ stack'["insertion"] = stack["insertion"]
      /\ stack'["fetch"] = <<Observer>> \o f
      /\ stack'["setItem"] = <<Observer, Observer>> \o i
  <2>1. stack' = [stack EXCEPT !["fetch"] = <<Observer>> \o f,
                               !["setItem"] = <<Observer, Observer>> \o i]
    BY DEF StartDiscovery
  <2>. HIDE DEF f, i
  <2>. QED  BY <1>3, <2>1 DEF ControlsInv, ControlsTyped, Wrapped
<1>7. /\ discovery'.started /\ discovery'.undo = u
      /\ discovery' \in [started : BOOLEAN, undo : Seq(Undo)]
  <2>. HIDE DEF u
  <2>. QED  BY <1>4, <1>5
<1>8. ControlsTyped'
  <2>. HIDE DEF u, f, i
  <2>1. /\ site' \in Site /\ granted' \subseteq Purpose
        /\ client' \in Seq(ClientRecord) /\ enforcement' \in 0..Len(client')
        /\ call' \in [Call -> [pc : {"idle", "config", "state", "done"}, site : Site \cup {NoValue}]]
        /\ \A c \in Call : call'[c].pc # "idle" => call'[c].site \in Site
        /\ inits' \in Nat /\ watches' \in Nat /\ crossed' \in BOOLEAN
    BY <1>1 DEF ControlsInv, ControlsTyped
  <2>. QED  BY <1>6, <1>7, <2>1 DEF ControlsTyped
<1>9. ClientsOK' /\ InsertionOK'
  BY <1>1, <1>6 DEF ControlsInv, ClientsOK, InsertionOK, Enforces
<1>10. DiscoveryOK'
  <2>. HIDE DEF u, f, i
  <2>. QED  BY <1>1, <1>3, <1>4, <1>6, <1>7 DEF DiscoveryOK
<1>11. FetchOK'
  <2>. SUFFICES ASSUME ~crossed' PROVE FetchOK'
    BY DEF FetchOK
  <2>1. /\ ~Enforces => f = << >>
        /\ Enforces => f = <<enforcement>> /\ Found = << >>
    BY <1>1 DEF ControlsInv, FetchOK
  <2>2. Observed' = f
    <3>. HIDE DEF u, f, i
    <3>. QED  BY <1>4, <1>7 DEF Observed
  <2>3. Enforces' = Enforces /\ Found' = Found /\ Observer' = Observer /\ enforcement' = enforcement
    BY <1>1 DEF Enforces, Found, Observer
  <2>4. /\ ~Enforces => stack'["fetch"] = <<Observer>>
        /\ Enforces => stack'["fetch"] = <<Observer, enforcement>>
    <3>1. <<Observer>> \o << >> = <<Observer>>
          /\ <<Observer>> \o <<enforcement>> = <<Observer, enforcement>>
      <4>1. enforcement \in Int
        BY DEF ControlsInv, ControlsTyped
      <4>. QED  BY <1>2, <4>1, OnTop
    <3>. QED  BY <1>6, <2>1, <3>1
  <2>. HIDE DEF f
  <2>. QED  BY <1>7, <2>1, <2>2, <2>3, <2>4 DEF FetchOK
<1>. QED  BY <1>8, <1>9, <1>10, <1>11 DEF ControlsInv

LEMMA ReinitialiseKeeps ==
    ASSUME ControlsInv, NEW to \in Site, Reinitialise(to)
    PROVE  ControlsInv'
<1>. DEFINE s == Unwatched(discovery.undo)
            cs == Unwrapped(enforcement)
<1>1. /\ s \in [Wrapped -> Stack] /\ s["insertion"] = stack["insertion"]
      /\ Len(s["setItem"]) = watches
      /\ s["fetch"] = IF discovery.started THEN Observed ELSE stack["fetch"]
  BY UnwatchedFunctions
<1>2. /\ cs \in Seq(ClientRecord) /\ Len(cs) = Len(client)
      /\ \A n \in 1..Len(client) : ~cs[n].running /\ cs[n].mode = "off" /\ cs[n].undo = << >>
  BY UnwrappedClients
<1>3. /\ inits' = inits + 1 /\ site' = to /\ granted' \in SUBSET Purpose
      /\ discovery' = NotWatching /\ client' = cs /\ enforcement' = 0
      /\ crossed' = (crossed \/ (enforcement \in Running /\ discovery.started))
      /\ UNCHANGED <<call, watches>>
      /\ stack' = [api \in Wrapped |->
                      IF enforcement # 0 /\ api \in DOMAIN client[enforcement].undo
                      THEN client[enforcement].undo[api] ELSE s[api]]
  BY DEF Reinitialise
<1>. HIDE DEF s, cs
<1>4. /\ stack' \in [Wrapped -> Stack]
      /\ stack'["insertion"] = << >>
      /\ Len(stack'["setItem"]) = watches
      /\ stack'["fetch"] = IF Enforces THEN Found ELSE s["fetch"]
  <2>1. CASE Enforces
    <3>1. client[enforcement].undo \in [Patches -> Stack]
          /\ client[enforcement].undo["insertion"] = << >> /\ enforcement # 0
      BY <2>1 DEF ControlsInv, ControlsTyped, ClientsOK, Enforces
    <3>2. DOMAIN client[enforcement].undo = {"fetch", "insertion"}
      BY <3>1 DEF Patches
    <3>3. /\ stack'["fetch"] = Found /\ stack'["insertion"] = << >>
          /\ stack'["setItem"] = s["setItem"]
      BY <1>3, <3>1, <3>2 DEF Wrapped, Found
    <3>4. Found \in Stack /\ << >> \in Stack /\ s["setItem"] \in Stack
      BY <1>1, <3>1 DEF Found, Patches, Stack, Wrapped
    <3>5. stack' = [api \in Wrapped |-> stack'[api]]
      BY <1>3
    <3>. QED  BY <1>1, <2>1, <3>3, <3>4, <3>5 DEF Wrapped
  <2>2. CASE ~Enforces
    <3>1. enforcement # 0 => DOMAIN client[enforcement].undo = {}
      BY <2>2 DEF ControlsInv, ControlsTyped, ClientsOK, Enforces
    <3>2. stack' = [api \in Wrapped |-> s[api]]
      BY <1>3, <3>1
    <3>3. stack' = s
      BY <1>1, <3>2
    <3>. QED  BY <1>1, <2>2, <3>3 DEF ControlsInv, InsertionOK
  <2>. QED  BY <2>1, <2>2
<1>5. /\ NotWatching \in [started : BOOLEAN, undo : Seq([api : Wrapped, found : Stack])]
      /\ ~NotWatching.started /\ NotWatching.undo = << >>
  BY DEF NotWatching
<1>6. ~Enforces'
  BY <1>3 DEF Enforces
<1>7. ControlsTyped'
  <2>1. enforcement' \in 0..Len(client') /\ inits' \in Nat
    BY <1>2, <1>3 DEF ControlsInv, ControlsTyped
  <2>. QED  BY <1>2, <1>3, <1>4, <1>5, <2>1 DEF ControlsInv, ControlsTyped
<1>8. ClientsOK'
  BY <1>2, <1>3 DEF ClientsOK
<1>9. InsertionOK' /\ DiscoveryOK'
  BY <1>3, <1>4, <1>5, <1>6 DEF InsertionOK, DiscoveryOK
<1>10. FetchOK'
  <2>1. ~crossed' => stack'["fetch"] = << >>
    BY <1>1, <1>3, <1>4, RunningIsEnforcing DEF ControlsInv, FetchOK
  <2>. QED  BY <1>3, <1>5, <1>6, <2>1 DEF FetchOK
<1>. QED  BY <1>7, <1>8, <1>9, <1>10 DEF ControlsInv

(***************************************************************************)
(* What the invariant says of what a page can do.                          *)
(***************************************************************************)
LEMMA ControlsInitially ==
    ASSUME Init
    PROVE  ControlsInv
<1>1. << >> \in Stack /\ << >> \in Seq(ClientRecord) /\ Len(<< >>) = 0
      /\ << >> \in Seq([api : Wrapped, found : Stack])
  BY DEF Stack
<1>2. ControlsTyped
  <2>1. stack \in [Wrapped -> Stack] /\ client \in Seq(ClientRecord) /\ enforcement \in 0..Len(client)
    BY <1>1 DEF Init
  <2>2. discovery \in [started : BOOLEAN, undo : Seq([api : Wrapped, found : Stack])]
    BY <1>1 DEF Init, NotWatching
  <2>3. /\ call \in [Call -> [pc : {"idle", "config", "state", "done"}, site : Site \cup {NoValue}]]
        /\ \A c \in Call : call[c].pc # "idle" => call[c].site \in Site
    BY DEF Init
  <2>. QED  BY <2>1, <2>2, <2>3 DEF Init, ControlsTyped
<1>3. ~Enforces /\ ~discovery.started /\ discovery.undo = << >>
  BY DEF Init, Enforces, NotWatching
<1>4. ClientsOK
  BY <1>1 DEF Init, ClientsOK
<1>5. /\ stack["insertion"] = << >> /\ stack["fetch"] = << >> /\ Len(stack["setItem"]) = 0
      /\ watches = 0
  BY <1>1 DEF Init, Wrapped
<1>. QED  BY <1>2, <1>3, <1>4, <1>5 DEF ControlsInv, InsertionOK, DiscoveryOK, FetchOK

\* Discovery's wrappers and clients that do not run refuse nothing.
LEMMA OnlyTheRunningRefuse ==
    ASSUME ControlsInv, NEW n, NEW host, Refuses(n, host)
    PROVE  n = enforcement /\ Enforces
BY DEF ControlsInv, ControlsTyped, ClientsOK, Refuses, Enforces

LEMMA ControlsEnforce ==
    ASSUME ControlsInv
    PROVE  EnforcesItsPolicy
<1>1. TypeOK
  <2>1. \A n \in DOMAIN client : client[n].site \in Site /\ client[n].mode \in Mode
    <3>. SUFFICES ASSUME NEW n \in 1..Len(client)
                  PROVE  client[n].site \in Site /\ client[n].mode \in Mode
      BY RunningIsEnforcing
    <3>1. client[n] \in ClientRecord
      BY DEF ControlsInv, ControlsTyped
    <3>. QED  BY <3>1 DEF ClientRecord
  <2>2. Len(discovery.undo) = IF discovery.started THEN 3 ELSE 0
    <3>1. Len(<< >>) = 0
      OBVIOUS
    <3>. QED  BY <3>1 DEF ControlsInv, DiscoveryOK
  <2>. QED  BY <2>1, <2>2 DEF ControlsInv, ControlsTyped, TypeOK
<1>2. OneClientRunning
  BY RunningIsEnforcing DEF OneClientRunning
<1>3. RunsItsPolicy
  <2>. SUFFICES ASSUME NEW n \in Running, NEW api \in Patches, NEW host \in Host,
                       ~(crossed /\ api = "fetch")
                PROVE  Blocks(api, host) <=> Refuses(n, host)
    BY DEF RunsItsPolicy
  <2>1. n = enforcement /\ Enforces /\ n # 0
    BY RunningIsEnforcing DEF Enforces
  <2>2. ~Refuses(Observer, host)
    <3>1. enforcement \in Nat /\ Observer <= 0 /\ Observer \in Int
      BY DEF ControlsInv, ControlsTyped, Observer
    <3>. QED  BY <2>1, <3>1, OnlyTheRunningRefuse
  <2>3. \/ stack[api] = <<n>>
        \/ stack[api] = <<n, Observer>>
        \/ stack[api] = <<Observer, n>>
    BY <2>1 DEF ControlsInv, InsertionOK, FetchOK, Patches
  <2>. HIDE DEF Observer
  <2>4. CASE stack[api] = <<n>>
    BY <2>4 DEF Blocks
  <2>5. CASE stack[api] = <<n, Observer>>
    <3>1. DOMAIN stack[api] = {1, 2} /\ stack[api][1] = n /\ stack[api][2] = Observer
      BY <2>5
    <3>. QED  BY <2>2, <3>1 DEF Blocks
  <2>6. CASE stack[api] = <<Observer, n>>
    <3>1. DOMAIN stack[api] = {1, 2} /\ stack[api][1] = Observer /\ stack[api][2] = n
      BY <2>6
    <3>. QED  BY <2>2, <3>1 DEF Blocks
  <2>. QED  BY <2>3, <2>4, <2>5, <2>6
<1>4. StoppedBlocksNothing
  <2>1. Running = {} => ~Enforces
    BY RunningIsEnforcing
  <2>. QED  BY <2>1, OnlyTheRunningRefuse DEF StoppedBlocksNothing, Blocks
<1>. QED  BY <1>1, <1>2, <1>3, <1>4 DEF EnforcesItsPolicy

\* Before discovery is first started no stop takes off another's wrapper.
NeverCrossed == watches = 0 => ~crossed /\ ~discovery.started

LEMMA EnforcementStopsInOrder ==
    ASSUME ControlsInv, ~crossed, ~discovery.started
    PROVE  InOrder(enforcement)
<1>. SUFFICES ASSUME enforcement \in Running
              PROVE  IsPrefix(<<enforcement>>, stack["fetch"])
  BY DEF InOrder
<1>1. stack["fetch"] = <<enforcement>>
  BY RunningIsEnforcing DEF ControlsInv, FetchOK
<1>. QED  BY <1>1 DEF IsPrefix

LEMMA NeverCrossedKept ==
    ASSUME ControlsInv, NeverCrossed, [ReportsNext]_vars
    PROVE  NeverCrossed'
<1>1. CASE UNCHANGED <<discovery, watches, crossed>>
  BY <1>1 DEF NeverCrossed
<1>2. ASSUME StopEnforcement \/ \E c \in Call : FinishStart(c)
      PROVE  NeverCrossed'
  <2>1. /\ crossed' = (crossed \/ ~InOrder(enforcement))
        /\ UNCHANGED <<discovery, watches>>
    BY <1>2 DEF StopEnforcement, FinishStart
  <2>. QED  BY <2>1, EnforcementStopsInOrder DEF NeverCrossed
<1>3. CASE StopDiscovery
  BY <1>3 DEF StopDiscovery, NotWatching, StopsInOrder, NeverCrossed
<1>4. CASE StartDiscovery
  BY <1>4 DEF StartDiscovery, ControlsInv, ControlsTyped, NeverCrossed
<1>5. ASSUME NEW to \in Site, Reinitialise(to)
      PROVE  NeverCrossed'
  BY <1>5 DEF Reinitialise, NotWatching, NeverCrossed
<1>6. CASE Decide \/ \E c \in Call : BeginStart(c) \/ LoadConfig(c)
  BY <1>1, <1>6 DEF Decide, BeginStart, LoadConfig
<1>7. CASE ControlStep
  BY <1>2, <1>3, <1>6, <1>7 DEF ControlStep
<1>8. CASE UNCHANGED pageVars
  BY <1>1, <1>8 DEF pageVars
<1>9. CASE \/ \E host \in Tag : TagCalls(CalledBy[host], host) \/ ResourceListed(host)
           \/ WatchConsent \/ FlushDiscovery
           \/ \E q \in sending : Receive(q) \/ Drop(q)
  BY <1>8, <1>9 DEF TagCalls, ResourceListed, WatchConsent, FlushDiscovery, Receive, Drop
<1>. QED  BY <1>4, <1>5, <1>7, <1>8, <1>9 DEF ReportsNext, StartsDiscovery, Reinitialises, vars

LEMMA ControlsRestore ==
    ASSUME ControlsInv, NeverCrossed
    PROVE  EnforcementRestores
<1>. SUFFICES ASSUME Running = {}
              PROVE  /\ stack["insertion"] = << >>
                     /\ watches = 0 => \A api \in Wrapped : stack[api] = << >>
  BY DEF EnforcementRestores
<1>1. ~Enforces
  BY RunningIsEnforcing
<1>2. stack["insertion"] = << >>
  BY <1>1 DEF ControlsInv, InsertionOK
<1>3. ASSUME watches = 0
      PROVE  stack["fetch"] = << >> /\ stack["setItem"] = << >>
  <2>1. ~crossed /\ ~discovery.started
    BY <1>3 DEF NeverCrossed
  <2>2. stack["setItem"] \in Seq(Int) /\ Len(stack["setItem"]) = 0
    BY <1>3, <2>1 DEF ControlsInv, ControlsTyped, DiscoveryOK, Wrapped, Stack
  <2>. QED  BY <1>1, <2>1, <2>2 DEF ControlsInv, FetchOK
<1>. QED  BY <1>2, <1>3 DEF Wrapped

(***************************************************************************)
(* What is reported.  All the page holds was observed with the credentials *)
(* it has, so what it sends was observed with those it is sent with.       *)
(***************************************************************************)
Held == Rows("component", seen, site) \cup Rows("violation", violations, site)

Filed(r) == {[row EXCEPT !.site = r.to] : row \in r.rows}

EvidenceInv ==
    /\ ReportsTypeOK
    /\ Held \subseteq happened
    /\ filed \subseteq happened
    /\ \A r \in sending : Filed(r) \subseteq happened

PageInv == ControlsInv /\ EvidenceInv

LEMMA RowsTyped ==
    ASSUME NEW kind \in {"component", "violation"}, NEW hosts \in SUBSET Tag, NEW s \in Site
    PROVE  Rows(kind, hosts, s) \subseteq Row
BY DEF Rows, Row

\* Whatever leaves discovery, the credentials and what is on its way alone.
LEMMA NothingNew ==
    ASSUME EvidenceInv, loaded' \subseteq Tag,
           UNCHANGED <<site, seen, violations, sending, filed, happened>>
    PROVE  EvidenceInv'
BY DEF EvidenceInv, ReportsTypeOK, Held, Rows, Filed

\* New destinations were observed now, and so was what they breach.
LEMMA RecordedKeeps ==
    ASSUME EvidenceInv, site \in Site, NEW hosts \in SUBSET Tag, Recorded(hosts),
           loaded' \subseteq Tag, UNCHANGED <<site, sending, filed>>
    PROVE  EvidenceInv'
<1>1. PICK new \in SUBSET (hosts \ seen) :
         /\ Room(new)
         /\ seen' = seen \cup new
         /\ violations' = violations \cup Breaches(new)
         /\ happened' = happened \cup Rows("component", new, site)
                                 \cup Rows("violation", {h \in new : Ungranted(h)}, site)
  BY DEF Recorded
<1>2. Breaches(new) \subseteq {h \in new : Ungranted(h)}
  BY DEF Breaches
<1>. DEFINE breached == {h \in new : Ungranted(h)}
<1>3. breached \subseteq new /\ new \subseteq Tag
  OBVIOUS
<1>. HIDE DEF breached
<1>4. happened' \subseteq Row
  BY <1>1, <1>3, RowsTyped DEF EvidenceInv, ReportsTypeOK, breached
<1>5. ReportsTypeOK'
  BY <1>1, <1>2, <1>3, <1>4 DEF EvidenceInv, ReportsTypeOK, Room, breached
<1>6. Held' \subseteq happened'
  <2>1. Held' = Rows("component", seen \cup new, site)
                \cup Rows("violation", violations \cup Breaches(new), site)
    BY <1>1 DEF Held, Rows
  <2>2. Rows("component", seen \cup new, site)
           = Rows("component", seen, site) \cup Rows("component", new, site)
    BY DEF Rows
  <2>3. Rows("violation", violations \cup Breaches(new), site)
           \subseteq Rows("violation", violations, site) \cup Rows("violation", breached, site)
    BY <1>2 DEF Rows, breached
  <2>4. happened' = happened \cup Rows("component", new, site) \cup Rows("violation", breached, site)
    BY <1>1 DEF breached
  <2>. QED  BY <2>1, <2>2, <2>3, <2>4 DEF EvidenceInv, Held
<1>7. happened \subseteq happened'
  BY <1>1
<1>8. filed' \subseteq happened'
  BY <1>7 DEF EvidenceInv
<1>9. \A r \in sending' : Filed(r) \subseteq happened'
  BY <1>7 DEF EvidenceInv
<1>. QED  BY <1>5, <1>6, <1>8, <1>9 DEF EvidenceInv, Filed

LEMMA FlushKeeps ==
    ASSUME EvidenceInv, site \in Site, FlushDiscovery
    PROVE  EvidenceInv'
<1>1. UNCHANGED <<site, loaded, seen, violations, filed, happened>>
      /\ (UNCHANGED sending \/ Send(site, Held))
  BY DEF FlushDiscovery, pageVars, Held
<1>. DEFINE r == [to |-> site, rows |-> Held]
<1>2. Held \subseteq Row
  BY RowsTyped DEF EvidenceInv, ReportsTypeOK, Held
<1>3. r \in Report /\ r.to = site /\ r.rows = Held
  BY <1>2 DEF Report
<1>4. \A row \in Held : [row EXCEPT !.site = site] = row
  BY DEF Held, Rows
<1>5. Filed(r) \subseteq happened
  BY <1>3, <1>4 DEF Filed, EvidenceInv
<1>6. sending' \subseteq sending \cup {r}
  BY <1>1 DEF Send
<1>. HIDE DEF r
<1>7. ReportsTypeOK'
  BY <1>1, <1>3, <1>6 DEF EvidenceInv, ReportsTypeOK
<1>8. Held' = Held
  BY <1>1 DEF Held, Rows
<1>9. \A q \in sending' : Filed(q) \subseteq happened
  BY <1>5, <1>6 DEF EvidenceInv
<1>. QED  BY <1>1, <1>7, <1>8, <1>9 DEF EvidenceInv, Filed

LEMMA ArrivalKeeps ==
    ASSUME EvidenceInv, NEW r \in sending, Receive(r) \/ Drop(r)
    PROVE  EvidenceInv'
<1>1. UNCHANGED <<site, loaded, seen, violations, happened>> /\ sending' = sending \ {r}
      /\ filed' \subseteq filed \cup Filed(r)
  BY DEF Receive, Drop, pageVars, Filed
<1>2. Filed(r) \subseteq happened
  BY DEF EvidenceInv
<1>3. filed' \subseteq happened
  BY <1>1, <1>2 DEF EvidenceInv
<1>4. ReportsTypeOK'
  BY <1>1, <1>3 DEF EvidenceInv, ReportsTypeOK
<1>5. Held' = Held
  BY <1>1 DEF Held, Rows
<1>6. \A q \in sending' : Filed(q) \subseteq happened
  BY <1>1 DEF EvidenceInv
<1>. QED  BY <1>1, <1>3, <1>4, <1>5, <1>6 DEF EvidenceInv, Filed

LEMMA ForgottenKeeps ==
    ASSUME EvidenceInv, Forgotten, UNCHANGED <<loaded, sending, filed, happened>>
    PROVE  EvidenceInv'
<1>1. Held' = {}
  BY DEF Forgotten, Held, Rows
<1>2. Cardinality({}) = 0 /\ MaxSeen \in Nat
  BY FS_EmptySet, ReportsAssumption
<1>3. ReportsTypeOK'
  BY <1>2 DEF EvidenceInv, ReportsTypeOK, Forgotten
<1>. QED  BY <1>1, <1>3 DEF EvidenceInv, Filed

LEMMA PageInitially ==
    ASSUME ReportsInit
    PROVE  PageInv
<1>1. ControlsInv
  BY ControlsInitially DEF ReportsInit
<1>2. Cardinality({}) = 0 /\ MaxSeen \in Nat
  BY FS_EmptySet, ReportsAssumption
<1>3. ReportsTypeOK
  BY <1>2 DEF ReportsInit, ReportsTypeOK
<1>4. Held = {}
  BY DEF ReportsInit, Held, Rows
<1>. QED  BY <1>1, <1>3, <1>4 DEF ReportsInit, PageInv, EvidenceInv

LEMMA PageStep ==
    ASSUME PageInv, [ReportsNext]_vars
    PROVE  PageInv'
<1>0. ControlsInv /\ EvidenceInv /\ site \in Site /\ loaded \subseteq Tag
  BY DEF PageInv, ControlsInv, ControlsTyped, EvidenceInv, ReportsTypeOK
<1>1. CASE ControlStep /\ UNCHANGED reportVars
  <2>1. ControlsInv'
    BY <1>0, <1>1, StopEnforcementKeeps, StopDiscoveryKeeps, DecideKeeps, CallsKeep,
       FinishStartKeeps DEF ControlStep
  <2>2. site' = site
    BY <1>1 DEF ControlStep, StopEnforcement, StopDiscovery, Decide, BeginStart, LoadConfig,
                FinishStart
  <2>3. EvidenceInv'
    BY <1>0, <1>1, <2>2, NothingNew DEF reportVars
  <2>. QED  BY <2>1, <2>3 DEF PageInv
<1>2. CASE StartsDiscovery
  <2>1. ControlsInv'
    BY <1>0, <1>2, StartDiscoveryKeeps DEF StartsDiscovery
  <2>2. Recorded(loaded) /\ UNCHANGED <<site, loaded, sending, filed>>
    BY <1>2 DEF StartsDiscovery, StartDiscovery
  <2>3. EvidenceInv'
    BY <1>0, <2>2, RecordedKeeps
  <2>. QED  BY <2>1, <2>3 DEF PageInv
<1>3. ASSUME NEW to \in Site, Reinitialises(to)
      PROVE  PageInv'
  BY <1>0, <1>3, ReinitialiseKeeps, ForgottenKeeps DEF Reinitialises, PageInv
<1>4. ASSUME UNCHANGED pageVars
      PROVE  ControlsInv'
  <2>1. ControlsTyped'
    BY <1>0, <1>4 DEF pageVars, ControlsInv, ControlsTyped
  <2>2. ClientsOK' /\ InsertionOK' /\ DiscoveryOK'
    BY <1>0, <1>4 DEF pageVars, ControlsInv, ClientsOK, InsertionOK, DiscoveryOK, Enforces
  <2>3. FetchOK'
    BY <1>0, <1>4 DEF pageVars, ControlsInv, FetchOK, Enforces, Found, Observed, Observer
  <2>. QED  BY <2>1, <2>2, <2>3 DEF ControlsInv
<1>5. ASSUME NEW host \in Tag, TagCalls(CalledBy[host], host) \/ ResourceListed(host)
      PROVE  PageInv'
  <2>1. UNCHANGED <<pageVars, sending, filed>> /\ loaded' \subseteq Tag
        /\ (Recorded({host}) \/ NothingRecorded)
    BY <1>0, <1>5 DEF TagCalls, ResourceListed
  <2>2. site' = site /\ ControlsInv'
    BY <1>4, <2>1 DEF pageVars
  <2>3. EvidenceInv'
    BY <1>0, <2>1, <2>2, RecordedKeeps, NothingNew DEF NothingRecorded
  <2>. QED  BY <2>2, <2>3 DEF PageInv
<1>6. CASE WatchConsent
  <2>1. UNCHANGED <<pageVars, site, loaded, seen, violations, sending, filed, happened>>
    BY <1>6 DEF WatchConsent, pageVars
  <2>. QED  BY <1>0, <1>4, <2>1, NothingNew DEF PageInv
<1>7. CASE FlushDiscovery
  <2>1. UNCHANGED pageVars
    BY <1>7 DEF FlushDiscovery
  <2>. QED  BY <1>0, <1>4, <1>7, <2>1, FlushKeeps DEF PageInv
<1>8. ASSUME NEW r \in sending, Receive(r) \/ Drop(r)
      PROVE  PageInv'
  <2>1. UNCHANGED pageVars
    BY <1>8 DEF Receive, Drop
  <2>. QED  BY <1>0, <1>4, <1>8, <2>1, ArrivalKeeps DEF PageInv
<1>9. CASE UNCHANGED vars
  <2>1. UNCHANGED <<pageVars, site, loaded, seen, violations, sending, filed, happened>>
    BY <1>9 DEF vars, reportVars, pageVars
  <2>. QED  BY <1>0, <1>4, <2>1, NothingNew DEF PageInv
<1>. QED  BY <1>1, <1>2, <1>3, <1>5, <1>6, <1>7, <1>8, <1>9 DEF ReportsNext

LEMMA PageInvHolds ==
    ReportsSpec => []PageInv
BY PageInitially, PageStep, PTL DEF ReportsSpec

(***************************************************************************)
(* However many start() calls wait, and whatever is stopped, started and   *)
(* re-initialised meanwhile, one client at most enforces, what the page    *)
(* can do is what its policy says, and nothing is blocked when none runs   *)
(* (enforcement.start and stop, sdk/src/index.ts:408-460).                 *)
(***************************************************************************)
THEOREM PageEnforcesItsPolicy == ReportsSpec => []EnforcesItsPolicy
BY PageInvHolds, ControlsEnforce, PTL DEF PageInv

(***************************************************************************)
(* Once enforcement is stopped the page has back the functions enforcement *)
(* alone wraps, and all of them where discovery was never started, for     *)
(* every number of overlapping start() calls and re-initialisations        *)
(* (EnforcementClient.stop, sdk/src/enforce.ts:129).                       *)
(***************************************************************************)
THEOREM EnforcementIsUndone == ReportsSpec => []EnforcementRestores
<1>1. ReportsInit => NeverCrossed
  BY DEF ReportsInit, Init, NotWatching, NeverCrossed
<1>2. PageInv /\ NeverCrossed /\ [ReportsNext]_vars => NeverCrossed'
  BY NeverCrossedKept DEF PageInv
<1>3. PageInv /\ NeverCrossed => EnforcementRestores
  BY ControlsRestore DEF PageInv
<1>. QED  BY <1>1, <1>2, <1>3, PageInvHolds, PTL DEF ReportsSpec

(***************************************************************************)
(* What a site's inventory is told was observed with that site's           *)
(* credentials, and what it is told was called without consent was         *)
(* (sdk/src/discovery.ts:239-280), for every number of hosts and reports.  *)
(***************************************************************************)
THEOREM EvidenceIsSound == ReportsSpec => []EvidenceSound
<1>1. PageInv => EvidenceSound
  BY DEF PageInv, EvidenceInv, EvidenceSound, Filed
<1>. QED  BY <1>1, PageInvHolds, PTL
=============================================================================
