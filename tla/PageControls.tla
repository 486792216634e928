---------------------------- MODULE PageControls ----------------------------
(***************************************************************************)
(* Enforcement and discovery on one page (sdk/src/index.ts, enforce.ts,    *)
(* discovery.ts).  Both replace browser functions with wrappers around     *)
(* whatever they find there and undo it by writing back what they found,   *)
(* so a browser function is the stack of wrappers a call goes through.     *)
(* "fetch" stands for the functions both wrap (fetch, XMLHttpRequest.open, *)
(* sendBeacon, Image.src, document.cookie), "insertion" for those only     *)
(* enforcement wraps and "setItem" for Storage.prototype.setItem, which    *)
(* discovery wraps once per kind of storage.                               *)
(*                                                                         *)
(* enforcement.start() awaits the configuration and then the consent       *)
(* state; the page may do anything in between.  PageReports adds what      *)
(* discovery makes of the calls it sees, and has the next-state relation.  *)
(***************************************************************************)
EXTENDS Firewall

CONSTANTS
    Site,       \* the credentials analytics.init may be given
    Approved,   \* the enforcement configuration of each site
    Purpose,    \* the purposes of the page's consent state
    Host,       \* the hosts tags call
    Call,       \* calls of enforcement.start()
    MaxInits,   \* bound on re-initialisations
    MaxWatches  \* bound on starts of discovery

Wrapped == {"fetch", "insertion", "setItem"}
Mode == {"off", "observe", "enforce"}

ASSUME PageAssumption ==
    /\ Approved \in [Site -> [mode: Mode, unknownHost: {"allow", "block"},
                              rules: Seq([host: Seq(STRING), action: Action,
                                          purpose: Purpose \cup {NoValue}])]]
    /\ MaxInits \in Nat /\ MaxWatches \in Nat

VARIABLES
    site,        \* state.siteId and publicKey
    granted,     \* the purposes the cached consent state grants
    stack,       \* of each function, the wrappers from the outermost in
    client,      \* every EnforcementClient made, in order
    enforcement, \* state.enforcement: an index of client, 0 for null
    discovery,   \* state.discovery
    call,        \* calls of start() and where they are
    inits,
    watches,
    crossed      \* history: a stop took off more than its own wrapper

pageVars == <<site, granted, stack, client, enforcement, discovery, call,
              inits, watches, crossed>>

(* A wrapper is the number of its enforcement client, or that of its       *)
(* discovery client: getClient makes one of those per initialisation.      *)
Stack == Seq(Int)
Observer == -inits
Running == {n \in DOMAIN client : client[n].running}

-----------------------------------------------------------------------------
(* Mutant: stop() goes on deciding with the configuration it had. *)
StoppedDeciding(c) == [c EXCEPT !.running = FALSE, !.undo = << >>]

Stopped(c) == [c EXCEPT !.running = FALSE, !.mode = "off", !.undo = << >>]

(* Mutant: the insertion functions have no undo. *)
RestoredButInsertion(n) ==
    [api \in Wrapped |-> IF n # 0 /\ api \in DOMAIN client[n].undo \ {"insertion"}
                         THEN client[n].undo[api] ELSE stack[api]]

(* EnforcementClient.stop: every function is given back what the client    *)
(* found there.                                                            *)
Restored(n) ==
    [api \in Wrapped |-> IF n # 0 /\ api \in DOMAIN client[n].undo
                         THEN client[n].undo[api] ELSE stack[api]]

Unwrapped(n) ==
    IF n = 0 THEN client ELSE [client EXCEPT ![n] = Stopped(@)]

(* Its wrapper is still the outermost one, or it has none. *)
InOrder(n) == n \in Running => IsPrefix(<<n>>, stack["fetch"])

(* enforcement.stop() *)
StopEnforcement ==
    /\ stack' = Restored(enforcement)
    /\ client' = Unwrapped(enforcement)
    /\ crossed' = (crossed \/ ~InOrder(enforcement))
    /\ UNCHANGED <<site, granted, enforcement, discovery, call, inits, watches>>

(* enforcement.start(), up to its first await. *)
BeginStart(c) ==
    /\ call[c].pc = "idle"
    /\ call' = [call EXCEPT ![c] = [pc |-> "config", site |-> site]]
    /\ UNCHANGED <<site, granted, stack, client, enforcement, discovery, inits,
                   watches, crossed>>

(* loadConfig: a failed or empty answer ends the call. *)
LoadConfig(c) ==
    /\ call[c].pc = "config"
    /\ \E next \in {"state", "done"} : call' = [call EXCEPT ![c].pc = next]
    /\ UNCHANGED <<site, granted, stack, client, enforcement, discovery, inits,
                   watches, crossed>>

WorthStarting(config) == config.mode # "off" /\ config.rules # << >>

Patches == {"fetch", "insertion"}

(* EnforcementClient.start on the functions as s has them. *)
Started(of, mode, s) ==
    IF WorthStarting(Approved[of])
    THEN [running |-> TRUE, site |-> of, mode |-> mode, undo |-> [api \in Patches |-> s[api]]]
    ELSE [running |-> FALSE, site |-> of, mode |-> "off", undo |-> << >>]

(* Mutant: the new client patches before the old one is stopped. *)
PatchedTooSoon(new, n, s) ==
    [api \in Wrapped |-> IF new.running /\ api \in Patches /\ enforcement \notin Running
                         THEN <<n>> \o s[api] ELSE s[api]]

Patched(new, n, s) ==
    [api \in Wrapped |-> IF new.running /\ api \in Patches THEN <<n>> \o s[api] ELSE s[api]]

(* Mutant: the old client is left running under the new one. *)
ReplacedUnstopped(n) == [stack |-> stack, client |-> client]

(* What the client in state.enforcement leaves when it is stopped. *)
Replaced(n) == [stack |-> Restored(n), client |-> Unwrapped(n)]

(* start() goes on, whatever happened while it waited: the old client is   *)
(* stopped and a new one enforces the configuration that was loaded.       *)
FinishStart(c) ==
    /\ call[c].pc = "state"
    /\ \E mode \in {Approved[call[c].site].mode, "observe", "enforce"} :
         LET old == Replaced(enforcement)
             new == Started(call[c].site, mode, old.stack)
         IN /\ client' = Append(old.client, new)
            /\ stack' = Patched(new, Len(client) + 1, old.stack)
    /\ enforcement' = Len(client) + 1
    /\ crossed' = (crossed \/ ~InOrder(enforcement))
    /\ call' = [call EXCEPT ![c].pc = "done"]
    /\ UNCHANGED <<site, granted, discovery, inits, watches>>

-----------------------------------------------------------------------------
(* DiscoveryClient: its undos run in the order of its patches, so what the *)
(* last of a function found is left, and that of the second wrapper of     *)
(* setItem puts the first one back.                                        *)
NotWatching == [started |-> FALSE, undo |-> << >>]

(* Mutant: starting twice is not refused. *)
MayWatchTwice == TRUE
MayWatch == ~discovery.started

WatchedInOrder(s) == <<[api |-> "fetch", found |-> s["fetch"]],
                       [api |-> "setItem", found |-> s["setItem"]],
                       [api |-> "setItem", found |-> <<Observer>> \o s["setItem"]]>>

StartDiscovery ==
    /\ MayWatch
    /\ watches < MaxWatches
    /\ watches' = watches + 1
    /\ discovery' = [started |-> TRUE, undo |-> discovery.undo \o WatchedInOrder(stack)]
    /\ stack' = [stack EXCEPT !["fetch"] = <<Observer>> \o @,
                              !["setItem"] = <<Observer, Observer>> \o @]
    /\ UNCHANGED <<site, granted, client, enforcement, call, inits, crossed>>

Unwatched(undo) ==
    [api \in Wrapped |->
       LET of == {i \in DOMAIN undo : undo[i].api = api}
       IN IF of = {} THEN stack[api] ELSE undo[Max(of)].found]

StopsInOrder == discovery.started => IsPrefix(<<Observer>>, stack["fetch"])

StopDiscovery ==
    /\ stack' = Unwatched(discovery.undo)
    /\ discovery' = NotWatching
    /\ crossed' = (crossed \/ ~StopsInOrder)
    /\ UNCHANGED <<site, granted, client, enforcement, call, inits, watches>>

(* getClient with other credentials: discovery is stopped, then the        *)
(* enforcement client, which gives back what it found under discovery.     *)
Reinitialise(to) ==
    /\ inits < MaxInits
    /\ inits' = inits + 1
    /\ to # site
    /\ site' = to
    /\ granted' \in SUBSET Purpose
    /\ LET unwatched == Unwatched(discovery.undo)
       IN stack' = [api \in Wrapped |->
                      IF enforcement # 0 /\ api \in DOMAIN client[enforcement].undo
                      THEN client[enforcement].undo[api] ELSE unwatched[api]]
    /\ discovery' = NotWatching
    /\ client' = Unwrapped(enforcement)
    /\ enforcement' = 0
    /\ crossed' = \/ crossed
                  \/ enforcement \in Running /\ discovery.started
    /\ UNCHANGED <<call, watches>>

(* The visitor decides; ConsentClient models how the cache comes by it. *)
Decide ==
    /\ granted' \in SUBSET Purpose
    /\ UNCHANGED <<site, stack, client, enforcement, discovery, call, inits,
                   watches, crossed>>

Init ==
    /\ site \in Site
    /\ granted = {}
    /\ stack = [api \in Wrapped |-> << >>]
    /\ client = << >>
    /\ enforcement = 0
    /\ discovery = NotWatching
    /\ call = [c \in Call |-> [pc |-> "idle", site |-> NoValue]]
    /\ inits = 0 /\ watches = 0
    /\ crossed = FALSE

-----------------------------------------------------------------------------
(* A wrapper asks its client: with no configuration it blocks nothing. *)
Refuses(n, host) ==
    /\ n \in DOMAIN client
    /\ client[n].mode = "enforce"
    /\ LET config == Approved[client[n].site]
       IN Judge(host, config.rules, config.unknownHost, granted, granted).decision = "block"

(* A call of the function for host goes no further than a refusing wrapper. *)
Blocks(api, host) == \E i \in DOMAIN stack[api] : Refuses(stack[api][i], host)

(***************************************************************************)
(* Types.  Discovery remembers one undo for each wrapper it has put on     *)
(* since it was started (start is idempotent, sdk/src/discovery.ts:163).   *)
(***************************************************************************)
TypeOK ==
    /\ site \in Site
    /\ granted \subseteq Purpose
    /\ stack \in [Wrapped -> Stack]
    /\ \A n \in DOMAIN client : client[n].site \in Site /\ client[n].mode \in Mode
    /\ enforcement \in 0..Len(client)
    /\ Len(discovery.undo) = IF discovery.started THEN 3 ELSE 0
    /\ \A c \in Call : call[c].pc \in {"idle", "config", "state", "done"}

(* However many start() calls are waiting, and whatever the page does      *)
(* meanwhile, at most one client enforces and it is the one stop() would   *)
(* reach (enforcement.start and stop, sdk/src/index.ts:408-460).           *)
OneClientRunning == \A n \in Running : n = enforcement

(* While a client runs, what the page can do is what its policy says, on   *)
(* every function it wraps: nothing its rules block gets through and       *)
(* nothing else is blocked.  The exception is a page on which enforcement  *)
(* and discovery were stopped in another order than the reverse of the one *)
(* they were started in (sdk/src/enforce.ts:210, sdk/src/index.ts:431).    *)
RunsItsPolicy ==
    \A n \in Running, api \in Patches, host \in Host :
        (crossed /\ api = "fetch") \/ (Blocks(api, host) <=> Refuses(n, host))

(* With nothing running no call is ever blocked: not by a wrapper that a   *)
(* later restore brought back, nor by one a replaced client left behind    *)
(* (EnforcementClient.stop, sdk/src/enforce.ts:129).                       *)
StoppedBlocksNothing ==
    Running = {} => \A api \in Wrapped, host \in Host : ~Blocks(api, host)

(* What a page blocks is what the policy of the one running client says,   *)
(* and nothing when none runs.                                             *)
EnforcesItsPolicy ==
    TypeOK /\ OneClientRunning /\ RunsItsPolicy /\ StoppedBlocksNothing

(* Once enforcement is stopped the functions it alone wraps are the        *)
(* browser's own again, whatever discovery did and in whatever order; on a *)
(* page on which discovery was never started every function is, however    *)
(* many start() calls overlapped and however often the page was            *)
(* re-initialised between them (EnforcementClient.stop,                    *)
(* sdk/src/enforce.ts:129).                                                *)
EnforcementRestores ==
    Running = {} =>
        /\ stack["insertion"] = << >>
        /\ watches = 0 => \A api \in Wrapped : stack[api] = << >>

(* "Stops observing and restores every wrapped API" (discovery.stop,       *)
(* sdk/src/discovery.ts:183, docs/discovery.md:80): once both are stopped  *)
(* no function of the page has a wrapper left.  It does not hold: the      *)
(* undos run first to last, and setItem was wrapped twice.                 *)
StopRestores ==
    Running = {} /\ ~discovery.started =>
        \A api \in Wrapped : stack[api] = << >>
=============================================================================
