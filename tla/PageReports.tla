---------------------------- MODULE PageReports ----------------------------
(***************************************************************************)
(* What discovery tells Rift of the calls a page's tags make: destinations *)
(* and calls made without consent, sent again and again                    *)
(* (sdk/src/discovery.ts).  It hears of a call through the wrappers of     *)
(* PageControls, so that what it hears depends on their order, and through *)
(* the browser's list of resources, and reports are in flight while the    *)
(* page is re-initialised for another site.                                *)
(*                                                                         *)
(* How often a destination was called, by which script and on which path   *)
(* is left out, and so are the storage discovery lists and the decisions   *)
(* enforcement reports.                                                    *)
(***************************************************************************)
EXTENDS PageControls

CONSTANTS
    Tag,         \* third-party hosts tags call
    CalledBy,    \* the way each is called: a kind of destination
    PurposeOf,   \* the operator's mapping of watchConsent, NoValue for none
    ApiHost,     \* of Rift itself
    MaxSeen,     \* MAX_DESTINATIONS
    MaxSending   \* bound on the reports in flight

ASSUME ReportsAssumption ==
    /\ CalledBy \in [Tag -> {"fetch", "insertion"}]
    /\ PurposeOf \in [Tag -> Purpose \cup {NoValue}]
    /\ MaxSeen \in Nat \ {0} /\ MaxSending \in Nat

VARIABLES
    loaded,      \* hosts in the browser's list of resources fetched
    looked,      \* discovery: watchConsent was called
    seen,        \* discovery: destinations
    violations,  \* discovery: hosts recorded as called without consent
    sending,     \* reports in flight
    filed,       \* rows the server holds
    happened     \* history: what was observed, and under which credentials

reportVars == <<loaded, looked, seen, violations, sending, filed, happened>>
vars == <<pageVars, reportVars>>

Row == [site : Site, kind : {"component", "violation"}, host : Tag]
Report == [to : Site, rows : SUBSET Row]

Rows(kind, hosts, s) == {[site |-> s, kind |-> kind, host |-> h] : h \in hosts}

-----------------------------------------------------------------------------
(* A call goes through the wrappers from the outermost in, up to the first *)
(* that refuses it.                                                        *)
Reached(api, host) ==
    {i \in DOMAIN stack[api] : \A j \in 1..i - 1 : ~Refuses(stack[api][j], host)}

Overheard(api, host) == \E i \in Reached(api, host) : stack[api][i] = Observer

(* checkConsent's verdict on a call made now. *)
Ungranted(host) == PurposeOf[host] # NoValue /\ PurposeOf[host] \notin granted

(* Mutant: whatever the lookup answers is a violation. *)
BreachesAny(hosts) == {h \in hosts : looked /\ PurposeOf[h] # NoValue}

Breaches(hosts) == {h \in hosts : looked /\ Ungranted(h)}

(* record: a destination that is known is counted and nothing else; only a *)
(* new one, for which there is room, has its consent checked.              *)
Room(new) == Cardinality(seen \cup new) <= MaxSeen

Recorded(hosts) ==
    \E new \in SUBSET (hosts \ seen) :
       /\ Room(new) /\ \A h \in hosts \ (seen \cup new) : ~Room(new \cup {h})
       /\ seen' = seen \cup new
       /\ violations' = violations \cup Breaches(new)
       /\ happened' = happened \cup Rows("component", new, site)
                               \cup Rows("violation", {h \in new : Ungranted(h)}, site)

NothingRecorded == UNCHANGED <<seen, violations, happened>>

-----------------------------------------------------------------------------
(* A tag calls a wrapped function, or inserts an element that loads host.  *)
TagCalls(api, host) ==
    /\ IF Overheard(api, host) THEN Recorded({host}) ELSE NothingRecorded
    /\ loaded' = IF Blocks(api, host) THEN loaded ELSE loaded \cup {host}
    /\ UNCHANGED <<pageVars, looked, sending, filed>>

(* A MutationObserver saw the element added, or a PerformanceObserver the  *)
(* resource fetched.                                                       *)
ResourceListed(host) ==
    /\ discovery.started
    /\ host \in loaded
    /\ Recorded({host})
    /\ UNCHANGED <<pageVars, loaded, looked, sending, filed>>

WatchConsent ==
    /\ looked' = TRUE
    /\ UNCHANGED <<pageVars, loaded, seen, violations, sending, filed, happened>>

Send(to, rows) ==
    /\ Cardinality(sending) < MaxSending
    /\ sending' = sending \cup {[to |-> to, rows |-> rows]}

(* The whole picture, each time: nothing is cleared.  The request goes     *)
(* through the page's own fetch, whose wrappers may refuse it; discovery's *)
(* know the API by its URL and do not record it.                           *)
FlushDiscovery ==
    /\ seen # {} \/ violations # {}
    /\ IF Blocks("fetch", ApiHost) THEN UNCHANGED sending
       ELSE Send(site, Rows("component", seen, site) \cup Rows("violation", violations, site))
    /\ UNCHANGED <<pageVars, loaded, looked, seen, violations, filed, happened>>

(* The server files everything under the site of the credential, and a     *)
(* repeated component adds nothing to what is known.                       *)
Receive(r) ==
    /\ filed' = filed \cup {[row EXCEPT !.site = r.to] : row \in r.rows}
    /\ sending' = sending \ {r}
    /\ UNCHANGED <<pageVars, loaded, looked, seen, violations, happened>>

(* Refused or lost: a report is dropped rather than retried. *)
Drop(r) ==
    /\ sending' = sending \ {r}
    /\ UNCHANGED <<pageVars, loaded, looked, seen, violations, filed, happened>>

-----------------------------------------------------------------------------
(* start() takes in the resources listed before it. *)
StartsDiscovery ==
    /\ StartDiscovery
    /\ Recorded(loaded)
    /\ UNCHANGED <<loaded, looked, sending, filed>>

(* Mutant: getClient stops discovery and keeps the client. *)
Kept == UNCHANGED <<looked, seen, violations>>

(* A new DiscoveryClient knows nothing. *)
Forgotten == looked' = FALSE /\ seen' = {} /\ violations' = {}

Reinitialises(to) ==
    /\ Reinitialise(to)
    /\ Forgotten
    /\ UNCHANGED <<loaded, sending, filed, happened>>

(* Enforcement and the visitor, on which discovery is not asked. *)
ControlStep ==
    \/ StopEnforcement \/ StopDiscovery \/ Decide
    \/ \E c \in Call : BeginStart(c) \/ LoadConfig(c) \/ FinishStart(c)

ReportsInit ==
    /\ Init
    /\ loaded \in SUBSET Tag
    /\ looked = FALSE /\ seen = {} /\ violations = {}
    /\ sending = {} /\ filed = {} /\ happened = {}

ReportsNext ==
    \/ ControlStep /\ UNCHANGED reportVars
    \/ StartsDiscovery
    \/ \E to \in Site : Reinitialises(to)
    \/ \E host \in Tag : TagCalls(CalledBy[host], host) \/ ResourceListed(host)
    \/ WatchConsent \/ FlushDiscovery
    \/ \E r \in sending : Receive(r) \/ Drop(r)

ReportsSpec == ReportsInit /\ [][ReportsNext]_vars

-----------------------------------------------------------------------------
ReportsTypeOK ==
    /\ loaded \subseteq Tag /\ violations \subseteq seen /\ seen \subseteq Tag
    /\ Cardinality(seen) <= MaxSeen
    /\ filed \cup happened \subseteq Row
    /\ sending \subseteq Report

(* What discovery has a site's inventory say was observed by a client with *)
(* that site's credentials, and what it says was called without consent    *)
(* had its purpose not granted when it was: whatever is in flight while    *)
(* the page is re-initialised, and whatever wrappers are left behind by a  *)
(* client replaced (sdk/src/index.ts:32-35, sdk/src/discovery.ts:239-280). *)
EvidenceSound ==
    /\ ReportsTypeOK
    /\ filed \subseteq happened
    /\ \A r \in sending : \A row \in r.rows : [row EXCEPT !.site = r.to] \in happened
=============================================================================
