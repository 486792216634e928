--------------------------- MODULE DiscoveryRows ---------------------------
(***************************************************************************)
(* PageReports with the rows the server appends for the violations of a    *)
(* report (database/discovery.ts), where PageReports only keeps which ones *)
(* there are.                                                              *)
(***************************************************************************)
EXTENDS PageReports

CONSTANT MaxRows  \* bound on the rows of a host

VARIABLES
    appended,  \* discovery_violations: how many rows of each host
    observed   \* history: how often each was found to be called without consent

RowsInit ==
    /\ ReportsInit
    /\ appended = [h \in Tag |-> 0]
    /\ observed = [h \in Tag |-> 0]

(* recordDiscoveryReport: one row for every violation of the report. *)
Appended(r) ==
    appended' = [h \in Tag |->
        appended[h] + Cardinality({row \in r.rows : row.kind = "violation" /\ row.host = h})]

Files(r) ==
    /\ Receive(r)
    /\ \A h \in Tag : appended[h] < MaxRows
    /\ Appended(r)
    /\ UNCHANGED observed

(* Whatever else happens, an observation is an entry of violations that    *)
(* was not there.                                                          *)
Observes ==
    /\ \/ ControlStep /\ UNCHANGED reportVars
       \/ StartsDiscovery
       \/ \E to \in Site : Reinitialises(to)
       \/ \E host \in Tag : TagCalls(CalledBy[host], host) \/ ResourceListed(host)
       \/ WatchConsent \/ FlushDiscovery
       \/ \E r \in sending : Drop(r)
    /\ observed' = [h \in Tag |-> observed[h] + Cardinality({h} \cap (violations' \ violations))]
    /\ UNCHANGED appended

RowsSpec ==
    RowsInit /\ [][Observes \/ \E r \in sending : Files(r)]_<<vars, appended, observed>>

-----------------------------------------------------------------------------
(* "Two observations are two pieces of evidence"                           *)
(* (docs/discovery.md:130-131) and one, however often its report is sent,  *)
(* is one: "re-sending is idempotent" (sdk/src/discovery.ts:572-573).      *)
OneRowEach == \A h \in Tag : appended[h] <= observed[h]
=============================================================================
