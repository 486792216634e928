-------------------------- MODULE MCDiscoveryRows --------------------------
(* DiscoveryRows on a page of one site with nothing to enforce and a vendor *)
(* that is called by fetch.                                                 *)
EXTENDS DiscoveryRows, TLC

MCTag == {<<"t", "ads">>}
MCCalledBy == [t \in MCTag |-> "fetch"]
MCPurposeOf == [t \in MCTag |-> "m"]
MCApiHost == <<"rift">>
MCApproved == [s \in Site |-> [mode |-> "off", unknownHost |-> "allow", rules |-> << >>]]
=============================================================================
