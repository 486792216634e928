--------------------------- MODULE MCPageReports ---------------------------
(* PageReports on two sites, one of which gates a vendor's host and one     *)
(* blocks what it does not know, so that the rules of one differ from the   *)
(* other's.  The operator maps the vendor to a purpose.                     *)
EXTENDS PageReports, TLC

MCTag == {<<"t", "ads">>}
MCHost == MCTag \cup {<<"shop">>}
MCCalledBy == [t \in MCTag |-> "fetch"]
MCApiHost == <<"rift">>
MCPurposeOf == [t \in MCTag |-> "m"]

MCApproved ==
    [s \in Site |->
       IF s = "a"
       THEN [mode |-> "enforce", unknownHost |-> "allow",
             rules |-> <<[host |-> <<"ads">>, action |-> "require_consent", purpose |-> "m"]>>]
       ELSE [mode |-> "observe", unknownHost |-> "block",
             rules |-> <<[host |-> <<"t", "ads">>, action |-> "allow", purpose |-> NoValue]>>]]
=============================================================================
