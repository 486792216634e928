-------------------------------- MODULE Urls --------------------------------
(***************************************************************************)
(* What is one page, and whose host is whose (crawler/src/url.ts).  A URL  *)
(* is what the URL parser makes of a string: scheme and host in lower case *)
(* and no default port, a path as the sequence of what stands between its  *)
(* slashes (never empty), a query as a sequence of <<key, value>>.  A key  *)
(* is a word and the case it is spelt in; a host the sequence of its       *)
(* labels.                                                                 *)
(***************************************************************************)
EXTENDS Integers, Sequences, SequencesExt

CONSTANTS
    Tracking,            \* TRACKING_PARAMETERS, as written there
    MaxQueryParameters,  \* MAX_QUERY_PARAMETERS
    SortedKeys,          \* the keys of queries, in the order they sort
    IndexFile,           \* last segments that are the directory itself
    NonPage              \* last segments with one of NON_PAGE_EXTENSIONS

Lower(key) == [key EXCEPT !.spelt = "lower"]

(* Mutant: the rest of the query is left as it came. *)
AsItCame(query) == SelectSeq(query, LAMBDA p : Lower(p[1]) \notin Tracking)

(* Tracking parameters go, the rest is sorted by key and otherwise stays   *)
(* in order.                                                               *)
Kept(query) ==
    LET kept == SelectSeq(query, LAMBDA p : Lower(p[1]) \notin Tracking)
        of == [i \in DOMAIN SortedKeys |-> SelectSeq(kept, LAMBDA p : p[1] = SortedKeys[i])]
    IN FlattenSeq(of)

(* The index file goes first, then doubled slashes. *)
TidyPath(path) ==
    LET last == IF Last(path) \in IndexFile THEN "" ELSE Last(path)
    IN Append(SelectSeq(Front(path), LAMBDA s : s # ""), last)

(* normaliseUrl, from the parsed URL on. *)
NormaliseUrl(url) ==
    IF url.scheme \notin {"http", "https"} THEN [ok |-> FALSE, reason |-> "not_http"]
    ELSE IF Len(Kept(url.query)) > MaxQueryParameters
    THEN [ok |-> FALSE, reason |-> "too_many_parameters"]
    ELSE IF Last(TidyPath(url.path)) \in NonPage
    THEN [ok |-> FALSE, reason |-> "non_page_extension"]
    ELSE [ok |-> TRUE, url |-> [url EXCEPT !.fragment = "", !.query = Kept(@),
                                           !.path = TidyPath(@)]]

Origin(url) == <<url.scheme, url.host, url.port>>

(* acceptLink *)
AcceptLink(url, scope) ==
    LET n == NormaliseUrl(url)
    IN IF n.ok /\ Origin(n.url) # scope THEN [ok |-> FALSE, reason |-> "off_origin"] ELSE n

IsThirdParty(host, pageHost) == ~IsSuffix(host, pageHost) /\ ~IsSuffix(pageHost, host)
=============================================================================
