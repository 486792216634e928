------------------------------ MODULE Detectors ------------------------------
(***************************************************************************)
(* Which technologies a crawl saw (crawler/src/detectors.ts), over the     *)
(* catalogue of hosts (database/tracker-catalogue.ts).  Observations are   *)
(* sequences in the order they were captured.  What a script, a cookie or  *)
(* a storage key reveals is given by the signatures it matches; a host is  *)
(* the sequence of its labels.                                             *)
(***************************************************************************)
EXTENDS Integers, Sequences, SequencesExt, FiniteSets

CONSTANTS
    NoValue,      \* null
    Signatures,   \* SIGNATURES, a sequence of [id, name, category, hosts, matches]
    Catalogue,    \* CATALOGUE: from hosts to [vendor, category, country]
    HomeCountry,  \* HOME_COUNTRY
    HostOfScript, \* the hosts scripts were loaded from
    MaxEvidence   \* limits.maxEvidencePerFinding

HostMatches(host, pattern) == IsSuffix(pattern, host)

Unclassified == [vendor |-> NoValue, category |-> NoValue, country |-> NoValue, crosses |-> FALSE]

(* classifyHost: the longest suffix of two or more labels it knows. *)
ClassifyHost(host) ==
    LET known == {i \in 1..Len(host) - 1 : SubSeq(host, i, Len(host)) \in DOMAIN Catalogue}
    IN IF known = {} THEN Unclassified
       ELSE LET e == Catalogue[SubSeq(host, CHOOSE i \in known : \A j \in known : i <= j, Len(host))]
            IN [vendor |-> e.vendor, category |-> e.category, country |-> e.country,
                crosses |-> e.country # HomeCountry]

Evidence(type, value) == [type |-> type, value |-> value]

Unique(s) == FoldLeft(LAMBDA t, e : IF e \in ToSet(t) THEN t ELSE Append(t, e), << >>, s)

Sliced(s) == SubSeq(s, 1, IF Len(s) > MaxEvidence THEN MaxEvidence ELSE Len(s))

(* fromSignature: scripts first, then hosts, cookies and storage keys.     *)
EvidenceFor(sig, seen) ==
    LET Of(type, values) ==
          [i \in DOMAIN values |-> Evidence(type, values[i])]
        Matching(values) == SelectSeq(values, LAMBDA v : v \in sig.matches)
        hosts == SelectSeq([i \in DOMAIN seen.requests |-> seen.requests[i].host],
                           LAMBDA h : \E p \in sig.hosts : HostMatches(h, p))
    IN Unique(Of("script", Matching(seen.scripts)) \o Of("network_host", hosts)
              \o Of("cookie", Matching(seen.cookies)) \o Of("storage_key", Matching(seen.storage)))

Confidence(evidence) ==
    LET kinds == {e.type : e \in ToSet(evidence)}
    IN IF Cardinality(kinds) >= 2 \/ "script" \in kinds THEN "high" ELSE "medium"

(* pickHostFor: the first host of the evidence, or its first script's.     *)
HostOf(evidence) ==
    LET Firsts(type) == SelectSeq(evidence, LAMBDA e : e.type = type)
    IN IF Firsts("network_host") # << >> THEN Head(Firsts("network_host")).value
       ELSE IF Firsts("script") # << >> THEN HostOfScript[Head(Firsts("script")).value]
       ELSE << >>

Finding(id, name, category, confidence, evidence, class) ==
    [id |-> id, name |-> name, category |-> category, confidence |-> confidence,
     evidence |-> evidence, country |-> class.country, crosses |-> class.crosses]

Named(seen) ==
    FoldLeft(LAMBDA found, sig :
               LET evidence == EvidenceFor(sig, seen)
               IN IF evidence = << >> THEN found
                  ELSE Append(found, Finding(<<"signature", sig.id>>, sig.name, sig.category,
                                             Confidence(evidence), Sliced(evidence),
                                             ClassifyHost(HostOf(evidence)))),
             << >>, Signatures)

HostsIn(finding) == {e.value : e \in {x \in ToSet(finding.evidence) : x.type = "network_host"}}

(* addHostEvidence, to the finding at a place *)
AddHost(found, at, host) ==
    IF Len(found[at].evidence) >= MaxEvidence \/ host \in HostsIn(found[at]) THEN found
    ELSE [found EXCEPT ![at].evidence = Append(@, Evidence("network_host", host))]

(* Mutant: a vendor a signature named is reported again for its hosts.     *)
ReportedAgain(s, class) == FALSE

AlreadyNamed(s, class) == class.vendor # NoValue /\ class.vendor \in s.vendors

(* A third party no signature's evidence holds: it goes to the first       *)
(* finding of its vendor's name, or to the one made for it before, or      *)
(* becomes a finding of its own.                                           *)
AddRequest(s, request) ==
    LET class == ClassifyHost(request.host)
        id == IF class.vendor # NoValue THEN <<"vendor", class.vendor>> ELSE <<"host", request.host>>
        named == SelectInSeq(s.found, LAMBDA f : f.name = class.vendor)
        made == SelectInSeq(s.found, LAMBDA f : f.id = id)
    IN IF ~request.third \/ request.host \in s.claimed THEN s
       ELSE IF AlreadyNamed(s, class)
       THEN [s EXCEPT !.found = AddHost(@, named, request.host), !.claimed = @ \cup {request.host}]
       ELSE IF made # 0 THEN [s EXCEPT !.found = AddHost(@, made, request.host)]
       ELSE [s EXCEPT
               !.vendors = IF class.vendor = NoValue THEN @ ELSE @ \cup {class.vendor},
               !.found = Append(@, Finding(id,
                           IF class.vendor = NoValue THEN request.host ELSE class.vendor,
                           IF class.category = NoValue THEN "unclassified" ELSE class.category,
                           IF class.vendor = NoValue THEN "low" ELSE "medium",
                           <<Evidence("network_host", request.host)>>, class))]

(* detectTechnologies *)
Claimed(named) == [found |-> named, claimed |-> UNION {HostsIn(f) : f \in ToSet(named)},
                   vendors |-> {f.name : f \in ToSet(named)}]

Detect(seen) == FoldLeft(AddRequest, Claimed(Named(seen)), seen.requests).found
=============================================================================
