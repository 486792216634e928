------------------------------- MODULE Robots -------------------------------
(***************************************************************************)
(* robots.txt (crawler/src/robots.ts and fetchRobots in crawl.ts).  A file *)
(* is a sequence of lines [field, value], a path or a pattern a sequence   *)
(* of characters.  Ours is the set of values of User-agent, "*" apart,     *)
(* that occur in the scanner's own name.                                   *)
(***************************************************************************)
EXTENDS Integers, Sequences, SequencesExt, FiniteSets

CONSTANT Ours

Anyone == "*"

(* Consecutive agent lines share one group of rules. *)
BeginsGroup(s) == s.groups = << >> \/ ~s.lastWasAgent

AgentLine(s, value) ==
    LET groups == IF BeginsGroup(s) THEN Append(s.groups, [agents |-> {}, rules |-> << >>])
                  ELSE s.groups
    IN [groups |-> [groups EXCEPT ![Len(groups)].agents = @ \cup {value}],
        lastWasAgent |-> TRUE]

(* Before the first agent line nothing counts, and an empty value gives no *)
(* rule.  Crawl-delay, Sitemap and unknown fields end the agent lines too. *)
OtherLine(s, line) ==
    [groups |-> IF s.groups # << >> /\ line.field \in {"allow", "disallow"} /\ line.value # << >>
                THEN [s.groups EXCEPT ![Len(s.groups)].rules =
                        Append(@, [type |-> line.field, path |-> line.value])]
                ELSE s.groups,
     lastWasAgent |-> FALSE]

ReadLine(s, line) ==
    IF line.field = "user-agent" THEN AgentLine(s, line.value) ELSE OtherLine(s, line)

(* What was read after each of the lines. *)
Read(lines) ==
    LET read[n \in 0..Len(lines)] ==
          IF n = 0 THEN [groups |-> << >>, lastWasAgent |-> FALSE]
          ELSE ReadLine(read[n - 1], lines[n])
    IN read

Groups(lines) == Read(lines)[Len(lines)].groups

(* Mutant: the first group that applies, whether it names us or anyone. *)
ChosenAny(groups) ==
    LET i == SelectInSeq(groups, LAMBDA g : g.agents \cap (Ours \cup {Anyone}) # {})
    IN IF i = 0 THEN << >> ELSE groups[i].rules

(* The first group that names us, or else the first for anyone. *)
Chosen(groups) ==
    LET named == SelectInSeq(groups, LAMBDA g : g.agents \cap Ours # {})
        anyone == SelectInSeq(groups, LAMBDA g : Anyone \in g.agents)
    IN IF named # 0 THEN groups[named].rules
       ELSE IF anyone # 0 THEN groups[anyone].rules ELSE << >>

ParseRobots(lines) == Chosen(Groups(lines))

(* patternToRegex: "*" stands for anything and "$" for the end; what is    *)
(* left of the path after the pattern does not matter.                     *)
PatternMatches(pattern, path) ==
    LET matches[i \in 1..Len(pattern) + 1, j \in 1..Len(path) + 1] ==
          IF i > Len(pattern) THEN TRUE
          ELSE IF pattern[i] = "*" THEN \E k \in j..Len(path) + 1 : matches[i + 1, k]
          ELSE IF pattern[i] = "$" THEN j = Len(path) + 1 /\ matches[i + 1, j]
          ELSE j <= Len(path) /\ pattern[i] = path[j] /\ matches[i + 1, j + 1]
    IN matches[1, 1]

(* Mutant: of two rules of one length the later wins. *)
BeatsIfLater(rule, best) == Len(rule.path) >= best.length

Beats(rule, best) ==
    \/ Len(rule.path) > best.length
    \/ Len(rule.path) = best.length /\ rule.type = "allow"

(* isAllowed: the longest rule that matches, and allow among equals. *)
Better(rule, best, path) ==
    IF PatternMatches(rule.path, path) /\ Beats(rule, best)
    THEN [length |-> Len(rule.path), allows |-> rule.type = "allow"]
    ELSE best

Best(rules, path) ==
    LET best[n \in 0..Len(rules)] ==
          IF n = 0 THEN [length |-> -1, allows |-> TRUE]
          ELSE Better(rules[n], best[n - 1], path)
    IN best

IsAllowed(rules, path) == Best(rules, path)[Len(rules)].allows

(* fetchRobots: anything but a readable file permits everything. *)
FetchRobots(answer, lines) == IF answer = "fetched" THEN ParseRobots(lines) ELSE << >>
=============================================================================
