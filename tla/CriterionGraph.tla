----------------------------- MODULE CriterionGraph -----------------------------
(***************************************************************************)
(* The dependency and write-scope contract over the acceptance criteria    *)
(* (goal_criterion_graph.rs): the table of the plan is validated, replaced *)
(* by the serial graph when it is malformed, made conflict-free, peeled    *)
(* into waves of criteria that may run at the same time, and used to find  *)
(* what a refuted criterion invalidates.                                   *)
(*                                                                         *)
(* One step is one iteration of the code's loops.  A path of a scope cell  *)
(* is the sequence of its segments; a criterion without paths has not      *)
(* declared a scope.                                                       *)
(***************************************************************************)
EXTENDS Integers, SequencesExt

CONSTANTS
    Criteria,  \* number of acceptance criteria
    Tables,    \* dependency tables a plan can hold: sequences of rows
    Files,     \* paths a criterion can write, as sequences of segments
    Wild,      \* segments with a wildcard
    Braces     \* segments {x,y}: the names meant, and the two halves at the comma

ASSUME GraphAssumption ==
    /\ Criteria \in Nat
    /\ Tables \subseteq Seq([number: Nat, deps: SUBSET Nat, scope: SUBSET Seq(STRING)])
    /\ Files \subseteq Seq(STRING)
    /\ Braces \in [DOMAIN Braces -> [names: SUBSET STRING, open: STRING, close: STRING]]

VARIABLES
    table,    \* the parsed table, << >> when the plan has none
    graph,    \* the graph in force
    phase,    \* the loop that is running
    waves,    \* the waves peeled so far
    refuted,  \* the criteria a panel refuted
    invalid   \* with_dependents: what has been invalidated so far

vars == <<table, graph, phase, waves, refuted, invalid>>

Nodes == 1 .. Criteria

-----------------------------------------------------------------------------
(* Path scopes. *)

(* parse_list splits the cell at commas, inside braces too: one path with  *)
(* a brace (there is at most one) becomes two entries.                     *)
ParseList(p) ==
    IF \E i \in DOMAIN p : p[i] \in DOMAIN Braces
    THEN LET i == CHOOSE i \in DOMAIN p : p[i] \in DOMAIN Braces
         IN  {SubSeq(p, 1, i - 1) \o <<Braces[p[i]].open>>,
              <<Braces[p[i]].close>> \o SubSeq(p, i + 1, Len(p))}
    ELSE {p}

(* How many segments of p are "." before the first other one, and how many *)
(* there are before the first wildcard.                                    *)
LeadingDots(p) ==
    CHOOSE n \in 0 .. Len(p) : /\ \A i \in 1 .. n : p[i] = "."
                               /\ n < Len(p) => p[n + 1] # "."
Literals(p) ==
    CHOOSE n \in 0 .. Len(p) : /\ \A i \in 1 .. n : p[i] \notin Wild
                               /\ n < Len(p) => p[n + 1] \in Wild

Undotted(p) == SubSeq(p, LeadingDots(p) + 1, Len(p))

(* normalize_scope drops every leading "./"; a "." that ends the path has   *)
(* no slash behind it and stays.                                           *)
NormalizeScope(p) ==
    IF p # << >> /\ LeadingDots(p) = Len(p) THEN <<".">> ELSE Undotted(p)

LiteralPrefix(p) == SubSeq(p, 1, Literals(p))

PathsOverlap(p, q) ==
    LET a == LiteralPrefix(NormalizeScope(p))
        b == LiteralPrefix(NormalizeScope(q))
    IN  IsPrefix(a, b) \/ IsPrefix(b, a)

(* Mutant: only the first path may contain the second. *)
OverlapOneWay(A, B) ==
    A = {} \/ B = {} \/
        \E p \in A, q \in B :
            IsPrefix(LiteralPrefix(NormalizeScope(p)), LiteralPrefix(NormalizeScope(q)))

OverlappingScope(A, B) ==
    A = {} \/ B = {} \/ \E p \in A, q \in B : PathsOverlap(p, q)

-----------------------------------------------------------------------------
(* Dependencies. *)

(* reaches: `from` depends on `to`, directly or not.  The code's search    *)
(* computes the least set that holds from's dependencies and theirs.       *)
Reaches(g, from, to) ==
    \A S \in SUBSET Nodes :
        (g[from].deps \subseteq S /\ \A n \in S : g[n].deps \subseteq S) => to \in S

(* Mutant: direct dependencies only. *)
DirectlyOrdered(g, a, b) == b \in g[a].deps \/ a \in g[b].deps

Ordered(g, a, b) == Reaches(g, a, b) \/ Reaches(g, b, a)

(* parallel_waves().is_some(): no set of criteria waits for itself. *)
Schedulable(g) ==
    \A S \in (SUBSET Nodes) \ {{}} : \E n \in S : g[n].deps \cap S = {}

Serial ==
    [n \in Nodes |-> [deps |-> IF n > 1 THEN {n - 1} ELSE {}, scope |-> {}]]

FromTable(t) ==
    [n \in Nodes |-> [deps |-> t[n].deps, scope |-> UNION {ParseList(p) : p \in t[n].scope}]]

(* validate: a violation that no ordering repairs.  Reachability is asked  *)
(* only of a table whose numbering is sound.                               *)
Structural(t) ==
    \/ Len(t) # Criteria
    \/ \E p \in DOMAIN t :
           \/ t[p].number # p
           \/ t[p].number \in t[p].deps
           \/ \E d \in t[p].deps : \A q \in DOMAIN t : t[q].number # d
    \/ ~Schedulable(FromTable(t))

(* validate: the scope conflicts, between unordered criteria. *)
Conflicts(g) ==
    {c \in Nodes \X Nodes : /\ c[1] < c[2]
                            /\ ~Ordered(g, c[1], c[2])
                            /\ OverlappingScope(g[c[1]].scope, g[c[2]].scope)}

(* The first of them in the order of the table. *)
IsFirst(c, g) ==
    \A d \in Conflicts(g) : c[1] < d[1] \/ (c[1] = d[1] /\ c[2] <= d[2])

-----------------------------------------------------------------------------
Init ==
    /\ table \in Tables
    /\ graph = Serial
    /\ phase = "load"
    /\ waves = << >>
    /\ refuted = {}
    /\ invalid = {}

(* Mutant: the numbers of the rows are not checked. *)
LoadMisnumbered ==
    /\ phase = "load"
    /\ graph' = IF /\ Len(table) = Criteria
                   /\ \A p \in DOMAIN table : table[p].deps \subseteq Nodes \ {p}
                   /\ Schedulable(FromTable(table))
                THEN FromTable(table) ELSE Serial
    /\ phase' = "serialize"
    /\ UNCHANGED <<table, waves, refuted, invalid>>

(* load_criterion_graph: the table if it is structurally sound, else serial. *)
Load ==
    /\ phase = "load"
    /\ graph' = IF table # << >> /\ ~Structural(table) THEN FromTable(table) ELSE Serial
    /\ phase' = "serialize"
    /\ UNCHANGED <<table, waves, refuted, invalid>>

(* Mutant: the wait replaces the declared dependencies. *)
SerializeOverwrites ==
    /\ phase = "serialize"
    /\ \E c \in Conflicts(graph) :
           /\ IsFirst(c, graph)
           /\ graph' = [graph EXCEPT ![c[2]].deps = {c[1]}]
    /\ UNCHANGED <<table, phase, waves, refuted, invalid>>

(* serialize_conflicts: the later criterion of the first conflict waits    *)
(* for the earlier one; then everything is validated again.                *)
SerializeConflict ==
    /\ phase = "serialize"
    /\ \E c \in Conflicts(graph) :
           /\ IsFirst(c, graph)
           /\ c[1] \notin graph[c[2]].deps
           /\ graph' = [graph EXCEPT ![c[2]].deps = @ \cup {c[1]}]
    /\ UNCHANGED <<table, phase, waves, refuted, invalid>>

(* serialize_conflicts returns: no conflict, or no progress possible. *)
Serialized ==
    /\ phase = "serialize"
    /\ Conflicts(graph) # {} =>
           \E c \in Conflicts(graph) : IsFirst(c, graph) /\ c[1] \in graph[c[2]].deps
    /\ phase' = "peel"
    /\ UNCHANGED <<table, graph, waves, refuted, invalid>>

Scheduled == UNION {waves[k] : k \in DOMAIN waves}

Ready == {n \in Nodes \ Scheduled : graph[n].deps \subseteq Scheduled}

(* parallel_waves: everything whose dependencies are in earlier waves. *)
PeelWave ==
    /\ phase = "peel" /\ Ready # {}
    /\ waves' = Append(waves, Ready)
    /\ UNCHANGED <<table, graph, phase, refuted, invalid>>

(* All criteria are in a wave, or nothing is ready: None. *)
Peeled ==
    /\ phase = "peel" /\ Ready = {}
    /\ phase' = IF Scheduled = Nodes THEN "scheduled" ELSE "unschedulable"
    /\ UNCHANGED <<table, graph, waves, refuted, invalid>>

(* A panel attributes its findings to the criteria R. *)
Refute(R) ==
    /\ phase = "scheduled"
    /\ refuted' = R /\ invalid' = R
    /\ phase' = "invalidate"
    /\ UNCHANGED <<table, graph, waves>>

(* Mutant: criteria already invalid are invalidated again. *)
InvalidatedAgain == {n \in Nodes : graph[n].deps \cap invalid # {}}

Invalidated == {n \in Nodes \ invalid : graph[n].deps \cap invalid # {}}

(* Mutant: direct dependents only. *)
SpreadDirect ==
    /\ phase = "invalidate" /\ Invalidated # {}
    /\ invalid' = invalid \cup Invalidated
    /\ phase' = "done"
    /\ UNCHANGED <<table, graph, waves, refuted>>

(* with_dependents: a criterion built on an invalid one is invalid. *)
Spread ==
    /\ phase = "invalidate"
    /\ \E n \in Invalidated : invalid' = invalid \cup {n}
    /\ UNCHANGED <<table, graph, phase, waves, refuted>>

SpreadDone ==
    /\ phase = "invalidate" /\ Invalidated = {}
    /\ phase' = "done"
    /\ UNCHANGED <<table, graph, waves, refuted, invalid>>

Loops == Load \/ SerializeConflict \/ Serialized \/ PeelWave \/ Peeled \/ Spread \/ SpreadDone

Next == Loops \/ \E R \in (SUBSET Nodes) \ {{}} : Refute(R)

Spec == Init /\ [][Next]_vars

(* The loops run by themselves; the panel's findings come from outside. *)
FairSpec == Spec /\ WF_vars(Loops)

-----------------------------------------------------------------------------
(* Properties. *)

(* Every variable has its type. *)
TypeOK ==
    /\ table \in Tables
    /\ graph \in [Nodes -> [deps: SUBSET Nodes, scope: SUBSET Seq(STRING)]]
    /\ phase \in {"load", "serialize", "peel", "scheduled", "unschedulable", "invalidate", "done"}
    /\ waves \in Seq(SUBSET Nodes)
    /\ refuted \subseteq invalid /\ invalid \subseteq Nodes

(* What a planner means by a path: a brace stands for each of its names, a *)
(* wildcard for anything, a directory for all that is below it, "." for    *)
(* the directory itself.  ("." and ".." inside a path are left out.)       *)
Means(segment) == IF segment \in DOMAIN Braces THEN Braces[segment].names ELSE {segment}

Names(p, f) ==
    LET q == LiteralPrefix(Undotted(p))
    IN  Len(q) <= Len(f) /\ \A i \in 1 .. Len(q) : f[i] \in Means(q[i])

(* The paths the code takes for what they mean. *)
Understood(p) ==
    /\ p # << >> => LeadingDots(p) < Len(p)
    /\ \A i \in DOMAIN p : p[i] \notin DOMAIN Braces
    /\ \A i \in DOMAIN p : i > LeadingDots(p) => p[i] \notin {".", ".."}

(* The files criterion n may write by its understood paths: every file when *)
(* it declared no scope.                                                    *)
Writes(n) ==
    {f \in Files : \/ graph[n].scope = {}
                   \/ \E p \in table[n].scope : Understood(p) /\ Names(p, f)}

(* Two criteria of one wave run at the same time, so no file is writable   *)
(* by both: otherwise one of them silently loses its edit                  *)
(* (load_criterion_graph, parallel_waves).  For the paths the code         *)
(* understands: a brace and a bare "." it takes for names and misses,      *)
(* although overlapping_scope means to count them as overlapping.          *)
NoLostEdit ==
    \A k \in DOMAIN waves : \A a, b \in waves[k] : a # b => Writes(a) \cap Writes(b) = {}

(* load_criterion_graph "always returns something safe to run": neither a  *)
(* malformed table nor the edges added for conflicts leave criteria that   *)
(* can never start.                                                        *)
AlwaysSchedulable == phase # "unschedulable" /\ Schedulable(graph)

(* A sound table is honoured: resolving conflicts adds waits and takes     *)
(* none of the declared ones away, so what a criterion declares to build   *)
(* on is in an earlier wave.                                               *)
DeclaredOrderKept ==
    table # << >> /\ ~Structural(table) =>
        \A k \in DOMAIN waves : \A n \in waves[k] : \A d \in table[n].deps :
            \E j \in 1 .. k - 1 : d \in waves[j]

(* An absent or malformed table is never read as permission to fan out:    *)
(* the criteria run one at a time, in order.                               *)
MalformedRunsSerially ==
    table = << >> \/ Structural(table) => \A k \in DOMAIN waves : waves[k] = {k}

(* with_dependents ends with exactly the refuted criteria and everything   *)
(* built on them, directly or not: no audit credit outlives the work it    *)
(* was given for, and none is taken from unrelated work.                   *)
InvalidatesExactlyDependents ==
    phase = "done" =>
        invalid = refuted \cup {n \in Nodes : \E r \in refuted : Reaches(graph, n, r)}

(* Every table ends in a schedule, and every refutation in a closed set. *)
LoopsEnd == (phase = "load" ~> phase = "scheduled") /\ (phase = "invalidate" ~> phase = "done")
=============================================================================
