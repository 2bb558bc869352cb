-------------------------- MODULE CriterionGraph_proofs --------------------------
(* The schedule of the criteria is safe for every number of criteria, every *)
(* dependency table and every set of files.                                 *)
EXTENDS CriterionGraph, WellFoundedInduction, TLAPS

(* The declared dependencies of a sound table are in force. *)
DeclaredInForce ==
    phase # "load" /\ table # << >> /\ ~Structural(table) =>
        \A n \in Nodes : table[n].deps \subseteq graph[n].deps

(* A scope in force is the one the plan declares, split at its commas. *)
ScopesInForce ==
    \A n \in Nodes : graph[n].scope # {} =>
        n \in DOMAIN table /\ graph[n].scope = UNION {ParseList(p) : p \in table[n].scope}

(* The criteria of the waves before wave k. *)
Earlier(k) == UNION {waves[j] : j \in 1 .. k - 1}

(* Every wave waits only for earlier ones and repeats none of them. *)
Layered ==
    \A k \in DOMAIN waves : \A n \in waves[k] :
        graph[n].deps \subseteq Earlier(k) /\ n \notin Earlier(k)

(* The graph changes only before the first wave is peeled. *)
Phased ==
    /\ phase \in {"load", "serialize"} => waves = << >>
    /\ phase \notin {"load", "serialize"} => Conflicts(graph) = {}

IInv ==
    /\ TypeOK /\ Schedulable(graph) /\ phase # "unschedulable"
    /\ DeclaredInForce /\ ScopesInForce /\ Layered /\ Phased

-----------------------------------------------------------------------------
(* A direct dependency is reached. *)
LEMMA DirectReach ==
    ASSUME NEW g, NEW a, NEW b, b \in g[a].deps
    PROVE  Reaches(g, a, b)
  BY DEF Reaches

(* serial: a chain has no cycle.  The least member of a set waits for none *)
(* of it; without a least member the set would be empty.                   *)
LEMMA SerialSchedulable == Schedulable(Serial)
  <1> SUFFICES ASSUME NEW S \in (SUBSET Nodes) \ {{}} PROVE \E n \in S : Serial[n].deps \cap S = {}
    BY DEF Schedulable
  <1> DEFINE lt == {ss \in Nat \X Nat : ss[1] < ss[2]}
  <1>1. S \subseteq Nat /\ S # {}
    BY GraphAssumption DEF GraphAssumption, Nodes
  <1>5. IsWellFoundedOn(lt, Nat)
    BY NatLessThanWellFounded DEF OpToRel
  <1>2. PICK m \in S : \A n \in S : ~(<<n, m>> \in lt)
    <2> HIDE DEF lt
    <2> QED
      BY <1>1, <1>5, WFMin
  <1>3. \A n \in S : ~(n < m)
    BY <1>1, <1>2
  <1>4. Serial[m].deps \cap S = {}
    BY <1>1, <1>3 DEF Serial, Nodes
  <1> QED
    BY <1>4

(* serialize_conflicts cannot close a cycle: between criteria that are not *)
(* ordered, either may be made to wait for the other.                      *)
LEMMA AddedWaitIsSafe ==
    ASSUME NEW g \in [Nodes -> [deps: SUBSET Nodes, scope: SUBSET Seq(STRING)]],
           Schedulable(g),
           NEW a \in Nodes, NEW b \in Nodes, a # b, ~Reaches(g, a, b)
    PROVE  Schedulable([g EXCEPT ![b].deps = @ \cup {a}])
  <1> DEFINE h == [g EXCEPT ![b].deps = @ \cup {a}]
  <1>1. PICK C \in SUBSET Nodes : /\ g[a].deps \subseteq C
                                  /\ \A n \in C : g[n].deps \subseteq C
                                  /\ b \notin C
    BY DEF Reaches
  <1>2. \A n \in Nodes : h[n].deps = IF n = b THEN g[b].deps \cup {a} ELSE g[n].deps
    OBVIOUS
  <1> SUFFICES ASSUME NEW S \in (SUBSET Nodes) \ {{}}, \A n \in S : h[n].deps \cap S # {}
               PROVE  FALSE
    BY DEF Schedulable
  <1>3. CASE \A n \in S : g[n].deps \cap S # {}
    BY <1>3 DEF Schedulable
  <1>4. CASE \E n \in S : g[n].deps \cap S = {}
    <2>1. b \in S /\ a \in S
      BY <1>2, <1>4
    <2> DEFINE T == S \cap (C \cup {a})
    <2>2. T \in (SUBSET Nodes) \ {{}}
      BY <2>1
    <2>3. ASSUME NEW n \in T PROVE g[n].deps \cap T # {}
      <3>1. n # b /\ n \in S /\ n \in Nodes
        BY <1>1
      <3>2. g[n].deps \cap S # {}
        BY <1>2, <3>1
      <3>3. g[n].deps \subseteq C
        BY <1>1
      <3> QED
        BY <3>2, <3>3
    <2> HIDE DEF T
    <2> QED
      BY <2>2, <2>3 DEF Schedulable
  <1> QED
    BY <1>3, <1>4

(* What stops the scan of a path stops it somewhere, or it runs to the end. *)
LEMMA ScanEnds ==
    ASSUME NEW p \in Seq(STRING), NEW Stop
    PROVE  \E n \in 0 .. Len(p) : /\ \A i \in 1 .. n : p[i] \notin Stop
                                  /\ n < Len(p) => p[n + 1] \in Stop
  <1> DEFINE lt == {ss \in Nat \X Nat : ss[1] < ss[2]}
  <1> DEFINE Ends == {n \in 0 .. Len(p) : n < Len(p) => p[n + 1] \in Stop}
  <1>1. Ends \subseteq Nat /\ Ends # {}
    <2>1. Len(p) \in Ends
      OBVIOUS
    <2> QED
      BY <2>1
  <1>2. IsWellFoundedOn(lt, Nat)
    BY NatLessThanWellFounded DEF OpToRel
  <1>3. PICK m \in Ends : \A n \in Ends : ~(<<n, m>> \in lt)
    <2> HIDE DEF lt, Ends
    <2> QED
      BY <1>1, <1>2, WFMin
  <1>4. m \in 0 .. Len(p) /\ (m < Len(p) => p[m + 1] \in Stop)
    BY <1>3
  <1>5. ASSUME NEW i \in 1 .. m, p[i] \in Stop PROVE FALSE
    <2>1. i - 1 \in Ends /\ i - 1 < m
      BY <1>4, <1>5
    <2>2. <<i - 1, m>> \in lt
      BY <1>1, <1>3, <2>1
    <2> QED
      BY <1>3, <2>1, <2>2
  <1> QED
    BY <1>4, <1>5

(* normalize_scope and literal_prefix return paths. *)
LEMMA ScanTypes ==
    ASSUME NEW p \in Seq(STRING)
    PROVE  /\ LeadingDots(p) \in 0 .. Len(p)
           /\ Literals(p) \in 0 .. Len(p)
           /\ \A i \in 1 .. Literals(p) : p[i] \notin Wild
           /\ Undotted(p) \in Seq(STRING)
           /\ LiteralPrefix(p) \in Seq(STRING)
           /\ Len(LiteralPrefix(p)) = Literals(p)
  <1>1. \E n \in 0 .. Len(p) : (\A i \in 1 .. n : p[i] = ".") /\ (n < Len(p) => p[n + 1] # ".")
    <2>1. PICK n \in 0 .. Len(p) : /\ \A i \in 1 .. n : p[i] \notin STRING \ {"."}
                                   /\ n < Len(p) => p[n + 1] \in STRING \ {"."}
      BY ScanEnds
    <2>2. \A i \in 1 .. n : p[i] \in STRING
      OBVIOUS
    <2> QED
      BY <2>1, <2>2
  <1>2. LeadingDots(p) \in 0 .. Len(p)
    BY <1>1 DEF LeadingDots
  <1>3. \E n \in 0 .. Len(p) : (\A i \in 1 .. n : p[i] \notin Wild) /\ (n < Len(p) => p[n + 1] \in Wild)
    BY ScanEnds
  <1>4. Literals(p) \in 0 .. Len(p) /\ \A i \in 1 .. Literals(p) : p[i] \notin Wild
    BY <1>3 DEF Literals
  <1>5. Undotted(p) \in Seq(STRING)
    BY <1>2 DEF Undotted
  <1>6. LiteralPrefix(p) \in Seq(STRING) /\ Len(LiteralPrefix(p)) = Literals(p)
    BY <1>4 DEF LiteralPrefix
  <1> QED
    BY <1>2, <1>4, <1>5, <1>6

(* parse_list takes an understood path whole, and normalize_scope takes     *)
(* nothing from it but the dots that name no directory.                     *)
LEMMA UnderstoodPath ==
    ASSUME NEW p \in Seq(STRING), Understood(p)
    PROVE  /\ ParseList(p) = {p}
           /\ NormalizeScope(p) = Undotted(p)
           /\ \A i \in 1 .. Len(Undotted(p)) : Undotted(p)[i] \notin DOMAIN Braces
  <1>1. ParseList(p) = {p}
    BY DEF Understood, ParseList
  <1>2. LeadingDots(p) \in 0 .. Len(p)
    BY ScanTypes
  <1>3. NormalizeScope(p) = Undotted(p)
    BY <1>2 DEF Understood, NormalizeScope
  <1>4. \A i \in 1 .. Len(Undotted(p)) :
            Undotted(p)[i] = p[LeadingDots(p) + i] /\ LeadingDots(p) + i \in DOMAIN p
    BY <1>2 DEF Undotted
  <1> QED
    BY <1>1, <1>3, <1>4 DEF Understood

(* What an understood path names begins with its literal part. *)
LEMMA NamedBegins ==
    ASSUME NEW p \in Seq(STRING), Understood(p), NEW f \in Seq(STRING), Names(p, f)
    PROVE  /\ LiteralPrefix(Undotted(p)) \in Seq(STRING)
           /\ Len(LiteralPrefix(Undotted(p))) <= Len(f)
           /\ \A i \in 1 .. Len(LiteralPrefix(Undotted(p))) : LiteralPrefix(Undotted(p))[i] = f[i]
  <1> DEFINE u == Undotted(p)
  <1> DEFINE q == LiteralPrefix(u)
  <1>1. u \in Seq(STRING) /\ \A i \in 1 .. Len(u) : u[i] \notin DOMAIN Braces
    BY ScanTypes, UnderstoodPath
  <1>2. q \in Seq(STRING) /\ Len(q) = Literals(u) /\ Literals(u) \in 0 .. Len(u)
    <2> HIDE DEF u
    <2> QED
      BY <1>1, ScanTypes
  <1>3. \A i \in 1 .. Len(q) : q[i] = u[i]
    <2> HIDE DEF u
    <2> QED
      BY <1>1, <1>2 DEF LiteralPrefix
  <1>4. Len(q) <= Len(f) /\ \A i \in 1 .. Len(q) : f[i] \in Means(q[i])
    BY DEF Names
  <1> HIDE DEF u, q
  <1>5. \A i \in 1 .. Len(q) : Means(q[i]) = {q[i]}
    BY <1>1, <1>2, <1>3 DEF Means
  <1>6. q \in Seq(STRING) /\ Len(q) <= Len(f) /\ \A i \in 1 .. Len(q) : q[i] = f[i]
    BY <1>2, <1>4, <1>5
  <1> QED
    BY <1>6 DEF u, q

(* Two understood paths that both name a file overlap, so paths_overlap     *)
(* misses none of them.                                                     *)
LEMMA SharedFileOverlaps ==
    ASSUME NEW f \in Seq(STRING), NEW p \in Seq(STRING), NEW q \in Seq(STRING),
           Understood(p), Understood(q), Names(p, f), Names(q, f)
    PROVE  PathsOverlap(p, q)
  <1> DEFINE Agrees(s, t) == Len(s) <= Len(t) /\ \A k \in 1 .. Len(s) : s[k] = t[k]
  <1> DEFINE a == LiteralPrefix(Undotted(p))
  <1> DEFINE b == LiteralPrefix(Undotted(q))
  <1>1. ASSUME NEW s \in Seq(STRING), NEW t \in Seq(STRING)
        PROVE  IsPrefix(s, t) <=> Agrees(s, t)
    <2> HIDE DEF a, b
    <2>1. SubSeq(s, 1, Len(s)) = s
      OBVIOUS
    <2>2. CASE Len(s) <= Len(t)
      <3>1. /\ SubSeq(t, 1, Len(s)) \in Seq(STRING)
            /\ Len(SubSeq(t, 1, Len(s))) = Len(s)
            /\ \A k \in 1 .. Len(s) : SubSeq(t, 1, Len(s))[k] = t[k]
        BY <2>2
      <3>2. SubSeq(t, 1, Len(s)) = s <=> \A k \in 1 .. Len(s) : s[k] = t[k]
        BY <3>1
      <3> QED
        BY <2>1, <2>2, <3>2 DEF IsPrefix
    <2>3. CASE ~(Len(s) <= Len(t))
      BY <2>3 DEF IsPrefix
    <2> QED
      BY <2>2, <2>3
  <1>2. a \in Seq(STRING) /\ b \in Seq(STRING) /\ Agrees(a, f) /\ Agrees(b, f)
    BY NamedBegins
  <1>3. PathsOverlap(p, q) <=> (IsPrefix(a, b) \/ IsPrefix(b, a))
    BY UnderstoodPath DEF PathsOverlap
  <1> HIDE DEF a, b
  <1>4. Agrees(a, b) \/ Agrees(b, a)
    BY <1>2
  <1> QED
    BY <1>1, <1>2, <1>3, <1>4

(* parse_list gives paths. *)
LEMMA ParseType ==
    ASSUME NEW p \in Seq(STRING) PROVE ParseList(p) \subseteq Seq(STRING)
  <1>1. CASE ~\E i \in DOMAIN p : p[i] \in DOMAIN Braces
    BY <1>1 DEF ParseList
  <1>2. CASE \E i \in DOMAIN p : p[i] \in DOMAIN Braces
    <2> DEFINE i == CHOOSE i \in DOMAIN p : p[i] \in DOMAIN Braces
    <2> DEFINE pieces == {SubSeq(p, 1, i - 1) \o <<Braces[p[i]].open>>,
                          <<Braces[p[i]].close>> \o SubSeq(p, i + 1, Len(p))}
    <2>1. ParseList(p) = pieces
      BY <1>2 DEF ParseList
    <2>2. i \in 1 .. Len(p) /\ p[i] \in DOMAIN Braces
      BY <1>2
    <2> HIDE DEF i
    <2>3. Braces[p[i]].open \in STRING /\ Braces[p[i]].close \in STRING
      BY <2>2, GraphAssumption DEF GraphAssumption
    <2>4. SubSeq(p, 1, i - 1) \in Seq(STRING) /\ SubSeq(p, i + 1, Len(p)) \in Seq(STRING)
      BY <2>2
    <2>5. pieces \subseteq Seq(STRING)
      BY <2>3, <2>4
    <2> QED
      BY <2>1, <2>5
  <1> QED
    BY <1>1, <1>2

(* A sound table gives a well-typed graph without cycles. *)
LEMMA SoundTable ==
    ASSUME NEW t \in Tables, ~Structural(t)
    PROVE  /\ FromTable(t) \in [Nodes -> [deps: SUBSET Nodes, scope: SUBSET Seq(STRING)]]
           /\ Schedulable(FromTable(t))
  <1> USE GraphAssumption DEF GraphAssumption
  <1>1. t \in Seq([number: Nat, deps: SUBSET Nat, scope: SUBSET Seq(STRING)]) /\ Len(t) = Criteria
    BY DEF Structural
  <1>2. DOMAIN t = Nodes
    BY <1>1 DEF Nodes
  <1>3. ASSUME NEW n \in Nodes
        PROVE  t[n].deps \in SUBSET Nodes /\ t[n].scope \in SUBSET Seq(STRING)
    <2>1. t[n] \in [number: Nat, deps: SUBSET Nat, scope: SUBSET Seq(STRING)]
      <3> DEFINE Row == [number: Nat, deps: SUBSET Nat, scope: SUBSET Seq(STRING)]
      <3>1. t \in Seq(Row) /\ n \in 1 .. Len(t)
        BY <1>1 DEF Nodes
      <3> HIDE DEF Row
      <3>2. t[n] \in Row
        BY ONLY <3>1
      <3> QED
        BY ONLY <3>2 DEF Row
    <2>2. \A q \in Nodes : t[q].number = q
      BY <1>2 DEF Structural
    <2>3. \A d \in t[n].deps : \E q \in Nodes : t[q].number = d
      BY <1>2, Zenon DEF Structural
    <2> QED
      BY <2>1, <2>2, <2>3
  <1>4. ASSUME NEW n \in Nodes
        PROVE  UNION {ParseList(p) : p \in t[n].scope} \in SUBSET Seq(STRING)
    BY <1>3, ParseType
  <1>5. FromTable(t) \in [Nodes -> [deps: SUBSET Nodes, scope: SUBSET Seq(STRING)]]
    BY <1>3, <1>4 DEF FromTable
  <1> QED
    BY <1>5 DEF Structural

(* The serial graph is well typed. *)
LEMMA SerialType == Serial \in [Nodes -> [deps: SUBSET Nodes, scope: SUBSET Seq(STRING)]]
  BY GraphAssumption DEF GraphAssumption, Serial, Nodes

-----------------------------------------------------------------------------
(* Before the first load there is nothing to get wrong. *)
LEMMA InitInv == Init => IInv
  <1> SUFFICES ASSUME Init PROVE IInv
    OBVIOUS
  <1>1. TypeOK
    BY SerialType DEF Init, TypeOK
  <1>2. Schedulable(graph) /\ phase # "unschedulable"
    BY SerialSchedulable DEF Init
  <1>3. DeclaredInForce /\ ScopesInForce /\ Layered /\ Phased
    BY DEF Init, DeclaredInForce, ScopesInForce, Serial, Layered, Phased
  <1> QED
    BY <1>1, <1>2, <1>3 DEF IInv

(* Loading establishes the invariant whatever the table. *)
LEMMA LoadInv == IInv /\ Load => IInv'
  <1> SUFFICES ASSUME IInv, Load PROVE IInv'
    OBVIOUS
  <1> USE DEF IInv, Load
  <1>1. graph' \in [Nodes -> [deps: SUBSET Nodes, scope: SUBSET Seq(STRING)]] /\ Schedulable(graph')
    BY SoundTable, SerialType, SerialSchedulable DEF TypeOK
  <1>2. TypeOK'
    BY <1>1 DEF TypeOK
  <1>3. waves' = << >>
    BY DEF Phased
  <1>4. DeclaredInForce'
    BY DEF DeclaredInForce, FromTable
  <1>5. Layered' /\ Phased'
    BY <1>3 DEF Layered, Phased
  <1>6. ScopesInForce'
    <2>1. CASE graph' = Serial
      BY <2>1 DEF ScopesInForce, Serial
    <2>2. CASE graph' = FromTable(table) /\ ~Structural(table)
      <3>1. DOMAIN table = Nodes
        BY <2>2, GraphAssumption DEF TypeOK, Structural, Nodes, GraphAssumption
      <3> QED
        BY <2>2, <3>1 DEF ScopesInForce, FromTable
    <2> QED
      BY <2>1, <2>2
  <1> QED
    BY <1>1, <1>2, <1>4, <1>5, <1>6

(* Resolving a conflict keeps it. *)
LEMMA SerializeInv == IInv /\ SerializeConflict => IInv'
  <1> SUFFICES ASSUME IInv, SerializeConflict PROVE IInv'
    OBVIOUS
  <1> USE DEF IInv
  <1>1. PICK c \in Conflicts(graph) : graph' = [graph EXCEPT ![c[2]].deps = @ \cup {c[1]}]
    BY DEF SerializeConflict
  <1>2. /\ c[1] \in Nodes /\ c[2] \in Nodes /\ c[1] # c[2]
        /\ ~Reaches(graph, c[1], c[2])
    BY GraphAssumption DEF Conflicts, Ordered, Nodes, GraphAssumption
  <1>3. Schedulable(graph')
    BY <1>1, <1>2, AddedWaitIsSafe DEF TypeOK
  <1>4. /\ graph' \in [Nodes -> [deps: SUBSET Nodes, scope: SUBSET Seq(STRING)]]
        /\ \A n \in Nodes : graph[n].deps \subseteq graph'[n].deps /\ graph'[n].scope = graph[n].scope
    BY <1>1, <1>2 DEF TypeOK
  <1>5. UNCHANGED <<table, phase, waves, refuted, invalid>> /\ phase = "serialize"
    BY DEF SerializeConflict
  <1>6. TypeOK'
    BY <1>4, <1>5 DEF TypeOK
  <1>7. DeclaredInForce' /\ ScopesInForce'
    BY <1>4, <1>5 DEF DeclaredInForce, ScopesInForce
  <1>8. Layered' /\ Phased'
    BY <1>5 DEF Layered, Phased
  <1> QED
    BY <1>3, <1>5, <1>6, <1>7, <1>8

(* The loop leaves no conflict: "no progress possible" does not happen. *)
LEMMA SerializedInv == IInv /\ Serialized => IInv'
  <1> SUFFICES ASSUME IInv, Serialized PROVE IInv'
    OBVIOUS
  <1> USE DEF IInv, Serialized
  <1>1. Conflicts(graph) = {}
    BY DirectReach DEF Conflicts, Ordered
  <1>2. TypeOK'
    BY DEF TypeOK
  <1>3. DeclaredInForce' /\ ScopesInForce' /\ Layered' /\ Phased'
    BY <1>1 DEF DeclaredInForce, ScopesInForce, Layered, Phased, Earlier
  <1> QED
    BY <1>2, <1>3

(* A wave of ready criteria is a layer of its own. *)
LEMMA PeelInv == IInv /\ PeelWave => IInv'
  <1> SUFFICES ASSUME IInv, PeelWave PROVE IInv'
    OBVIOUS
  <1> USE DEF IInv, PeelWave
  <1> DEFINE m == Len(waves) + 1
  <1>1. Ready \subseteq Nodes
    BY DEF Ready
  <1>2. waves' = Append(waves, Ready) /\ waves \in Seq(SUBSET Nodes) /\ waves' \in Seq(SUBSET Nodes)
    BY <1>1 DEF TypeOK
  <1>3. TypeOK'
    BY <1>2 DEF TypeOK
  <1>4. /\ DOMAIN waves' = 1 .. m /\ m \in Nat /\ waves'[m] = Ready
        /\ \A k \in 1 .. m - 1 : waves'[k] = waves[k]
        /\ DOMAIN waves = 1 .. m - 1
    BY <1>2
  <1>5. \A k \in 1 .. m : Earlier(k)' = Earlier(k)
    BY <1>4 DEF Earlier
  <1>6. Earlier(m) = Scheduled
    BY <1>4 DEF Earlier, Scheduled
  <1>7. Layered'
    <2> SUFFICES ASSUME NEW k \in 1 .. m, NEW n \in waves'[k]
                 PROVE  graph[n].deps \subseteq Earlier(k) /\ n \notin Earlier(k)
      BY <1>4, <1>5 DEF Layered
    <2>1. CASE k = m
      BY <1>4, <1>6, <2>1 DEF Ready
    <2>2. CASE k # m
      BY <1>4, <2>2 DEF Layered
    <2> QED
      BY <2>1, <2>2
  <1>8. DeclaredInForce' /\ ScopesInForce' /\ Phased'
    BY DEF DeclaredInForce, ScopesInForce, Phased
  <1> QED
    BY <1>3, <1>7, <1>8

(* When nothing is ready, nothing is left. *)
LEMMA PeeledInv == IInv /\ Peeled => IInv'
  <1> SUFFICES ASSUME IInv, Peeled PROVE IInv'
    OBVIOUS
  <1> USE DEF IInv, Peeled
  <1>1. Scheduled \subseteq Nodes
    BY DEF TypeOK, Scheduled
  <1>2. Scheduled = Nodes
    <2> DEFINE rest == Nodes \ Scheduled
    <2>1. ASSUME rest # {} PROVE FALSE
      <3>1. PICK n \in rest : graph[n].deps \cap rest = {}
        BY <2>1 DEF Schedulable
      <3>2. graph[n].deps \subseteq Scheduled
        BY <3>1 DEF TypeOK
      <3> QED
        BY <3>2 DEF Ready
    <2> QED
      BY <1>1, <2>1
  <1>3. TypeOK'
    BY <1>2 DEF TypeOK
  <1>4. DeclaredInForce' /\ ScopesInForce' /\ Layered' /\ Phased'
    BY <1>2 DEF DeclaredInForce, ScopesInForce, Layered, Phased, Earlier
  <1> QED
    BY <1>2, <1>3, <1>4

(* Invalidation changes neither graph nor schedule. *)
LEMMA InvalidateInv ==
    ASSUME IInv, (\E R \in (SUBSET Nodes) \ {{}} : Refute(R)) \/ Spread \/ SpreadDone
    PROVE  IInv'
  <1> USE DEF IInv, Refute, Spread, SpreadDone
  <1>1. TypeOK'
    BY DEF TypeOK, Invalidated
  <1>2. /\ UNCHANGED <<table, graph, waves>>
        /\ phase \in {"scheduled", "invalidate"} /\ phase' \in {"invalidate", "done"}
    OBVIOUS
  <1>3. DeclaredInForce' /\ ScopesInForce' /\ Layered' /\ Phased'
    BY <1>2 DEF DeclaredInForce, ScopesInForce, Layered, Phased, Earlier
  <1> QED
    BY <1>1, <1>2, <1>3

(* The conjunction above is an invariant of the graph. *)
THEOREM Inductive == Spec => []IInv
  <1>1. IInv /\ [Next]_vars => IInv'
    <2> SUFFICES ASSUME IInv, [Next]_vars PROVE IInv'
      OBVIOUS
    <2>1. CASE UNCHANGED vars
      BY <2>1 DEF vars, IInv, TypeOK, DeclaredInForce, ScopesInForce, Layered, Phased, Earlier
    <2> QED
      BY <2>1, LoadInv, SerializeInv, SerializedInv, PeelInv, PeeledInv, InvalidateInv DEF Next, Loops
  <1> QED
    BY InitInv, <1>1, PTL DEF Spec

-----------------------------------------------------------------------------
(* Criteria of one wave are not ordered: the waves before it are closed    *)
(* under dependencies, so whatever one of them reaches is there.           *)
LEMMA SameWaveUnordered ==
    ASSUME IInv, NEW k \in DOMAIN waves, NEW a \in waves[k], NEW b \in waves[k]
    PROVE  ~Reaches(graph, a, b)
  <1> USE DEF IInv
  <1>1. DOMAIN waves = 1 .. Len(waves) /\ Len(waves) \in Nat
    BY DEF TypeOK
  <1>2. Earlier(k) \subseteq Nodes
    BY <1>1 DEF TypeOK, Earlier
  <1>3. graph[a].deps \subseteq Earlier(k) /\ b \notin Earlier(k)
    BY DEF Layered
  <1>4. ASSUME NEW n \in Earlier(k) PROVE graph[n].deps \subseteq Earlier(k)
    <2>1. PICK j \in 1 .. k - 1 : n \in waves[j]
      BY DEF Earlier
    <2>2. graph[n].deps \subseteq Earlier(j)
      BY <1>1, <2>1 DEF Layered
    <2>3. Earlier(j) \subseteq Earlier(k)
      BY <1>1, <2>1 DEF Earlier
    <2> QED
      BY <2>2, <2>3
  <1> QED
    BY <1>2, <1>3, <1>4 DEF Reaches

(* No two criteria that may run at the same time can write the same file   *)
(* by paths the code understands, for every plan.                          *)
THEOREM EditsDisjoint == Spec => []NoLostEdit
  <1>1. IInv => NoLostEdit
    <2> SUFFICES ASSUME IInv, NEW k \in DOMAIN waves, NEW a \in waves[k], NEW b \in waves[k],
                        a # b, NEW f \in Writes(a) \cap Writes(b)
                 PROVE  FALSE
      BY DEF NoLostEdit
    <2> USE DEF IInv
    <2>1. a \in Nodes /\ b \in Nodes
      BY DEF TypeOK
    <2>2. ~Ordered(graph, a, b) /\ ~Ordered(graph, b, a)
      BY SameWaveUnordered DEF Ordered
    <2>3. f \in Seq(STRING)
      BY GraphAssumption DEF Writes, GraphAssumption
    <2>4. /\ OverlappingScope(graph[a].scope, graph[b].scope)
          /\ OverlappingScope(graph[b].scope, graph[a].scope)
      <3>1. CASE graph[a].scope = {} \/ graph[b].scope = {}
        BY <3>1 DEF OverlappingScope
      <3>2. CASE graph[a].scope # {} /\ graph[b].scope # {}
        <4>1. PICK p \in table[a].scope, q \in table[b].scope :
                  Understood(p) /\ Understood(q) /\ Names(p, f) /\ Names(q, f)
          BY <3>2 DEF Writes
        <4>2. /\ a \in DOMAIN table /\ graph[a].scope = UNION {ParseList(s) : s \in table[a].scope}
              /\ b \in DOMAIN table /\ graph[b].scope = UNION {ParseList(s) : s \in table[b].scope}
          BY <2>1, <3>2 DEF ScopesInForce
        <4>3. p \in Seq(STRING) /\ q \in Seq(STRING)
          <5> DEFINE Row == [number: Nat, deps: SUBSET Nat, scope: SUBSET Seq(STRING)]
          <5>1. table \in Seq(Row)
            BY GraphAssumption DEF TypeOK, GraphAssumption
          <5> HIDE DEF Row
          <5>2. table[a] \in Row /\ table[b] \in Row
            BY ONLY <4>2, <5>1
          <5> QED
            BY ONLY <4>1, <5>2 DEF Row
        <4>4. p \in graph[a].scope /\ q \in graph[b].scope
          <5>1. ParseList(p) = {p} /\ ParseList(q) = {q}
            BY <4>1, <4>3, UnderstoodPath
          <5> QED
            BY <4>1, <4>2, <5>1
        <4>5. PathsOverlap(p, q) /\ PathsOverlap(q, p)
          BY <2>3, <4>1, <4>3, SharedFileOverlaps
        <4> QED
          BY <4>4, <4>5 DEF OverlappingScope
      <3> QED
        BY <3>1, <3>2
    <2>5. waves # << >>
      BY DEF TypeOK
    <2>6. Conflicts(graph) = {}
      BY <2>5 DEF Phased
    <2>7. a < b \/ b < a
      BY <2>1, GraphAssumption DEF Nodes, GraphAssumption
    <2>8. <<a, b>> \in Conflicts(graph) \/ <<b, a>> \in Conflicts(graph)
      BY <2>1, <2>2, <2>4, <2>7 DEF Conflicts
    <2> QED
      BY <2>6, <2>8
  <1> QED
    BY Inductive, <1>1, PTL

(* load_criterion_graph always returns a graph that can be scheduled. *)
THEOREM Schedule == Spec => []AlwaysSchedulable
  <1>1. IInv => AlwaysSchedulable
    BY DEF IInv, AlwaysSchedulable
  <1> QED
    BY Inductive, <1>1, PTL

(* The order a sound table declares is kept in the waves. *)
THEOREM OrderKept == Spec => []DeclaredOrderKept
  <1>1. IInv => DeclaredOrderKept
    <2> SUFFICES ASSUME IInv, table # << >>, ~Structural(table),
                        NEW k \in DOMAIN waves, NEW n \in waves[k], NEW d \in table[n].deps
                 PROVE  \E j \in 1 .. k - 1 : d \in waves[j]
      BY DEF DeclaredOrderKept
    <2> USE DEF IInv
    <2>1. phase # "load" /\ n \in Nodes
      BY DEF TypeOK, Phased
    <2>2. d \in graph[n].deps
      BY <2>1 DEF DeclaredInForce
    <2> QED
      BY <2>2 DEF Layered, Earlier
  <1> QED
    BY Inductive, <1>1, PTL

(* The graph keeps its state well typed. *)
THEOREM TypeCorrect == Spec => []TypeOK
  <1>1. IInv => TypeOK
    BY DEF IInv
  <1> QED
    BY Inductive, <1>1, PTL

-----------------------------------------------------------------------------
(* What is invalid was refuted or is built on something refuted, and at the *)
(* end nothing built on it is left out.                                     *)
SpreadInv ==
    /\ phase \in {"invalidate", "done"} =>
           \A n \in invalid : n \in refuted \/ \E r \in refuted : Reaches(graph, n, r)
    /\ phase = "done" => Invalidated = {}

(* What a dependency reaches is reached. *)
LEMMA ReachThrough ==
    ASSUME NEW g \in [Nodes -> [deps: SUBSET Nodes, scope: SUBSET Seq(STRING)]],
           NEW n \in Nodes, NEW d \in g[n].deps, NEW r, Reaches(g, d, r)
    PROVE  Reaches(g, n, r)
  <1> SUFFICES ASSUME NEW S \in SUBSET Nodes, g[n].deps \subseteq S,
                      \A m \in S : g[m].deps \subseteq S
               PROVE  r \in S
    BY DEF Reaches
  <1>1. g[d].deps \subseteq S
    OBVIOUS
  <1> QED
    BY <1>1 DEF Reaches

(* with_dependents adds only what is built on something refuted. *)
LEMMA SpreadStep == IInv /\ SpreadInv /\ [Next]_vars => SpreadInv'
  <1> SUFFICES ASSUME IInv, SpreadInv, [Next]_vars PROVE SpreadInv'
    OBVIOUS
  <1>1. CASE Spread
    <2>1. PICK n \in Invalidated : invalid' = invalid \cup {n}
      BY <1>1 DEF Spread
    <2>2. UNCHANGED <<graph, refuted, phase>> /\ phase = "invalidate"
      BY <1>1 DEF Spread
    <2>3. PICK d \in graph[n].deps : d \in invalid
      BY <2>1 DEF Invalidated
    <2>4. /\ n \in Nodes
          /\ graph \in [Nodes -> [deps: SUBSET Nodes, scope: SUBSET Seq(STRING)]]
      BY <2>1 DEF Invalidated, IInv, TypeOK
    <2>5. \E r \in refuted : Reaches(graph, n, r)
      <3>1. CASE d \in refuted
        BY <2>3, <3>1, DirectReach
      <3>2. CASE d \notin refuted
        <4>1. PICK r \in refuted : Reaches(graph, d, r)
          BY <2>2, <2>3, <3>2 DEF SpreadInv
        <4> QED
          BY <2>3, <2>4, <4>1, ReachThrough
      <3> QED
        BY <3>1, <3>2
    <2> QED
      BY <2>1, <2>2, <2>5 DEF SpreadInv
  <1>2. CASE \E R \in (SUBSET Nodes) \ {{}} : Refute(R)
    BY <1>2 DEF Refute, SpreadInv
  <1>3. CASE SpreadDone
    BY <1>3 DEF SpreadDone, SpreadInv, Invalidated
  <1>4. CASE Load \/ SerializeConflict \/ Serialized \/ PeelWave \/ Peeled
    <2>1. phase' \notin {"invalidate", "done"}
      BY <1>4 DEF Load, SerializeConflict, Serialized, PeelWave, Peeled
    <2> QED
      BY <2>1 DEF SpreadInv
  <1>5. CASE UNCHANGED vars
    BY <1>5 DEF vars, SpreadInv, Invalidated
  <1> QED
    BY <1>1, <1>2, <1>3, <1>4, <1>5 DEF Next, Loops

(* with_dependents invalidates exactly what was refuted and what is built   *)
(* on it, for every graph and every refutation: the criteria left out are   *)
(* closed under dependencies, so none of them reaches a refuted one.        *)
THEOREM DependentsExact == Spec => []InvalidatesExactlyDependents
  <1>1. Init => SpreadInv
    BY DEF Init, SpreadInv
  <1>2. IInv /\ SpreadInv => InvalidatesExactlyDependents
    <2> SUFFICES ASSUME IInv, SpreadInv, phase = "done"
                 PROVE  invalid = refuted \cup {n \in Nodes : \E r \in refuted : Reaches(graph, n, r)}
      BY DEF InvalidatesExactlyDependents
    <2>1. /\ refuted \subseteq invalid /\ invalid \subseteq Nodes
          /\ \A n \in Nodes : graph[n].deps \subseteq Nodes
      BY DEF IInv, TypeOK
    <2>2. ASSUME NEW n \in Nodes, NEW r \in refuted, Reaches(graph, n, r), n \notin invalid
          PROVE  FALSE
      <3> DEFINE kept == Nodes \ invalid
      <3>1. \A m \in kept : graph[m].deps \subseteq kept
        BY <2>1 DEF SpreadInv, Invalidated
      <3>2. kept \in SUBSET Nodes /\ n \in kept /\ r \notin kept
        BY <2>1, <2>2
      <3> HIDE DEF kept
      <3> QED
        BY <2>2, <3>1, <3>2 DEF Reaches
    <2>3. \A n \in invalid : n \in refuted \/ \E r \in refuted : Reaches(graph, n, r)
      BY DEF SpreadInv
    <2> QED
      BY <2>1, <2>2, <2>3
  <1> QED
    BY <1>1, <1>2, SpreadStep, Inductive, PTL DEF Spec

-----------------------------------------------------------------------------
(* A table load_graph refuses: no criteria, or a structural fault. *)
Malformed == table = << >> \/ Structural(table)

(* A malformed table leaves the chain in force and one criterion per wave. *)
SerialInv ==
    Malformed =>
        /\ graph = Serial
        /\ Len(waves) <= Criteria
        /\ \A k \in DOMAIN waves : waves[k] = {k}

(* serial: a later criterion reaches every earlier one.  The least member  *)
(* of a closed set between the two would otherwise have a smaller one.     *)
LEMMA SerialReaches ==
    ASSUME NEW a \in Nodes, NEW b \in Nodes, a < b
    PROVE  Reaches(Serial, b, a)
  <1> SUFFICES ASSUME NEW S \in SUBSET Nodes, Serial[b].deps \subseteq S,
                      \A n \in S : Serial[n].deps \subseteq S, a \notin S
               PROVE  FALSE
    BY DEF Reaches
  <1> USE GraphAssumption DEF GraphAssumption, Nodes
  <1> DEFINE lt == {ss \in Nat \X Nat : ss[1] < ss[2]}
  <1> DEFINE T == {n \in S : a < n}
  <1>1. \A n \in Nodes : n > 1 => Serial[n].deps = {n - 1}
    BY DEF Serial
  <1>2. b - 1 \in S /\ a < b - 1
    BY <1>1
  <1>3. T \subseteq Nat /\ T # {}
    <2>1. b - 1 \in T
      BY <1>2
    <2>2. S \subseteq Nat
      OBVIOUS
    <2> QED
      BY <2>1, <2>2
  <1>4. IsWellFoundedOn(lt, Nat)
    BY NatLessThanWellFounded DEF OpToRel
  <1>5. PICK m \in T : \A n \in T : ~(<<n, m>> \in lt)
    <2> HIDE DEF lt, T
    <2> QED
      BY <1>3, <1>4, WFMin
  <1>6. m \in Nodes /\ m > 1 /\ m - 1 \in S
    BY <1>1
  <1>7. m - 1 # a
    BY <1>6
  <1>8. a < m - 1
    BY <1>6, <1>7
  <1>9. <<m - 1, m>> \in lt
    BY <1>6
  <1>10. m - 1 \in T
    BY <1>6, <1>8
  <1> HIDE DEF lt, T
  <1> QED
    BY <1>5, <1>9, <1>10

(* serial: everything is ordered, so no conflict is left to resolve. *)
LEMMA SerialConflictFree == Conflicts(Serial) = {}
  BY SerialReaches DEF Conflicts, Ordered

(* The chain is peeled one criterion at a time. *)
LEMMA SerialPeel ==
    ASSUME IInv, SerialInv, Malformed, PeelWave
    PROVE  Ready = {Len(waves) + 1} /\ Len(waves) + 1 <= Criteria
  <1> USE GraphAssumption DEF GraphAssumption
  <1>1. /\ waves \in Seq(SUBSET Nodes) /\ DOMAIN waves = 1 .. Len(waves) /\ Len(waves) \in Nat
        /\ Len(waves) <= Criteria /\ graph = Serial
        /\ \A k \in 1 .. Len(waves) : waves[k] = {k}
    BY DEF IInv, TypeOK, SerialInv
  <1>2. Scheduled = 1 .. Len(waves)
    BY <1>1 DEF Scheduled
  <1>3. \A n \in Nodes : graph[n].deps = IF n > 1 THEN {n - 1} ELSE {}
    BY <1>1 DEF Serial
  <1> DEFINE m == Len(waves)
  <1> HIDE DEF m
  <1>4. ASSUME NEW n \in Ready PROVE n = m + 1
    <2>1. n \in Nodes /\ n \notin 1 .. m /\ graph[n].deps \subseteq 1 .. m /\ m \in Nat
      BY <1>1, <1>2 DEF Ready, m
    <2>2. n \in Nat /\ n > m
      BY <2>1 DEF Nodes
    <2>3. CASE n > 1
      <3>1. n - 1 \in 1 .. m
        BY <1>3, <2>1, <2>3
      <3> QED
        BY <2>1, <2>2, <3>1
    <2>4. CASE n <= 1
      BY <2>1, <2>2, <2>4
    <2> QED
      BY <2>2, <2>3, <2>4
  <1>5. Ready \subseteq Nodes /\ Ready # {}
    BY DEF Ready, PeelWave
  <1>6. PICK n \in Ready : TRUE
    BY <1>5
  <1>7. n = m + 1 /\ n \in Nodes
    BY <1>4, <1>5, <1>6
  <1>8. Ready = {m + 1}
    BY <1>4, <1>6, <1>7
  <1> QED
    BY <1>7, <1>8 DEF Nodes, m

(* Every step keeps the chain and its waves. *)
LEMMA SerialStep == IInv /\ SerialInv /\ [Next]_vars => SerialInv'
  <1> SUFFICES ASSUME IInv, SerialInv, [Next]_vars PROVE SerialInv'
    OBVIOUS
  <1>0. table' = table
    <2>1. CASE \E R \in (SUBSET Nodes) \ {{}} : Refute(R)
      BY <2>1 DEF Refute
    <2>2. CASE Loops
      BY <2>2 DEF Loops, Load, SerializeConflict, Serialized, PeelWave, Peeled, Spread, SpreadDone
    <2>3. CASE UNCHANGED vars
      BY <2>3 DEF vars
    <2> QED
      BY <2>1, <2>2, <2>3 DEF Next
  <1> SUFFICES ASSUME Malformed PROVE SerialInv'
    BY <1>0 DEF Malformed, Structural, SerialInv
  <1>1. CASE Load
    BY <1>1 DEF Load, SerialInv, Malformed
  <1>2. CASE SerializeConflict
    BY <1>2, SerialConflictFree DEF SerializeConflict, SerialInv
  <1>3. CASE PeelWave
    <2> DEFINE m == Len(waves) + 1
    <2>1. waves' = Append(waves, {m}) /\ m <= Criteria /\ graph' = graph
      BY <1>3, SerialPeel DEF PeelWave
    <2>2. waves \in Seq(SUBSET Nodes) /\ {m} \in SUBSET Nodes
      BY <1>3, SerialPeel DEF IInv, TypeOK, Ready
    <2>3. Len(waves') = m /\ DOMAIN waves' = 1 .. m /\ waves'[m] = {m}
          /\ \A k \in 1 .. m - 1 : waves'[k] = waves[k] /\ k \in DOMAIN waves
      BY <2>1, <2>2
    <2> QED
      BY <2>1, <2>2, <2>3 DEF SerialInv
  <1>4. CASE Serialized \/ Peeled \/ (\E R \in (SUBSET Nodes) \ {{}} : Refute(R)) \/ Spread
             \/ SpreadDone \/ UNCHANGED vars
    <2>1. UNCHANGED <<graph, waves>>
      BY <1>4 DEF Serialized, Peeled, Refute, Spread, SpreadDone, vars
    <2> QED
      BY <2>1 DEF SerialInv
  <1> QED
    BY <1>1, <1>2, <1>3, <1>4 DEF Next, Loops

(* A plan without a sound table runs its criteria one at a time and in      *)
(* order, however many there are.                                           *)
THEOREM MalformedIsSerial == Spec => []MalformedRunsSerially
  <1>1. Init => SerialInv
    BY GraphAssumption DEF Init, SerialInv, GraphAssumption
  <1>2. SerialInv => MalformedRunsSerially
    BY DEF SerialInv, MalformedRunsSerially, Malformed
  <1> QED
    BY <1>1, <1>2, SerialStep, Inductive, PTL DEF Spec

=============================================================================
