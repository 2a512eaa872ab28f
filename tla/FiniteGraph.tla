----------------------------- MODULE FiniteGraph -----------------------------
(***************************************************************************)
(* The graph family of the conjecture campaigns                            *)
(* (agent/conjecture/finite_graph.py): loading the atlas of small graphs   *)
(* and computing the invariants that are recorded for each of its          *)
(* instances.                                                              *)
(*                                                                         *)
(* A line of the atlas is [kind, header, data]: blank, comment or graph;   *)
(* with the optional Graph6 header or not; and its characters less 63, of  *)
(* which the first is the number of vertices (BadByte is a character that  *)
(* Graph6 does not have).  A graph is [n, upper]: upper[k] is the bit of   *)
(* the k-th edge slot.  Vertices are 1..n.                                 *)
(***************************************************************************)
EXTENDS Integers, Sequences, FiniteSetsExt

CONSTANTS Atlases,     \* the files that may be loaded: sequences of lines
          MinInstances \* an atlas with fewer is refused

VARIABLES atlas, next, seen, instances, records, phase
vars == <<atlas, next, seen, instances, records, phase>>

BadByte == 64
Bits == 0..1

Line == [kind : {"blank", "comment", "graph"}, header : BOOLEAN, data : Seq(0..BadByte)]
ASSUME AtlasAssumption == Atlases \subseteq Seq(Line)
ASSUME MinAssumption == MinInstances \in Nat

-----------------------------------------------------------------------------
(* Graph6.                                                                  *)

EdgeSlotCount(n) == (n * (n - 1)) \div 2

Decodes(data) ==
  /\ data # <<>>
  /\ \A k \in DOMAIN data : data[k] # BadByte
  /\ data[1] <= 62
  /\ 6 * (Len(data) - 1) >= EdgeSlotCount(data[1])

(* What the bits of a character weigh, the first one most.                  *)
Weights == <<32, 16, 8, 4, 2, 1>>

DecodeGraph6(data) ==
  [ n |-> data[1],
    upper |-> [k \in 1..EdgeSlotCount(data[1]) |->
                 (data[2 + (k - 1) \div 6] \div Weights[((k - 1) % 6) + 1]) % 2] ]

(* The c-th character behind the first, of six bits; the last one is filled *)
(* up with zeros on the right.                                              *)
Char(g, c) ==
  LET Bit(i) == IF 6 * (c - 1) + i <= Len(g.upper) THEN g.upper[6 * (c - 1) + i] ELSE 0
  IN 32 * Bit(1) + 16 * Bit(2) + 8 * Bit(3) + 4 * Bit(4) + 2 * Bit(5) + Bit(6)

CharCount(g) == (Len(g.upper) + 5) \div 6

(* Mutant: the last character is not filled up.                             *)
EncodeUnpadded(g) ==
  <<g.n>> \o [c \in 1..CharCount(g) |->
               IF 6 * c <= Len(g.upper) THEN Char(g, c)
               ELSE Char(g, c) \div Weights[Len(g.upper) - 6 * (c - 1)]]

EncodeGraph6(g) == <<g.n>> \o [c \in 1..CharCount(g) |-> Char(g, c)]

-----------------------------------------------------------------------------
(* A graph as the code reads its bits: row by row.                          *)

Vertices(g) == 1..g.n

Slot(n, i, j) == (i - 1) * n - (i * (i - 1)) \div 2 + (j - i)

Adj(g, i, j) ==
  \/ i < j /\ g.upper[Slot(g.n, i, j)] = 1
  \/ j < i /\ g.upper[Slot(g.n, j, i)] = 1

Degree(g, i) == Cardinality({j \in Vertices(g) : Adj(g, i, j)})

Triangles(g) ==
  {t \in Vertices(g) \X Vertices(g) \X Vertices(g) :
     /\ t[1] < t[2] /\ t[2] < t[3]
     /\ Adj(g, t[1], t[2]) /\ Adj(g, t[2], t[3]) /\ Adj(g, t[1], t[3])}

(* Breadth-first search: the vertices that are met, with their distances;  *)
(* d is the round in which they are.                                        *)
Meet(g, near, d) ==
  LET met == {v \in Vertices(g) \ DOMAIN near : \E u \in DOMAIN near : Adj(g, u, v)}
  IN [v \in DOMAIN near \cup met |-> IF v \in met THEN d ELSE near[v]]

SearchRounds(g, start) ==
  LET Within[d \in 0..g.n] ==
        IF d = 0 THEN [v \in {start} |-> 0] ELSE Meet(g, Within[d - 1], d)
  IN Within
DistancesFrom(g, start) == SearchRounds(g, start)[g.n]

(* A search from every vertex that none has met yet.                        *)
SearchFrom(g, found, s) ==
  IF \E i \in DOMAIN found : s \in DOMAIN found[i] THEN found
  ELSE Append(found, DistancesFrom(g, s))

SearchesUpTo(g) ==
  LET Found[s \in 0..g.n] == IF s = 0 THEN <<>> ELSE SearchFrom(g, Found[s - 1], s)
  IN Found
Searches(g) == SearchesUpTo(g)[g.n]

(* One eccentricity per search.                                             *)
Diameter(searches) ==
  IF Len(searches) # 1 THEN -1 ELSE Max({searches[1][v] : v \in DOMAIN searches[1]})

(* Mutant: only the component of the first vertex is coloured.              *)
BipartiteFromFirst(g, searches) ==
  \A i \in DOMAIN searches \cap {1} : \A u, v \in DOMAIN searches[i] :
    Adj(g, u, v) => searches[i][u] % 2 # searches[i][v] % 2

(* A vertex gets the colour that its neighbour on the way here has not.     *)
IsBipartite(g, searches) ==
  \A i \in DOMAIN searches : \A u, v \in DOMAIN searches[i] :
    Adj(g, u, v) => searches[i][u] % 2 # searches[i][v] % 2

SumsOf(s) ==
  LET UpTo[k \in 0..Len(s)] == IF k = 0 THEN 0 ELSE UpTo[k - 1] + s[k]
  IN UpTo

(* sorted, the greatest first: the k-th is the greatest that k of the       *)
(* elements reach.                                                          *)
AtLeast(s, x) == Cardinality({i \in DOMAIN s : s[i] >= x})
Descending(s) ==
  [k \in DOMAIN s |-> Max({s[i] : i \in {j \in DOMAIN s : AtLeast(s, s[j]) >= k}})]

ComputeInvariants(g) ==
  LET degrees == [i \in Vertices(g) |-> Degree(g, i)]
      searches == Searches(g)
  IN [ n |-> g.n, edge_count |-> SumsOf(degrees)[g.n] \div 2,
       degree_sequence |-> Descending(degrees), triangle_count |-> Cardinality(Triangles(g)),
       connected_components |-> Len(searches), diameter |-> Diameter(searches),
       is_bipartite |-> IsBipartite(g, searches) ]

-----------------------------------------------------------------------------
(* Loading and recording, one line or instance per step.                    *)

Init ==
  /\ atlas \in Atlases
  /\ next = 1 /\ seen = {} /\ instances = <<>> /\ records = <<>>
  /\ phase = "loading"

Text(line) == <<line.header, line.data>>

SkipLine ==
  /\ phase = "loading" /\ next <= Len(atlas)
  /\ atlas[next].kind # "graph" \/ Text(atlas[next]) \in seen
  /\ next' = next + 1
  /\ UNCHANGED <<atlas, seen, instances, records, phase>>

LoadLine ==
  /\ phase = "loading" /\ next <= Len(atlas)
  /\ atlas[next].kind = "graph" /\ Text(atlas[next]) \notin seen
  /\ seen' = seen \cup {Text(atlas[next])}
  /\ IF Decodes(atlas[next].data)
     THEN LET g == DecodeGraph6(atlas[next].data)
          IN /\ instances' = Append(instances, [graph |-> g, graph6 |-> EncodeGraph6(g)])
             /\ next' = next + 1
             /\ UNCHANGED phase
     ELSE phase' = "raised" /\ UNCHANGED <<next, instances>>
  /\ UNCHANGED <<atlas, records>>

(* Mutant: however few they are.                                            *)
EndLoadAnyway ==
  /\ phase = "loading" /\ next > Len(atlas)
  /\ phase' = "recording"
  /\ UNCHANGED <<atlas, next, seen, instances, records>>

EndLoad ==
  /\ phase = "loading" /\ next > Len(atlas)
  /\ phase' = IF Len(instances) < MinInstances THEN "raised" ELSE "recording"
  /\ UNCHANGED <<atlas, next, seen, instances, records>>

RecordInstance ==
  /\ phase = "recording" /\ Len(records) < Len(instances)
  /\ LET i == instances[Len(records) + 1]
     IN records' = Append(records, [id |-> i.graph6, invariants |-> ComputeInvariants(i.graph)])
  /\ UNCHANGED <<atlas, next, seen, instances, phase>>

EndRecords ==
  /\ phase = "recording" /\ Len(records) = Len(instances)
  /\ phase' = "done"
  /\ UNCHANGED <<atlas, next, seen, instances, records>>

Next == SkipLine \/ LoadLine \/ EndLoad \/ RecordInstance \/ EndRecords

Spec == Init /\ [][Next]_vars

-----------------------------------------------------------------------------
(* What the invariants mean, said without a search.                         *)

Edge(g, u, v) == u # v /\ Adj(g, u, v)
Edges(g) == {e \in kSubset(2, Vertices(g)) : \E u, v \in e : Edge(g, u, v)}

Closed(g, S) == \A u \in S, v \in Vertices(g) : Edge(g, u, v) => v \in S
Components(g) ==
  {C \in (SUBSET Vertices(g)) \ {{}} :
     Closed(g, C) /\ \A D \in (SUBSET C) \ {{}} : Closed(g, D) => D = C}

Walks(g) ==
  LET W[k \in 0..g.n] ==
        IF k = 0 THEN {<<v, v>> : v \in Vertices(g)}
        ELSE W[k - 1] \cup {p \in Vertices(g) \X Vertices(g) :
                              \E v \in Vertices(g) : <<p[1], v>> \in W[k - 1] /\ Edge(g, v, p[2])}
  IN W
TrueDiameter(g) ==
  LET W == Walks(g)
  IN CHOOSE d \in 0..g.n : W[d] = W[g.n] /\ \A e \in 0..(d - 1) : W[e] # W[g.n]

Near(g, u, d) == {v \in Vertices(g) : <<u, v>> \in Walks(g)[d]}
Eccentricity(g, u) ==
  CHOOSE d \in 0..g.n :
    Near(g, u, d) = Vertices(g) /\ \A e \in 0..(d - 1) : Near(g, u, e) # Vertices(g)

Isomorphic(g, h) ==
  /\ g.n = h.n
  /\ \E p \in [Vertices(g) -> Vertices(g)] :
       /\ \A u, v \in Vertices(g) : u # v => p[u] # p[v] /\ Adj(g, u, v) = Adj(h, p[u], p[v])

(* The variables have their types, and an atlas that is accepted was read   *)
(* to its end.                                                              *)
TypeOK ==
  /\ phase \in {"loading", "raised", "recording", "done"}
  /\ \A i \in DOMAIN instances :
       /\ instances[i].graph.upper \in [1..EdgeSlotCount(instances[i].graph.n) -> Bits]
       /\ instances[i].graph6[1] = instances[i].graph.n
  /\ Len(records) <= Len(instances)
  /\ phase \in {"recording", "done"} => next = Len(atlas) + 1 /\ Len(instances) >= MinInstances

(* What is recorded under an id is about the graph of that id: the id       *)
(* decodes to the instance's bits, and every way of writing those bits      *)
(* (padding, trailing bytes, header) leads to the same id.                  *)
IdsNameTheirGraph ==
  /\ \A i \in DOMAIN instances :
       /\ Decodes(instances[i].graph6)
       /\ DecodeGraph6(instances[i].graph6) = instances[i].graph
  /\ \A i, j \in DOMAIN instances :
       instances[i].graph = instances[j].graph => instances[i].graph6 = instances[j].graph6

(* All but the diameter say what their names say.  What is recorded as the  *)
(* diameter of a graph in one piece is how far vertex 1 is from the others; *)
(* see DiametersAreRight.                                                   *)
Describes(inv, g) ==
  /\ inv.n = g.n
  /\ inv.edge_count = Cardinality(Edges(g))
  /\ inv.triangle_count = Cardinality({t \in kSubset(3, Vertices(g)) : kSubset(2, t) \subseteq Edges(g)})
  /\ inv.connected_components = Cardinality(Components(g))
  /\ inv.is_bipartite = \E side \in SUBSET Vertices(g) :
                          \A e \in Edges(g) : Cardinality(e \cap side) = 1
  /\ \A k \in 1..(g.n - 1) : inv.degree_sequence[k] >= inv.degree_sequence[k + 1]
  /\ \A d \in 0..g.n : Cardinality({k \in Vertices(g) : inv.degree_sequence[k] = d})
                       = Cardinality({v \in Vertices(g) : Degree(g, v) = d})
  /\ inv.diameter = IF Cardinality(Components(g)) = 1 THEN Eccentricity(g, 1) ELSE -1

(* The recorded numbers of vertices, edges, triangles and components, the   *)
(* sorted degrees and whether there are two sides are those of the graph,   *)
(* and the value recorded as its diameter is exactly the eccentricity of    *)
(* its first vertex (finite_graph.py:142).                                  *)
InvariantsAreRight ==
  phase = "done" =>
    \A i \in DOMAIN records : Describes(records[i].invariants, instances[i].graph)

(* What is recorded as the diameter is the diameter, and -1 of a graph that *)
(* is not in one piece (finite_graph.py:38).                                *)
DiametersAreRight ==
  phase = "done" =>
    \A i \in DOMAIN records :
      LET g == instances[i].graph
      IN records[i].invariants.diameter =
           IF Cardinality(Components(g)) = 1 THEN TrueDiameter(g) ELSE -1

(* No two instances are the same graph up to the names of its vertices      *)
(* (finite_graph.py:5 and 120).                                             *)
AtlasCollapsed ==
  phase = "done" =>
    \A i \in DOMAIN instances : \A j \in 1..(i - 1) :
      ~Isomorphic(instances[i].graph, instances[j].graph)

=============================================================================
