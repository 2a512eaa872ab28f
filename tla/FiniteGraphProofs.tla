-------------------------- MODULE FiniteGraphProofs --------------------------
(***************************************************************************)
(* Theorems about the loading and recording of an atlas, for every atlas,   *)
(* checked by TLAPS: Graph6 is read back as it is written, and so an id     *)
(* names one graph; and what compute_invariants finds by searching and      *)
(* counting are the edges, triangles, degrees, components and colours that  *)
(* the graph has, and as its diameter the eccentricity of its first vertex, *)
(* which is at least half the diameter.                                     *)
(***************************************************************************)
EXTENDS FiniteGraph, LoopInduction, FunctionTheorems

-----------------------------------------------------------------------------
(* Graph6.                                                                  *)

Graphs == [n : Nat, upper : Seq(Bits)]
WellFormed(g) == g \in Graphs /\ g.n <= 62 /\ Len(g.upper) = EdgeSlotCount(g.n)

LEMMA SlotsAreCounted == ASSUME NEW n \in Nat PROVE EdgeSlotCount(n) \in Nat
<1>1. n * (n - 1) \in Nat
  <2>1. CASE n = 0
    BY <2>1
  <2>2. CASE n # 0
    <3>1. n - 1 \in Nat
      BY <2>2
    <3>. HIDE <2>2
    <3>. QED  BY <3>1
  <2>. QED  BY <2>1, <2>2
<1>2. \A m \in Nat : m \div 2 \in Nat
  OBVIOUS
<1>. QED  BY <1>1, <1>2 DEF EdgeSlotCount

Sextets == {x \in Nat : x <= 63}

LEMMA Widened ==
  ASSUME NEW S, NEW T, S \subseteq T, NEW s \in Seq(S) PROVE s \in Seq(T)
OBVIOUS

LEMMA Elements ==
  ASSUME NEW S, NEW s \in Seq(S)
  PROVE  /\ Len(s) \in Nat /\ DOMAIN s = 1..Len(s) /\ \A k \in DOMAIN s : s[k] \in S
         /\ s # <<>> <=> Len(s) # 0
OBVIOUS

LEMMA PlacesOfBits ==
  ASSUME NEW k \in Nat \ {0}
  PROVE  LET c == ((k - 1) \div 6) + 1
             j == ((k - 1) % 6) + 1
         IN c \in Nat \ {0} /\ j \in 1..6 /\ k = 6 * (c - 1) + j
OBVIOUS

LEMMA PlaceIsThere ==
  ASSUME NEW c \in Nat \ {0}, NEW j \in 1..6, NEW m \in Nat, NEW slots \in Nat,
         6 * (c - 1) + j <= slots, slots <= 6 * m
  PROVE  c <= m
OBVIOUS

LEMMA CharBits ==
  ASSUME NEW g \in Graphs, NEW c \in Nat \ {0}
  PROVE  /\ Char(g, c) \in Sextets
         /\ \A j \in 1..6 : 6 * (c - 1) + j <= Len(g.upper) =>
              (Char(g, c) \div Weights[j]) % 2 = g.upper[6 * (c - 1) + j]
<1>. DEFINE at(i) == 6 * (c - 1) + i
            Bit(i) == IF at(i) <= Len(g.upper) THEN g.upper[at(i)] ELSE 0
            sum == 32 * Bit(1) + 16 * Bit(2) + 8 * Bit(3) + 4 * Bit(4) + 2 * Bit(5) + Bit(6)
<1>1. Char(g, c) = sum
  BY DEF Char
<1>2. g.upper \in Seq(Bits)
  BY DEF Graphs
<1>3. \A i \in 1..6 : at(i) \in Nat \ {0}
  OBVIOUS
<1>4. \A i \in 1..6 : Bit(i) \in Bits
  <2>1. \A k \in Nat \ {0} : k <= Len(g.upper) => g.upper[k] \in Bits
    BY <1>2
  <2>. HIDE DEF at
  <2>2. 0 \in Bits
    BY DEF Bits
  <2>. QED  BY <1>3, <2>1, <2>2
<1>5. \A i \in 1..6 : at(i) <= Len(g.upper) => Bit(i) = g.upper[at(i)]
  OBVIOUS
<1>. HIDE DEF Bit
<1>6. /\ sum \in Sextets
      /\ (sum \div 32) % 2 = Bit(1) /\ (sum \div 16) % 2 = Bit(2) /\ (sum \div 8) % 2 = Bit(3)
      /\ (sum \div 4) % 2 = Bit(4) /\ (sum \div 2) % 2 = Bit(5) /\ (sum \div 1) % 2 = Bit(6)
  <2>1. /\ Bit(1) \in Bits /\ Bit(2) \in Bits /\ Bit(3) \in Bits
        /\ Bit(4) \in Bits /\ Bit(5) \in Bits /\ Bit(6) \in Bits
    BY <1>4
  <2>2. PICK b1 \in Bits, b2 \in Bits, b3 \in Bits, b4 \in Bits, b5 \in Bits, b6 \in Bits :
          /\ b1 = Bit(1) /\ b2 = Bit(2) /\ b3 = Bit(3)
          /\ b4 = Bit(4) /\ b5 = Bit(5) /\ b6 = Bit(6)
    BY <2>1
  <2>3. sum = 32 * b1 + 16 * b2 + 8 * b3 + 4 * b4 + 2 * b5 + b6
    BY <2>2
  <2>. HIDE DEF sum
  <2>4. /\ sum \in Sextets
        /\ (sum \div 32) % 2 = b1 /\ (sum \div 16) % 2 = b2 /\ (sum \div 8) % 2 = b3
        /\ (sum \div 4) % 2 = b4 /\ (sum \div 2) % 2 = b5 /\ (sum \div 1) % 2 = b6
    BY <2>3 DEF Bits, Sextets
  <2>. QED  BY <2>2, <2>4
<1>. HIDE DEF sum, at
<1>7. /\ Weights[1] = 32 /\ Weights[2] = 16 /\ Weights[3] = 8
      /\ Weights[4] = 4 /\ Weights[5] = 2 /\ Weights[6] = 1
  BY DEF Weights
<1>8. \A j \in 1..6 : (sum \div Weights[j]) % 2 = Bit(j)
  BY <1>6, <1>7
<1>. QED  BY <1>1, <1>5, <1>6, <1>8 DEF at

(* A graph is written with characters that Graph6 has, and is read back as  *)
(* it was.                                                                  *)
LEMMA GraphIsReadBack ==
  ASSUME NEW g, WellFormed(g)
  PROVE  Decodes(EncodeGraph6(g)) /\ DecodeGraph6(EncodeGraph6(g)) = g
<1>. DEFINE m == CharCount(g)
            chars == [c \in 1..m |-> Char(g, c)]
            data == EncodeGraph6(g)
            slots == EdgeSlotCount(g.n)
<1>1. /\ g \in Graphs /\ g.n \in Nat /\ g.n <= 62 /\ g.upper \in Seq(Bits) /\ Len(g.upper) = slots
      /\ g = [n |-> g.n, upper |-> g.upper]
  BY DEF WellFormed, Graphs
<1>2. slots \in Nat
  BY <1>1, SlotsAreCounted
<1>3. m \in Nat /\ 6 * m >= slots
  BY <1>1, <1>2 DEF CharCount
<1>4. data = <<g.n>> \o chars
  BY DEF EncodeGraph6
<1>. HIDE DEF m, slots, data
<1>5. chars \in Seq(Sextets) /\ Len(chars) = m /\ \A c \in 1..m : chars[c] = Char(g, c)
  <2>1. \A c \in 1..m : c \in Nat \ {0}
    BY <1>3
  <2>2. \A c \in 1..m : Char(g, c) \in Sextets
    BY <1>1, <2>1, CharBits
  <2>. QED  BY <1>3, <2>2
<1>. HIDE DEF chars
<1>6. /\ data \in Seq(Sextets) /\ Len(data) = m + 1 /\ data[1] = g.n
      /\ \A c \in 1..m : data[c + 1] = Char(g, c)
  <2>1. g.n \in Sextets
    BY <1>1 DEF Sextets
  <2>. QED  BY <1>3, <1>4, <1>5, <2>1
<1>7. Decodes(data)
  <2>1. \A k \in DOMAIN data : data[k] \in Sextets
    BY <1>6, Elements
  <2>2. \A k \in DOMAIN data : data[k] # BadByte
    BY <2>1 DEF BadByte, Sextets
  <2>3. data # <<>> /\ data[1] <= 62
    <3>1. Len(data) # 0
      BY <1>3, <1>6
    <3>2. data # <<>>
      BY <1>6, <3>1, Elements
    <3>3. data[1] = g.n
      BY <1>6
    <3>. QED  BY <1>1, <3>2, <3>3
  <2>4. 6 * (Len(data) - 1) >= slots /\ slots = EdgeSlotCount(data[1])
    BY <1>2, <1>3, <1>6 DEF slots
  <2>. QED  BY <2>2, <2>3, <2>4 DEF Decodes
<1>8. ASSUME NEW k \in 1..slots
      PROVE  (data[2 + (k - 1) \div 6] \div Weights[((k - 1) % 6) + 1]) % 2 = g.upper[k]
  <2>. DEFINE c == ((k - 1) \div 6) + 1
              j == ((k - 1) % 6) + 1
  <2>1. c \in Nat \ {0} /\ j \in 1..6 /\ k = 6 * (c - 1) + j
    BY <1>2, PlacesOfBits
  <2>2. 2 + (k - 1) \div 6 = c + 1
    BY <1>2
  <2>. HIDE DEF c, j
  <2>3. c \in 1..m
    BY <1>2, <1>3, <2>1, PlaceIsThere
  <2>4. data[2 + (k - 1) \div 6] = Char(g, c)
    BY <1>6, <2>2, <2>3
  <2>5. (Char(g, c) \div Weights[j]) % 2 = g.upper[k]
    <3>1. 6 * (c - 1) + j <= Len(g.upper)
      BY <1>1, <2>1
    <3>. QED  BY <1>1, <2>1, <3>1, CharBits
  <2>. QED  BY <2>4, <2>5 DEF j
<1>9. DecodeGraph6(data).upper = g.upper
  <2>1. DecodeGraph6(data).upper = [k \in 1..slots |-> g.upper[k]]
    BY <1>6, <1>8 DEF DecodeGraph6, slots
  <2>2. g.upper = [k \in 1..slots |-> g.upper[k]]
    BY <1>1, <1>2
  <2>. QED  BY <2>1, <2>2
<1>10. DecodeGraph6(data) = [n |-> g.n, upper |-> g.upper]
  <2>1. DecodeGraph6(data) = [n |-> data[1], upper |-> DecodeGraph6(data).upper]
    BY DEF DecodeGraph6
  <2>. QED  BY <1>6, <1>9, <2>1
<1>. QED  BY <1>1, <1>7, <1>10 DEF data

(* What is read is a graph.                                                 *)
LEMMA WhatIsReadIsAGraph ==
  ASSUME NEW data \in Seq(0..BadByte), Decodes(data)
  PROVE  WellFormed(DecodeGraph6(data))
<1>. DEFINE slots == EdgeSlotCount(data[1])
            bit(k) == (data[2 + (k - 1) \div 6] \div Weights[((k - 1) % 6) + 1]) % 2
            bits == [k \in 1..slots |-> bit(k)]
<1>1. data[1] \in Nat /\ data[1] <= 62 /\ 6 * (Len(data) - 1) >= slots /\ Len(data) \in Nat \ {0}
  <2>1. data # <<>> /\ data[1] <= 62
    BY DEF Decodes
  <2>2. data[1] \in Nat /\ Len(data) \in Nat \ {0}
    <3>1. data \in Seq(Nat)
      BY Widened, 0..BadByte \subseteq Nat
    <3>2. Len(data) \in Nat \ {0} /\ 1 \in DOMAIN data
      BY <2>1, <3>1, Elements
    <3>. QED  BY <3>1, <3>2, Elements
  <2>3. 6 * (Len(data) - 1) >= slots
    BY DEF Decodes
  <2>. HIDE DEF slots
  <2>. QED  BY <2>1, <2>2, <2>3
<1>2. slots \in Nat
  BY <1>1, SlotsAreCounted
<1>3. ASSUME NEW k \in 1..slots PROVE bit(k) \in Bits
  <2>. DEFINE c == ((k - 1) \div 6) + 1
              j == ((k - 1) % 6) + 1
  <2>1. c \in Nat \ {0} /\ j \in 1..6 /\ k = 6 * (c - 1) + j
    BY <1>2, PlacesOfBits
  <2>2. 2 + (k - 1) \div 6 = c + 1
    BY <1>2
  <2>. HIDE DEF c, j, slots
  <2>3. c + 1 \in 1..Len(data)
    <3>1. Len(data) - 1 \in Nat /\ 6 * (c - 1) + j <= slots /\ slots <= 6 * (Len(data) - 1)
      BY <1>1, <1>2, <2>1
    <3>2. c <= Len(data) - 1
      BY <1>2, <2>1, <3>1, PlaceIsThere
    <3>. QED  BY <1>1, <2>1, <3>2
  <2>4. data[c + 1] \in Nat
    <3>1. data \in Seq(Nat)
      BY Widened, 0..BadByte \subseteq Nat
    <3>. QED  BY <2>3, <3>1, Elements
  <2>5. Weights[j] \in {32, 16, 8, 4, 2, 1}
    BY <2>1 DEF Weights
  <2>6. \A x \in Nat : (x \div Weights[j]) % 2 \in Bits
    BY <2>5 DEF Bits
  <2>. QED  BY <2>2, <2>4, <2>6 DEF j
<1>4. DecodeGraph6(data) = [n |-> data[1], upper |-> bits]
  BY DEF DecodeGraph6
<1>. HIDE DEF bit, slots
<1>5. bits \in Seq(Bits) /\ Len(bits) = slots
  BY <1>2, <1>3
<1>. HIDE DEF bits
<1>. QED  BY <1>1, <1>4, <1>5 DEF WellFormed, Graphs, slots

-----------------------------------------------------------------------------
(* Loading.  An instance is a graph with its own text; the records follow   *)
(* the instances, and none is made while the atlas is read.                 *)

Loaded == {[graph |-> g, graph6 |-> EncodeGraph6(g)] : g \in {h \in Graphs : WellFormed(h)}}
IsList(s) == \E S : s \in Seq(S)
RecordOf(i) == [id |-> i.graph6, invariants |-> ComputeInvariants(i.graph)]

LoadInv ==
  /\ atlas \in Seq(Line) /\ next \in Nat \ {0} /\ next <= Len(atlas) + 1
  /\ instances \in Seq(Loaded) /\ IsList(records)
  /\ Len(records) <= Len(instances)
  /\ \A i \in DOMAIN records : records[i] = RecordOf(instances[i])
  /\ phase \in {"loading", "raised", "recording", "done"}
  /\ phase = "loading" => records = <<>>
  /\ phase \in {"recording", "done"} => next = Len(atlas) + 1 /\ Len(instances) >= MinInstances

LEMMA LongerList ==
  ASSUME NEW s, NEW x, IsList(s)
  PROVE  /\ IsList(Append(s, x)) /\ Len(s) \in Nat /\ Len(Append(s, x)) = Len(s) + 1
         /\ DOMAIN s = 1..Len(s) /\ DOMAIN Append(s, x) = 1..(Len(s) + 1)
         /\ \A i \in 1..Len(s) : Append(s, x)[i] = s[i]
         /\ Append(s, x)[Len(s) + 1] = x
<1>1. PICK S : s \in Seq(S)
  BY DEF IsList
<1>2. s \in Seq(S \cup {x})
  BY <1>1, Widened
<1>3. Append(s, x) \in Seq(S \cup {x})
  BY <1>2
<1>. QED  BY <1>1, <1>2, <1>3 DEF IsList

LEMMA InstanceIsLoaded ==
  ASSUME NEW i \in Loaded
  PROVE  WellFormed(i.graph) /\ i.graph6 = EncodeGraph6(i.graph)
BY DEF Loaded

LEMMA LoadInitially == Init => LoadInv
<1>. SUFFICES ASSUME Init PROVE LoadInv
  OBVIOUS
<1>1. atlas \in Seq(Line)
  BY AtlasAssumption DEF Init
<1>2. instances = <<>> /\ records = <<>> /\ next = 1 /\ phase = "loading"
  BY DEF Init
<1>3. IsList(<<>>) /\ <<>> \in Seq(Loaded) /\ Len(<<>>) = 0 /\ DOMAIN <<>> = {}
  BY DEF IsList
<1>4. Len(atlas) \in Nat
  BY <1>1
<1>. HIDE DEF Line, Loaded
<1>. QED  BY <1>1, <1>2, <1>3, <1>4 DEF LoadInv

LEMMA LoadStep == LoadInv /\ [Next]_vars => LoadInv'
<1>. SUFFICES ASSUME LoadInv, [Next]_vars PROVE LoadInv'
  OBVIOUS
<1>. USE DEF LoadInv
<1>0. Len(atlas) \in Nat /\ Len(instances) \in Nat
  BY Elements
<1>1. CASE SkipLine
  BY <1>0, <1>1 DEF SkipLine
<1>2. CASE LoadLine
  <2>1. /\ UNCHANGED <<atlas, records>> /\ records = <<>> /\ next <= Len(atlas) /\ phase = "loading"
        /\ DOMAIN records = {}
    BY <1>2 DEF LoadLine
  <2>2. CASE Decodes(atlas[next].data)
    <3>. DEFINE g == DecodeGraph6(atlas[next].data)
                i == [graph |-> g, graph6 |-> EncodeGraph6(g)]
    <3>1. next' = next + 1 /\ phase' = phase /\ instances' = Append(instances, i)
      BY <1>2, <2>2 DEF LoadLine
    <3>2. atlas[next].data \in Seq(0..BadByte)
      <4>1. next \in DOMAIN atlas
        BY <1>0, <2>1, Elements
      <4>2. atlas[next] \in Line
        BY <4>1, Elements
      <4>. QED  BY <4>2 DEF Line
    <3>3. WellFormed(g)
      BY <2>2, <3>2, WhatIsReadIsAGraph
    <3>. HIDE DEF g
    <3>4. i \in Loaded
      BY <3>3 DEF Loaded, WellFormed
    <3>. HIDE DEF i
    <3>5. instances' \in Seq(Loaded) /\ Len(instances') = Len(instances) + 1
      BY <3>1, <3>4
    <3>. QED  BY <1>0, <2>1, <3>1, <3>5
  <2>3. CASE ~Decodes(atlas[next].data)
    <3>1. phase' = "raised" /\ UNCHANGED <<next, instances>>
      BY <1>2, <2>3 DEF LoadLine
    <3>. QED  BY <2>1, <3>1
  <2>. QED  BY <2>2, <2>3
<1>3. CASE EndLoad
  <2>1. next = Len(atlas) + 1
    BY <1>0, <1>3 DEF EndLoad
  <2>. QED  BY <1>0, <1>3, <2>1, MinAssumption DEF EndLoad
<1>4. CASE RecordInstance
  <2>. DEFINE k == Len(records) + 1
              r == RecordOf(instances[k])
  <2>1. /\ UNCHANGED <<atlas, next, instances, phase>> /\ phase = "recording"
        /\ Len(records) < Len(instances) /\ records' = Append(records, r)
    BY <1>4 DEF RecordInstance, RecordOf
  <2>. HIDE DEF r
  <2>2. /\ IsList(records') /\ Len(records) \in Nat /\ Len(records') = k
        /\ DOMAIN records = 1..Len(records) /\ DOMAIN records' = 1..k
        /\ \A i \in 1..Len(records) : records'[i] = records[i]
        /\ records'[k] = r
    BY <2>1, LongerList
  <2>3. \A i \in DOMAIN records' : records'[i] = RecordOf(instances'[i])
    BY <2>1, <2>2 DEF r
  <2>4. Len(records') <= Len(instances')
    BY <1>0, <2>1, <2>2
  <2>. HIDE DEF k
  <2>. QED  BY <2>1, <2>2, <2>3, <2>4
<1>5. CASE EndRecords
  BY <1>5 DEF EndRecords
<1>6. CASE UNCHANGED vars
  BY <1>6 DEF vars
<1>. QED  BY <1>1, <1>2, <1>3, <1>4, <1>5, <1>6 DEF Next

LEMMA LoadInvariant == Spec => []LoadInv
BY LoadInitially, LoadStep, PTL DEF Spec

(* load_atlas keeps only whole graphs: the bits of every edge slot and the  *)
(* text that begins with the number of vertices; it goes on to the records  *)
(* only from the end of the file and with enough instances.  For any atlas. *)
THEOREM GraphTypes == Spec => []TypeOK
<1>1. ASSUME LoadInv PROVE TypeOK
  <2>1. ASSUME NEW i \in DOMAIN instances
        PROVE  /\ instances[i].graph.upper \in [1..EdgeSlotCount(instances[i].graph.n) -> Bits]
               /\ instances[i].graph6[1] = instances[i].graph.n
    <3>. DEFINE g == instances[i].graph
    <3>1. WellFormed(g) /\ instances[i].graph6 = EncodeGraph6(g)
      BY <1>1, <2>1, Elements, InstanceIsLoaded DEF LoadInv
    <3>. HIDE DEF g
    <3>2. g.upper \in Seq(Bits) /\ Len(g.upper) = EdgeSlotCount(g.n)
      BY <3>1 DEF WellFormed, Graphs
    <3>3. g.upper \in [1..EdgeSlotCount(g.n) -> Bits]
      BY <3>2
    <3>4. DecodeGraph6(EncodeGraph6(g)).n = g.n
      BY <3>1, GraphIsReadBack
    <3>5. EncodeGraph6(g)[1] = g.n
      BY <3>4 DEF DecodeGraph6
    <3>. QED  BY <3>1, <3>3, <3>5 DEF g
  <2>. QED  BY <1>1, <2>1 DEF LoadInv, TypeOK
<1>. QED  BY <1>1, LoadInvariant, PTL

(* The text that becomes the id of an instance is written by encode_graph6  *)
(* from what decode_graph6 has read, whatever header, padding or trailing   *)
(* bytes the line had: it decodes to the bits of the instance again, for    *)
(* every graph of up to 62 vertices, and equal bits have one id.            *)
THEOREM IdsAreOfTheirGraph == Spec => []IdsNameTheirGraph
<1>1. ASSUME LoadInv PROVE IdsNameTheirGraph
  <2>1. ASSUME NEW i \in DOMAIN instances
        PROVE  /\ WellFormed(instances[i].graph)
               /\ instances[i].graph6 = EncodeGraph6(instances[i].graph)
    BY <1>1, <2>1, Elements, InstanceIsLoaded DEF LoadInv
  <2>2. ASSUME NEW i \in DOMAIN instances
        PROVE  /\ Decodes(instances[i].graph6)
               /\ DecodeGraph6(instances[i].graph6) = instances[i].graph
    BY <2>1, GraphIsReadBack
  <2>. QED  BY <2>1, <2>2 DEF IdsNameTheirGraph
<1>. QED  BY <1>1, LoadInvariant, PTL

(* So what instance_records files under an id are the invariants of the     *)
(* graph that the id itself decodes to.                                     *)
RecordsAreOfTheirId ==
  \A i \in DOMAIN records :
    /\ Decodes(records[i].id)
    /\ records[i].invariants = ComputeInvariants(DecodeGraph6(records[i].id))

(* A reader of the records needs nothing but the id to repeat what          *)
(* compute_invariants was asked, although it was computed from the bits of  *)
(* the line and not from the id.                                            *)
THEOREM RecordsAreReproducible == Spec => []RecordsAreOfTheirId
<1>1. ASSUME LoadInv PROVE RecordsAreOfTheirId
  <2>. SUFFICES ASSUME NEW i \in DOMAIN records
                PROVE  /\ Decodes(records[i].id)
                       /\ records[i].invariants = ComputeInvariants(DecodeGraph6(records[i].id))
    BY DEF RecordsAreOfTheirId
  <2>1. i \in DOMAIN instances /\ records[i] = RecordOf(instances[i])
    <3>1. PICK S : records \in Seq(S)
      BY <1>1 DEF LoadInv, IsList
    <3>2. i \in 1..Len(records) /\ Len(records) \in Nat /\ Len(records) <= Len(instances)
      BY <1>1, <3>1 DEF LoadInv
    <3>3. DOMAIN instances = 1..Len(instances) /\ Len(instances) \in Nat
      BY <1>1, Elements DEF LoadInv
    <3>. QED  BY <1>1, <3>2, <3>3 DEF LoadInv
  <2>. DEFINE x == instances[i]
  <2>2. WellFormed(x.graph) /\ x.graph6 = EncodeGraph6(x.graph)
    BY <1>1, <2>1, Elements, InstanceIsLoaded DEF LoadInv
  <2>3. Decodes(x.graph6) /\ DecodeGraph6(x.graph6) = x.graph
    BY <2>2, GraphIsReadBack
  <2>. QED  BY <2>1, <2>3 DEF RecordOf
<1>. QED  BY <1>1, LoadInvariant, PTL

-----------------------------------------------------------------------------
(* The search from one vertex.                                              *)

LEMMA AdjIsSymmetric ==
  ASSUME NEW g, NEW u \in Int, NEW v \in Int
  PROVE  (Adj(g, u, v) <=> Adj(g, v, u)) /\ ~Adj(g, u, u)
BY DEF Adj

(* What is known of the distances that d rounds of a search from s have     *)
(* found: s is at 0, every other vertex was met from one that is one closer,*)
(* and whoever is closer than d has all its neighbours met.                 *)
Level(g, s, d, f) ==
  /\ DOMAIN f \subseteq Vertices(g) /\ f \in [DOMAIN f -> 0..d]
  /\ s \in DOMAIN f /\ f[s] = 0
  /\ \A v \in DOMAIN f : v # s => \E u \in DOMAIN f : Adj(g, u, v) /\ f[v] = f[u] + 1
  /\ \A u \in DOMAIN f, v \in Vertices(g) :
       Adj(g, u, v) /\ f[u] < d => v \in DOMAIN f /\ f[v] <= f[u] + 1

LEMMA MeetDoes ==
  ASSUME NEW g, NEW f, NEW d
  PROVE  LET h == Meet(g, f, d)
             met == {v \in Vertices(g) \ DOMAIN f : \E u \in DOMAIN f : Adj(g, u, v)}
         IN /\ DOMAIN h = DOMAIN f \cup met /\ h = [v \in DOMAIN h |-> h[v]]
            /\ \A v \in DOMAIN f : h[v] = f[v]
            /\ \A v \in met : h[v] = d
BY DEF Meet

LEMMA MeetLevel ==
  ASSUME NEW g, g.n \in Nat, NEW s, NEW d \in Nat, NEW f, Level(g, s, d, f)
  PROVE  Level(g, s, d + 1, Meet(g, f, d + 1))
<1>. DEFINE h == Meet(g, f, d + 1)
            met == {v \in Vertices(g) \ DOMAIN f : \E u \in DOMAIN f : Adj(g, u, v)}
<1>1. /\ DOMAIN h = DOMAIN f \cup met /\ h = [v \in DOMAIN h |-> h[v]]
      /\ \A v \in DOMAIN f : h[v] = f[v]
      /\ \A v \in met : h[v] = d + 1
  BY MeetDoes
<1>2. /\ DOMAIN f \subseteq Vertices(g) /\ f \in [DOMAIN f -> 0..d]
      /\ s \in DOMAIN f /\ f[s] = 0
      /\ \A v \in DOMAIN f : v # s => \E u \in DOMAIN f : Adj(g, u, v) /\ f[v] = f[u] + 1
      /\ \A u \in DOMAIN f, v \in Vertices(g) :
           Adj(g, u, v) /\ f[u] < d => v \in DOMAIN f /\ f[v] <= f[u] + 1
  BY DEF Level
<1>3. \A v \in DOMAIN f : f[v] \in 0..d
  BY <1>2
<1>4. /\ met \subseteq Vertices(g) \ DOMAIN f
      /\ \A v \in met : \E u \in DOMAIN f : Adj(g, u, v)
      /\ \A u \in DOMAIN f, v \in Vertices(g) \ DOMAIN f : Adj(g, u, v) => v \in met
  OBVIOUS
<1>. HIDE DEF h, met
<1>5. DOMAIN h \subseteq Vertices(g) /\ h \in [DOMAIN h -> 0..(d + 1)]
  <2>1. \A v \in DOMAIN h : h[v] \in 0..(d + 1)
    BY <1>1, <1>3
  <2>2. DOMAIN h \subseteq Vertices(g)
    BY <1>1, <1>2, <1>4
  <2>. QED  BY <1>1, <2>1, <2>2
<1>6. s \in DOMAIN h /\ h[s] = 0
  BY <1>1, <1>2
<1>7. ASSUME NEW v \in DOMAIN h, v # s
      PROVE  \E u \in DOMAIN h : Adj(g, u, v) /\ h[v] = h[u] + 1
  <2>1. CASE v \in DOMAIN f
    BY <1>1, <1>2, <1>7, <2>1
  <2>2. CASE v \in met
    <3>1. PICK u \in DOMAIN f : Adj(g, u, v)
      BY <1>4, <2>2
    <3>2. f[u] = d
      <4>1. v \in Vertices(g) /\ v \notin DOMAIN f
        BY <1>4, <2>2
      <4>2. ~(f[u] < d)
        BY <1>2, <3>1, <4>1
      <4>. QED  BY <1>3, <4>2
    <3>3. u \in DOMAIN h /\ h[u] = d /\ h[v] = d + 1
      BY <1>1, <2>2, <3>2
    <3>. QED  BY <3>1, <3>3
  <2>. QED  BY <1>1, <2>1, <2>2
<1>8. ASSUME NEW u \in DOMAIN h, NEW v \in Vertices(g), Adj(g, u, v), h[u] < d + 1
      PROVE  v \in DOMAIN h /\ h[v] <= h[u] + 1
  <2>1. u \in DOMAIN f /\ h[u] = f[u] /\ f[u] \in 0..d
    BY <1>1, <1>3, <1>8
  <2>2. CASE v \in DOMAIN f
    <3>1. h[v] = f[v] /\ f[v] \in 0..d
      BY <1>1, <1>3, <2>2
    <3>2. f[u] < d => f[v] <= f[u] + 1
      BY <1>2, <1>8, <2>1
    <3>. QED  BY <1>1, <2>1, <2>2, <3>1, <3>2
  <2>3. CASE v \notin DOMAIN f
    <3>1. v \in met
      BY <1>4, <1>8, <2>1, <2>3
    <3>2. f[u] = d
      BY <1>2, <1>8, <2>1, <2>3
    <3>. QED  BY <1>1, <2>1, <3>1, <3>2
  <2>. QED  BY <2>2, <2>3
<1>. QED  BY <1>5, <1>6, <1>7, <1>8 DEF Level, h

(* The recursive function of the rounds is there.                           *)
LEMMA SearchRuns ==
  ASSUME NEW g, g.n \in Nat, NEW s \in Vertices(g)
  PROVE  LET W == SearchRounds(g, s)
         IN W[0] = [v \in {s} |-> 0] /\ \A d \in 1..g.n : W[d] = Meet(g, W[d - 1], d)
<1>. DEFINE n == g.n
            V == Vertices(g)
            S == UNION {[D -> 0..n] : D \in SUBSET V}
            start == [v \in {s} |-> 0]
            step == [d \in 1..n |-> [f \in S |-> Meet(g, f, d)]]
            Body(f) == [d \in 0..n |-> IF d = 0 THEN start ELSE Meet(g, f[d - 1], d)]
<1>1. start \in S
  <2>1. start \in [{s} -> 0..n]
    OBVIOUS
  <2>2. {s} \in SUBSET V
    OBVIOUS
  <2>. QED  BY <2>1, <2>2
<1>2. ASSUME NEW f \in S, NEW d \in 1..n PROVE Meet(g, f, d) \in S
  <2>. DEFINE h == Meet(g, f, d)
              met == {v \in V \ DOMAIN f : \E u \in DOMAIN f : Adj(g, u, v)}
  <2>1. PICK D \in SUBSET V : f \in [D -> 0..n]
    OBVIOUS
  <2>2. /\ DOMAIN h = D \cup met /\ h = [v \in DOMAIN h |-> h[v]]
        /\ \A v \in D : h[v] = f[v]
        /\ \A v \in met : h[v] = d
    <3>1. DOMAIN f = D
      BY <2>1
    <3>2. /\ DOMAIN h = DOMAIN f \cup met /\ h = [v \in DOMAIN h |-> h[v]]
          /\ \A v \in DOMAIN f : h[v] = f[v]
          /\ \A v \in met : h[v] = d
      BY MeetDoes
    <3>. QED  BY <3>1, <3>2
  <2>3. met \subseteq V
    OBVIOUS
  <2>4. d \in 0..n
    OBVIOUS
  <2>. HIDE DEF h, met, n, V
  <2>5. \A v \in DOMAIN h : h[v] \in 0..n
    BY <2>1, <2>2, <2>4
  <2>6. h \in [DOMAIN h -> 0..n]
    BY <2>2, <2>5
  <2>7. DOMAIN h \in SUBSET V
    BY <2>1, <2>2, <2>3
  <2>. QED  BY <2>6, <2>7 DEF h
<1>. HIDE DEF S, start
<1>3. step \in [1..n -> [S -> S]]
  BY <1>2
<1>4. PICK W \in [0..n -> S] : Runs(W, n, start, step)
  <2>. HIDE DEF step
  <2>1. n \in Nat
    OBVIOUS
  <2>. HIDE DEF n
  <2>. QED  BY <1>1, <1>3, <2>1, LoopRuns
<1>5. W[0] = start /\ \A d \in 1..n : W[d] = Meet(g, W[d - 1], d)
  <2>1. ASSUME NEW d \in 1..n PROVE W[d] = Meet(g, W[d - 1], d)
    <3>1. W[d] = step[d][W[d - 1]]
      BY <1>4 DEF Runs
    <3>2. d - 1 \in 0..n
      OBVIOUS
    <3>3. W[d - 1] \in S
      BY <3>2
    <3>. QED  BY <3>1, <3>3
  <2>. QED  BY <1>4, <2>1 DEF Runs
<1>6. W = Body(W)
  <2>1. ASSUME NEW d \in 0..n PROVE W[d] = Body(W)[d]
    <3>1. CASE d = 0
      BY <1>5, <3>1
    <3>2. CASE d # 0
      <4>1. d \in 1..n
        BY <3>2
      <4>. QED  BY <1>5, <3>2, <4>1
    <3>. QED  BY <3>1, <3>2
  <2>. QED  BY <2>1
<1>7. SearchRounds(g, s) = CHOOSE f : f = Body(f)
  BY DEF SearchRounds, start
<1>. HIDE DEF Body
<1>8. SearchRounds(g, s) = Body(SearchRounds(g, s))
  BY <1>6, <1>7
<1>. DEFINE X == SearchRounds(g, s)
<1>. HIDE DEF X
<1>9. X = Body(X)
  BY <1>8 DEF X
<1>10. X[0] = start /\ \A d \in 1..n : X[d] = Meet(g, X[d - 1], d)
  <2>1. 0 \in 0..n /\ \A d \in 1..n : d \in 0..n /\ d # 0
    OBVIOUS
  <2>2. \A d \in 0..n : X[d] = Body(X)[d]
    BY <1>9
  <2>. QED  BY <2>1, <2>2 DEF Body
<1>. QED  BY <1>10 DEF X, start

LEMMA SearchLevels ==
  ASSUME NEW g, g.n \in Nat, NEW s \in Vertices(g)
  PROVE  Level(g, s, g.n, DistancesFrom(g, s))
<1>. DEFINE n == g.n
            W == SearchRounds(g, s)
            G == {d \in 0..n : Level(g, s, d, W[d])}
<1>1. W[0] = [v \in {s} |-> 0] /\ \A d \in 1..n : W[d] = Meet(g, W[d - 1], d)
  BY SearchRuns
<1>. HIDE DEF W
<1>2. 0 \in G
  <2>1. DOMAIN W[0] = {s} /\ W[0][s] = 0 /\ W[0] \in [{s} -> 0..0]
    BY <1>1
  <2>2. Level(g, s, 0, W[0])
    BY <2>1 DEF Level
  <2>. QED  BY <2>2
<1>3. ASSUME NEW d \in 1..n, d - 1 \in G PROVE d \in G
  <2>1. d - 1 \in Nat /\ (d - 1) + 1 = d /\ d \in 0..n
    OBVIOUS
  <2>2. Level(g, s, d - 1, W[d - 1])
    BY <1>3
  <2>3. Level(g, s, d, Meet(g, W[d - 1], d))
    BY <2>1, <2>2, MeetLevel
  <2>. QED  BY <1>1, <2>1, <2>3
<1>. HIDE DEF G
<1>4. \A d \in 0..n : d \in G
  BY <1>2, <1>3, Rounds
<1>5. n \in G
  BY <1>4
<1>. QED  BY <1>5 DEF G, W, DistancesFrom

(* What a whole search from s has found: nothing is n away, for there would *)
(* be n others on the way, so that every neighbour is met.                  *)
Search(g, s, f) ==
  /\ DOMAIN f \subseteq Vertices(g) /\ f \in [DOMAIN f -> Nat]
  /\ s \in DOMAIN f /\ f[s] = 0 /\ \A v \in DOMAIN f : f[v] < g.n
  /\ \A v \in DOMAIN f : v # s => \E u \in DOMAIN f : Adj(g, u, v) /\ f[v] = f[u] + 1
  /\ \A u \in DOMAIN f, v \in Vertices(g) :
       Adj(g, u, v) => v \in DOMAIN f /\ f[v] <= f[u] + 1

LEMMA NothingIsFarther ==
  ASSUME NEW g, g.n \in Nat, NEW s \in Vertices(g), NEW f, Level(g, s, g.n, f),
         NEW v \in DOMAIN f
  PROVE  f[v] # g.n
<1>. DEFINE n == g.n
            D == DOMAIN f
            G == {j \in 0..n : \E u \in D : f[u] = n - j}
<1>1. /\ D \subseteq 1..n /\ f \in [D -> 0..n] /\ s \in D /\ f[s] = 0
      /\ \A w \in D : w # s => \E u \in D : Adj(g, u, w) /\ f[w] = f[u] + 1
  BY DEF Level, Vertices
<1>. SUFFICES ASSUME f[v] = n PROVE FALSE
  OBVIOUS
<1>2. n \in Nat
  OBVIOUS
<1>3. 0 \in G
  BY <1>2
<1>4. ASSUME NEW j \in 1..n, j - 1 \in G PROVE j \in G
  <2>1. PICK w \in D : f[w] = n - (j - 1)
    BY <1>4
  <2>2. w # s
    BY <1>1, <1>2, <2>1
  <2>3. PICK u \in D : f[w] = f[u] + 1
    BY <1>1, <2>2
  <2>4. f[u] \in 0..n
    BY <1>1
  <2>5. f[u] = n - j
    BY <1>2, <2>1, <2>3, <2>4
  <2>. QED  BY <2>5
<1>. HIDE DEF n, G
<1>5. \A j \in 0..n : j \in G
  BY <1>2, <1>3, <1>4, Rounds
<1>. HIDE DEF D
<1>6. f \in Surjection(D, 0..n)
  <2>1. ASSUME NEW k \in 0..n PROVE \E u \in D : f[u] = k
    <3>1. n - k \in 0..n
      BY <1>2
    <3>2. n - k \in G
      BY <1>5, <3>1
    <3>3. PICK u \in D : f[u] = n - (n - k)
      BY <3>2 DEF G
    <3>. QED  BY <1>2, <3>3
  <2>. QED  BY <1>1, <2>1 DEF Surjection
<1>7. IsFiniteSet(1..n) /\ Cardinality(1..n) <= n /\ Cardinality(0..n) = n + 1
  <2>1. 0 \in Int /\ 1 \in Int /\ n \in Int
    BY <1>2
  <2>2. IsFiniteSet(1..n) /\ Cardinality(1..n) = IF 1 > n THEN 0 ELSE n - 1 + 1
    BY <2>1, FS_Interval
  <2>3. Cardinality(0..n) = IF 0 > n THEN 0 ELSE n - 0 + 1
    BY <2>1, FS_Interval
  <2>. QED  BY <1>2, <2>2, <2>3
<1>8. IsFiniteSet(D) /\ Cardinality(D) <= Cardinality(1..n)
  BY <1>1, <1>7, FS_Subset
<1>9. Cardinality(0..n) <= Cardinality(D)
  BY <1>6, <1>8, FS_Surjection
<1>10. Cardinality(D) \in Nat /\ Cardinality(1..n) \in Nat
  BY <1>7, <1>8, FS_CardinalityType
<1>. QED  BY <1>2, <1>7, <1>8, <1>9, <1>10

LEMMA SearchEnds ==
  ASSUME NEW g, g.n \in Nat, NEW s \in Vertices(g)
  PROVE  Search(g, s, DistancesFrom(g, s))
<1>. DEFINE f == DistancesFrom(g, s)
<1>1. Level(g, s, g.n, f)
  BY SearchLevels
<1>. HIDE DEF f
<1>2. f \in [DOMAIN f -> 0..g.n]
  BY <1>1 DEF Level
<1>3. \A v \in DOMAIN f : f[v] < g.n
  <2>1. \A v \in DOMAIN f : f[v] \in 0..g.n /\ f[v] # g.n
    BY <1>1, <1>2, NothingIsFarther
  <2>. QED  BY <2>1
<1>4. f \in [DOMAIN f -> Nat]
  BY <1>2
<1>. QED  BY <1>1, <1>3, <1>4 DEF Level, Search, f

(* In a set with some that have a property and some that have not, the      *)
(* property is lost from one vertex to a neighbour that is one closer.      *)
LEMMA SearchInduction ==
  ASSUME NEW g, NEW s, NEW f, Search(g, s, f), NEW G, s \in G,
         \A u, v \in DOMAIN f : u \in G /\ Adj(g, u, v) /\ f[v] = f[u] + 1 => v \in G
  PROVE  \A v \in DOMAIN f : v \in G
<1>. DEFINE Bad == {f[v] : v \in {w \in DOMAIN f : w \notin G}}
<1>1. /\ f \in [DOMAIN f -> Nat] /\ s \in DOMAIN f
      /\ \A v \in DOMAIN f : v # s => \E u \in DOMAIN f : Adj(g, u, v) /\ f[v] = f[u] + 1
  BY DEF Search
<1>. SUFFICES ASSUME Bad # {} PROVE FALSE
  OBVIOUS
<1>2. Bad \subseteq Nat
  BY <1>1
<1>3. PICK x \in Bad : \A y \in Bad : x <= y
  <2>. HIDE DEF Bad
  <2>. QED  BY <1>2, LeastExists
<1>4. PICK v \in DOMAIN f : v \notin G /\ f[v] = x
  OBVIOUS
<1>5. PICK u \in DOMAIN f : Adj(g, u, v) /\ f[v] = f[u] + 1
  BY <1>1, <1>4
<1>6. u \notin G
  BY <1>4, <1>5
<1>7. f[u] \in Bad /\ f[u] \in Nat
  BY <1>1, <1>6
<1>. HIDE DEF Bad
<1>. QED  BY <1>3, <1>4, <1>5, <1>7

LEMMA ClosedIsClosed ==
  ASSUME NEW g, g.n \in Nat, NEW C \in SUBSET Vertices(g)
  PROVE  Closed(g, C) <=> \A u \in C, v \in Vertices(g) : Adj(g, u, v) => v \in C
BY DEF Closed, Edge

LEMMA SearchIsComponent ==
  ASSUME NEW g, g.n \in Nat, NEW s \in Vertices(g), NEW f, Search(g, s, f)
  PROVE  DOMAIN f \in Components(g)
<1>. DEFINE D == DOMAIN f
<1>1. D \in (SUBSET Vertices(g)) \ {{}}
  <2>1. D \subseteq Vertices(g) /\ s \in D
    BY DEF Search
  <2>. QED  BY <2>1
<1>2. Closed(g, D)
  BY ClosedIsClosed DEF Search
<1>3. ASSUME NEW C \in (SUBSET D) \ {{}}, Closed(g, C) PROVE C = D
  <2>1. \A u \in C, v \in Vertices(g) : Adj(g, u, v) => v \in C
    <3>1. C \in SUBSET Vertices(g)
      BY <1>1
    <3>. QED  BY <1>3, <3>1, ClosedIsClosed
  <2>2. \A u, v \in D : Adj(g, u, v) <=> Adj(g, v, u)
    BY <1>1, AdjIsSymmetric DEF Vertices
  <2>3. s \in C
    <3>. SUFFICES ASSUME s \notin C PROVE FALSE
      OBVIOUS
    <3>. DEFINE G == D \ C
    <3>1. s \in G
      BY DEF Search
    <3>2. \A u, v \in D : u \in G /\ Adj(g, u, v) /\ f[v] = f[u] + 1 => v \in G
      BY <1>1, <2>1, <2>2
    <3>3. \A v \in D : v \in G
      <4>. HIDE DEF G
      <4>. QED  BY <3>1, <3>2, SearchInduction
    <3>. QED  BY <3>3
  <2>4. \A u, v \in D : u \in C /\ Adj(g, u, v) /\ f[v] = f[u] + 1 => v \in C
    BY <1>1, <2>1
  <2>5. \A v \in D : v \in C
    BY <2>3, <2>4, SearchInduction
  <2>. QED  BY <2>5
<1>. QED  BY <1>1, <1>2, <1>3 DEF Components

LEMMA ComponentsAreDisjoint ==
  ASSUME NEW g, g.n \in Nat, NEW B \in Components(g), NEW C \in Components(g),
         NEW v \in B, v \in C
  PROVE  B = C
<1>1. /\ B \in SUBSET Vertices(g) /\ Closed(g, B)
      /\ \A D \in (SUBSET B) \ {{}} : Closed(g, D) => D = B
  BY DEF Components
<1>2. /\ C \in SUBSET Vertices(g) /\ Closed(g, C)
      /\ \A D \in (SUBSET C) \ {{}} : Closed(g, D) => D = C
  BY DEF Components
<1>. DEFINE M == B \cap C
<1>3. M \in (SUBSET B) \ {{}} /\ M \in (SUBSET C) \ {{}} /\ M \in SUBSET Vertices(g)
  <2>1. v \in M
    OBVIOUS
  <2>. QED  BY <1>1, <2>1
<1>4. Closed(g, M)
  BY <1>1, <1>2 DEF Closed
<1>. QED  BY <1>1, <1>2, <1>3, <1>4

-----------------------------------------------------------------------------
(* The searches from all vertices.                                          *)

(* What the searches from the first k vertices leave: searches of different *)
(* components, one of which has met each of the k.                          *)
AllSearches(g) == {DistancesFrom(g, s) : s \in Vertices(g)}
Cover(g, found, k) ==
  /\ found \in Seq(AllSearches(g))
  /\ \A i, j \in DOMAIN found : DOMAIN found[i] = DOMAIN found[j] => i = j
  /\ \A v \in 1..k : \E i \in DOMAIN found : v \in DOMAIN found[i]

LEMMA SearchFromCovers ==
  ASSUME NEW g, g.n \in Nat, NEW k \in 1..g.n, NEW found, Cover(g, found, k - 1)
  PROVE  Cover(g, SearchFrom(g, found, k), k)
<1>. DEFINE T == AllSearches(g)
            f == DistancesFrom(g, k)
<1>1. found \in Seq(T)
  BY DEF Cover
<1>2. \A v \in 1..k : v \in 1..(k - 1) \/ v = k
  OBVIOUS
<1>3. CASE \E i \in DOMAIN found : k \in DOMAIN found[i]
  <2>1. SearchFrom(g, found, k) = found
    BY <1>3 DEF SearchFrom
  <2>. QED  BY <1>2, <1>3, <2>1 DEF Cover
<1>4. CASE ~\E i \in DOMAIN found : k \in DOMAIN found[i]
  <2>. DEFINE m == Len(found)
              h == Append(found, f)
  <2>1. SearchFrom(g, found, k) = h
    BY <1>4 DEF SearchFrom
  <2>2. k \in Vertices(g)
    BY DEF Vertices
  <2>3. f \in T
    BY <2>2 DEF AllSearches
  <2>4. k \in DOMAIN f
    BY <2>2, SearchEnds DEF Search
  <2>. HIDE DEF T, f
  <2>5. /\ m \in Nat /\ DOMAIN found = 1..m /\ DOMAIN h = 1..(m + 1) /\ h \in Seq(T)
        /\ \A i \in 1..m : h[i] = found[i]
        /\ h[m + 1] = f
    BY <1>1, <2>3
  <2>. HIDE DEF h, m
  <2>6. \A i \in 1..(m + 1) : i \in 1..m \/ i = m + 1
    BY <2>5
  <2>7. ASSUME NEW i \in DOMAIN h, NEW j \in DOMAIN h, DOMAIN h[i] = DOMAIN h[j] PROVE i = j
    <3>1. \A l \in 1..m : DOMAIN h[l] # DOMAIN f
      BY <1>4, <2>4, <2>5
    <3>2. CASE i \in 1..m /\ j \in 1..m
      BY <2>5, <2>7, <3>2 DEF Cover
    <3>. QED  BY <2>5, <2>6, <2>7, <3>1, <3>2
  <2>8. ASSUME NEW v \in 1..k PROVE \E i \in DOMAIN h : v \in DOMAIN h[i]
    <3>1. CASE v = k
      <4>1. m + 1 \in DOMAIN h
        BY <2>5
      <4>. QED  BY <2>4, <2>5, <3>1, <4>1
    <3>2. CASE v \in 1..(k - 1)
      <4>1. PICK i \in DOMAIN found : v \in DOMAIN found[i]
        BY <3>2 DEF Cover
      <4>2. i \in DOMAIN h /\ h[i] = found[i]
        BY <2>5, <4>1
      <4>. QED  BY <4>1, <4>2
    <3>. QED  BY <1>2, <3>1, <3>2
  <2>. QED  BY <2>1, <2>5, <2>7, <2>8 DEF Cover, T
<1>. QED  BY <1>3, <1>4

LEMMA SearchesRun ==
  ASSUME NEW g, g.n \in Nat
  PROVE  LET F == SearchesUpTo(g)
         IN F[0] = <<>> /\ \A k \in 1..g.n : F[k] = SearchFrom(g, F[k - 1], k)
<1>. DEFINE n == g.n
            S == Seq(AllSearches(g))
            step == [k \in 1..n |-> [found \in S |-> SearchFrom(g, found, k)]]
            Body(F) == [k \in 0..n |-> IF k = 0 THEN <<>> ELSE SearchFrom(g, F[k - 1], k)]
<1>0. n \in Nat
  OBVIOUS
<1>1. <<>> \in S
  OBVIOUS
<1>2. ASSUME NEW found \in S, NEW k \in 1..n PROVE SearchFrom(g, found, k) \in S
  <2>1. DistancesFrom(g, k) \in AllSearches(g)
    BY DEF AllSearches, Vertices
  <2>2. Append(found, DistancesFrom(g, k)) \in S
    BY <2>1
  <2>. QED  BY <2>2 DEF SearchFrom
<1>. HIDE DEF S, n
<1>3. step \in [1..n -> [S -> S]]
  BY <1>2
<1>4. PICK F \in [0..n -> S] : Runs(F, n, <<>>, step)
  <2>. HIDE DEF step
  <2>. QED  BY <1>0, <1>1, <1>3, LoopRuns
<1>5. F[0] = <<>> /\ \A k \in 1..n : F[k] = SearchFrom(g, F[k - 1], k)
  <2>1. ASSUME NEW k \in 1..n PROVE F[k] = SearchFrom(g, F[k - 1], k)
    <3>1. F[k] = step[k][F[k - 1]]
      BY <1>4 DEF Runs
    <3>2. k - 1 \in 0..n
      BY <1>0
    <3>. QED  BY <3>1, <3>2
  <2>. QED  BY <1>4, <2>1 DEF Runs
<1>6. F = Body(F)
  <2>1. ASSUME NEW k \in 0..n PROVE F[k] = Body(F)[k]
    <3>1. CASE k = 0
      BY <1>5, <3>1
    <3>2. CASE k # 0
      <4>1. k \in 1..n
        BY <1>0, <3>2
      <4>. QED  BY <1>5, <3>2, <4>1
    <3>. QED  BY <3>1, <3>2
  <2>. QED  BY <2>1
<1>. DEFINE X == SearchesUpTo(g)
<1>7. X = CHOOSE H : H = Body(H)
  BY DEF SearchesUpTo, n
<1>. HIDE DEF Body, X
<1>8. X = Body(X)
  BY <1>6, <1>7
<1>9. X[0] = <<>> /\ \A k \in 1..n : X[k] = SearchFrom(g, X[k - 1], k)
  <2>1. 0 \in 0..n /\ \A k \in 1..n : k \in 0..n /\ k # 0
    BY <1>0
  <2>2. \A k \in 0..n : X[k] = Body(X)[k]
    BY <1>8
  <2>. QED  BY <2>1, <2>2 DEF Body
<1>. QED  BY <1>9 DEF X, n

LEMMA SearchesPartlyCover ==
  ASSUME NEW g, g.n \in Nat, NEW i \in 0..g.n PROVE Cover(g, SearchesUpTo(g)[i], i)
<1>. DEFINE n == g.n
            F == SearchesUpTo(g)
            G == {k \in 0..n : Cover(g, F[k], k)}
<1>1. F[0] = <<>> /\ \A k \in 1..n : F[k] = SearchFrom(g, F[k - 1], k)
  BY SearchesRun
<1>. HIDE DEF F
<1>2. 0 \in G
  <2>1. Cover(g, <<>>, 0)
    BY DEF Cover
  <2>. QED  BY <1>1, <2>1
<1>3. ASSUME NEW k \in 1..n, k - 1 \in G PROVE k \in G
  <2>1. Cover(g, SearchFrom(g, F[k - 1], k), k)
    BY <1>3, SearchFromCovers
  <2>. QED  BY <1>1, <2>1
<1>. HIDE DEF G
<1>4. \A k \in 0..n : k \in G
  BY <1>2, <1>3, Rounds
<1>. QED  BY <1>4 DEF G, F

LEMMA SearchesCover == ASSUME NEW g, g.n \in Nat PROVE Cover(g, Searches(g), g.n)
BY SearchesPartlyCover DEF Searches

(* The first search is from the first vertex.                               *)
LEMMA FirstSearch ==
  ASSUME NEW g, g.n \in Nat \ {0}
  PROVE  Searches(g)[1] = DistancesFrom(g, 1)
<1>. DEFINE n == g.n
            F == SearchesUpTo(g)
            f == DistancesFrom(g, 1)
            G == {k \in 0..n : k # 0 => F[k] # <<>> /\ F[k][1] = f}
<1>1. F[0] = <<>> /\ \A k \in 1..n : F[k] = SearchFrom(g, F[k - 1], k)
  BY SearchesRun
<1>2. \A k \in 1..n : F[k - 1] \in Seq(AllSearches(g))
  BY SearchesPartlyCover DEF Cover
<1>3. \A k \in 1..n : DistancesFrom(g, k) \in AllSearches(g)
  BY DEF AllSearches, Vertices
<1>. HIDE DEF F
<1>4. 0 \in G
  OBVIOUS
<1>5. ASSUME NEW k \in 1..n, k - 1 \in G PROVE k \in G
  <2>1. CASE k = 1
    <3>1. F[k - 1] = <<>>
      BY <1>1, <2>1
    <3>2. SearchFrom(g, <<>>, k) = Append(<<>>, DistancesFrom(g, k))
      BY DEF SearchFrom
    <3>. HIDE DEF f
    <3>3. F[k] = <<DistancesFrom(g, k)>>
      BY <1>1, <3>1, <3>2
    <3>. QED  BY <2>1, <3>3 DEF f
  <2>2. CASE k # 1
    <3>1. F[k - 1] # <<>> /\ F[k - 1][1] = f /\ F[k - 1] \in Seq(AllSearches(g))
      BY <1>2, <1>5, <2>2
    <3>2. \/ F[k] = F[k - 1]
          \/ F[k] = Append(F[k - 1], DistancesFrom(g, k))
      BY <1>1 DEF SearchFrom
    <3>. HIDE DEF f
    <3>3. /\ Append(F[k - 1], DistancesFrom(g, k)) # <<>>
          /\ Append(F[k - 1], DistancesFrom(g, k))[1] = F[k - 1][1]
      BY <1>3, <3>1
    <3>. QED  BY <3>1, <3>2, <3>3
  <2>. QED  BY <2>1, <2>2
<1>. HIDE DEF G
<1>6. \A k \in 0..n : k \in G
  BY <1>4, <1>5, Rounds
<1>. QED  BY <1>6 DEF G, F, Searches

(* Each search is one of a component, every vertex is met by one search, so *)
(* there are as many searches as components.                                *)
LEMMA SearchesAreOfComponents ==
  ASSUME NEW g, g.n \in Nat
  PROVE  LET F == Searches(g)
         IN /\ Len(F) \in Nat /\ DOMAIN F = 1..Len(F)
            /\ \A i \in DOMAIN F : \E s \in Vertices(g) : Search(g, s, F[i])
            /\ \A i \in DOMAIN F : DOMAIN F[i] \in Components(g)
            /\ \A v \in Vertices(g) : \E i \in DOMAIN F : v \in DOMAIN F[i]
            /\ \A i, j \in DOMAIN F : \A v \in DOMAIN F[i] : v \in DOMAIN F[j] => i = j
<1>. DEFINE F == Searches(g)
<1>1. Cover(g, F, g.n)
  BY SearchesCover
<1>. HIDE DEF F
<1>2. Len(F) \in Nat /\ DOMAIN F = 1..Len(F) /\ \A i \in DOMAIN F : F[i] \in AllSearches(g)
  <2>1. F \in Seq(AllSearches(g))
    BY <1>1 DEF Cover
  <2>. QED  BY <2>1, Elements
<1>3. ASSUME NEW i \in DOMAIN F PROVE \E s \in Vertices(g) : Search(g, s, F[i])
  BY <1>2, SearchEnds DEF AllSearches
<1>4. ASSUME NEW i \in DOMAIN F PROVE DOMAIN F[i] \in Components(g)
  BY <1>3, SearchIsComponent
<1>5. ASSUME NEW i \in DOMAIN F, NEW j \in DOMAIN F, NEW v \in DOMAIN F[i], v \in DOMAIN F[j]
      PROVE  i = j
  <2>1. DOMAIN F[i] = DOMAIN F[j]
    BY <1>4, <1>5, ComponentsAreDisjoint
  <2>. QED  BY <1>1, <2>1 DEF Cover
<1>6. \A v \in Vertices(g) : \E i \in DOMAIN F : v \in DOMAIN F[i]
  BY <1>1 DEF Cover, Vertices
<1>. QED  BY <1>2, <1>3, <1>4, <1>5, <1>6 DEF F

LEMMA ComponentsAreCounted ==
  ASSUME NEW g, g.n \in Nat
  PROVE  Len(Searches(g)) = Cardinality(Components(g))
<1>. DEFINE F == Searches(g)
            m == Len(F)
            f == [i \in 1..m |-> DOMAIN F[i]]
<1>1. /\ m \in Nat /\ DOMAIN F = 1..m
      /\ \A i \in DOMAIN F : DOMAIN F[i] \in Components(g)
      /\ \A v \in Vertices(g) : \E i \in DOMAIN F : v \in DOMAIN F[i]
      /\ \A i, j \in DOMAIN F : \A v \in DOMAIN F[i] : v \in DOMAIN F[j] => i = j
  BY SearchesAreOfComponents
<1>. HIDE DEF F, m
<1>2. \A C \in Components(g) : C \subseteq Vertices(g) /\ C # {}
  BY DEF Components
<1>3. f \in [1..m -> Components(g)]
  BY <1>1
<1>4. ASSUME NEW i \in 1..m, NEW j \in 1..m, f[i] = f[j] PROVE i = j
  <2>1. DOMAIN F[i] = DOMAIN F[j]
    BY <1>4
  <2>2. PICK v : v \in DOMAIN F[i]
    BY <1>1, <1>2
  <2>. QED  BY <1>1, <2>1, <2>2
<1>5. ASSUME NEW C \in Components(g) PROVE \E i \in 1..m : f[i] = C
  <2>1. PICK v \in C : v \in Vertices(g)
    BY <1>2
  <2>2. PICK i \in 1..m : v \in DOMAIN F[i]
    BY <1>1, <2>1
  <2>3. DOMAIN F[i] = C
    BY <1>1, <2>1, <2>2, ComponentsAreDisjoint
  <2>. QED  BY <2>3
<1>. HIDE DEF f
<1>6. f \in Bijection(1..m, Components(g))
  BY <1>3, <1>4, <1>5 DEF Bijection, Injection, Surjection, IsInjective
<1>7. ExistsBijection(1..m, Components(g))
  BY <1>6 DEF ExistsBijection
<1>. QED  BY <1>1, <1>7, FS_CountingElements DEF m, F

-----------------------------------------------------------------------------
(* Edges, and colours for their ends.                                       *)

LEMMA Pairs ==
  ASSUME NEW u, NEW v, u # v
  PROVE  IsFiniteSet({u, v}) /\ Cardinality({u, v}) = 2
<1>1. IsFiniteSet({u}) /\ Cardinality({u}) = 1
  BY FS_Singleton
<1>2. {u, v} = {u} \cup {v} /\ v \notin {u}
  OBVIOUS
<1>. QED  BY <1>1, <1>2, FS_AddElement

LEMMA EdgesArePairs ==
  ASSUME NEW g, g.n \in Nat
  PROVE  /\ \A u, v \in Vertices(g) : Adj(g, u, v) => u # v /\ {u, v} \in Edges(g)
         /\ \A e \in Edges(g) : \E u, v \in Vertices(g) : u # v /\ Adj(g, u, v) /\ e = {u, v}
<1>. DEFINE V == Vertices(g)
<1>1. V \subseteq Int /\ IsFiniteSet(V)
  <2>1. g.n \in Int /\ 1 \in Int
    OBVIOUS
  <2>. QED  BY <2>1, FS_Interval DEF Vertices
<1>2. ASSUME NEW u \in V, NEW v \in V, Adj(g, u, v) PROVE u # v /\ {u, v} \in Edges(g)
  <2>1. u # v
    BY <1>1, <1>2, AdjIsSymmetric
  <2>2. {u, v} \in kSubset(2, V)
    BY <2>1, Pairs DEF kSubset
  <2>3. \E a, b \in {u, v} : Edge(g, a, b)
    BY <1>2, <2>1 DEF Edge
  <2>. QED  BY <2>1, <2>2, <2>3 DEF Edges
<1>3. ASSUME NEW e \in Edges(g)
      PROVE  \E u, v \in V : u # v /\ Adj(g, u, v) /\ e = {u, v}
  <2>1. e \in SUBSET V /\ Cardinality(e) = 2 /\ \E u, v \in e : Edge(g, u, v)
    BY DEF Edges, kSubset
  <2>2. PICK u \in e, v \in e : u # v /\ Adj(g, u, v)
    BY <2>1 DEF Edge
  <2>3. IsFiniteSet(e)
    BY <1>1, <2>1, FS_Subset
  <2>4. {u, v} \in SUBSET e /\ Cardinality({u, v}) = 2
    BY <2>2, Pairs
  <2>5. e = {u, v}
    BY <2>1, <2>3, <2>4, FS_Subset
  <2>. QED  BY <2>1, <2>2, <2>5
<1>. QED  BY <1>2, <1>3

LEMMA OneEndPerSide ==
  ASSUME NEW u, NEW v, u # v, NEW side
  PROVE  Cardinality({u, v} \cap side) = 1 <=> (u \in side <=> v \notin side)
<1>1. Cardinality({u}) = 1 /\ Cardinality({v}) = 1
  BY FS_Singleton
<1>2. Cardinality({u, v}) = 2 /\ Cardinality({}) = 0
  BY Pairs, FS_EmptySet
<1>3. CASE u \in side /\ v \in side
  <2>1. {u, v} \cap side = {u, v}
    BY <1>3
  <2>. QED  BY <1>2, <1>3, <2>1
<1>4. CASE u \in side /\ v \notin side
  <2>1. {u, v} \cap side = {u}
    BY <1>4
  <2>. QED  BY <1>1, <1>4, <2>1
<1>5. CASE u \notin side /\ v \in side
  <2>1. {u, v} \cap side = {v}
    BY <1>5
  <2>. QED  BY <1>1, <1>5, <2>1
<1>6. CASE u \notin side /\ v \notin side
  <2>1. {u, v} \cap side = {}
    BY <1>6
  <2>. QED  BY <1>2, <1>6, <2>1
<1>. QED  BY <1>3, <1>4, <1>5, <1>6

TwoSided(g, side) == \A e \in Edges(g) : Cardinality(e \cap side) = 1

LEMMA TwoSidedEnds ==
  ASSUME NEW g, g.n \in Nat, NEW side
  PROVE  TwoSided(g, side) <=>
           \A u, v \in Vertices(g) : Adj(g, u, v) => (u \in side <=> v \notin side)
<1>1. ASSUME TwoSided(g, side), NEW u \in Vertices(g), NEW v \in Vertices(g), Adj(g, u, v)
      PROVE  u \in side <=> v \notin side
  <2>1. u # v /\ {u, v} \in Edges(g)
    BY <1>1, EdgesArePairs
  <2>2. Cardinality({u, v} \cap side) = 1
    BY <1>1, <2>1 DEF TwoSided
  <2>. QED  BY <2>1, <2>2, OneEndPerSide
<1>2. ASSUME \A u, v \in Vertices(g) : Adj(g, u, v) => (u \in side <=> v \notin side),
             NEW e \in Edges(g)
      PROVE  Cardinality(e \cap side) = 1
  <2>1. PICK u \in Vertices(g), v \in Vertices(g) : u # v /\ Adj(g, u, v) /\ e = {u, v}
    BY <1>2, EdgesArePairs
  <2>2. u \in side <=> v \notin side
    BY <1>2, <2>1
  <2>. QED  BY <2>1, <2>2, OneEndPerSide
<1>. QED  BY <1>1, <1>2 DEF TwoSided

LEMMA Parity ==
  ASSUME NEW m \in Nat
  PROVE  m % 2 \in {0, 1} /\ (m % 2 = 0 <=> (m + 1) % 2 # 0)
OBVIOUS

(* Colours by the parity of the distance are right: neighbours are met in   *)
(* one search, with distances that differ by one at most, and by one when   *)
(* no two neighbours have one parity.                                       *)
LEMMA ColouredIsTwoSided ==
  ASSUME NEW g, g.n \in Nat, IsBipartite(g, Searches(g))
  PROVE  \E side \in SUBSET Vertices(g) : TwoSided(g, side)
<1>. DEFINE F == Searches(g)
            V == Vertices(g)
            Even(v) == \E i \in DOMAIN F : v \in DOMAIN F[i] /\ F[i][v] % 2 = 0
            side == {v \in V : Even(v)}
<1>1. /\ \A i \in DOMAIN F : \E s \in V : Search(g, s, F[i])
      /\ \A v \in V : \E i \in DOMAIN F : v \in DOMAIN F[i]
      /\ \A i, j \in DOMAIN F : \A v \in DOMAIN F[i] : v \in DOMAIN F[j] => i = j
  BY SearchesAreOfComponents
<1>2. \A i \in DOMAIN F : \A u, v \in DOMAIN F[i] : Adj(g, u, v) => F[i][u] % 2 # F[i][v] % 2
  BY DEF IsBipartite
<1>. HIDE DEF F
<1>3. ASSUME NEW i \in DOMAIN F, NEW v \in DOMAIN F[i]
      PROVE  v \in V /\ F[i][v] \in Nat /\ (v \in side <=> F[i][v] % 2 = 0)
  <2>1. v \in V /\ F[i][v] \in Nat
    BY <1>1 DEF Search
  <2>2. Even(v) <=> F[i][v] % 2 = 0
    BY <1>1, <1>3
  <2>. QED  BY <2>1, <2>2
<1>4. ASSUME NEW u \in V, NEW v \in V, Adj(g, u, v) PROVE u \in side <=> v \notin side
  <2>1. PICK i \in DOMAIN F : u \in DOMAIN F[i]
    BY <1>1
  <2>2. v \in DOMAIN F[i]
    BY <1>1, <1>4, <2>1 DEF Search
  <2>3. F[i][u] % 2 # F[i][v] % 2
    BY <1>2, <1>4, <2>1, <2>2
  <2>. HIDE DEF side
  <2>4. F[i][u] \in Nat /\ F[i][v] \in Nat
    BY <1>3, <2>1, <2>2
  <2>5. F[i][u] % 2 \in {0, 1} /\ F[i][v] % 2 \in {0, 1}
    BY <2>4, Parity
  <2>. QED  BY <1>3, <2>1, <2>2, <2>3, <2>5
<1>5. side \in SUBSET V
  OBVIOUS
<1>. HIDE DEF side
<1>. QED  BY <1>4, <1>5, TwoSidedEnds

(* If there are two sides, the search walks from one to the other.          *)
LEMMA TwoSidedIsColoured ==
  ASSUME NEW g, g.n \in Nat, NEW side, TwoSided(g, side)
  PROVE  IsBipartite(g, Searches(g))
<1>. DEFINE F == Searches(g)
            V == Vertices(g)
<1>1. \A i \in DOMAIN F : \E s \in V : Search(g, s, F[i])
  BY SearchesAreOfComponents
<1>2. \A u, v \in V : Adj(g, u, v) => (u \in side <=> v \notin side)
  BY TwoSidedEnds
<1>. HIDE DEF F
<1>3. ASSUME NEW i \in DOMAIN F, NEW a \in DOMAIN F[i], NEW b \in DOMAIN F[i], Adj(g, a, b)
      PROVE  F[i][a] % 2 # F[i][b] % 2
  <2>. DEFINE f == F[i]
  <2>1. PICK s \in V : Search(g, s, f)
    BY <1>1
  <2>. HIDE DEF f
  <2>. DEFINE G == {v \in DOMAIN f : (v \in side <=> s \in side) <=> f[v] % 2 = 0}
  <2>2. DOMAIN f \subseteq V /\ f \in [DOMAIN f -> Nat] /\ s \in DOMAIN f /\ f[s] = 0
    BY <2>1 DEF Search
  <2>3. s \in G
    BY <2>2
  <2>4. ASSUME NEW u \in DOMAIN f, NEW v \in DOMAIN f, u \in G, Adj(g, u, v), f[v] = f[u] + 1
        PROVE  v \in G
    <3>1. f[u] \in Nat
      BY <2>2
    <3>2. f[u] % 2 = 0 <=> f[v] % 2 # 0
      BY <2>4, <3>1, Parity
    <3>3. u \in side <=> v \notin side
      BY <1>2, <2>2, <2>4
    <3>. QED  BY <2>4, <3>2, <3>3
  <2>. HIDE DEF G
  <2>5. \A v \in DOMAIN f : v \in G
    BY <2>1, <2>3, <2>4, SearchInduction
  <2>6. a \in side <=> b \notin side
    BY <1>2, <1>3, <2>2 DEF f
  <2>7. a \in G /\ b \in G
    BY <1>3, <2>5 DEF f
  <2>8. f[a] % 2 # f[b] % 2
    BY <2>6, <2>7 DEF G
  <2>. QED  BY <2>8 DEF f
<1>. QED  BY <1>3 DEF IsBipartite, F

-----------------------------------------------------------------------------
(* Walks, and what the eccentricity of one vertex says of all.              *)

LEMMA WalksRun ==
  ASSUME NEW g, g.n \in Nat
  PROVE  LET V == Vertices(g)
             W == Walks(g)
         IN /\ W[0] = {<<v, v>> : v \in V}
            /\ \A k \in 1..g.n :
                 W[k] = W[k - 1] \cup {p \in V \X V :
                          \E v \in V : <<p[1], v>> \in W[k - 1] /\ Edge(g, v, p[2])}
<1>. DEFINE n == g.n
            V == Vertices(g)
            S == SUBSET (V \X V)
            start == {<<v, v>> : v \in V}
            Next1(w) == w \cup {p \in V \X V : \E v \in V : <<p[1], v>> \in w /\ Edge(g, v, p[2])}
            step == [k \in 1..n |-> [w \in S |-> Next1(w)]]
            Body(W) == [k \in 0..n |-> IF k = 0 THEN start ELSE Next1(W[k - 1])]
<1>0. n \in Nat
  OBVIOUS
<1>1. start \in S
  OBVIOUS
<1>2. ASSUME NEW w \in S PROVE Next1(w) \in S
  OBVIOUS
<1>. DEFINE X == Walks(g)
<1>7. X = CHOOSE H : H = Body(H)
  BY DEF Walks
<1>. HIDE DEF S, n, start, Next1, X
<1>3. step \in [1..n -> [S -> S]]
  BY <1>2
<1>4. PICK W \in [0..n -> S] : Runs(W, n, start, step)
  <2>. HIDE DEF step
  <2>. QED  BY <1>0, <1>1, <1>3, LoopRuns
<1>5. W[0] = start /\ \A k \in 1..n : W[k] = Next1(W[k - 1])
  <2>1. ASSUME NEW k \in 1..n PROVE W[k] = Next1(W[k - 1])
    <3>1. W[k] = step[k][W[k - 1]]
      BY <1>4 DEF Runs
    <3>2. k - 1 \in 0..n
      BY <1>0
    <3>. QED  BY <3>1, <3>2
  <2>. QED  BY <1>4, <2>1 DEF Runs
<1>6. W = Body(W)
  <2>1. ASSUME NEW k \in 0..n PROVE W[k] = Body(W)[k]
    <3>1. CASE k = 0
      BY <1>5, <3>1
    <3>2. CASE k # 0
      <4>1. k \in 1..n
        BY <1>0, <3>2
      <4>. QED  BY <1>5, <3>2, <4>1
    <3>. QED  BY <3>1, <3>2
  <2>. QED  BY <2>1
<1>. HIDE DEF Body
<1>8. X = Body(X)
  BY <1>6, <1>7
<1>9. X[0] = start /\ \A k \in 1..n : X[k] = Next1(X[k - 1])
  <2>1. 0 \in 0..n /\ \A k \in 1..n : k \in 0..n /\ k # 0
    BY <1>0
  <2>2. \A k \in 0..n : X[k] = Body(X)[k]
    BY <1>8
  <2>. QED  BY <2>1, <2>2 DEF Body
<1>. QED  BY <1>9 DEF X, n, start, Next1

(* Walk(g, k, u, w): there is a walk of at most k edges.                    *)
Walk(g, k, u, w) == <<u, w>> \in Walks(g)[k]

LEMMA WalkSteps ==
  ASSUME NEW g, g.n \in Nat
  PROVE  LET V == Vertices(g)
         IN /\ \A u, w \in V : Walk(g, 0, u, w) <=> u = w
            /\ \A k \in 1..g.n : \A u, w \in V :
                 Walk(g, k, u, w) <=> \/ Walk(g, k - 1, u, w)
                                      \/ \E v \in V : Walk(g, k - 1, u, v) /\ Adj(g, v, w)
<1>. DEFINE V == Vertices(g)
            W == Walks(g)
            Far(k) == {p \in V \X V : \E v \in V : <<p[1], v>> \in W[k] /\ Edge(g, v, p[2])}
<1>1. W[0] = {<<v, v>> : v \in V} /\ \A k \in 1..g.n : W[k] = W[k - 1] \cup Far(k - 1)
  BY WalksRun
<1>. HIDE DEF W
<1>2. \A u, w \in V : <<u, w>> \in W[0] <=> u = w
  BY <1>1
<1>3. \A v, w \in V : Edge(g, v, w) <=> Adj(g, v, w)
  BY AdjIsSymmetric DEF Edge, Vertices
<1>4. ASSUME NEW k, NEW u \in V, NEW w \in V
      PROVE  <<u, w>> \in Far(k) <=> \E v \in V : <<u, v>> \in W[k] /\ Adj(g, v, w)
  BY <1>3
<1>. HIDE DEF Far
<1>5. ASSUME NEW k \in 1..g.n, NEW u \in V, NEW w \in V
      PROVE  <<u, w>> \in W[k] <=> \/ <<u, w>> \in W[k - 1]
                                   \/ \E v \in V : <<u, v>> \in W[k - 1] /\ Adj(g, v, w)
  BY <1>1, <1>4
<1>. QED  BY <1>2, <1>5 DEF Walk, W

LEMMA WalksArePairs ==
  ASSUME NEW g, g.n \in Nat, NEW k \in 0..g.n
  PROVE  Walks(g)[k] \subseteq Vertices(g) \X Vertices(g)
<1>. DEFINE V == Vertices(g)
            W == Walks(g)
            G == {j \in 0..g.n : W[j] \subseteq V \X V}
<1>1. /\ W[0] = {<<v, v>> : v \in V}
      /\ \A j \in 1..g.n : W[j] = W[j - 1] \cup {p \in V \X V :
                             \E v \in V : <<p[1], v>> \in W[j - 1] /\ Edge(g, v, p[2])}
  BY WalksRun
<1>. HIDE DEF W
<1>2. 0 \in G
  BY <1>1
<1>3. \A j \in 1..g.n : j - 1 \in G => j \in G
  BY <1>1
<1>. HIDE DEF G
<1>4. \A j \in 0..g.n : j \in G
  BY <1>2, <1>3, Rounds
<1>. QED  BY <1>4 DEF G, W

LEMMA WalksGrow ==
  ASSUME NEW g, g.n \in Nat, NEW j \in 0..g.n, NEW k \in 0..g.n, j <= k,
         NEW u \in Vertices(g), NEW w \in Vertices(g), Walk(g, j, u, w)
  PROVE  Walk(g, k, u, w)
<1>. DEFINE G == {i \in 0..g.n : j <= i => Walk(g, i, u, w)}
<1>1. 0 \in G
  <2>1. j <= 0 => j = 0
    OBVIOUS
  <2>. QED  BY <2>1
<1>2. ASSUME NEW i \in 1..g.n, i - 1 \in G PROVE i \in G
  <2>1. CASE j = i
    BY <2>1
  <2>2. CASE j <= i - 1
    BY <1>2, <2>2, WalkSteps
  <2>. QED  BY <2>1, <2>2
<1>. HIDE DEF G
<1>3. \A i \in 0..g.n : i \in G
  BY <1>1, <1>2, Rounds
<1>. QED  BY <1>3 DEF G

LEMMA WalksCompose ==
  ASSUME NEW g, g.n \in Nat, NEW j \in 0..g.n, NEW k \in 0..g.n, j + k <= g.n,
         NEW u \in Vertices(g), NEW v \in Vertices(g), NEW w \in Vertices(g),
         Walk(g, j, u, v), Walk(g, k, v, w)
  PROVE  Walk(g, j + k, u, w)
<1>. DEFINE n == g.n
            V == Vertices(g)
            G == {i \in 0..n : j + i <= n => \A x \in V : Walk(g, i, v, x) => Walk(g, j + i, u, x)}
<1>1. 0 \in G
  <2>1. j + 0 = j
    OBVIOUS
  <2>. QED  BY <2>1, WalkSteps
<1>2. ASSUME NEW i \in 1..n, i - 1 \in G PROVE i \in G
  <2>. SUFFICES ASSUME j + i <= n, NEW x \in V, Walk(g, i, v, x) PROVE Walk(g, j + i, u, x)
    OBVIOUS
  <2>1. j + i \in 1..n /\ (j + i) - 1 = j + (i - 1) /\ j + (i - 1) <= n
    OBVIOUS
  <2>2. \A y \in V : Walk(g, i - 1, v, y) => Walk(g, j + (i - 1), u, y)
    BY <1>2, <2>1
  <2>3. Walk(g, i - 1, v, x) \/ \E y \in V : Walk(g, i - 1, v, y) /\ Adj(g, y, x)
    BY WalkSteps
  <2>4. Walk(g, (j + i) - 1, u, x) \/ \E y \in V : Walk(g, (j + i) - 1, u, y) /\ Adj(g, y, x)
    BY <2>1, <2>2, <2>3
  <2>. QED  BY <2>1, <2>4, WalkSteps
<1>. HIDE DEF G
<1>3. \A i \in 0..n : i \in G
  BY <1>1, <1>2, Rounds
<1>. QED  BY <1>3 DEF G

(* The search measures the walks from and to its start: a vertex is reached *)
(* in as many edges as its distance, and not in fewer.                      *)
LEMMA SearchMeasures ==
  ASSUME NEW g, g.n \in Nat, NEW s \in Vertices(g), NEW f, Search(g, s, f),
         NEW v \in DOMAIN f
  PROVE  /\ Walk(g, f[v], s, v) /\ Walk(g, f[v], v, s)
         /\ \A k \in 0..g.n : Walk(g, k, s, v) => f[v] <= k
<1>. DEFINE n == g.n
            V == Vertices(g)
            D == DOMAIN f
<1>1. /\ D \subseteq V /\ f \in [D -> Nat] /\ s \in D /\ f[s] = 0 /\ \A x \in D : f[x] < n
      /\ \A x \in D, y \in V : Adj(g, x, y) => y \in D /\ f[y] <= f[x] + 1
  BY DEF Search
<1>2. Walk(g, f[v], s, v) /\ Walk(g, f[v], v, s)
  <2>. DEFINE G == {x \in D : Walk(g, f[x], s, x) /\ Walk(g, f[x], x, s)}
  <2>1. s \in G
    BY <1>1, WalkSteps
  <2>2. ASSUME NEW x \in D, NEW y \in D, x \in G, Adj(g, x, y), f[y] = f[x] + 1 PROVE y \in G
    <3>1. /\ f[x] \in 0..n /\ f[y] \in 1..n /\ f[y] - 1 = f[x] /\ 1 + f[x] <= n /\ 1 + f[x] = f[y]
          /\ 1 \in 0..n /\ 1 \in 1..n /\ x \in V /\ y \in V
      BY <1>1, <2>2
    <3>2. Walk(g, f[y], s, y)
      BY <2>2, <3>1, WalkSteps
    <3>3. Adj(g, y, x)
      BY <2>2, <3>1, AdjIsSymmetric DEF Vertices
    <3>4. Walk(g, 1 - 1, y, y)
      BY <3>1, WalkSteps
    <3>5. Walk(g, 1, y, x)
      BY <3>1, <3>3, <3>4, WalkSteps
    <3>6. Walk(g, 1 + f[x], y, s)
      BY <2>2, <3>1, <3>5, WalksCompose
    <3>. QED  BY <3>1, <3>2, <3>6
  <2>. HIDE DEF G, D
  <2>3. \A x \in D : x \in G
    BY <2>1, <2>2, SearchInduction DEF D
  <2>. QED  BY <2>3 DEF G, D
<1>3. \A k \in 0..n : Walk(g, k, s, v) => f[v] <= k
  <2>. DEFINE G == {k \in 0..n : \A x \in V : Walk(g, k, s, x) => x \in D /\ f[x] <= k}
  <2>1. 0 \in G
    BY <1>1, WalkSteps
  <2>2. ASSUME NEW k \in 1..n, k - 1 \in G PROVE k \in G
    <3>. SUFFICES ASSUME NEW x \in V, Walk(g, k, s, x) PROVE x \in D /\ f[x] <= k
      OBVIOUS
    <3>1. CASE Walk(g, k - 1, s, x)
      <4>1. x \in D /\ f[x] <= k - 1 /\ f[x] \in Nat
        BY <1>1, <2>2, <3>1
      <4>. QED  BY <4>1
    <3>2. CASE \E y \in V : Walk(g, k - 1, s, y) /\ Adj(g, y, x)
      <4>1. PICK y \in V : Walk(g, k - 1, s, y) /\ Adj(g, y, x)
        BY <3>2
      <4>2. y \in D /\ f[y] <= k - 1 /\ f[y] \in Nat
        BY <1>1, <2>2, <4>1
      <4>3. x \in D /\ f[x] <= f[y] + 1 /\ f[x] \in Nat
        BY <1>1, <4>1, <4>2
      <4>. QED  BY <4>2, <4>3
    <3>. QED  BY <3>1, <3>2, WalkSteps
  <2>. HIDE DEF G
  <2>3. \A k \in 0..n : k \in G
    BY <2>1, <2>2, Rounds
  <2>. QED  BY <1>1, <2>3 DEF G
<1>. QED  BY <1>2, <1>3

LEMMA TrueDiameterIs ==
  ASSUME NEW g, g.n \in Nat
  PROVE  LET W == Walks(g)
             d == TrueDiameter(g)
         IN d \in 0..g.n /\ W[d] = W[g.n] /\ \A e \in 0..(d - 1) : W[e] # W[g.n]
<1>. DEFINE n == g.n
            W == Walks(g)
            Full == {d \in 0..n : W[d] = W[n]}
<1>. HIDE DEF W
<1>1. PICK x \in Full : \A y \in Full : x <= y
  <2>1. Full \subseteq Nat /\ n \in Full
    OBVIOUS
  <2>. HIDE DEF Full
  <2>. QED  BY <2>1, LeastExists
<1>2. \A e \in 0..(x - 1) : W[e] # W[n]
  <2>1. \A e \in 0..(x - 1) : e \in 0..n /\ ~(x <= e)
    OBVIOUS
  <2>. QED  BY <1>1, <2>1
<1>3. \E d \in 0..n : W[d] = W[n] /\ \A e \in 0..(d - 1) : W[e] # W[n]
  BY <1>2
<1>. DEFINE P(d) == W[d] = W[n] /\ \A e \in 0..(d - 1) : W[e] # W[n]
<1>4. TrueDiameter(g) = CHOOSE d \in 0..n : P(d)
  BY DEF TrueDiameter, W
<1>5. \E d \in 0..n : P(d)
  BY <1>3
<1>. HIDE DEF P
<1>6. TrueDiameter(g) \in 0..n /\ P(TrueDiameter(g))
  BY <1>4, <1>5
<1>. QED  BY <1>6 DEF P, W

LEMMA GreatestExists ==
  ASSUME NEW S, S \subseteq Nat, S # {}, NEW m \in Nat, \A x \in S : x <= m
  PROVE  Max(S) \in S /\ \A x \in S : x <= Max(S)
<1>. DEFINE T == {m - x : x \in S}
<1>1. T \subseteq Nat /\ T # {}
  <2>1. \A x \in S : m - x \in Nat
    OBVIOUS
  <2>. QED  BY <2>1
<1>2. PICK y \in T : \A z \in T : y <= z
  <2>. HIDE DEF T
  <2>. QED  BY <1>1, LeastExists
<1>3. PICK x \in S : y = m - x
  BY <1>2
<1>4. \A z \in S : x >= z
  <2>1. ASSUME NEW z \in S PROVE x >= z
    <3>1. y <= m - z
      BY <1>2
    <3>. QED  BY <1>3, <3>1
  <2>. QED  BY <2>1
<1>5. \E c \in S : \A z \in S : c >= z
  BY <1>4
<1>6. Max(S) \in S /\ \A z \in S : Max(S) >= z
  BY <1>5 DEF Max
<1>. QED  BY <1>6

(* The eccentricity of one vertex is at most the diameter, and at least     *)
(* half of it, by the walks through that vertex.                            *)
LEMMA DiameterIsBounded ==
  ASSUME NEW g, g.n \in Nat
  PROVE  LET d == Diameter(Searches(g))
         IN IF Cardinality(Components(g)) # 1 THEN d = -1
            ELSE d <= TrueDiameter(g) /\ TrueDiameter(g) <= 2 * d
<1>. DEFINE n == g.n
            V == Vertices(g)
            F == Searches(g)
            t == TrueDiameter(g)
            W == Walks(g)
<1>1. Len(F) = Cardinality(Components(g))
  BY ComponentsAreCounted
<1>2. CASE Len(F) # 1
  BY <1>1, <1>2 DEF Diameter
<1>3. CASE Len(F) = 1
  <2>1. /\ DOMAIN F = 1..Len(F)
        /\ \A i \in DOMAIN F : \E s \in V : Search(g, s, F[i])
        /\ \A v \in V : \E i \in DOMAIN F : v \in DOMAIN F[i]
    BY SearchesAreOfComponents
  <2>. DEFINE f == F[1]
              E == {f[v] : v \in DOMAIN f}
              ecc == Max(E)
  <2>2. Diameter(F) = ecc
    BY <1>3 DEF Diameter
  <2>. HIDE DEF F
  <2>3. DOMAIN F = {1}
    BY <1>3, <2>1
  <2>4. PICK s \in V : Search(g, s, f)
    BY <2>1, <2>3
  <2>. HIDE DEF f
  <2>5. /\ DOMAIN f = V /\ f \in [V -> Nat] /\ \A v \in V : f[v] < n
    <3>1. V \subseteq DOMAIN f
      BY <2>1, <2>3 DEF f
    <3>. QED  BY <2>4, <3>1 DEF Search
  <2>6. E \subseteq Nat /\ E # {} /\ \A x \in E : x <= n
    BY <2>5
  <2>7. ecc \in E /\ \A x \in E : x <= ecc
    <3>. HIDE DEF E
    <3>. QED  BY <2>6, GreatestExists
  <2>8. PICK v \in V : f[v] = ecc
    BY <2>5, <2>7
  <2>9. ecc \in 0..n /\ \A u \in V : f[u] \in 0..n /\ f[u] <= ecc
    BY <2>5, <2>6, <2>7
  <2>. HIDE DEF E, ecc, V, W, t
  <2>10. t \in 0..n /\ W[t] = W[n] /\ \A e \in 0..(t - 1) : W[e] # W[n]
    BY TrueDiameterIs DEF t, W
  <2>11. n \in 0..n
    OBVIOUS
  <2>12. ecc <= t
    <3>1. Walk(g, f[v], s, v)
      BY <2>4, <2>5, SearchMeasures DEF V
    <3>2. Walk(g, n, s, v)
      BY <2>9, <2>11, <3>1, WalksGrow DEF V
    <3>3. Walk(g, t, s, v)
      BY <2>10, <3>2 DEF Walk, W
    <3>. QED  BY <2>4, <2>5, <2>8, <2>10, <3>3, SearchMeasures DEF V
  <2>13. t <= 2 * ecc
    <3>. SUFFICES ASSUME 2 * ecc < t PROVE FALSE
      BY <2>9, <2>10
    <3>1. 2 * ecc \in 0..n /\ 2 * ecc \in 0..(t - 1) /\ ecc + ecc = 2 * ecc /\ ecc + ecc <= n
      BY <2>9, <2>10
    <3>2. ASSUME NEW u \in V, NEW w \in V PROVE Walk(g, 2 * ecc, u, w)
      <4>1. Walk(g, f[u], u, s) /\ Walk(g, f[w], s, w)
        BY <2>4, <2>5, SearchMeasures DEF V
      <4>2. Walk(g, ecc, u, s) /\ Walk(g, ecc, s, w)
        BY <2>9, <4>1, WalksGrow DEF V
      <4>. QED  BY <2>9, <3>1, <4>2, WalksCompose DEF V
    <3>3. W[2 * ecc] \subseteq V \X V /\ W[n] \subseteq V \X V
      BY <2>11, <3>1, WalksArePairs DEF V, W
    <3>4. V \X V \subseteq W[2 * ecc]
      BY <3>2 DEF Walk, W
    <3>5. V \X V \subseteq W[n]
      <4>1. \A u, w \in V : Walk(g, n, u, w)
        BY <2>11, <3>1, <3>2, WalksGrow DEF V
      <4>. QED  BY <4>1 DEF Walk, W
    <3>6. W[2 * ecc] = W[n]
      BY <3>3, <3>4, <3>5
    <3>. QED  BY <2>10, <3>1, <3>6
  <2>. QED  BY <1>1, <1>3, <2>2, <2>12, <2>13 DEF F, t
<1>. QED  BY <1>2, <1>3

(* What is taken for the diameter is how far the first vertex is from the   *)
(* others.                                                                  *)
LEMMA DiameterIsEccentricity ==
  ASSUME NEW g, g.n \in Nat
  PROVE  Diameter(Searches(g)) = IF Cardinality(Components(g)) = 1 THEN Eccentricity(g, 1) ELSE -1
<1>. DEFINE n == g.n
            V == Vertices(g)
            F == Searches(g)
<1>1. Len(F) = Cardinality(Components(g))
  BY ComponentsAreCounted
<1>2. CASE Len(F) # 1
  BY <1>1, <1>2 DEF Diameter
<1>3. CASE Len(F) = 1
  <2>1. /\ DOMAIN F = 1..Len(F)
        /\ \A i \in DOMAIN F : \E s \in V : Search(g, s, F[i])
        /\ \A v \in V : \E i \in DOMAIN F : v \in DOMAIN F[i]
    BY SearchesAreOfComponents
  <2>. DEFINE f == F[1]
              E == {f[v] : v \in DOMAIN f}
              ecc == Max(E)
  <2>2. Diameter(F) = ecc
    BY <1>3 DEF Diameter
  <2>3. DOMAIN F = {1}
    BY <1>3, <2>1
  <2>4. n \in Nat \ {0} /\ 1 \in V
    <3>1. PICK s \in V : Search(g, s, F[1])
      BY <2>1, <2>3
    <3>2. s \in Int /\ 1 <= s /\ s <= n
      BY <3>1 DEF Vertices
    <3>. QED  BY <3>2 DEF Vertices
  <2>5. f = DistancesFrom(g, 1)
    BY <2>4, FirstSearch
  <2>6. Search(g, 1, f)
    BY <2>4, <2>5, SearchEnds
  <2>. HIDE DEF F
  <2>7. V \subseteq DOMAIN f
    BY <2>1, <2>3
  <2>. HIDE DEF f
  <2>8. /\ DOMAIN f = V /\ f \in [V -> Nat] /\ \A v \in V : f[v] < n
    BY <2>6, <2>7 DEF Search
  <2>9. E \subseteq Nat /\ E # {} /\ \A x \in E : x <= n
    BY <2>4, <2>8
  <2>10. ecc \in E /\ \A x \in E : x <= ecc
    <3>. HIDE DEF E
    <3>. QED  BY <2>9, GreatestExists
  <2>11. PICK v \in V : f[v] = ecc
    BY <2>8, <2>10
  <2>12. ecc \in 0..n /\ \A u \in V : f[u] \in 0..n /\ f[u] <= ecc
    BY <2>8, <2>9, <2>10
  <2>. HIDE DEF E, ecc, V
  <2>. DEFINE P(d) == Near(g, 1, d) = V /\ \A e \in 0..(d - 1) : Near(g, 1, e) # V
  <2>13. Near(g, 1, ecc) = V
    <3>1. ASSUME NEW u \in V PROVE Walk(g, ecc, 1, u)
      <4>1. Walk(g, f[u], 1, u)
        BY <2>4, <2>6, <2>8, SearchMeasures DEF V
      <4>. QED  BY <2>4, <2>12, <4>1, WalksGrow DEF V
    <3>. QED  BY <3>1 DEF Near, Walk, V
  <2>14. ASSUME NEW e \in 0..(ecc - 1) PROVE Near(g, 1, e) # V
    <3>1. e \in 0..n /\ ~(ecc <= e)
      BY <2>12
    <3>2. ~Walk(g, e, 1, v)
      BY <2>4, <2>6, <2>8, <2>11, <3>1, SearchMeasures DEF V
    <3>. QED  BY <3>2 DEF Near, Walk
  <2>15. P(ecc)
    BY <2>13, <2>14
  <2>16. ASSUME NEW d \in 0..n, P(d) PROVE d = ecc
    <3>1. ~(d \in 0..(ecc - 1)) /\ ~(ecc \in 0..(d - 1))
      BY <2>15, <2>16
    <3>. QED  BY <2>12, <3>1
  <2>17. Eccentricity(g, 1) = CHOOSE d \in 0..n : P(d)
    BY DEF Eccentricity, V
  <2>. HIDE DEF P
  <2>18. Eccentricity(g, 1) = ecc
    BY <2>12, <2>15, <2>16, <2>17
  <2>. QED  BY <1>1, <1>3, <2>2, <2>18 DEF F
<1>. QED  BY <1>2, <1>3

-----------------------------------------------------------------------------
(* Triangles.                                                               *)

LEMMA VerticesAreFinite ==
  ASSUME NEW g, g.n \in Nat
  PROVE  IsFiniteSet(Vertices(g)) /\ Cardinality(Vertices(g)) = g.n /\ Vertices(g) \subseteq Nat
<1>1. 1 \in Int /\ g.n \in Int
  OBVIOUS
<1>2. IsFiniteSet(1..g.n) /\ Cardinality(1..g.n) = IF 1 > g.n THEN 0 ELSE g.n - 1 + 1
  BY <1>1, FS_Interval
<1>3. Cardinality(1..g.n) = g.n
  BY <1>2
<1>. QED  BY <1>2, <1>3 DEF Vertices

LEMMA Triples ==
  ASSUME NEW u, NEW v, NEW w, u # v, v # w, u # w
  PROVE  IsFiniteSet({u, v, w}) /\ Cardinality({u, v, w}) = 3
<1>1. {u, v, w} = {u, v} \cup {w} /\ w \notin {u, v}
  OBVIOUS
<1>2. IsFiniteSet({u, v}) /\ Cardinality({u, v}) = 2
  BY Pairs
<1>. QED  BY <1>1, <1>2, FS_AddElement

(* Three numbers in order.                                                  *)
LEMMA ThreeInOrder ==
  ASSUME NEW t \in SUBSET Nat, IsFiniteSet(t), Cardinality(t) = 3
  PROVE  \E i, j, k \in t : i < j /\ j < k /\ t = {i, j, k}
<1>1. t # {}
  BY FS_EmptySet
<1>2. PICK i \in t : \A x \in t : i <= x
  BY <1>1, LeastExists
<1>3. IsFiniteSet(t \ {i}) /\ Cardinality(t \ {i}) = 2
  BY FS_RemoveElement
<1>4. t \ {i} # {}
  BY <1>3, FS_EmptySet
<1>5. PICK j \in t \ {i} : \A x \in t \ {i} : j <= x
  <2>. DEFINE r == t \ {i}
  <2>1. r \subseteq Nat /\ r # {}
    BY <1>4
  <2>. HIDE DEF r
  <2>2. \E j \in r : \A x \in r : j <= x
    BY <2>1, LeastExists
  <2>. QED  BY <2>2 DEF r
<1>6. IsFiniteSet((t \ {i}) \ {j}) /\ Cardinality((t \ {i}) \ {j}) = 1
  BY <1>3, FS_RemoveElement
<1>7. PICK k : (t \ {i}) \ {j} = {k}
  BY <1>6, FS_Singleton
<1>8. i < j /\ j < k /\ t = {i, j, k} /\ k \in t
  <2>1. k \in t /\ k # i /\ k # j /\ j # i /\ i <= j /\ j <= k
    BY <1>2, <1>5, <1>7
  <2>2. t = {i, j, k}
    BY <1>7
  <2>. QED  BY <2>1, <2>2
<1>. QED  BY <1>8

(* The triples of a graph in increasing order are as many as the sets of    *)
(* three vertices of which any two are an edge.                             *)
LEMMA TrianglesAreCounted ==
  ASSUME NEW g, g.n \in Nat
  PROVE  Cardinality(Triangles(g))
         = Cardinality({t \in kSubset(3, Vertices(g)) : kSubset(2, t) \subseteq Edges(g)})
<1>. DEFINE V == Vertices(g)
            R == Triangles(g)
            S == {t \in kSubset(3, V) : kSubset(2, t) \subseteq Edges(g)}
            f == [r \in R |-> {r[1], r[2], r[3]}]
<1>1. V \subseteq Nat /\ IsFiniteSet(V)
  BY VerticesAreFinite
<1>2. ASSUME NEW r \in R
      PROVE  /\ r[1] \in V /\ r[2] \in V /\ r[3] \in V /\ r = <<r[1], r[2], r[3]>>
             /\ r[1] < r[2] /\ r[2] < r[3]
             /\ Adj(g, r[1], r[2]) /\ Adj(g, r[2], r[3]) /\ Adj(g, r[1], r[3])
  BY DEF Triangles
<1>3. ASSUME NEW i \in V, NEW j \in V, NEW k \in V, i < j, j < k
      PROVE  {i, j, k} \in S <=> <<i, j, k>> \in R
  <2>1. i # j /\ j # k /\ i # k
    BY <1>1, <1>3
  <2>2. {i, j, k} \in kSubset(3, V)
    BY <2>1, Triples DEF kSubset
  <2>3. kSubset(2, {i, j, k}) = {{i, j}, {j, k}, {i, k}}
    <3>1. {{i, j}, {j, k}, {i, k}} \subseteq kSubset(2, {i, j, k})
      BY <2>1, Pairs DEF kSubset
    <3>2. ASSUME NEW e \in kSubset(2, {i, j, k}) PROVE e \in {{i, j}, {j, k}, {i, k}}
      <4>1. e \in SUBSET {i, j, k} /\ Cardinality(e) = 2
        BY DEF kSubset
      <4>2. /\ Cardinality({}) = 0 /\ Cardinality({i}) = 1 /\ Cardinality({j}) = 1
            /\ Cardinality({k}) = 1 /\ Cardinality({i, j, k}) = 3
        <5>1. Cardinality({}) = 0
          BY FS_EmptySet
        <5>2. Cardinality({i}) = 1 /\ Cardinality({j}) = 1 /\ Cardinality({k}) = 1
          BY FS_Singleton
        <5>3. Cardinality({i, j, k}) = 3
          BY <2>1, Triples
        <5>. QED  BY <5>1, <5>2, <5>3
      <4>3. e \in {{}, {i}, {j}, {k}, {i, j}, {j, k}, {i, k}, {i, j, k}}
        BY <4>1
      <4>. QED  BY <4>1, <4>2, <4>3
    <3>. QED  BY <3>1, <3>2
  <2>4. ASSUME NEW u \in V, NEW v \in V, u # v PROVE {u, v} \in Edges(g) <=> Adj(g, u, v)
    <3>1. ASSUME {u, v} \in Edges(g) PROVE Adj(g, u, v)
      <4>. DEFINE e == {u, v}
      <4>1. e \in Edges(g)
        BY <3>1
      <4>. HIDE DEF e
      <4>2. \E a, b \in Vertices(g) : a # b /\ Adj(g, a, b) /\ e = {a, b}
        BY <4>1, EdgesArePairs
      <4>3. PICK a \in Vertices(g), b \in Vertices(g) : a # b /\ Adj(g, a, b) /\ e = {a, b}
        BY <4>2
      <4>4. Adj(g, b, a)
        BY <4>3, AdjIsSymmetric DEF Vertices
      <4>5. (u = a /\ v = b) \/ (u = b /\ v = a)
        BY <2>4, <4>3 DEF e
      <4>. QED  BY <4>3, <4>4, <4>5
    <3>2. ASSUME Adj(g, u, v) PROVE {u, v} \in Edges(g)
      <4>1. \A x, y \in Vertices(g) : Adj(g, x, y) => x # y /\ {x, y} \in Edges(g)
        BY EdgesArePairs
      <4>. QED  BY <3>2, <4>1
    <3>. QED  BY <3>1, <3>2
  <2>5. {i, j, k} \in S <=> Adj(g, i, j) /\ Adj(g, j, k) /\ Adj(g, i, k)
    <3>1. {i, j, k} \in S <=> kSubset(2, {i, j, k}) \subseteq Edges(g)
      BY <2>2
    <3>2. kSubset(2, {i, j, k}) \subseteq Edges(g)
          <=> {i, j} \in Edges(g) /\ {j, k} \in Edges(g) /\ {i, k} \in Edges(g)
      BY <2>3
    <3>3. ({i, j} \in Edges(g) <=> Adj(g, i, j)) /\ ({j, k} \in Edges(g) <=> Adj(g, j, k))
          /\ ({i, k} \in Edges(g) <=> Adj(g, i, k))
      BY <2>1, <2>4
    <3>. HIDE DEF S
    <3>. QED  BY <3>1, <3>2, <3>3
  <2>6. <<i, j, k>> \in R <=> Adj(g, i, j) /\ Adj(g, j, k) /\ Adj(g, i, k)
    BY <1>3 DEF Triangles
  <2>. QED  BY <2>5, <2>6
<1>4. f \in Bijection(R, S)
  <2>1. ASSUME NEW r \in R PROVE f[r] \in S
    <3>1. <<r[1], r[2], r[3]>> \in R
      BY <1>2
    <3>. HIDE DEF R, S
    <3>. QED  BY <1>2, <1>3, <3>1
  <2>2. ASSUME NEW r \in R, NEW q \in R, f[r] = f[q] PROVE r = q
    <3>1. {r[1], r[2], r[3]} = {q[1], q[2], q[3]}
      BY <2>2
    <3>2. /\ r[1] \in Nat /\ r[2] \in Nat /\ r[3] \in Nat /\ q[1] \in Nat /\ q[2] \in Nat /\ q[3] \in Nat
          /\ r[1] < r[2] /\ r[2] < r[3] /\ q[1] < q[2] /\ q[2] < q[3]
      BY <1>1, <1>2
    <3>. HIDE DEF R, f
    <3>3. r[1] = q[1] /\ r[2] = q[2] /\ r[3] = q[3]
      BY <3>1, <3>2
    <3>. QED  BY <1>2, <3>3
  <2>3. ASSUME NEW t \in S PROVE \E r \in R : f[r] = t
    <3>1. t \in SUBSET V /\ Cardinality(t) = 3
      BY DEF kSubset
    <3>2. t \in SUBSET Nat /\ IsFiniteSet(t)
      BY <1>1, <3>1, FS_Subset
    <3>3. PICK i \in t, j \in t, k \in t : i < j /\ j < k /\ t = {i, j, k}
      BY <3>1, <3>2, ThreeInOrder
    <3>4. <<i, j, k>> \in R
      BY <1>3, <3>1, <3>3
    <3>. HIDE DEF R
    <3>. QED  BY <3>3, <3>4
  <2>. HIDE DEF R, S
  <2>. QED  BY <2>1, <2>2, <2>3 DEF Bijection, Injection, Surjection, IsInjective
<1>5. IsFiniteSet(S)
  <2>1. S \subseteq SUBSET V /\ IsFiniteSet(SUBSET V)
    BY <1>1, FS_SUBSET DEF kSubset
  <2>. HIDE DEF S
  <2>. QED  BY <2>1, FS_Subset
<1>6. ExistsBijection(R, S)
  BY <1>4 DEF ExistsBijection
<1>. HIDE DEF R, S
<1>7. ExistsBijection(S, R)
  BY <1>6, Fun_ExistsBijSymmetric
<1>8. Cardinality(R) = Cardinality(S)
  BY <1>5, <1>7, FS_Bijection
<1>. QED  BY <1>8 DEF R, S

-----------------------------------------------------------------------------
(* The degrees, their sum and their order.                                  *)

LEMMA DegreeIsBounded ==
  ASSUME NEW g, g.n \in Nat, NEW i PROVE Degree(g, i) \in 0..g.n
<1>. DEFINE V == Vertices(g)
            N == {j \in V : Adj(g, i, j)}
<1>1. IsFiniteSet(V) /\ Cardinality(V) = g.n
  BY VerticesAreFinite
<1>2. N \in SUBSET V
  OBVIOUS
<1>. HIDE DEF V, N
<1>3. IsFiniteSet(N) /\ Cardinality(N) <= Cardinality(V)
  BY <1>1, <1>2, FS_Subset
<1>4. Cardinality(N) \in Nat
  BY <1>3, FS_CardinalityType
<1>5. Cardinality(N) \in 0..g.n
  BY <1>1, <1>3, <1>4
<1>. QED  BY <1>5 DEF Degree, N, V

LEMMA SumsRun ==
  ASSUME NEW s \in Seq(Nat)
  PROVE  LET U == SumsOf(s)
         IN U[0] = 0 /\ \A k \in 1..Len(s) : U[k] = U[k - 1] + s[k]
<1>. DEFINE n == Len(s)
            step == [k \in 1..n |-> [x \in Nat |-> x + s[k]]]
            Body(U) == [k \in 0..n |-> IF k = 0 THEN 0 ELSE U[k - 1] + s[k]]
            X == SumsOf(s)
<1>1. n \in Nat /\ \A k \in 1..n : s[k] \in Nat
  OBVIOUS
<1>2. X = CHOOSE H : H = Body(H)
  BY DEF SumsOf
<1>. HIDE DEF n, X
<1>3. step \in [1..n -> [Nat -> Nat]]
  BY <1>1
<1>4. PICK U \in [0..n -> Nat] : Runs(U, n, 0, step)
  <2>. HIDE DEF step
  <2>1. 0 \in Nat
    OBVIOUS
  <2>. QED  BY <1>1, <1>3, <2>1, LoopRuns
<1>5. U[0] = 0 /\ \A k \in 1..n : U[k] = U[k - 1] + s[k]
  <2>1. ASSUME NEW k \in 1..n PROVE U[k] = U[k - 1] + s[k]
    <3>1. U[k] = step[k][U[k - 1]]
      BY <1>4 DEF Runs
    <3>2. k - 1 \in 0..n
      BY <1>1
    <3>. QED  BY <3>1, <3>2
  <2>. QED  BY <1>4, <2>1 DEF Runs
<1>6. U = Body(U)
  <2>1. ASSUME NEW k \in 0..n PROVE U[k] = Body(U)[k]
    <3>1. CASE k = 0
      BY <1>5, <3>1
    <3>2. CASE k # 0
      <4>1. k \in 1..n
        BY <1>1, <3>2
      <4>. QED  BY <1>5, <3>2, <4>1
    <3>. QED  BY <3>1, <3>2
  <2>. QED  BY <2>1
<1>. HIDE DEF Body
<1>7. X = Body(X)
  BY <1>2, <1>6
<1>8. X[0] = 0 /\ \A k \in 1..n : X[k] = X[k - 1] + s[k]
  <2>1. 0 \in 0..n /\ \A k \in 1..n : k \in 0..n /\ k # 0
    BY <1>1
  <2>2. \A k \in 0..n : X[k] = Body(X)[k]
    BY <1>7
  <2>. QED  BY <2>1, <2>2 DEF Body
<1>. QED  BY <1>8 DEF X, n

(* Two vertices that are neighbours, in this order, the first among the     *)
(* first k.                                                                 *)
Arcs(g, k) == {p \in (1..k) \X Vertices(g) : Adj(g, p[1], p[2])}

LEMMA ArcsOfNext ==
  ASSUME NEW g, g.n \in Nat, NEW k \in 1..g.n, IsFiniteSet(Arcs(g, k - 1))
  PROVE  /\ IsFiniteSet(Arcs(g, k))
         /\ Cardinality(Arcs(g, k)) = Cardinality(Arcs(g, k - 1)) + Degree(g, k)
<1>. DEFINE V == Vertices(g)
            N == {j \in V : Adj(g, k, j)}
            Star == {p \in {k} \X V : Adj(g, p[1], p[2])}
            A == Arcs(g, k - 1)
            f == [j \in N |-> <<k, j>>]
<1>1. Arcs(g, k) = A \cup Star /\ A \cap Star = {}
  <2>1. 1..k = (1..(k - 1)) \cup {k} /\ k \notin 1..(k - 1)
    OBVIOUS
  <2>. QED  BY <2>1 DEF Arcs
<1>2. IsFiniteSet(N)
  <2>1. N \in SUBSET V
    OBVIOUS
  <2>. HIDE DEF N, V
  <2>. QED  BY <2>1, VerticesAreFinite, FS_Subset DEF V
<1>3. f \in Bijection(N, Star)
  <2>1. f \in [N -> Star]
    OBVIOUS
  <2>2. \A a, b \in N : f[a] = f[b] => a = b
    OBVIOUS
  <2>3. \A p \in Star : \E j \in N : f[j] = p
    OBVIOUS
  <2>. HIDE DEF f, N, Star
  <2>. QED  BY <2>1, <2>2, <2>3 DEF Bijection, Injection, Surjection, IsInjective
<1>4. IsFiniteSet(Star) /\ Cardinality(Star) = Cardinality(N)
  <2>1. ExistsBijection(N, Star)
    BY <1>3 DEF ExistsBijection
  <2>. HIDE DEF N, Star
  <2>. QED  BY <1>2, <2>1, FS_Bijection
<1>5. Cardinality(N) = Degree(g, k)
  BY DEF Degree
<1>. HIDE DEF A, Star, N
<1>6. /\ IsFiniteSet(A \cup Star)
      /\ Cardinality(A \cup Star) = Cardinality(A) + Cardinality(Star) - Cardinality(A \cap Star)
  BY <1>4, FS_Union DEF A
<1>7. Cardinality(A \cap Star) = 0 /\ Cardinality(A) \in Nat /\ Cardinality(Star) \in Nat
  BY <1>1, <1>4, FS_EmptySet, FS_CardinalityType DEF A
<1>. QED  BY <1>1, <1>4, <1>5, <1>6, <1>7 DEF A

LEMMA ArcsAreTwicePerEdge ==
  ASSUME NEW g, g.n \in Nat, IsFiniteSet(Arcs(g, g.n))
  PROVE  /\ Cardinality(Edges(g)) \in Nat
         /\ Cardinality(Arcs(g, g.n)) = 2 * Cardinality(Edges(g))
<1>. DEFINE V == Vertices(g)
            A == Arcs(g, g.n)
            Up == {p \in A : p[1] < p[2]}
            Down == {p \in A : p[2] < p[1]}
            flip == [p \in Up |-> <<p[2], p[1]>>]
            ends == [p \in Up |-> {p[1], p[2]}]
<1>1. V \subseteq Int
  BY VerticesAreFinite
<1>2. \A p \in V \X V : p \in A <=> Adj(g, p[1], p[2])
  BY DEF Arcs, Vertices
<1>3. A \subseteq V \X V
  BY DEF Arcs, Vertices
<1>4. \A u, v \in V : (Adj(g, u, v) <=> Adj(g, v, u)) /\ ~Adj(g, u, u)
  BY <1>1, AdjIsSymmetric
<1>. HIDE DEF A, V
<1>5. A = Up \cup Down /\ Up \cap Down = {} /\ Up \in SUBSET A
  <2>1. \A p \in A : p[1] \in Int /\ p[2] \in Int /\ p[1] # p[2]
    BY <1>1, <1>2, <1>3, <1>4
  <2>2. \A p \in A : (p \in Up \/ p \in Down) /\ ~(p \in Up /\ p \in Down)
    BY <2>1
  <2>. QED  BY <2>2
<1>6. \A p \in Up : p \in V \X V /\ p = <<p[1], p[2]>> /\ p[1] \in Int /\ p[2] \in Int /\ p[1] < p[2]
                    /\ Adj(g, p[1], p[2]) /\ p[1] \in V /\ p[2] \in V
  <2>1. \A p \in Up : p \in V \X V /\ p \in A /\ p[1] < p[2]
    BY <1>3
  <2>2. \A p \in V \X V : p[1] \in V /\ p[2] \in V /\ p = <<p[1], p[2]>>
    OBVIOUS
  <2>. HIDE DEF Up
  <2>. QED  BY <1>1, <1>2, <2>1, <2>2
<1>7. \A u, v \in V : Adj(g, u, v) /\ u < v => <<u, v>> \in Up /\ <<v, u>> \in Down
  BY <1>2, <1>4
<1>8. flip \in Bijection(Up, Down)
  <2>1. flip \in [Up -> Down]
    BY <1>6, <1>7
  <2>2. \A p, q \in Up : flip[p] = flip[q] => p = q
    BY <1>6
  <2>3. ASSUME NEW p \in Down PROVE \E q \in Up : flip[q] = p
    <3>1. p \in V \X V /\ p = <<p[1], p[2]>> /\ Adj(g, p[1], p[2]) /\ p[2] < p[1]
      BY <1>2, <1>3
    <3>2. <<p[2], p[1]>> \in Up
      BY <1>4, <1>7, <3>1
    <3>. QED  BY <3>1, <3>2
  <2>. HIDE DEF flip, Up, Down
  <2>. QED  BY <2>1, <2>2, <2>3 DEF Bijection, Injection, Surjection, IsInjective
<1>9. ends \in Bijection(Up, Edges(g))
  <2>1. ends \in [Up -> Edges(g)]
    BY <1>6, EdgesArePairs DEF V
  <2>2. \A a, b, c, d \in Int : a < b /\ c < d /\ {a, b} = {c, d} => a = c /\ b = d
    <3>1. ASSUME NEW a \in Int, NEW b \in Int, NEW c \in Int, NEW d \in Int,
                 a < b, c < d, {a, b} = {c, d}
          PROVE  a = c /\ b = d
      <4>1. a \in {c, d} /\ b \in {c, d}
        BY <3>1
      <4>2. (a = c \/ a = d) /\ (b = c \/ b = d)
        BY <4>1
      <4>. HIDE <4>1
      <4>3. a < b /\ c < d
        BY <3>1
      <4>. QED  BY <4>2, <4>3
    <3>. QED  BY <3>1
  <2>3. ASSUME NEW p \in Up, NEW q \in Up, ends[p] = ends[q] PROVE p = q
    <3>1. {p[1], p[2]} = {q[1], q[2]}
      BY <2>3
    <3>2. p[1] = q[1] /\ p[2] = q[2]
      BY <1>6, <2>2, <3>1
    <3>. QED  BY <1>6, <3>2
  <2>4. ASSUME NEW e \in Edges(g) PROVE \E p \in Up : ends[p] = e
    <3>1. PICK u \in V, v \in V : u # v /\ Adj(g, u, v) /\ e = {u, v}
      BY EdgesArePairs DEF V
    <3>2. CASE u < v
      <4>1. <<u, v>> \in Up
        BY <1>7, <3>1, <3>2
      <4>2. ends[<<u, v>>] = {u, v}
        BY <4>1
      <4>. QED  BY <3>1, <4>1, <4>2
    <3>3. CASE v < u
      <4>1. <<v, u>> \in Up
        BY <1>4, <1>7, <3>1, <3>3
      <4>2. ends[<<v, u>>] = {u, v}
        BY <4>1
      <4>. QED  BY <3>1, <4>1, <4>2
    <3>. QED  BY <1>1, <3>1, <3>2, <3>3
  <2>. HIDE DEF ends, Up
  <2>. QED  BY <2>1, <2>3, <2>4 DEF Bijection, Injection, Surjection, IsInjective
<1>. HIDE DEF Up, Down, flip, ends
<1>10. IsFiniteSet(Up)
  BY <1>5, FS_Subset DEF A
<1>11. IsFiniteSet(Down) /\ Cardinality(Down) = Cardinality(Up)
  BY <1>8, <1>10, FS_Bijection DEF ExistsBijection
<1>12. Cardinality(Edges(g)) = Cardinality(Up)
  BY <1>9, <1>10, FS_Bijection DEF ExistsBijection
<1>13. Cardinality(A) = Cardinality(Up) + Cardinality(Down) - 0
  BY <1>5, <1>10, <1>11, FS_Union, FS_EmptySet
<1>14. Cardinality(Up) \in Nat
  BY <1>10, FS_CardinalityType
<1>. QED  BY <1>11, <1>12, <1>13, <1>14 DEF A

Degrees(g) == [i \in Vertices(g) |-> Degree(g, i)]

(* Each edge is counted at both of its ends.                                *)
LEMMA EdgesAreCounted ==
  ASSUME NEW g, g.n \in Nat
  PROVE  SumsOf(Degrees(g))[g.n] \div 2 = Cardinality(Edges(g))
<1>. DEFINE n == g.n
            s == Degrees(g)
            U == SumsOf(s)
            G == {k \in 0..n : IsFiniteSet(Arcs(g, k)) /\ Cardinality(Arcs(g, k)) = U[k]}
<1>1. s \in Seq(Nat) /\ Len(s) = n /\ \A k \in 1..n : s[k] = Degree(g, k)
  <2>1. \A k \in 1..n : Degree(g, k) \in Nat
    BY DegreeIsBounded
  <2>2. s = [k \in 1..n |-> Degree(g, k)]
    BY DEF Degrees, Vertices
  <2>. HIDE DEF s
  <2>. QED  BY <2>1, <2>2
<1>. HIDE DEF s
<1>2. U[0] = 0 /\ \A k \in 1..n : U[k] = U[k - 1] + s[k]
  BY <1>1, SumsRun
<1>. HIDE DEF U
<1>3. 0 \in G
  <2>1. Arcs(g, 0) = {}
    BY DEF Arcs
  <2>. QED  BY <1>2, <2>1, FS_EmptySet
<1>4. ASSUME NEW k \in 1..n, k - 1 \in G PROVE k \in G
  <2>1. IsFiniteSet(Arcs(g, k)) /\ Cardinality(Arcs(g, k)) = Cardinality(Arcs(g, k - 1)) + Degree(g, k)
    BY <1>4, ArcsOfNext
  <2>2. Cardinality(Arcs(g, k - 1)) = U[k - 1]
    BY <1>4
  <2>3. k \in 0..n
    OBVIOUS
  <2>. QED  BY <1>1, <1>2, <2>1, <2>2, <2>3
<1>. HIDE DEF G
<1>5. \A k \in 0..n : k \in G
  BY <1>3, <1>4, Rounds
<1>6. IsFiniteSet(Arcs(g, n)) /\ Cardinality(Arcs(g, n)) = U[n]
  BY <1>5 DEF G
<1>7. Cardinality(Edges(g)) \in Nat /\ U[n] = 2 * Cardinality(Edges(g))
  BY <1>6, ArcsAreTwicePerEdge
<1>8. \A m \in Nat : (2 * m) \div 2 = m
  OBVIOUS
<1>. QED  BY <1>7, <1>8 DEF U, s

(* Numbers up to m, n of them.                                              *)
Bounded(s, n, m) == n \in Nat /\ m \in Nat /\ s \in [1..n -> 0..m]
Reaching(s, n, x) == {i \in 1..n : s[i] >= x}

(* How many elements reach a value: all of them reach 0, fewer reach more.  *)
LEMMA FewerReachMore ==
  ASSUME NEW n, NEW m, NEW s, Bounded(s, n, m), NEW x \in Nat
  PROVE  /\ IsFiniteSet(Reaching(s, n, x))
         /\ AtLeast(s, x) = Cardinality(Reaching(s, n, x))
         /\ AtLeast(s, x) \in 0..n
         /\ x = 0 => AtLeast(s, x) = n
         /\ \A y \in Nat : x <= y => AtLeast(s, y) <= AtLeast(s, x)
<1>a. n \in Nat /\ m \in Nat /\ s \in [1..n -> 0..m]
  BY DEF Bounded
<1>. USE <1>a
<1>. DEFINE R(y) == Reaching(s, n, y)
<1>. USE DEF Reaching
<1>1. IsFiniteSet(1..n) /\ Cardinality(1..n) = n
  <2>1. 1 \in Int /\ n \in Int
    OBVIOUS
  <2>2. IsFiniteSet(1..n) /\ Cardinality(1..n) = IF 1 > n THEN 0 ELSE n - 1 + 1
    BY <2>1, FS_Interval
  <2>. QED  BY <2>2
<1>2. \A y : AtLeast(s, y) = Cardinality(R(y))
  BY DEF AtLeast
<1>3. ASSUME NEW y \in Nat
      PROVE  IsFiniteSet(R(y)) /\ Cardinality(R(y)) \in 0..n
  <2>1. R(y) \in SUBSET (1..n)
    OBVIOUS
  <2>. HIDE DEF R, Reaching
  <2>2. IsFiniteSet(R(y)) /\ Cardinality(R(y)) <= Cardinality(1..n)
    BY <1>1, <2>1, FS_Subset
  <2>3. Cardinality(R(y)) \in Nat
    BY <2>2, FS_CardinalityType
  <2>. QED  BY <1>1, <2>2, <2>3
<1>4. R(0) = 1..n
  <2>1. \A i \in 1..n : s[i] >= 0
    OBVIOUS
  <2>. QED  BY <2>1
<1>5. ASSUME NEW y \in Nat, x <= y PROVE AtLeast(s, y) <= AtLeast(s, x)
  <2>1. R(y) \in SUBSET R(x)
    <3>1. \A i \in 1..n : s[i] >= y => s[i] >= x
      BY <1>5
    <3>. QED  BY <3>1
  <2>. HIDE DEF R, Reaching
  <2>. QED  BY <1>2, <1>3, <2>1, FS_Subset
<1>6. x = 0 => AtLeast(s, x) = n
  BY <1>1, <1>2, <1>4
<1>7. IsFiniteSet(R(x)) /\ AtLeast(s, x) = Cardinality(R(x)) /\ AtLeast(s, x) \in 0..n
  <2>. HIDE DEF R, Reaching
  <2>. QED  BY <1>2, <1>3
<1>. QED  BY <1>5, <1>6, <1>7

(* The k-th of the sorted elements reaches d when k elements do.            *)
LEMMA DescendingReaches ==
  ASSUME NEW n, NEW m, NEW s, Bounded(s, n, m), NEW k \in 1..n
  PROVE  /\ Descending(s)[k] \in 0..m
         /\ \A d \in Nat : Descending(s)[k] >= d <=> AtLeast(s, d) >= k
<1>a. n \in Nat /\ m \in Nat /\ s \in [1..n -> 0..m]
  BY DEF Bounded
<1>. USE <1>a
<1>. DEFINE J == {j \in 1..n : AtLeast(s, s[j]) >= k}
            R == {s[i] : i \in J}
<1>1. Descending(s)[k] = Max(R)
  BY DEF Descending
<1>2. \A i \in 1..n : s[i] \in 0..m /\ s[i] \in Nat
  OBVIOUS
<1>3. \A x : x \in R <=> \E i \in 1..n : x = s[i] /\ AtLeast(s, x) >= k
  OBVIOUS
<1>. HIDE DEF J, R
<1>4. ASSUME NEW d \in Nat, AtLeast(s, d) >= k PROVE \E x \in R : x >= d
  <2>. DEFINE P == Reaching(s, n, d)
              T == {s[i] : i \in P}
  <2>1. Cardinality(P) >= k
    BY <1>4, FewerReachMore
  <2>2. P # {}
    BY <2>1, FS_EmptySet
  <2>3. T \subseteq Nat /\ T # {}
    BY <1>2, <2>2 DEF Reaching
  <2>4. PICK x \in T : \A y \in T : x <= y
    <3>. HIDE DEF T
    <3>. QED  BY <2>3, LeastExists
  <2>5. PICK j \in 1..n : x = s[j] /\ s[j] >= d
    BY <2>4 DEF Reaching
  <2>6. x \in Nat
    BY <1>2, <2>5
  <2>7. Reaching(s, n, x) = P
    <3>1. ASSUME NEW i \in 1..n PROVE s[i] >= x <=> s[i] >= d
      <4>1. s[i] \in Nat
        BY <1>2
      <4>2. s[i] >= d => x <= s[i]
        BY <2>4 DEF Reaching
      <4>. QED  BY <2>5, <2>6, <4>1, <4>2
    <3>. QED  BY <3>1 DEF Reaching
  <2>8. AtLeast(s, x) = Cardinality(P) /\ AtLeast(s, d) = Cardinality(P)
    <3>1. AtLeast(s, x) = Cardinality(Reaching(s, n, x))
      BY <2>6, FewerReachMore
    <3>2. AtLeast(s, d) = Cardinality(P)
      BY FewerReachMore
    <3>. QED  BY <2>7, <3>1, <3>2
  <2>. QED  BY <1>3, <1>4, <2>5, <2>8
<1>5. R \subseteq Nat /\ R # {} /\ \A x \in R : x <= m
  <2>1. AtLeast(s, 0) >= k
    <3>1. 0 \in Nat
      OBVIOUS
    <3>2. AtLeast(s, 0) = n
      BY <3>1, FewerReachMore
    <3>. QED  BY <3>2
  <2>2. \E x \in R : x >= 0
    BY <1>4, <2>1
  <2>. QED  BY <1>2, <1>3, <2>2
<1>6. Max(R) \in R /\ \A x \in R : x <= Max(R)
  BY <1>5, GreatestExists
<1>. DEFINE h == Max(R)
<1>7. h \in 0..m /\ AtLeast(s, h) >= k
  BY <1>2, <1>3, <1>6
<1>. HIDE DEF h
<1>8. ASSUME NEW d \in Nat PROVE h >= d <=> AtLeast(s, d) >= k
  <2>1. AtLeast(s, d) \in Nat /\ AtLeast(s, h) \in Nat /\ h \in Nat
    <3>1. h \in Nat
      BY <1>7
    <3>. QED  BY <3>1, FewerReachMore
  <2>2. ASSUME h >= d PROVE AtLeast(s, d) >= k
    <3>1. AtLeast(s, h) <= AtLeast(s, d)
      BY <2>1, <2>2, FewerReachMore
    <3>. QED  BY <1>7, <2>1, <3>1
  <2>3. ASSUME AtLeast(s, d) >= k PROVE h >= d
    <3>1. PICK x \in R : x >= d
      BY <1>4, <2>3
    <3>2. x <= h /\ x \in Nat
      BY <1>5, <1>6 DEF h
    <3>. QED  BY <2>1, <3>1, <3>2
  <2>. QED  BY <2>2, <2>3
<1>. QED  BY <1>1, <1>7, <1>8 DEF h

LEMMA DescendingDescends ==
  ASSUME NEW n, NEW m, NEW s, Bounded(s, n, m), NEW k \in 1..(n - 1)
  PROVE  Descending(s)[k] >= Descending(s)[k + 1]
<1>a. n \in Nat /\ m \in Nat /\ s \in [1..n -> 0..m]
  BY DEF Bounded
<1>. USE <1>a
<1>. DEFINE d == Descending(s)[k + 1]
<1>1. k \in 1..n /\ k + 1 \in 1..n
  OBVIOUS
<1>2. d \in Nat /\ (d >= d <=> AtLeast(s, d) >= k + 1)
  BY <1>1, DescendingReaches
<1>. HIDE DEF d
<1>3. AtLeast(s, d) \in Nat /\ AtLeast(s, d) >= k + 1
  BY <1>2, FewerReachMore
<1>4. AtLeast(s, d) >= k
  BY <1>3
<1>5. Descending(s)[k] >= d
  BY <1>1, <1>2, <1>4, DescendingReaches
<1>. QED  BY <1>5 DEF d

(* Sorting keeps what is sorted: each value stands as often as before.      *)
LEMMA DescendingKeeps ==
  ASSUME NEW n, NEW m, NEW s, Bounded(s, n, m), NEW d \in Nat
  PROVE  Cardinality({k \in 1..n : Descending(s)[k] = d}) = Cardinality({i \in 1..n : s[i] = d})
<1>a. n \in Nat /\ m \in Nat /\ s \in [1..n -> 0..m]
  BY DEF Bounded
<1>. USE <1>a
<1>. DEFINE a == AtLeast(s, d)
            b == AtLeast(s, d + 1)
            h == Descending(s)
            P == Reaching(s, n, d)
            Q == Reaching(s, n, d + 1)
<1>0. d + 1 \in Nat /\ d <= d + 1
  OBVIOUS
<1>1. /\ IsFiniteSet(P) /\ a = Cardinality(P) /\ a \in 0..n
      /\ b = Cardinality(Q) /\ b \in 0..n /\ b <= a
  BY <1>0, FewerReachMore
<1>2. \A k \in 1..n : h[k] \in Nat /\ (h[k] >= d <=> a >= k) /\ (h[k] >= d + 1 <=> b >= k)
  BY <1>0, DescendingReaches
<1>3. \A i \in 1..n : s[i] \in Nat
  OBVIOUS
<1>. HIDE DEF a, b, h
<1>4. {k \in 1..n : h[k] = d} = (b + 1)..a
  <2>1. ASSUME NEW k \in 1..n PROVE h[k] = d <=> b + 1 <= k /\ k <= a
    <3>1. h[k] = d <=> h[k] >= d /\ ~(h[k] >= d + 1)
      BY <1>2
    <3>2. h[k] = d <=> a >= k /\ ~(b >= k)
      BY <1>2, <3>1
    <3>. QED  BY <1>1, <3>2
  <2>2. \A k \in (b + 1)..a : k \in 1..n
    <3>1. a \in Nat /\ b \in Nat /\ a <= n
      BY <1>1
    <3>. HIDE <1>1
    <3>. QED  BY <3>1
  <2>3. \A k \in Int : k \in (b + 1)..a <=> b + 1 <= k /\ k <= a
    BY <1>1
  <2>4. \A k \in 1..n : k \in Int
    OBVIOUS
  <2>. QED  BY <2>1, <2>2, <2>3, <2>4
<1>5. Cardinality((b + 1)..a) = a - b
  <2>1. b + 1 \in Int /\ a \in Int
    BY <1>1
  <2>2. Cardinality((b + 1)..a) = IF b + 1 > a THEN 0 ELSE a - (b + 1) + 1
    BY <2>1, FS_Interval
  <2>. QED  BY <1>1, <2>2
<1>6. {i \in 1..n : s[i] = d} = P \ Q /\ P \cap Q = Q
  <2>1. \A i \in 1..n : (s[i] = d <=> s[i] >= d /\ ~(s[i] >= d + 1)) /\ (s[i] >= d + 1 => s[i] >= d)
    BY <1>3
  <2>. QED  BY <2>1 DEF Reaching
<1>. HIDE DEF P, Q
<1>7. Cardinality(P \ Q) = Cardinality(P) - Cardinality(P \cap Q)
  BY <1>1, FS_Difference
<1>. QED  BY <1>1, <1>4, <1>5, <1>6, <1>7 DEF h

-----------------------------------------------------------------------------
(* The records.                                                             *)

LEMMA DegreesAreSorted ==
  ASSUME NEW g, g.n \in Nat
  PROVE  LET h == Descending(Degrees(g))
         IN /\ \A k \in 1..(g.n - 1) : h[k] >= h[k + 1]
            /\ \A d \in 0..g.n : Cardinality({k \in Vertices(g) : h[k] = d})
                                 = Cardinality({v \in Vertices(g) : Degree(g, v) = d})
<1>. DEFINE s == Degrees(g)
<1>1. Bounded(s, g.n, g.n)
  BY DegreeIsBounded DEF Bounded, Degrees, Vertices
<1>2. \A v \in Vertices(g) : s[v] = Degree(g, v)
  BY DEF Degrees
<1>. HIDE DEF s
<1>3. ASSUME NEW k \in 1..(g.n - 1) PROVE Descending(s)[k] >= Descending(s)[k + 1]
  BY <1>1, DescendingDescends
<1>4. ASSUME NEW d \in 0..g.n
      PROVE  Cardinality({k \in Vertices(g) : Descending(s)[k] = d})
             = Cardinality({v \in Vertices(g) : Degree(g, v) = d})
  <2>1. {v \in Vertices(g) : Degree(g, v) = d} = {i \in 1..g.n : s[i] = d}
    BY <1>2 DEF Vertices
  <2>2. d \in Nat
    OBVIOUS
  <2>3. Cardinality({k \in 1..g.n : Descending(s)[k] = d}) = Cardinality({i \in 1..g.n : s[i] = d})
    BY <1>1, <2>2, DescendingKeeps
  <2>. QED  BY <2>1, <2>3 DEF Vertices
<1>. QED  BY <1>3, <1>4 DEF s

(* What compute_invariants returns for a graph is what the names of the     *)
(* invariants say.                                                          *)
LEMMA WhatIsComputedIsRight ==
  ASSUME NEW g, g.n \in Nat
  PROVE  Describes(ComputeInvariants(g), g)
<1>. DEFINE inv == ComputeInvariants(g)
<1>1. /\ inv.edge_count = SumsOf(Degrees(g))[g.n] \div 2
      /\ inv.n = g.n /\ inv.triangle_count = Cardinality(Triangles(g))
      /\ inv.degree_sequence = Descending(Degrees(g))
      /\ inv.connected_components = Len(Searches(g))
      /\ inv.diameter = Diameter(Searches(g))
      /\ inv.is_bipartite = IsBipartite(g, Searches(g))
  BY DEF ComputeInvariants, Degrees
<1>. HIDE DEF inv
<1>2. IsBipartite(g, Searches(g)) = \E side \in SUBSET Vertices(g) :
                                      \A e \in Edges(g) : Cardinality(e \cap side) = 1
  <2>1. IsBipartite(g, Searches(g)) <=> \E side \in SUBSET Vertices(g) : TwoSided(g, side)
    BY ColouredIsTwoSided, TwoSidedIsColoured
  <2>2. IsBipartite(g, Searches(g)) \in BOOLEAN
    BY DEF IsBipartite
  <2>. QED  BY <2>1, <2>2 DEF TwoSided
<1>3. inv.edge_count = Cardinality(Edges(g))
  BY <1>1, EdgesAreCounted
<1>4. inv.connected_components = Cardinality(Components(g))
  BY <1>1, ComponentsAreCounted
<1>5. /\ \A k \in 1..(g.n - 1) : inv.degree_sequence[k] >= inv.degree_sequence[k + 1]
      /\ \A d \in 0..g.n : Cardinality({k \in Vertices(g) : inv.degree_sequence[k] = d})
                           = Cardinality({v \in Vertices(g) : Degree(g, v) = d})
  BY <1>1, DegreesAreSorted
<1>6. inv.diameter = IF Cardinality(Components(g)) = 1 THEN Eccentricity(g, 1) ELSE -1
  BY <1>1, DiameterIsEccentricity
<1>7. inv.triangle_count = Cardinality({t \in kSubset(3, Vertices(g)) : kSubset(2, t) \subseteq Edges(g)})
  BY <1>1, TrianglesAreCounted
<1>. HIDE DEF inv
<1>8. Describes(inv, g)
  BY <1>1, <1>2, <1>3, <1>4, <1>5, <1>6, <1>7 DEF Describes
<1>. QED  BY <1>8 DEF inv

(* What is recorded of an instance is what is computed of its graph.        *)
LEMMA RecordedIsComputed ==
  ASSUME LoadInv, NEW i \in DOMAIN records
  PROVE  /\ instances[i].graph.n \in Nat
         /\ records[i].invariants = ComputeInvariants(instances[i].graph)
<1>1. PICK S : records \in Seq(S)
  BY DEF LoadInv, IsList
<1>2. i \in 1..Len(records) /\ Len(records) \in Nat /\ Len(records) <= Len(instances)
  BY <1>1 DEF LoadInv
<1>3. DOMAIN instances = 1..Len(instances) /\ Len(instances) \in Nat
  BY Elements DEF LoadInv
<1>4. i \in DOMAIN instances /\ records[i] = RecordOf(instances[i])
  BY <1>2, <1>3 DEF LoadInv
<1>5. WellFormed(instances[i].graph)
  BY <1>4, Elements, InstanceIsLoaded DEF LoadInv
<1>. QED  BY <1>4, <1>5 DEF RecordOf, WellFormed, Graphs

(* What instance_records writes of a graph is true of it, for every atlas   *)
(* and graphs of any of the sizes Graph6 has: the edges, the triangles, the *)
(* components and the two sides that compute_invariants finds by counting   *)
(* and by searching are those of the graph, the degrees are all there in    *)
(* order, and what it calls the diameter is the eccentricity of the first   *)
(* vertex, no more and no less.                                             *)
THEOREM RecordedInvariantsAreRight == Spec => []InvariantsAreRight
<1>1. ASSUME LoadInv PROVE InvariantsAreRight
  BY <1>1, RecordedIsComputed, WhatIsComputedIsRight DEF InvariantsAreRight
<1>. QED  BY <1>1, LoadInvariant, PTL

(* How wrong that is, for any atlas: of a graph in one piece the recorded   *)
(* diameter is at least half of the diameter and no more than it, so it is  *)
(* 0 only for a single vertex, and of a graph in several it is -1, as       *)
(* finite_graph.py:38 says.                                                 *)
DiametersAreNear ==
  \A i \in DOMAIN records :
    LET g == instances[i].graph
        d == records[i].invariants.diameter
    IN IF Cardinality(Components(g)) # 1 THEN d = -1
       ELSE d <= TrueDiameter(g) /\ TrueDiameter(g) <= 2 * d
THEOREM RecordedDiametersAreNear == Spec => []DiametersAreNear
<1>1. ASSUME NEW g, g.n \in Nat PROVE ComputeInvariants(g).diameter = Diameter(Searches(g))
  BY DEF ComputeInvariants
<1>2. ASSUME LoadInv PROVE DiametersAreNear
  <2>1. ASSUME NEW i \in DOMAIN records
        PROVE  /\ instances[i].graph.n \in Nat
               /\ records[i].invariants.diameter = Diameter(Searches(instances[i].graph))
    BY <1>1, <1>2, RecordedIsComputed
  <2>. QED  BY <2>1, DiameterIsBounded DEF DiametersAreNear
<1>. QED  BY <1>2, LoadInvariant, PTL

=============================================================================
