---------------------------- MODULE MCFiniteGraph ----------------------------
(* Every graph with at most five vertices alone in an atlas; two or three   *)
(* lines together that repeat a graph, say it differently or are no graph;  *)
(* and the three-vertex and the five-vertex lines of the committed atlas.   *)
EXTENDS FiniteGraph

GraphLine(data) == [kind |-> "graph", header |-> FALSE, data |-> data]
Graphs(n) == [n : {n}, upper : [1..EdgeSlotCount(n) -> Bits]]

AllSmall == {<<GraphLine(EncodeGraph6(g))>> : g \in UNION {Graphs(n) : n \in 0..5}}

Path == <<3, 40>>
Lines ==
  { GraphLine(Path), [GraphLine(Path) EXCEPT !.header = TRUE], GraphLine(<<3, 47>>), GraphLine(<<3, 40, 1>>),
    GraphLine(<<2, 32>>), GraphLine(<<3>>), GraphLine(<<3, BadByte>>), GraphLine(<<63, 63, 3>>),
    [GraphLine(<<>>) EXCEPT !.header = TRUE], [GraphLine(<<>>) EXCEPT !.kind = "blank"],
    [GraphLine(<<>>) EXCEPT !.kind = "comment"] }
Mixed == {<<>>} \cup {<<a, b, c>> : a, b, c \in Lines}

SmallAtlases == AllSmall \cup Mixed

(* The four lines of atlas_n7.g6 for three vertices, B? BG Bo Bw, on which  *)
(* the two ways of numbering edge slots agree.                              *)
ThreeVertices == << <<3, 0>>, <<3, 8>>, <<3, 48>>, <<3, 56>> >>
ThreeVertexAtlas == { [k \in DOMAIN ThreeVertices |-> GraphLine(ThreeVertices[k])] }

(* The 34 lines of atlas_n7.g6 for five vertices, D?? to D~{.               *)
FiveVertices == 
  << <<5, 0, 0>>, <<5, 0, 4>>, <<5, 40, 0>>, <<5, 16, 4>>, <<5, 56, 0>>, <<5, 3, 4>>,
     <<5, 1, 36>>, <<5, 40, 4>>, <<5, 11, 4>>, <<5, 45, 0>>, <<5, 0, 60>>, <<5, 3, 36>>,
     <<5, 41, 32>>, <<5, 56, 4>>, <<5, 61, 0>>, <<5, 1, 60>>, <<5, 57, 32>>, <<5, 11, 36>>,
     <<5, 35, 24>>, <<5, 41, 36>>, <<5, 38, 52>>, <<5, 43, 24>>, <<5, 35, 28>>, <<5, 33, 60>>,
     <<5, 45, 36>>, <<5, 30, 48>>, <<5, 11, 60>>, <<5, 7, 60>>, <<5, 43, 52>>, <<5, 30, 56>>,
     <<5, 39, 60>>, <<5, 45, 60>>, <<5, 47, 60>>, <<5, 63, 60>> >>
FiveVertexAtlas == { [k \in DOMAIN FiveVertices |-> GraphLine(FiveVertices[k])] }
=============================================================================
