---------------------------- MODULE LoopInduction ----------------------------
(***************************************************************************)
(* Induction over the rounds of a loop that is written as a recursive       *)
(* function, said with sets: the provers cannot instantiate the library's   *)
(* induction theorems, whose parameter is an operator.  From the            *)
(* well-foundedness of the naturals a set of them has a least element;      *)
(* hence what holds before the first round and survives each round holds    *)
(* after the last, and a recursive function of the rounds exists.           *)
(***************************************************************************)
EXTENDS FiniteSetTheorems, TLAPS

(* A set of numbers has a least one.                                        *)
LEMMA LeastExists ==
  ASSUME NEW S, S \subseteq Nat, S # {} PROVE \E x \in S : \A y \in S : x <= y
<1>. DEFINE Less == {p \in Nat \X Nat : p[1] < p[2]}
<1>1. IsWellFoundedOn(Less, Nat)
  BY NatLessThanWellFounded DEF OpToRel
<1>2. \E x \in S : \A y \in S : ~ (<<y, x>> \in Less)
  <2>. HIDE DEF Less
  <2>. QED  BY <1>1, WFMin
<1>3. PICK x \in S : \A y \in S : ~ (<<y, x>> \in Less)
  BY <1>2
<1>4. ASSUME NEW y \in S PROVE x <= y
  <2>1. <<y, x>> \in Nat \X Nat /\ <<y, x>>[1] = y /\ <<y, x>>[2] = x
    OBVIOUS
  <2>2. ~ (y < x)
    BY <1>3, <2>1
  <2>. QED  BY <2>2
<1>. QED  BY <1>4

(* The set G of the rounds after which something holds.                     *)
LEMMA Rounds ==
  ASSUME NEW n \in Nat, NEW G, 0 \in G, \A i \in 1..n : i - 1 \in G => i \in G
  PROVE  \A i \in 0..n : i \in G
<1>. DEFINE Bad == {i \in 0..n : i \notin G}
<1>. SUFFICES ASSUME Bad # {} PROVE FALSE
  OBVIOUS
<1>1. Bad \subseteq Nat
  OBVIOUS
<1>2. PICK x \in Bad : \A y \in Bad : x <= y
  <2>. HIDE DEF Bad
  <2>. QED  BY <1>1, LeastExists
<1>3. x \in 1..n /\ x - 1 \notin Bad /\ x - 1 \in 0..n
  BY <1>2
<1>. QED  BY <1>2, <1>3

(* f[i] is the state after i rounds of a loop whose rounds are functions.   *)
Runs(f, n, start, step) == f[0] = start /\ \A i \in 1..n : f[i] = step[i][f[i - 1]]

(* Such a loop runs to its end.                                             *)
LEMMA LoopRuns ==
  ASSUME NEW n \in Nat, NEW S, NEW start \in S, NEW step \in [1..n -> [S -> S]]
  PROVE  \E f \in [0..n -> S] : Runs(f, n, start, step)
<1>. DEFINE G == {i \in 0..n : \E f \in [0..i -> S] : Runs(f, i, start, step)}
<1>1. 0 \in G
  <2>. DEFINE f == [j \in 0..0 |-> start]
  <2>1. f \in [0..0 -> S] /\ Runs(f, 0, start, step)
    BY DEF Runs
  <2>. HIDE DEF f
  <2>2. \E h \in [0..0 -> S] : Runs(h, 0, start, step)
    BY <2>1
  <2>3. 0 \in 0..n
    OBVIOUS
  <2>. QED  BY <2>2, <2>3
<1>2. ASSUME NEW i \in 1..n, i - 1 \in G PROVE i \in G
  <2>1. PICK f \in [0..(i - 1) -> S] : Runs(f, i - 1, start, step)
    BY <1>2
  <2>. DEFINE g == [j \in 0..i |-> IF j = i THEN step[i][f[i - 1]] ELSE f[j]]
  <2>2. g \in [0..i -> S]
    <3>1. step[i][f[i - 1]] \in S
      OBVIOUS
    <3>2. \A j \in 0..i : j # i => f[j] \in S
      OBVIOUS
    <3>. QED  BY <3>1, <3>2
  <2>3. g[0] = start
    BY <2>1 DEF Runs
  <2>4. ASSUME NEW j \in 1..i PROVE g[j] = step[j][g[j - 1]]
    <3>1. CASE j = i
      BY <3>1
    <3>2. CASE j # i
      <4>1. j \in 1..(i - 1) /\ j - 1 # i /\ j - 1 \in 0..i /\ j \in 0..i
        BY <3>2
      <4>2. g[j] = f[j] /\ g[j - 1] = f[j - 1]
        BY <4>1, <3>2
      <4>3. f[j] = step[j][f[j - 1]]
        BY <2>1, <4>1 DEF Runs
      <4>. QED  BY <4>2, <4>3
    <3>. QED  BY <3>1, <3>2
  <2>. HIDE DEF g
  <2>5. Runs(g, i, start, step)
    BY <2>3, <2>4 DEF Runs
  <2>6. \E h \in [0..i -> S] : Runs(h, i, start, step)
    BY <2>2, <2>5
  <2>7. i \in 0..n
    OBVIOUS
  <2>. QED  BY <2>6, <2>7
<1>. HIDE DEF G
<1>3. \A i \in 0..n : i \in G
  BY <1>1, <1>2, Rounds
<1>4. n \in G
  BY <1>3
<1>. QED  BY <1>4 DEF G

=============================================================================
