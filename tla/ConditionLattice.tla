-------------------------- MODULE ConditionLattice --------------------------
(***************************************************************************)
(* The conditions under which an identity of rational expressions holds    *)
(* (agent/hypothesis/__init__.py).  A request is [dens, identity]: the     *)
(* denominators of both sides, in order, and whether the two sides are     *)
(* equal as rational functions.  A condition is [id, expr]; ids are the    *)
(* caller's and need not differ.  A list of conditions counts as the set   *)
(* of its members, but for the loop that tries one after the other.        *)
(***************************************************************************)
EXTENDS Naturals, Sequences, Functions, TLC

Ids(conds) == {c.id : c \in conds}
Exprs(conds) == {c.expr : c \in conds}

(* One condition per different denominator, named by its first position.    *)
ProposeConditions(req) ==
  LET upTo[i \in 0..Len(req.dens)] ==
        IF i = 0 THEN <<>>
        ELSE IF \E j \in 1..(i - 1) : req.dens[j] = req.dens[i] THEN upTo[i - 1]
        ELSE Append(upTo[i - 1], [id |-> "c" \o ToString(i - 1), expr |-> req.dens[i]])
  IN upTo[Len(req.dens)]

DenominatorsCovered(req, conds) == Range(req.dens) \subseteq Exprs(conds)

(* The mirror of the Lean checker: coverage alone is never sufficiency.     *)
Sufficient(req, conds) == DenominatorsCovered(req, conds) /\ req.identity

Without(conds, id) == {c \in conds : c.id # id}

DeleteHypothesis(req, conds, id) ==
  CASE id \notin Ids(conds) -> [result |-> "missing", remaining |-> conds]
    [] id \in Ids(conds) /\ Sufficient(req, Without(conds, id)) ->
         [result |-> "redundant", remaining |-> Without(conds, id)]
    [] OTHER -> [result |-> "not_redundant", remaining |-> Without(conds, id)]

(* Mutant: each is tried on all the conditions, not on those still left.    *)
ReduceFromAll(req, conds) ==
  LET all == Range(conds)
      gone == {id \in Ids(all) : DeleteHypothesis(req, all, id).result = "redundant"}
  IN [working |-> {c \in all : c.id \notin gone}, redundant |-> gone, unresolved |-> Ids(all) \ gone]

(* The loop over all conditions: each is tried on what the earlier ones     *)
(* left, and only a redundant one goes.                                     *)
TryDelete(req, st, id) ==
  LET d == DeleteHypothesis(req, st.working, id)
  IN CASE d.result = "redundant" ->
            [st EXCEPT !.working = d.remaining, !.redundant = @ \cup {id}]
       [] d.result = "not_redundant" -> [st EXCEPT !.unresolved = @ \cup {id}]
       [] OTHER -> st

Reduce(req, conds) ==
  LET after[i \in 0..Len(conds)] ==
        IF i = 0 THEN [working |-> Range(conds), redundant |-> {}, unresolved |-> {}]
        ELSE TryDelete(req, after[i - 1], conds[i].id)
  IN after[Len(conds)]

(* weaker says what the search found for a weaker variant of the request:   *)
(* "none" was asked for, "survives" or "falsified"; related are the ids     *)
(* that the caller relates to it, {} for those that are unresolved.         *)
BuildLattice(req, original, given, weaker, related) ==
  LET proposed == IF given = <<>> THEN ProposeConditions(req) ELSE given
      list == original \o proposed
      all == Range(list)
      ok == Sufficient(req, all)
      end == IF ok THEN Reduce(req, list)
             ELSE [working |-> all, redundant |-> {}, unresolved |-> Ids(Range(proposed))]
      weakened == CASE weaker # "falsified" -> {}
                    [] weaker = "falsified" /\ related = {} -> end.unresolved
                    [] OTHER -> related
  IN [ kind |-> "lattice", request |-> req, conditions |-> all, sufficient |-> ok,
       recommended |-> IF ok THEN end.working ELSE {},
       redundant |-> end.redundant, unresolved |-> end.unresolved \ weakened,
       necessity |-> weakened, certified |-> {} ]

(* Whatever verified record is named certifies whatever set is named.       *)
CertifySufficientSet(lattice, ids, rec) ==
  [lattice EXCEPT !.certified = @ \cup {[ids |-> ids, record |-> rec.id]}]
=============================================================================
