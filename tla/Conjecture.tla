----------------------------- MODULE Conjecture -----------------------------
(***************************************************************************)
(* One conjecture episode (agent/conjecture/__init__.py), the search for a *)
(* counterexample (adapters/common/hypothesis_util.py) and the mirror of   *)
(* its checker (adapters/common/lean_mirrors.py).                          *)
(*                                                                         *)
(* A predicate is the sequence of its values, "true", "false" or           *)
(* "undefined", on the assignments of its finite domains in the order of   *)
(* their enumeration; <<>> has a domain without a bound.  A witness is the *)
(* position of an assignment.  A record "rec" is one at hand,              *)
(* [id, type, lock, verified], or NoRecord.                                *)
(***************************************************************************)
EXTENDS Naturals, Sequences, FiniteSets

CONSTANT MaxAssignments   \* assignments that a search tries
ASSUME SearchAssumption == MaxAssignments \in Nat \ {0}

NoRecord == [id |-> "none"]
NoWitness == 0

CheckFiniteCounterexample(pred, w) == w \in DOMAIN pred /\ pred[w] = "false"

(* Mutant: the last assignment that the bound allows is never tried.        *)
FindCounterexampleBelow(pred) ==
  LET hits == {w \in DOMAIN pred : w < MaxAssignments /\ CheckFiniteCounterexample(pred, w)}
  IN IF hits = {} THEN NoWitness ELSE CHOOSE w \in hits : \A v \in hits : w <= v

FindCounterexample(pred) ==
  LET tried == {w \in DOMAIN pred : w <= MaxAssignments}
      hits == {w \in tried : CheckFiniteCounterexample(pred, w)}
  IN IF hits = {} THEN NoWitness ELSE CHOOSE w \in hits : \A v \in hits : w <= v

-----------------------------------------------------------------------------
(* The operations of an episode: each returns the episode it leaves.        *)

(* new_episode has a parameter for the first state, which no caller in the  *)
(* program gives; a Python caller could name a settled one there, without   *)
(* a record, and nothing that is said of episodes here would hold of it.    *)
NewEpisode(pred) ==
  [ kind |-> "episode", pred |-> pred, state |-> "observed_pattern", preview |-> "none",
    refutation |-> "none", proof |-> "none", type |-> "none", bound |-> 0 ]

ToCandidate(ep) == [ep EXCEPT !.state = "candidate_statement"]

PreviewRefutation(ep, w) ==
  IF CheckFiniteCounterexample(ep.pred, w)
  THEN [ep EXCEPT !.state = "candidate_statement", !.preview = "mirror_accepted"]
  ELSE [ep EXCEPT !.preview = "rejected"]

(* Mutant: any record falsifies, verified or not.                           *)
CertifyFromAnyRecord(ep, rec) ==
  IF rec # NoRecord THEN [ep EXCEPT !.state = "falsified", !.refutation = rec.id] ELSE ep

CertifyFromRecord(ep, rec) ==
  IF rec.verified THEN [ep EXCEPT !.state = "falsified", !.refutation = rec.id] ELSE ep

CertifyRefutation(ep, w, rec) ==
  LET seen == PreviewRefutation(ep, w)
  IN CASE seen.preview # "mirror_accepted" -> seen
       [] seen.preview = "mirror_accepted" /\ rec = NoRecord -> [seen EXCEPT !.refutation = "none"]
       [] OTHER -> CertifyFromRecord(seen, rec)

Settled(ep) == ep.state \in {"falsified", "formally_proved"}

MarkBoundedVerified(ep, bound) ==
  IF Settled(ep) THEN ep ELSE [ep EXCEPT !.state = "bounded_verified", !.bound = bound]

MarkOpenProblem(ep) == IF Settled(ep) THEN ep ELSE [ep EXCEPT !.state = "open"]

(* A claim of proof t is [named, axioms, type, lock, conjecture, source]:   *)
(* conjecture is the type that the conjecture is known to have, or "none".  *)
ProofHolds(t, rec) ==
  /\ t.named /\ t.axioms
  /\ t.conjecture \in {"none", t.type}
  /\ IF rec # NoRecord
     THEN rec.verified /\ rec.type = t.type /\ rec.lock = t.lock
     ELSE t.source = "validated"

ProofRaises(ep, t, rec) == ep.state # "falsified" /\ ~ProofHolds(t, rec)

MarkFormallyProved(ep, t, rec) ==
  IF ep.state = "falsified" THEN ep
  ELSE [ep EXCEPT !.state = "formally_proved", !.type = t.type,
                  !.proof = IF rec # NoRecord THEN rec.id ELSE "source_proof"]

ProveOrOpen(ep, t, rec) ==
  IF ProofRaises(ep, t, rec) THEN MarkOpenProblem(ep) ELSE MarkFormallyProved(ep, t, rec)

-----------------------------------------------------------------------------
(* Campaigns.  A candidate cand is [pred, request, witness, outcome, proof, *)
(* bound]: with a request, and no witness of its own, one is searched for.  *)

Witness(cand) ==
  CASE ~cand.request -> NoWitness
    [] cand.request /\ cand.witness # NoWitness -> cand.witness
    [] OTHER -> FindCounterexample(cand.pred)

Attempted(cand, rec) ==
  LET ep == ToCandidate(NewEpisode(cand.pred))
  IN IF Witness(cand) = NoWitness THEN ep ELSE CertifyRefutation(ep, Witness(cand), rec)

RunCandidate(cand, rec) ==
  LET ep == Attempted(cand, rec)
  IN CASE ep.state = "falsified" -> ep
       [] ep.state # "falsified" /\ cand.outcome = "formally_proved" -> ProveOrOpen(ep, cand.proof, rec)
       [] ep.state # "falsified" /\ cand.outcome = "open" ->
            MarkOpenProblem(MarkBoundedVerified(ep, cand.bound))
       [] /\ ep.state # "falsified"
          /\ \/ cand.outcome = "bounded_verified"
             \/ cand.outcome = "none" /\ cand.request /\ Witness(cand) = NoWitness ->
            MarkBoundedVerified(ep, cand.bound)
       [] OTHER -> ep

(* The calibrated batch of the graph family: "expected" decides what is     *)
(* tried, and a candidate expected to survive is never searched.            *)
RunBatchCandidate(cand, rec) ==
  LET ep == ToCandidate(NewEpisode(cand.pred))
  IN CASE cand.outcome = "formally_proved" ->
            IF rec # NoRecord \/ cand.proof.source # "none"
            THEN ProveOrOpen(ep, cand.proof, rec) ELSE MarkOpenProblem(ep)
       [] cand.outcome = "bounded_verified" -> MarkOpenProblem(MarkBoundedVerified(ep, cand.bound))
       [] OTHER ->
            IF FindCounterexample(cand.pred) = NoWitness
            THEN MarkBoundedVerified(ep, Len(cand.pred))
            ELSE CertifyRefutation(ep, FindCounterexample(cand.pred), rec)

(* One request of the API: no record can be named.                          *)
RunRequest(pred, bound) ==
  RunCandidate([pred |-> pred, request |-> TRUE, witness |-> NoWitness, outcome |-> "none", bound |-> bound], NoRecord)

CountIn(eps, state) == Cardinality({i \in DOMAIN eps : eps[i].state = state})

PrecisionAccounting(eps) ==
  [ proposed |-> Len(eps), falsified |-> CountIn(eps, "falsified"),
    boundedVerified |-> CountIn(eps, "bounded_verified"),
    formallyProved |-> CountIn(eps, "formally_proved"),
    openProblems |-> CountIn(eps, "open"),
    candidateStatements |-> CountIn(eps, "candidate_statement"),
    mirrorAccepted |-> Cardinality({i \in DOMAIN eps : eps[i].preview = "mirror_accepted"}) ]
=============================================================================
