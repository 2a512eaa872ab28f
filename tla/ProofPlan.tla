------------------------------ MODULE ProofPlan ------------------------------
(***************************************************************************)
(* Proof plans from untrusted traces (agent/trace_to_plan/__init__.py).    *)
(*                                                                         *)
(* A trace is [id, raw, recon].  raw.as is the kind that the item itself   *)
(* claims, or "none", raw.words are the words its raw kind contains, and   *)
(* recon is what was given for its id, [gate, theorem, axioms] or NoRecon. *)
(* gate is the certification gate of the reconstruction: "none", "failed", *)
(* "ok" without a verified flag, or "verified"; theorem says that a        *)
(* declaration, its type digest and a lock are named, axioms that there is *)
(* an axiom report or a provenance.                                        *)
(***************************************************************************)
EXTENDS Naturals, Sequences, FiniteSets

NoRecon == [gate |-> "none", theorem |-> FALSE, axioms |-> FALSE, given |-> FALSE]

StepKinds == {"direct_proof_step", "reconstructible_computation", "lemma_candidate",
              "search_hint", "diagnostic_metadata"}
Advanceable == {"direct_proof_step", "reconstructible_computation"}

(* In the order they are looked for; a raw kind may contain several words.  *)
RawKindMap ==
  << [kind |-> "direct_proof_step", words |-> {"proof_step", "direct", "kernel"}],
     [kind |-> "reconstructible_computation",
      words |-> {"reconstructible", "checker", "computation", "certificate"}],
     [kind |-> "lemma_candidate", words |-> {"lemma", "goal", "subgoal"}],
     [kind |-> "search_hint",
      words |-> {"hint", "strategy", "ordering", "substitution", "smt_hint"}],
     [kind |-> "diagnostic_metadata",
      words |-> {"timing", "perf", "diagnostic", "backend_internal"}] >>

ClassifyTraceItem(trace) ==
  LET hits == {k \in DOMAIN RawKindMap : RawKindMap[k].words \cap trace.raw.words # {}}
  IN CASE trace.raw.as \in StepKinds -> trace.raw.as
       [] trace.raw.as \notin StepKinds /\ hits = {} -> "search_hint"
       [] OTHER -> RawKindMap[CHOOSE k \in hits : \A j \in hits : k <= j].kind

HasVerifiedReceipt(recon) == recon.given /\ recon.gate = "verified"
DirectEvidenceOk(recon) == recon.given /\ recon.theorem /\ recon.axioms

Evidence(kind, recon) ==
  CASE kind = "reconstructible_computation" -> HasVerifiedReceipt(recon)
    [] kind = "direct_proof_step" -> DirectEvidenceOk(recon)
    [] OTHER -> FALSE

Advances(kind, status, recon) ==
  status \in {"kernel_certified", "checkable"} /\ Evidence(kind, recon)

(* Mutant: a reconstruction that is given certifies.                        *)
StatusOfGiven(kind, recon) ==
  IF kind \in Advanceable /\ recon.given THEN "kernel_certified" ELSE "proposed"

Status(kind, recon) ==
  CASE kind \notin Advanceable \/ ~recon.given -> "proposed"
    [] kind \in Advanceable /\ recon.given /\ Evidence(kind, recon) -> "kernel_certified"
    [] OTHER -> "checkable"

(* Hints and diagnostics are never unresolved: nothing is expected of them. *)
Unresolved(kind, recon) ==
  \/ kind \in Advanceable /\ Status(kind, recon) # "kernel_certified"
  \/ kind = "lemma_candidate"

TargetNode == [id |-> "target", step |-> "lemma_candidate", status |-> "proposed",
               advances |-> FALSE, recon |-> NoRecon]

TraceNode(trace) ==
  LET kind == ClassifyTraceItem(trace)
      status == Status(kind, trace.recon)
  IN [id |-> trace.id, step |-> kind, status |-> status,
      advances |-> Advances(kind, status, trace.recon), recon |-> trace.recon]

-----------------------------------------------------------------------------
(* The checks of a plan, on nodes by id: of two nodes with one id the later *)
(* one is looked at.  "suggests" edges are no dependencies.                 *)

NodeWith(plan, id) ==
  plan.nodes[CHOOSE i \in DOMAIN plan.nodes :
               plan.nodes[i].id = id /\ \A j \in DOMAIN plan.nodes : j > i => plan.nodes[j].id # id]
NodeIds(plan) == {plan.nodes[i].id : i \in DOMAIN plan.nodes}
Dependencies(plan, id) == {e.from : e \in {f \in plan.edges : f.kind # "suggests" /\ f.to = id}}

HintsNeverAdvance(plan) ==
  \A i \in DOMAIN plan.nodes : plan.nodes[i].advances => plan.nodes[i].step \in Advanceable

(* Kahn's algorithm: take away nodes without an open dependency.            *)
Acyclic(plan) ==
  LET Peel[n \in 0..Cardinality(NodeIds(plan))] ==
        IF n = 0 THEN NodeIds(plan)
        ELSE {id \in Peel[n - 1] : Dependencies(plan, id) \cap Peel[n - 1] # {}}
  IN Peel[Cardinality(NodeIds(plan))] = {}

ValidPlan(plan) ==
  /\ HintsNeverAdvance(plan)
  /\ \A e \in plan.edges : {e.from, e.to} \subseteq NodeIds(plan)
  /\ Acyclic(plan)
  /\ \A id \in NodeIds(plan) :
       LET n == NodeWith(plan, id)
       IN n.advances => n.status \in {"kernel_certified", "checkable"} /\ Evidence(n.step, n.recon)

TargetIsProved(plan) ==
  LET required == {id \in Dependencies(plan, "target") :
                     NodeWith(plan, id).advances \/ NodeWith(plan, id).step \in Advanceable}
  IN /\ required # {}
     /\ \A id \in required : NodeWith(plan, id).status = "kernel_certified"
     /\ \E id \in required : HasVerifiedReceipt(NodeWith(plan, id).recon)
                               \/ DirectEvidenceOk(NodeWith(plan, id).recon)

SoundPlan(plan) ==
  \A id \in NodeIds(plan) :
    LET n == NodeWith(plan, id)
    IN n.status = "kernel_certified" \/ n.advances =>
         /\ n.step \in Advanceable => Evidence(n.step, n.recon)
         /\ n.id = "target" /\ n.status = "kernel_certified" => TargetIsProved(plan)

PlanFromTraces(traces) ==
  [ kind |-> "plan",
    nodes |-> <<TargetNode>> \o [i \in DOMAIN traces |-> TraceNode(traces[i])],
    edges |-> {[from |-> traces[i].id, to |-> "target", kind |-> "depends_on"] : i \in DOMAIN traces}
               \cup {[from |-> traces[i - 1].id, to |-> traces[i].id, kind |-> "suggests"] :
                       i \in DOMAIN traces \ {1}},
    unresolved |-> {traces[i].id : i \in {j \in DOMAIN traces :
                       Unresolved(ClassifyTraceItem(traces[j]), traces[j].recon)}} ]

PlanRaises(plan) == ~(ValidPlan(plan) /\ SoundPlan(plan))

(* Mutant: it passes for a direct proof of the declaration it came from.    *)
ReconstructAsProof(verified) ==
  [gate |-> IF verified THEN "verified" ELSE "failed", theorem |-> TRUE, axioms |-> TRUE, given |-> TRUE]

(* A reconstruction from a verified record names no declaration.            *)
ReconstructFromReceipt(verified) ==
  IF verified THEN [gate |-> "verified", theorem |-> FALSE, axioms |-> TRUE, given |-> TRUE]
  ELSE NoRecon
=============================================================================
