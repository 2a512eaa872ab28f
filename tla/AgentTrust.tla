----------------------------- MODULE AgentTrust -----------------------------
(***************************************************************************)
(* A client of the agent's trust surface, while the environment moves on:  *)
(* the registry is edited, the environment lock changes or cannot be       *)
(* computed, records are issued by kernel_replay and grow stale.  The      *)
(* client has one record at hand and works on one artifact at a time: a    *)
(* conjecture episode, a campaign, a condition lattice, a proof plan or    *)
(* an answer of the API, which it may show in Studio.                      *)
(*                                                                         *)
(* A reconstruction is fetched from the record at hand when it verifies    *)
(* and used in a plan later; "everVerified" is the history of the records  *)
(* that verified when they were used.  A client drops its artifact before  *)
(* it starts on another, which bounds the state space and nothing else:    *)
(* no operation reads an artifact other than the one it is given.          *)
(***************************************************************************)
EXTENDS AgentAnswers, Conjecture, ConditionLattice, ProofPlan

CONSTANTS Capabilities,   \* registry entries, all of one capability
          Candidates,     \* candidate bundles for that capability
          ForeignRecords, \* records that this program did not issue as they are
          Bundles,        \* what a bundle id may lead to
          Predicates, CampaignCandidates, ProofClaims,
          LatticeRequests, Originals, Givens, ConditionIds,
          TraceIdPairs, RawItems, CallerRecons,
          MaxLock

(* Entries are in the registry, and a caller does not write "verified" into *)
(* a reconstruction itself: only reconstruct_from_receipt does, although    *)
(* plan_from_traces takes any dictionary.                                   *)
ASSUME EntriesAssumption == \A c \in Capabilities : c.known
ASSUME CallersAssumption == \A r \in CallerRecons : r.gate # "verified"
ASSUME LockAssumption == MaxLock \in Nat \ {0}

(* A foreign record has the fields of a record.  The node of a trace is     *)
(* named by the trace's id behind "n_", and the target is not: no trace is  *)
(* taken for the target.  A predicate has a value at every assignment, and  *)
(* conditions come in lists.                                                *)
RecordFields == {"id", "schema", "version", "mode", "status", "requested", "claim", "outcome",
                 "obligations", "generator", "tier", "source", "lock", "type", "stored",
                 "genuine", "flaws"}
Values == {"true", "false", "undefined"}
ASSUME ForeignAssumption == \A r \in ForeignRecords : DOMAIN r = RecordFields
ASSUME TracesAssumption == \A ids \in TraceIdPairs : "target" \notin {ids[1], ids[2]}
ASSUME PredicatesAssumption == \A cand \in CampaignCandidates : cand.pred \in Seq(Values)
ASSUME ConditionsAssumption ==
  /\ \A conds \in Originals \cup Givens : conds \in Seq(Range(conds))
  /\ \A req \in LatticeRequests : req.dens \in Seq(Range(req.dens))

VARIABLES cap, lock, record, recon, artifact, label, everVerified
vars == <<cap, lock, record, recon, artifact, label, everVerified>>

Nothing == [kind |-> "nothing"]
NoCertificate == [id |-> "none"]

RecordVerified == record # NoCertificate /\ Verified(record, cap, lock)

(* What the Python callers see of the record whose directory they name.     *)
AtHand ==
  IF record = NoCertificate THEN NoRecord
  ELSE [id |-> record.id, type |-> record.type, lock |-> record.lock, verified |-> RecordVerified]
MaybeAtHand == {NoRecord, AtHand}

Used(rec) == everVerified \cup (IF rec # NoRecord /\ RecordVerified THEN {record.id} ELSE {})

Init ==
  /\ cap \in {c \in Capabilities : ValidateAssurancePolicy(c)}
  /\ lock = 1
  /\ record = NoCertificate /\ recon = NoRecon
  /\ artifact = Nothing /\ label = "none"
  /\ everVerified = {}

-----------------------------------------------------------------------------
(* The environment.                                                         *)

EditRegistry ==
  /\ cap' \in {c \in Capabilities : ValidateAssurancePolicy(c)}
  /\ UNCHANGED <<lock, record, recon, artifact, label, everVerified>>

AdvanceLock ==
  /\ lock' \in {NoLock} \cup (lock..MaxLock)
  /\ UNCHANGED <<cap, record, recon, artifact, label, everVerified>>

-----------------------------------------------------------------------------
(* Operations of the API that answer about bundles and records.             *)

Idle == artifact = Nothing

Drop ==
  /\ ~Idle
  /\ artifact' = Nothing /\ label' = "none"
  /\ UNCHANGED <<cap, lock, record, recon, everVerified>>

Respond(a) ==
  /\ Idle
  /\ artifact' = a /\ label' = "none"
  /\ UNCHANGED <<cap, lock, recon>>

Query ==
  /\ \/ \E requested \in {"soundResult", "refutation", "optimum"} :
          Respond(OpCheckSupport(cap, requested))
     \/ \E level, listed \in {"implemented", "planned"} :
          Respond(OpComputeEvidence(cap, [level |-> level, listed |-> listed]))
     \/ \E op \in {"open_bundle", "inspect_bundle"}, b \in Bundles : Respond(OpOpenBundle(op, b))
     \/ \E op \in {"replay_bundle", "verify_bundle"}, b \in Bundles,
           lean \in {"accepted", "refused", "missing"} : Respond(OpVerifyBundle(op, b, lean))
     \/ \E op \in {"build_proof_plan", "reconstruct_plan"} : Respond(OpPlan(op))
     \/ Respond(OpListCertifications)
  /\ UNCHANGED <<record, everVerified>>

KernelReplay ==
  \E c \in Candidates :
    /\ Respond(OpKernelReplay(c, cap, lock))
    /\ record' = IF Issues(c, cap, lock) THEN Issued(c, cap, lock) ELSE record
    /\ UNCHANGED everVerified

FindRecord ==
  /\ record' \in ForeignRecords
  /\ UNCHANGED <<cap, lock, recon, artifact, label, everVerified>>

OpenCertification ==
  /\ record # NoCertificate
  /\ Respond(OpOpenCertification(record, cap, lock))
  /\ everVerified' = Used(AtHand)
  /\ UNCHANGED record

ShowInStudio ==
  /\ artifact.kind = "answer"
  /\ \E proposition \in BOOLEAN : label' = CertificationSurface(artifact, proposition)
  /\ UNCHANGED <<cap, lock, record, recon, artifact, everVerified>>

-----------------------------------------------------------------------------
(* Conjectures.                                                             *)

WorkOn(a, rec) ==
  /\ artifact' = a /\ label' = "none"
  /\ everVerified' = Used(rec)
  /\ UNCHANGED <<cap, lock, record, recon>>

StartEpisode == Idle /\ \E pred \in Predicates : WorkOn(NewEpisode(pred), NoRecord)

StepEpisode ==
  /\ artifact.kind = "episode"
  /\ \/ WorkOn(ToCandidate(artifact), NoRecord)
     \/ \E w \in 0..Len(artifact.pred) : WorkOn(PreviewRefutation(artifact, w), NoRecord)
     \/ record # NoCertificate /\ WorkOn(CertifyFromRecord(artifact, AtHand), AtHand)
     \/ \E w \in 0..Len(artifact.pred), rec \in MaybeAtHand :
          WorkOn(CertifyRefutation(artifact, w, rec), rec)
     \/ WorkOn(MarkBoundedVerified(artifact, 1), NoRecord)
     \/ WorkOn(MarkOpenProblem(artifact), NoRecord)
     \/ \E t \in ProofClaims, rec \in MaybeAtHand :
          ~ProofRaises(artifact, t, rec) /\ WorkOn(MarkFormallyProved(artifact, t, rec), rec)

Campaign ==
  /\ Idle
  /\ \E cand \in CampaignCandidates, rec \in MaybeAtHand :
       LET eps == <<RunCandidate(cand, rec), RunBatchCandidate(cand, rec),
                    RunRequest(cand.pred, cand.bound)>>
       IN WorkOn([kind |-> "campaign", candidate |-> cand, episodes |-> eps,
                  accounting |-> PrecisionAccounting(eps)], rec)

-----------------------------------------------------------------------------
(* Condition lattices and plans.                                            *)

Mirror ==
  Idle /\ \E req \in LatticeRequests, conds \in Originals \cup Givens :
    \/ WorkOn(OpProveSufficient(Sufficient(req, Range(conds))), NoRecord)
    \/ \E id \in ConditionIds :
         WorkOn(OpDelete(DeleteHypothesis(req, Range(conds), id).result), NoRecord)
    \/ \E pred \in Predicates :
         WorkOn(OpCounterexample("find_counterexample", FindCounterexample(pred) # NoWitness), NoRecord)

MakeLattice ==
  Idle /\ \E req \in LatticeRequests, original \in Originals, given \in Givens,
     weaker \in {"none", "survives", "falsified"}, related \in SUBSET ConditionIds :
    /\ weaker = "falsified" \/ related = {}
    /\ WorkOn(BuildLattice(req, original, given, weaker, related), NoRecord)

CertifyLattice ==
  /\ artifact.kind = "lattice"
  /\ RecordVerified
  /\ artifact.certified = {}
  /\ WorkOn(CertifySufficientSet(artifact, Ids(artifact.recommended), AtHand), AtHand)

Reconstruct ==
  /\ record # NoCertificate
  /\ recon' = ReconstructFromReceipt(RecordVerified)
  /\ everVerified' = Used(AtHand)
  /\ UNCHANGED <<cap, lock, record, artifact, label>>

MakePlan ==
  Idle /\ \E ids \in TraceIdPairs, w1, w2 \in RawItems, r1, r2 \in CallerRecons \cup {recon} :
    /\ ids[1] = ids[2] => r1 = r2
    /\ WorkOn(PlanFromTraces(<<[id |-> ids[1], raw |-> w1, recon |-> r1],
                               [id |-> ids[2], raw |-> w2, recon |-> r2]>>), NoRecord)

Next ==
  \/ EditRegistry \/ AdvanceLock \/ Drop
  \/ Query \/ KernelReplay \/ FindRecord \/ OpenCertification \/ ShowInStudio
  \/ StartEpisode \/ StepEpisode \/ Campaign
  \/ Mirror \/ MakeLattice \/ CertifyLattice \/ Reconstruct \/ MakePlan

Spec == Init /\ [][Next]_vars

-----------------------------------------------------------------------------
(* Properties.                                                              *)

Labels == {"none", "Certified", "Ambiguous", "Tested", "Computed"}

(* Every variable has its type: an answer is labelled, nothing else is, and *)
(* a reconstruction at hand advances no direct proof step.                  *)
TypeOK ==
  /\ cap \in Capabilities /\ lock \in 0..MaxLock
  /\ record = NoCertificate \/ DOMAIN record = RecordFields
  /\ ~DirectEvidenceOk(recon)
  /\ artifact.kind \in {"nothing", "episode", "campaign", "lattice", "plan", "answer"}
  /\ label \in Labels /\ (label # "none" => artifact.kind = "answer")
  /\ everVerified \subseteq {c.id : c \in Candidates} \cup {r.id : r \in ForeignRecords}

(* What is called certified was: a falsified or proved episode, a certified *)
(* sufficient set and a certified computation in a plan each go back to a   *)
(* record that verified when it was used (a source proof that the caller    *)
(* declares validated aside).                                               *)
EpisodeIsBacked(ep) ==
  /\ ep.state = "falsified" => ep.refutation \in everVerified
  /\ ep.state = "formally_proved" => ep.proof \in everVerified \cup {"source_proof"}
CertifiedWasVerified ==
  CASE artifact.kind = "episode" -> EpisodeIsBacked(artifact)
    [] artifact.kind = "campaign" -> \A i \in DOMAIN artifact.episodes : EpisodeIsBacked(artifact.episodes[i])
    [] artifact.kind = "lattice" -> \A c \in artifact.certified : c.record \in everVerified
    [] artifact.kind = "plan" ->
         \A i \in DOMAIN artifact.nodes :
           artifact.nodes[i].step = "reconstructible_computation"
             /\ artifact.nodes[i].status = "kernel_certified" => everVerified # {}
    [] OTHER -> TRUE

(* What kernel_replay would issue now, open_certification would verify now: *)
(* the checks made before a record is written imply all those made when it  *)
(* is read, as long as registry and environment stay as they are.           *)
IssuedVerifies ==
  \A c \in Candidates : Issues(c, cap, lock) => Verified(Issued(c, cap, lock), cap, lock)

(* A record verifies only for the environment and the registry of its       *)
(* issue: a changed lock, a changed capability version, or a capability     *)
(* that is no longer eligible each revoke it, and a forged one never does.  *)
StaleNeverVerifies ==
  RecordVerified =>
    record.genuine /\ record.lock = lock /\ record.version = cap.version /\ CrEligible(cap)

(* The two readings of the registry agree: an entry that is accepted and    *)
(* calls itself eligible can be replayed.                                   *)
EligibleReplays == CrEligible(cap) => DecideExactKernelReplay(cap)

(* A verified status is answered only for a record that verified or for an  *)
(* operational receipt bound to its certificate, and Studio shows Certified *)
(* only for the record.  As OpOpenCertification answers nothing with        *)
(* success, no behaviour reaches that last case today.                      *)
LabelIsEarned ==
  artifact.kind = "answer" =>
    /\ artifact.status \in VerifiedStatuses => artifact.about \in {"receipt", "verified"}
    /\ label = "Certified" => artifact.about = "verified"

(* The recommended interface of a lattice is sufficient, loses that with    *)
(* any of its ids, and shares no id with the redundant ones, whatever order *)
(* and whichever ids the caller gave.                                       *)
LatticeIsReduced ==
  artifact.kind = "lattice" /\ artifact.sufficient =>
    /\ Sufficient(artifact.request, artifact.recommended)
    /\ \A id \in Ids(artifact.recommended) :
         ~Sufficient(artifact.request, Without(artifact.recommended, id))
    /\ Ids(artifact.recommended) \cup artifact.redundant = Ids(artifact.conditions)
    /\ Ids(artifact.recommended) \cap artifact.redundant = {}

(* plan_from_traces never trips over its own checks, certifies nothing      *)
(* without evidence and never the target, and lists every step that could   *)
(* have advanced and did not.                                               *)
PlanIsHonest ==
  artifact.kind = "plan" =>
    /\ ~PlanRaises(artifact)
    /\ \A i \in DOMAIN artifact.nodes :
         LET n == artifact.nodes[i]
         IN /\ n.status = "kernel_certified" => Evidence(n.step, n.recon)
            /\ n.id # "target" /\ n.step \in Advanceable /\ n.status # "kernel_certified"
                 => n.id \in artifact.unresolved

(* Every episode of a campaign is counted once; one that the search left    *)
(* bounded has no counterexample among all its assignments, if the search   *)
(* could try them all; an accepted preview has a counterexample.            *)
CampaignIsHonest ==
  artifact.kind = "campaign" =>
    LET acc == artifact.accounting
        pred == artifact.candidate.pred
        falseAt == {w \in DOMAIN pred : pred[w] = "false"}
    IN /\ acc.falsified + acc.boundedVerified + acc.formallyProved + acc.openProblems
            + acc.candidateStatements = acc.proposed
       /\ artifact.episodes[3].state = "bounded_verified" /\ Len(pred) <= MaxAssignments
            => falseAt = {}
       /\ acc.mirrorAccepted > 0 => falseAt # {}

(* open_certification answers a record that verifies as verified            *)
(* (agent/api/operations.py:78).                                            *)
VerifiedIsAnswered ==
  artifact.kind = "answer" /\ artifact.about = "verified" => artifact.certified = "yes"
=============================================================================
