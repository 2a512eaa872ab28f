--------------------------- MODULE Certification ---------------------------
(***************************************************************************)
(* Which Certification Records verify, and which the registry permits:     *)
(* agent/api/assurance_policy.py, registry_query.py and receipt.py.        *)
(* Everything is an operator of its inputs: a registry entry "cap", a      *)
(* record "r" and the lock of the environment it is verified in.           *)
(*                                                                         *)
(* A record is its receipt, manifest, theorem identity and replay target   *)
(* together.  The comparisons between them that can only fail in a record  *)
(* that was put together from parts are one field: r.flaws names those     *)
(* that fail.  r.genuine says that a fresh replay of the record's          *)
(* candidate reproduces its theorem, proof, claim and candidate.           *)
(***************************************************************************)
EXTENDS Naturals, FiniteSets

VerifiedStatuses == {"soundness_verified", "witness_verified"}
Promoting == {"proved", "refuted"}
NoLock == 0   \* the lock of the environment could not be computed

-----------------------------------------------------------------------------
(* The registry: one entry of a capability, as the program reads it.        *)

ExactBinding(cap) == cap.policy /\ cap.generator # "none"
CrEligible(cap) == cap.policy /\ cap.crEligible
SupportedModes(cap) == IF cap.policy THEN cap.modes ELSE {}
AllowedOutcomes(cap) == IF cap.policy THEN cap.outcomes ELSE {}

DecideExactKernelReplay(cap) ==
  /\ cap.known
  /\ CrEligible(cap)
  /\ "kernel_replay" \in SupportedModes(cap)
  /\ ExactBinding(cap) /\ cap.complete

OutcomeAllowed(cap, outcome) == outcome \in AllowedOutcomes(cap)

MapClaimToOutcome(requested, claim) ==
  CASE requested = "refutation" /\ claim # "none" -> "refuted"
    [] requested # "refutation"
       /\ claim \in {"witness", "soundResult", "completeSolution", "optimum"} -> "proved"
    [] OTHER -> "evidence_only"

(* Mutant: exactness does not ask for the kernel_replay mode.               *)
ValidateWithoutMode(cap) ==
  cap.policy /\ cap.exactExists = ExactBinding(cap) /\ (CrEligible(cap) => ExactBinding(cap) /\ cap.complete)

(* What a registry entry must satisfy before it is accepted.                *)
ValidateAssurancePolicy(cap) ==
  /\ cap.policy
  /\ cap.exactExists = ExactBinding(cap)
  /\ ExactBinding(cap) => cap.complete /\ "kernel_replay" \in cap.modes
  /\ CrEligible(cap) => ExactBinding(cap) /\ cap.complete
  /\ cap.outcomes \subseteq Promoting \cup {"evidence_only"}
  /\ cap.modes \subseteq {"kernel_replay", "native_checked"}

(* The capability and the backend must both list the pair as executable.    *)
RegistryAllowsCompute(cap, backend) ==
  /\ cap.known /\ cap.computed
  /\ backend.level = "implemented" /\ backend.listed = "implemented"

-----------------------------------------------------------------------------
(* Records.                                                                 *)

LegacyAssuranceTier(r) ==
  CASE r.schema = "0.3.0" -> "legacy_fixture"
    [] r.schema = "0.4.0" /\ r.tier # "none" -> r.tier
    [] r.schema = "0.4.0" /\ r.tier = "none" /\ r.generator # "none" /\ r.source -> "exact"
    [] OTHER -> "evidence_only"

RegistryKnows(r, cap) == cap.known /\ cap.policy /\ cap.version = r.version

ExactFieldsHold(r, cap) ==
  /\ IF r.generator # "none"
     THEN ExactBinding(cap) /\ r.generator = cap.generator /\ r.source
     ELSE r.tier # "exact"
  /\ r.outcome = MapClaimToOutcome(r.requested, r.claim)
  /\ ~(r.requested = "refutation" /\ r.outcome = "proved")
  /\ r.outcome \in Promoting => OutcomeAllowed(cap, r.outcome)

StatusIsCoherent(r) ==
  r.status \in VerifiedStatuses => r.mode # "native_checked" /\ r.claim # "none" /\ ~r.obligations

(* Whether verify_certification_record raises instead of returning.         *)
RecordIntegrity(r, cap) ==
  /\ r.flaws = {}
  /\ r.schema \in {"0.4.0", "0.3.0"}
  /\ StatusIsCoherent(r)
  /\ RegistryKnows(r, cap)
  /\ IF r.schema = "0.4.0" THEN ExactFieldsHold(r, cap) ELSE r.generator = "none"

LockCurrent(r, lock) == lock # NoLock /\ r.lock = lock

ExactReady(r) ==
  r.schema = "0.4.0" /\ LegacyAssuranceTier(r) = "exact" /\ r.generator # "none"

(* The fresh replay is a whole run_kernel_replay: the registry decides      *)
(* again, and its identity carries the present lock.                        *)
IndependentKernelReplay(r, cap, lock) ==
  DecideExactKernelReplay(cap) /\ r.genuine /\ r.lock = lock

(* Mutant: a record with intact files needs neither the lock of today nor a *)
(* fresh replay.                                                            *)
VerifiedOnPaper(r, cap, lock) ==
  RecordIntegrity(r, cap) /\ r.status \in VerifiedStatuses /\ r.mode = "kernel_replay" /\ ExactReady(r)

Verified(r, cap, lock) ==
  /\ RecordIntegrity(r, cap)
  /\ r.status \in VerifiedStatuses /\ r.claim # "none"
  /\ r.mode = "kernel_replay" /\ ~r.obligations
  /\ LockCurrent(r, lock) /\ ExactReady(r)
  /\ r.stored /\ IndependentKernelReplay(r, cap, lock)

(* Mutant: nobody asks whether the registry allows the outcome.             *)
IssuesAnyOutcome(c, cap, lock) ==
  /\ lock # NoLock /\ DecideExactKernelReplay(cap)
  /\ c.generator = cap.generator /\ c.accepted

(* The record that run_kernel_replay issues for a candidate "c", where the  *)
(* registry lets it: the claim is the one requested.                        *)
Issues(c, cap, lock) ==
  /\ lock # NoLock
  /\ DecideExactKernelReplay(cap)
  /\ c.requested \in {"witness", "soundResult", "refutation"}
  /\ c.generator = cap.generator
  /\ OutcomeAllowed(cap, MapClaimToOutcome(c.requested, c.requested))
  /\ c.accepted

Issued(c, cap, lock) ==
  [ id |-> c.id, schema |-> "0.4.0", version |-> cap.version, mode |-> "kernel_replay",
    status |-> "soundness_verified", requested |-> c.requested, claim |-> c.requested,
    outcome |-> MapClaimToOutcome(c.requested, c.requested), obligations |-> FALSE,
    generator |-> c.generator, tier |-> "exact", source |-> TRUE, lock |-> lock,
    type |-> c.type, stored |-> TRUE, genuine |-> TRUE, flaws |-> {} ]
=============================================================================
