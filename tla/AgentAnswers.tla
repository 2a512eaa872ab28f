---------------------------- MODULE AgentAnswers ----------------------------
(***************************************************************************)
(* What the operations of the Agent API answer about trust                 *)
(* (agent/api/service.py), the operational receipts they read              *)
(* (agent/api/receipt.py, adapters/common/receipt_crypto.py), and the      *)
(* label that Studio puts on an answer (studio/epistemic_contract.py).     *)
(*                                                                         *)
(* A bundle b is [kind, status, certificate, receipt], a receipt p is      *)
(* [status, claim, mode, theorem, signed, request, certificate]; NoReceipt *)
(* is a bundle without one.  An answer is what a caller can act on.        *)
(***************************************************************************)
EXTENDS Certification

NoReceipt == [mode |-> "none"]

Answer(op, status) ==
  [ kind |-> "answer", op |-> op, status |-> status, certified |-> "absent",
    claim |-> FALSE, theorem |-> FALSE, id |-> FALSE, about |-> "nothing" ]

Rejected(op) == Answer(op, "rejected")
Computed(op) == Answer(op, "computed")

(* An answer that says itself that no record was verified.                  *)
Unverified(op, status) == [Answer(op, status) EXCEPT !.certified = "no"]

-----------------------------------------------------------------------------
(* Operational receipts.                                                    *)

(* A digest that is declared must be right, a signature needs its key.      *)
SignatureHolds(p) == p.signed \in {"digest", "signed"}

ParsesReceipt(p) ==
  /\ p.request # "malformed"
  /\ ~(p.mode = "native_checked" /\ p.status \in VerifiedStatuses)
  /\ p.mode = "kernel_replay" => p.theorem
  /\ p.signed # "no" => SignatureHolds(p)

ReceiptFitsManifest(p) ==
  /\ p.request = "same"
  /\ p.status \in VerifiedStatuses => p.claim # "none" /\ p.mode # "native_checked"

ReceiptFitsCertificate(p, b) ==
  IF b.certificate = "missing" THEN p.status \notin VerifiedStatuses
  ELSE b.certificate = "listed" /\ p.certificate \in {"none", "same"}

ContentVerified(b) == b.certificate # "missing"

(* "none": no receipt counts, "raises": it is refused, "holds".             *)
TrustedStatusFromReceipt(b) ==
  CASE b.receipt = NoReceipt \/ b.kind = "candidate" -> "none"
    [] /\ b.receipt # NoReceipt /\ b.kind # "candidate"
       /\ ParsesReceipt(b.receipt) /\ ReceiptFitsManifest(b.receipt)
       /\ ReceiptFitsCertificate(b.receipt, b) -> "holds"
    [] OTHER -> "raises"

(* Mutant: the status that the manifest claims is the answer.               *)
ManifestStatus(op, b) == Answer(op, b.status)

SafeManifestStatus(op, b) ==
  CASE TrustedStatusFromReceipt(b) = "raises" -> Rejected(op)
    [] TrustedStatusFromReceipt(b) = "none" ->
         Answer(op, IF b.status \in VerifiedStatuses THEN "computed" ELSE b.status)
    [] OTHER ->
         IF ContentVerified(b)
         THEN [Answer(op, b.receipt.status) EXCEPT !.claim = b.receipt.claim # "none",
                                                   !.about = "receipt"]
         ELSE Answer(op, "tested")

-----------------------------------------------------------------------------
(* The operations: every request names a bundle or a record by its id; one  *)
(* that names a path is refused by each of them.                            *)

OpCheckSupport(cap, requested) ==
  IF cap.known /\ requested \in cap.claims THEN Computed("check_support")
  ELSE Answer("check_support", "unsupported")

OpComputeEvidence(cap, backend) ==
  IF RegistryAllowsCompute(cap, backend) THEN Computed("compute_evidence")
  ELSE Answer("compute_evidence", "unsupported")

OpOpenBundle(op, b) ==
  CASE b.kind = "absent" -> Rejected(op)
    [] b.kind = "candidate" ->
         IF op = "open_bundle" THEN Unverified(op, "computed") ELSE Computed(op)
    [] OTHER -> SafeManifestStatus(op, b)

(* lean is what the packaging check of the Lean executable says.            *)
OpVerifyBundle(op, b, lean) ==
  IF b.kind = "absent" \/ b.certificate = "changed" \/ lean = "refused" THEN Rejected(op)
  ELSE Unverified(op, IF lean = "missing" THEN "tested" ELSE "checker_accepted")

OpKernelReplay(c, cap, lock) ==
  IF Issues(c, cap, lock)
  THEN [Unverified("kernel_replay", "computed") EXCEPT !.theorem = TRUE, !.id = TRUE]
  ELSE Rejected("kernel_replay")

(* The answer reads verification.preview_accepted, which the class of a     *)
(* verification does not have: whatever the record is, the handler raises   *)
(* and the server answers 400.                                              *)
OpOpenCertification(r, cap, lock) ==
  [Rejected("open_certification") EXCEPT
     !.about = IF Verified(r, cap, lock) THEN "verified" ELSE "unverified"]

OpListCertifications == Computed("list_certifications_for_request")
OpPlan(op) == Answer(op, "unsupported")
OpProveSufficient(sufficient) ==
  IF sufficient THEN Computed("prove_sufficient") ELSE Rejected("prove_sufficient")
OpDelete(result) ==
  IF result = "missing" THEN Rejected("delete_hypothesis") ELSE Computed("delete_hypothesis")
OpCounterexample(op, found) == IF found THEN Computed(op) ELSE Rejected(op)

-----------------------------------------------------------------------------
(* Studio.                                                                  *)

CertificationGate(a) ==
  IF a.certified = "yes" /\ a.id /\ a.claim /\ a.theorem /\ a.status \in VerifiedStatuses
  THEN "Certified"
  ELSE IF a.status \in VerifiedStatuses THEN "Ambiguous" ELSE "Tested"

(* The gate is asked of an answer that says anything of certification, even *)
(* that there is none.                                                      *)
Gated(a) == a.certified # "absent" \/ a.id \/ a.theorem

EpistemicFromResultStatus(a) ==
  CASE Gated(a) -> CertificationGate(a)
    [] ~Gated(a) /\ a.status \in {"tested", "checker_accepted"} -> "Tested"
    [] ~Gated(a) /\ a.status = "computed" -> "Computed"
    [] OTHER -> "Ambiguous"

(* Certified is shown below the proposition it is about, or not at all.     *)
CertificationSurface(a, proposition) ==
  IF EpistemicFromResultStatus(a) = "Certified" /\ ~proposition THEN "Ambiguous"
  ELSE EpistemicFromResultStatus(a)
=============================================================================
