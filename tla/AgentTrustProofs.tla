--------------------------- MODULE AgentTrustProofs ---------------------------
(***************************************************************************)
(* Theorems about AgentTrust for any registry entries, candidates, records  *)
(* and inputs: what is issued verifies, what is stale does not, an eligible *)
(* entry can be replayed, and what is called certified goes back to a       *)
(* record that verified when it was used.                                   *)
(***************************************************************************)
EXTENDS AgentTrust, LoopInduction

-----------------------------------------------------------------------------
(* Issue and verification of records.                                       *)

(* In every state, a record that kernel_replay would issue is one that      *)
(* open_certification would verify: run_kernel_replay checks before it      *)
(* writes whatever verify_certification_record checks when it reads.        *)
THEOREM IssuedAreVerified == Spec => []IssuedVerifies
<1>1. IssuedVerifies
  <2>. SUFFICES ASSUME NEW c \in Candidates, Issues(c, cap, lock)
                PROVE  Verified(Issued(c, cap, lock), cap, lock)
    BY DEF IssuedVerifies
  <2>. DEFINE r == Issued(c, cap, lock)
  <2>1. /\ r.schema = "0.4.0" /\ r.version = cap.version /\ r.mode = "kernel_replay"
        /\ r.status = "soundness_verified" /\ r.requested = c.requested /\ r.claim = c.requested
        /\ r.outcome = MapClaimToOutcome(c.requested, c.requested) /\ r.obligations = FALSE
        /\ r.generator = c.generator /\ r.tier = "exact" /\ r.source = TRUE /\ r.lock = lock
        /\ r.stored = TRUE /\ r.genuine = TRUE /\ r.flaws = {}
    BY DEF Issued
  <2>2. /\ DecideExactKernelReplay(cap) /\ lock # NoLock /\ c.generator = cap.generator
        /\ c.requested \in {"witness", "soundResult", "refutation"}
        /\ OutcomeAllowed(cap, MapClaimToOutcome(c.requested, c.requested))
    BY DEF Issues
  <2>3. /\ cap.known /\ cap.policy /\ ExactBinding(cap) /\ cap.generator # "none"
    BY <2>2 DEF DecideExactKernelReplay, CrEligible, ExactBinding
  <2>4. ExactFieldsHold(r, cap)
    <3>1. ~(r.requested = "refutation" /\ r.outcome = "proved")
      BY <2>1, <2>2 DEF MapClaimToOutcome
    <3>. QED  BY <3>1, <2>1, <2>2, <2>3 DEF ExactFieldsHold
  <2>5. RecordIntegrity(r, cap)
    BY <2>1, <2>2, <2>3, <2>4 DEF RecordIntegrity, StatusIsCoherent, RegistryKnows
  <2>6. ExactReady(r)
    BY <2>1, <2>2, <2>3 DEF ExactReady, LegacyAssuranceTier
  <2>7. Verified(r, cap, lock)
    <3>. HIDE DEF r
    <3>. QED
      BY <2>1, <2>2, <2>5, <2>6
      DEF Verified, VerifiedStatuses, LockCurrent, IndependentKernelReplay
  <2>. QED  BY <2>7
<1>. QED  BY <1>1, PTL

(* In every state, a record that verifies is genuine, of the present lock   *)
(* and of the present version of an entry that is still eligible.           *)
THEOREM StaleRecordsDie == Spec => []StaleNeverVerifies
<1>1. StaleNeverVerifies
  BY DEF StaleNeverVerifies, RecordVerified, Verified, RecordIntegrity, RegistryKnows,
         LockCurrent, IndependentKernelReplay, DecideExactKernelReplay
<1>. QED  BY <1>1, PTL

-----------------------------------------------------------------------------
(* The registry.                                                            *)

Accepted == cap \in Capabilities /\ ValidateAssurancePolicy(cap)

LEMMA EntriesStayAccepted == Spec => []Accepted
<1>1. Init => Accepted
  BY DEF Init, Accepted
<1>2. Accepted /\ [Next]_vars => Accepted'
  <2>. SUFFICES ASSUME Accepted, [Next]_vars PROVE Accepted'
    OBVIOUS
  <2>1. cap' = cap \/ EditRegistry
    BY DEF Next, vars, AdvanceLock, Drop, Query, KernelReplay, Respond, FindRecord,
           OpenCertification, ShowInStudio, StartEpisode, StepEpisode, WorkOn, Campaign,
           Mirror, MakeLattice, CertifyLattice, Reconstruct, MakePlan
  <2>2. CASE cap' = cap
    BY <2>2 DEF Accepted, ValidateAssurancePolicy, ExactBinding, CrEligible
  <2>3. CASE EditRegistry
    BY <2>3 DEF EditRegistry, Accepted, ValidateAssurancePolicy, ExactBinding, CrEligible
  <2>. QED  BY <2>1, <2>2, <2>3
<1>. QED  BY <1>1, <1>2, PTL DEF Spec

(* Through all edits of the registry, an entry that validate_assurance_policy *)
(* accepted and that is eligible is one that decide_exact_kernel_replay lets  *)
(* replay.                                                                    *)
THEOREM EligibleEntriesReplay == Spec => []EligibleReplays
<1>1. Accepted => EligibleReplays
  BY EntriesAssumption
  DEF Accepted, EligibleReplays, ValidateAssurancePolicy, DecideExactKernelReplay,
      ExactBinding, CrEligible, SupportedModes
<1>. QED  BY <1>1, EntriesStayAccepted, PTL

-----------------------------------------------------------------------------
(* Episodes.  The set E stands for the records that have verified.          *)

Episode(ep) ==
  ep = [ kind |-> ep.kind, pred |-> ep.pred, state |-> ep.state, preview |-> ep.preview,
         refutation |-> ep.refutation, proof |-> ep.proof, type |-> ep.type, bound |-> ep.bound ]

Backed(ep, E) ==
  /\ Episode(ep) /\ ep.kind = "episode"
  /\ ep.state = "falsified" => ep.refutation \in E
  /\ ep.state = "formally_proved" => ep.proof \in E \cup {"source_proof"}

(* A record at hand is NoRecord, or was verified only if it is in E.        *)
Vouched(rec, E) == rec # NoRecord /\ rec.verified => rec.id \in E

LEMMA BackedStays ==
  ASSUME NEW E, NEW F, E \subseteq F, NEW ep, Backed(ep, E)
  PROVE  Backed(ep, F)
BY DEF Backed

LEMMA NewEpisodeBacked == ASSUME NEW E, NEW pred PROVE Backed(NewEpisode(pred), E)
BY DEF Backed, Episode, NewEpisode

LEMMA ToCandidateBacked ==
  ASSUME NEW E, NEW ep, Backed(ep, E) PROVE Backed(ToCandidate(ep), E)
BY DEF Backed, Episode, ToCandidate

LEMMA PreviewBacked ==
  ASSUME NEW E, NEW ep, NEW w, Backed(ep, E) PROVE Backed(PreviewRefutation(ep, w), E)
BY DEF Backed, Episode, PreviewRefutation

LEMMA CertifyFromRecordBacked ==
  ASSUME NEW E, NEW ep, NEW rec, Backed(ep, E), rec # NoRecord, Vouched(rec, E)
  PROVE  Backed(CertifyFromRecord(ep, rec), E)
BY DEF Backed, Episode, CertifyFromRecord, Vouched

LEMMA CertifyRefutationBacked ==
  ASSUME NEW E, NEW ep, NEW w, NEW rec, Backed(ep, E), Vouched(rec, E)
  PROVE  Backed(CertifyRefutation(ep, w, rec), E)
<1>. DEFINE seen == PreviewRefutation(ep, w)
<1>1. Backed(seen, E)
  BY PreviewBacked
<1>. HIDE DEF seen
<1>2. CASE seen.preview # "mirror_accepted"
  BY <1>1, <1>2 DEF CertifyRefutation, seen
<1>3. CASE seen.preview = "mirror_accepted" /\ rec = NoRecord
  <2>1. CertifyRefutation(ep, w, rec) = [seen EXCEPT !.refutation = "none"]
    BY <1>3 DEF CertifyRefutation, seen
  <2>2. seen.state = "candidate_statement"
    BY <1>3 DEF seen, PreviewRefutation, Backed, Episode
  <2>. QED  BY <1>1, <2>1, <2>2 DEF Backed, Episode
<1>4. CASE seen.preview = "mirror_accepted" /\ rec # NoRecord
  <2>1. CertifyRefutation(ep, w, rec) = CertifyFromRecord(seen, rec)
    BY <1>4 DEF CertifyRefutation, seen
  <2>. QED  BY <1>1, <1>4, <2>1, CertifyFromRecordBacked
<1>. QED  BY <1>2, <1>3, <1>4

LEMMA BoundedBacked ==
  ASSUME NEW E, NEW ep, NEW bound, Backed(ep, E) PROVE Backed(MarkBoundedVerified(ep, bound), E)
BY DEF Backed, Episode, MarkBoundedVerified, Settled

LEMMA OpenBacked ==
  ASSUME NEW E, NEW ep, Backed(ep, E) PROVE Backed(MarkOpenProblem(ep), E)
BY DEF Backed, Episode, MarkOpenProblem, Settled

LEMMA ProvedBacked ==
  ASSUME NEW E, NEW ep, NEW t, NEW rec, Backed(ep, E), Vouched(rec, E), ~ProofRaises(ep, t, rec)
  PROVE  Backed(MarkFormallyProved(ep, t, rec), E)
BY DEF Backed, Episode, MarkFormallyProved, ProofRaises, ProofHolds, Vouched

LEMMA ProveOrOpenBacked ==
  ASSUME NEW E, NEW ep, NEW t, NEW rec, Backed(ep, E), Vouched(rec, E)
  PROVE  Backed(ProveOrOpen(ep, t, rec), E)
BY ProvedBacked, OpenBacked DEF ProveOrOpen
LEMMA AttemptedBacked ==
  ASSUME NEW E, NEW cand, NEW rec, Vouched(rec, E) PROVE Backed(Attempted(cand, rec), E)
BY NewEpisodeBacked, ToCandidateBacked, CertifyRefutationBacked DEF Attempted

LEMMA RunCandidateBacked ==
  ASSUME NEW E, NEW cand, NEW rec, Vouched(rec, E) PROVE Backed(RunCandidate(cand, rec), E)
<1>. DEFINE ep == Attempted(cand, rec)
<1>1. Backed(ep, E)
  BY AttemptedBacked
<1>2. RunCandidate(cand, rec) \in
        {ep, ProveOrOpen(ep, cand.proof, rec), MarkOpenProblem(MarkBoundedVerified(ep, cand.bound)),
         MarkBoundedVerified(ep, cand.bound)}
  BY DEF RunCandidate
<1>. HIDE DEF ep
<1>. QED  BY <1>1, <1>2, ProveOrOpenBacked, OpenBacked, BoundedBacked

LEMMA RunBatchCandidateBacked ==
  ASSUME NEW E, NEW cand, NEW rec, Vouched(rec, E) PROVE Backed(RunBatchCandidate(cand, rec), E)
<1>. DEFINE ep == ToCandidate(NewEpisode(cand.pred))
            w  == FindCounterexample(cand.pred)
<1>1. Backed(ep, E)
  BY NewEpisodeBacked, ToCandidateBacked
<1>2. RunBatchCandidate(cand, rec) \in
        {ProveOrOpen(ep, cand.proof, rec), MarkOpenProblem(ep),
         MarkOpenProblem(MarkBoundedVerified(ep, cand.bound)),
         MarkBoundedVerified(ep, Len(cand.pred)), CertifyRefutation(ep, w, rec)}
  BY DEF RunBatchCandidate
<1>. HIDE DEF ep, w
<1>. QED  BY <1>1, <1>2, ProveOrOpenBacked, OpenBacked, BoundedBacked, CertifyRefutationBacked

LEMMA RunRequestBacked ==
  ASSUME NEW E, NEW pred, NEW bound PROVE Backed(RunRequest(pred, bound), E)
BY RunCandidateBacked DEF RunRequest, Vouched

-----------------------------------------------------------------------------
(* Lattices, plans and answers.                                             *)

LatticeFields == {"kind", "request", "conditions", "sufficient", "recommended", "redundant", "certified"}

LatticeBacked(l, E) ==
  /\ l = [x \in DOMAIN l |-> l[x]] /\ LatticeFields \subseteq DOMAIN l
  /\ \A c \in l.certified : c.record \in E

LEMMA BuiltLatticeBacked ==
  ASSUME NEW E, NEW req, NEW original, NEW given, NEW weaker, NEW related
  PROVE  /\ BuildLattice(req, original, given, weaker, related).kind = "lattice"
         /\ LatticeBacked(BuildLattice(req, original, given, weaker, related), E)
BY DEF BuildLattice, LatticeBacked, LatticeFields

LEMMA CertifiedLatticeBacked ==
  ASSUME NEW E, NEW l, NEW ids, NEW rec, LatticeBacked(l, E), rec.id \in E
  PROVE  /\ CertifySufficientSet(l, ids, rec).kind = l.kind
         /\ LatticeBacked(CertifySufficientSet(l, ids, rec), E)
BY DEF CertifySufficientSet, LatticeBacked, LatticeFields

(* A certified computation in a plan has a reconstruction whose gate is     *)
(* verified.                                                                *)
PlanBacked(p, E) ==
  \A i \in DOMAIN p.nodes :
    p.nodes[i].step = "reconstructible_computation" /\ p.nodes[i].status = "kernel_certified"
      => E # {}

LEMMA TraceNodeBacked ==
  ASSUME NEW E, NEW trace, trace.recon.gate = "verified" => E # {},
         TraceNode(trace).step = "reconstructible_computation",
         TraceNode(trace).status = "kernel_certified"
  PROVE  E # {}
BY DEF TraceNode, Status, Evidence, HasVerifiedReceipt, Advanceable

LEMMA AppendTwo ==
  ASSUME NEW x, NEW y, NEW z PROVE <<x>> \o <<y, z>> = <<x, y, z>>
<1>. DEFINE S == {x, y, z}
            s == <<x>> \o <<y, z>>
            t == <<x, y, z>>
<1>1. <<x>> \in Seq(S) /\ <<y, z>> \in Seq(S) /\ t \in Seq(S)
  OBVIOUS
<1>2. s \in Seq(S) /\ Len(s) = 3 /\ s[1] = x /\ s[2] = y /\ s[3] = z
  BY <1>1
<1>3. t \in Seq(S) /\ Len(t) = 3 /\ t[1] = x /\ t[2] = y /\ t[3] = z
  OBVIOUS
<1>4. 1..3 = {1, 2, 3}
  OBVIOUS
<1>. HIDE DEF s, t
<1>5. s = t
  BY <1>2, <1>3, <1>4
<1>. QED  BY <1>5 DEF s, t

LEMMA PlanFromTracesBacked ==
  ASSUME NEW E, NEW a, NEW b,
         a.recon.gate = "verified" => E # {}, b.recon.gate = "verified" => E # {}
  PROVE  /\ PlanFromTraces(<<a, b>>).kind = "plan"
         /\ PlanBacked(PlanFromTraces(<<a, b>>), E)
<1>. DEFINE nodes == PlanFromTraces(<<a, b>>).nodes
<1>1. nodes = <<TargetNode, TraceNode(a), TraceNode(b)>>
  <2>1. [i \in DOMAIN <<a, b>> |-> TraceNode(<<a, b>>[i])] = <<TraceNode(a), TraceNode(b)>>
    OBVIOUS
  <2>2. <<TargetNode>> \o <<TraceNode(a), TraceNode(b)>> = <<TargetNode, TraceNode(a), TraceNode(b)>>
    BY AppendTwo
  <2>. QED  BY <2>1, <2>2 DEF PlanFromTraces
<1>2. TargetNode.step = "lemma_candidate"
  BY DEF TargetNode
<1>3. PlanFromTraces(<<a, b>>).kind = "plan"
  BY DEF PlanFromTraces
<1>. HIDE DEF nodes
<1>4. \A i \in DOMAIN nodes : nodes[i] \in {TargetNode, TraceNode(a), TraceNode(b)}
  BY <1>1
<1>5. \A i \in DOMAIN nodes :
        nodes[i].step = "reconstructible_computation" /\ nodes[i].status = "kernel_certified"
          => E # {}
  BY <1>2, <1>4, TraceNodeBacked
<1>. QED  BY <1>3, <1>5 DEF PlanBacked, nodes

LEMMA OperationsAnswer ==
  \A op, b, lean, c, r, requested, backend, x :
         /\ OpCheckSupport(cap, requested).kind = "answer"
         /\ OpComputeEvidence(cap, backend).kind = "answer"
         /\ OpOpenBundle(op, b).kind = "answer"
         /\ OpVerifyBundle(op, b, lean).kind = "answer"
         /\ OpKernelReplay(c, cap, lock).kind = "answer"
         /\ OpOpenCertification(r, cap, lock).kind = "answer"
         /\ OpListCertifications.kind = "answer"
         /\ OpPlan(op).kind = "answer"
         /\ OpProveSufficient(x).kind = "answer"
         /\ OpDelete(x).kind = "answer"
         /\ OpCounterexample(op, x).kind = "answer"
<1>. TAKE op, b, lean, c, r, requested, backend, x
<1>1. \A o, s : Answer(o, s).kind = "answer" /\ DOMAIN Answer(o, s) =
         {"kind", "op", "status", "certified", "claim", "theorem", "id", "about"}
  BY DEF Answer
<1>2. OpOpenBundle(op, b).kind = "answer"
  BY DEF OpOpenBundle, SafeManifestStatus, Rejected, Computed, Unverified, Answer
<1>3. OpKernelReplay(c, cap, lock).kind = "answer"
  BY DEF OpKernelReplay, Rejected, Unverified, Answer
<1>4. OpOpenCertification(r, cap, lock).kind = "answer"
  BY DEF OpOpenCertification, Rejected, Answer
<1>5. OpVerifyBundle(op, b, lean).kind = "answer"
  BY <1>1 DEF OpVerifyBundle, Rejected, Unverified
<1>. QED
  BY <1>1, <1>2, <1>3, <1>4, <1>5
  DEF OpCheckSupport, OpComputeEvidence, OpListCertifications, OpPlan, OpProveSufficient,
      OpDelete, OpCounterexample, Rejected, Computed
-----------------------------------------------------------------------------
(* The artifact and the reconstruction at hand.                             *)

ArtifactBacked(a, E) ==
  /\ a.kind = "episode" => Backed(a, E)
  /\ a.kind = "campaign" => \A i \in DOMAIN a.episodes : Backed(a.episodes[i], E)
  /\ a.kind = "lattice" => LatticeBacked(a, E)
  /\ a.kind = "plan" => PlanBacked(a, E)

BackedInv ==
  /\ recon.gate = "verified" => everVerified # {}
  /\ ArtifactBacked(artifact, everVerified)

LEMMA ArtifactStays ==
  ASSUME NEW a, NEW E, NEW F, E \subseteq F, ArtifactBacked(a, E)
  PROVE  ArtifactBacked(a, F)
BY BackedStays DEF ArtifactBacked, LatticeBacked, PlanBacked

LEMMA UsedGrows == ASSUME NEW rec PROVE everVerified \subseteq Used(rec)
BY DEF Used

LEMMA UsedNothing == Used(NoRecord) = everVerified
BY DEF Used

LEMMA AtHandIsVouched ==
  ASSUME NEW rec \in MaybeAtHand PROVE Vouched(rec, Used(rec))
<1>1. CASE rec = NoRecord
  BY <1>1 DEF Vouched
<1>2. CASE rec # NoRecord
  <2>1. rec = AtHand /\ record # NoCertificate
    BY <1>2 DEF MaybeAtHand, AtHand
  <2>2. rec.id = record.id /\ rec.verified = RecordVerified
    BY <2>1 DEF AtHand
  <2>. QED  BY <1>2, <2>2 DEF Vouched, Used
<1>. QED  BY <1>1, <1>2

LEMMA AtHandIsARecord == record # NoCertificate => AtHand # NoRecord
<1>. SUFFICES ASSUME record # NoCertificate PROVE AtHand # NoRecord
  OBVIOUS
<1>1. "verified" \in DOMAIN AtHand
  BY DEF AtHand
<1>2. "verified" \notin DOMAIN NoRecord
  BY DEF NoRecord
<1>. QED  BY <1>1, <1>2

LEMMA EpisodeStepBacked ==
  ASSUME artifact.kind = "episode", Backed(artifact, everVerified), StepEpisode
  PROVE  Backed(artifact', everVerified')
<1>. DEFINE After(ep, rec) == artifact' = ep /\ everVerified' = Used(rec)
<1>1. \A rec : Backed(artifact, Used(rec))
  BY UsedGrows, BackedStays
<1>2. ASSUME NEW ep, NEW rec, WorkOn(ep, rec) PROVE After(ep, rec)
  BY <1>2 DEF WorkOn
<1>3. CASE WorkOn(ToCandidate(artifact), NoRecord)
  BY <1>1, <1>2, <1>3, ToCandidateBacked
<1>4. CASE \E w \in 0..Len(artifact.pred) : WorkOn(PreviewRefutation(artifact, w), NoRecord)
  BY <1>1, <1>2, <1>4, PreviewBacked
<1>5. CASE record # NoCertificate /\ WorkOn(CertifyFromRecord(artifact, AtHand), AtHand)
  <2>1. Vouched(AtHand, Used(AtHand)) /\ AtHand # NoRecord
    BY <1>5, AtHandIsVouched, AtHandIsARecord DEF MaybeAtHand
  <2>. QED  BY <2>1, <1>1, <1>2, <1>5, CertifyFromRecordBacked
<1>6. CASE \E w \in 0..Len(artifact.pred), rec \in MaybeAtHand :
             WorkOn(CertifyRefutation(artifact, w, rec), rec)
  BY <1>1, <1>2, <1>6, AtHandIsVouched, CertifyRefutationBacked
<1>7. CASE WorkOn(MarkBoundedVerified(artifact, 1), NoRecord)
  BY <1>1, <1>2, <1>7, BoundedBacked
<1>8. CASE WorkOn(MarkOpenProblem(artifact), NoRecord)
  BY <1>1, <1>2, <1>8, OpenBacked
<1>9. CASE \E t \in ProofClaims, rec \in MaybeAtHand :
             ~ProofRaises(artifact, t, rec) /\ WorkOn(MarkFormallyProved(artifact, t, rec), rec)
  BY <1>1, <1>2, <1>9, AtHandIsVouched, ProvedBacked
<1>. QED  BY <1>3, <1>4, <1>5, <1>6, <1>7, <1>8, <1>9 DEF StepEpisode

LEMMA CampaignBacked == Campaign => ArtifactBacked(artifact', everVerified')
<1>. SUFFICES ASSUME Campaign PROVE ArtifactBacked(artifact', everVerified')
  OBVIOUS
<1>1. PICK cand \in CampaignCandidates, rec \in MaybeAtHand :
        LET eps == <<RunCandidate(cand, rec), RunBatchCandidate(cand, rec),
                     RunRequest(cand.pred, cand.bound)>>
        IN WorkOn([kind |-> "campaign", candidate |-> cand, episodes |-> eps,
                   accounting |-> PrecisionAccounting(eps)], rec)
  BY DEF Campaign
<1>. DEFINE eps == <<RunCandidate(cand, rec), RunBatchCandidate(cand, rec),
                     RunRequest(cand.pred, cand.bound)>>
<1>2. /\ artifact'.kind = "campaign" /\ artifact'.episodes = eps
      /\ everVerified' = Used(rec)
  BY <1>1 DEF WorkOn
<1>3. /\ Backed(eps[1], Used(rec)) /\ Backed(eps[2], Used(rec)) /\ Backed(eps[3], Used(rec))
  BY AtHandIsVouched, RunCandidateBacked, RunBatchCandidateBacked, RunRequestBacked
<1>4. DOMAIN eps = {1, 2, 3}
  OBVIOUS
<1>. HIDE DEF eps
<1>. QED  BY <1>2, <1>3, <1>4 DEF ArtifactBacked

LEMMA PlanMadeBacked ==
  ASSUME recon.gate = "verified" => everVerified # {}, MakePlan
  PROVE  ArtifactBacked(artifact', everVerified')
<1>1. PICK ids \in TraceIdPairs, w1 \in RawItems, w2 \in RawItems,
           r1 \in CallerRecons \cup {recon}, r2 \in CallerRecons \cup {recon} :
        WorkOn(PlanFromTraces(<<[id |-> ids[1], raw |-> w1, recon |-> r1],
                                [id |-> ids[2], raw |-> w2, recon |-> r2]>>), NoRecord)
  BY DEF MakePlan
<1>. DEFINE a == [id |-> ids[1], raw |-> w1, recon |-> r1]
            b == [id |-> ids[2], raw |-> w2, recon |-> r2]
<1>2. artifact' = PlanFromTraces(<<a, b>>) /\ everVerified' = everVerified
  BY <1>1, UsedNothing DEF WorkOn
<1>3. /\ a.recon.gate = "verified" => everVerified # {}
      /\ b.recon.gate = "verified" => everVerified # {}
  BY CallersAssumption
<1>. HIDE DEF a, b
<1>4. artifact'.kind = "plan" /\ PlanBacked(artifact', everVerified')
  BY <1>2, <1>3, PlanFromTracesBacked
<1>. QED  BY <1>4 DEF ArtifactBacked
LEMMA BackedInitially == Init => BackedInv
BY DEF Init, BackedInv, ArtifactBacked, NoRecon, Nothing

LEMMA BackedStep == BackedInv /\ [Next]_vars => BackedInv'
<1>. SUFFICES ASSUME BackedInv, [Next]_vars PROVE BackedInv'
  OBVIOUS
<1>. DEFINE Good == ArtifactBacked(artifact', everVerified')
<1>0. ArtifactBacked(artifact, everVerified) /\ (recon.gate = "verified" => everVerified # {})
  BY DEF BackedInv
<1>1. everVerified \subseteq everVerified'
  BY UsedGrows DEF Next, vars, EditRegistry, AdvanceLock, Drop, Query, KernelReplay, Respond,
     FindRecord, OpenCertification, ShowInStudio, StartEpisode, StepEpisode, WorkOn, Campaign,
     Mirror, MakeLattice, CertifyLattice, Reconstruct, MakePlan
<1>2. recon'.gate = "verified" => everVerified' # {}
  <2>1. CASE recon' = recon
    BY <1>0, <1>1, <2>1
  <2>2. CASE Reconstruct
    BY <2>2, AtHandIsARecord DEF Reconstruct, ReconstructFromReceipt, NoRecon, Used, RecordVerified
  <2>3. recon' = recon \/ Reconstruct
    BY DEF Next, vars, EditRegistry, AdvanceLock, Drop, Query, KernelReplay, Respond,
     FindRecord, OpenCertification, ShowInStudio, StartEpisode, StepEpisode, WorkOn, Campaign,
     Mirror, MakeLattice, CertifyLattice, MakePlan
  <2>. QED  BY <2>1, <2>2, <2>3
<1>3. Good
  <2>3. CASE artifact' = artifact
    BY <1>0, <1>1, <2>3, ArtifactStays DEF BackedInv
  <2>4. ASSUME artifact'.kind \in {"nothing", "answer"} PROVE Good
    BY <2>4 DEF ArtifactBacked
  <2>5. CASE Drop
    BY <2>4, <2>5 DEF Drop, Nothing
  <2>6. CASE Query \/ KernelReplay \/ OpenCertification \/ Mirror
    <3>1. ASSUME NEW a, a.kind = "answer", artifact' = a PROVE Good
      BY <2>4, <3>1
    <3>2. CASE Query
      BY <3>1, <3>2, OperationsAnswer DEF Query, Respond
    <3>3. CASE KernelReplay
      BY <3>1, <3>3, OperationsAnswer DEF KernelReplay, Respond
    <3>4. CASE OpenCertification
      BY <3>1, <3>4, OperationsAnswer DEF OpenCertification, Respond
    <3>5. CASE Mirror
      BY <3>1, <3>5, OperationsAnswer DEF Mirror, WorkOn
    <3>. QED  BY <2>6, <3>2, <3>3, <3>4, <3>5
  <2>7. CASE StartEpisode
    BY <2>7, NewEpisodeBacked DEF StartEpisode, WorkOn, ArtifactBacked, Backed
  <2>8. CASE StepEpisode
    <3>1. artifact.kind = "episode" /\ Backed(artifact, everVerified)
      BY <1>0, <2>8 DEF StepEpisode, ArtifactBacked
    <3>2. Backed(artifact', everVerified')
      BY <2>8, <3>1, EpisodeStepBacked
    <3>. QED  BY <3>2 DEF ArtifactBacked, Backed
  <2>9. CASE MakeLattice
    BY <2>9, BuiltLatticeBacked DEF MakeLattice, WorkOn, ArtifactBacked
  <2>10. CASE CertifyLattice
    <3>1. /\ artifact.kind = "lattice" /\ RecordVerified
          /\ artifact' = CertifySufficientSet(artifact, Ids(artifact.recommended), AtHand)
          /\ everVerified' = Used(AtHand)
      BY <2>10 DEF CertifyLattice, WorkOn
    <3>2. LatticeBacked(artifact, everVerified')
      BY <1>0, <3>1, UsedGrows DEF ArtifactBacked, LatticeBacked
    <3>3. record # NoCertificate
      BY <3>1 DEF RecordVerified
    <3>4. AtHand.id = record.id
      BY <3>3 DEF AtHand
    <3>5. AtHand.id \in everVerified'
      BY <3>1, <3>3, <3>4, AtHandIsARecord DEF Used
    <3>6. artifact'.kind = "lattice" /\ LatticeBacked(artifact', everVerified')
      BY <3>1, <3>2, <3>5, CertifiedLatticeBacked
    <3>. QED  BY <3>6 DEF ArtifactBacked
  <2>. QED
    BY <2>3, <2>5, <2>6, <2>7, <2>8, <2>9, <2>10, <1>0, CampaignBacked, PlanMadeBacked,
       <1>1, ArtifactStays
    DEF Next, vars, EditRegistry, AdvanceLock, FindRecord, ShowInStudio, Reconstruct, BackedInv
<1>. QED  BY <1>2, <1>3 DEF BackedInv

(* Through any sequence of calls, edits of the registry and changes of the  *)
(* environment, what an episode, a campaign, a lattice or a plan shows as   *)
(* certified goes back to a record that verified when it was used.          *)
THEOREM MarksAreBacked == Spec => []CertifiedWasVerified
<1>1. BackedInv => CertifiedWasVerified
  BY DEF BackedInv, ArtifactBacked, Backed, LatticeBacked, PlanBacked,
         CertifiedWasVerified, EpisodeIsBacked
<1>. QED  BY <1>1, BackedInitially, BackedStep, PTL DEF Spec

-----------------------------------------------------------------------------
(* Answers and labels.                                                      *)

(* No operation answers "certified"; it answers a verified status only of a *)
(* receipt that holds for its bundle.                                       *)
Modest(a) ==
  /\ a.kind = "answer" /\ a.certified # "yes"
  /\ a.status \in VerifiedStatuses => a.about = "receipt"

LEMMA AnswerIsModest ==
  ASSUME NEW op, NEW status, status \notin VerifiedStatuses
  PROVE  Modest(Answer(op, status))
BY DEF Modest, Answer

LEMMA UnverifiedIsModest ==
  ASSUME NEW op, NEW status, status \notin VerifiedStatuses
  PROVE  Modest(Unverified(op, status))
<1>1. /\ Unverified(op, status).kind = "answer" /\ Unverified(op, status).certified = "no"
      /\ Unverified(op, status).status = status
  BY DEF Unverified, Answer
<1>. QED  BY <1>1 DEF Modest

LEMMA PlainStatuses ==
  /\ "rejected" \notin VerifiedStatuses /\ "computed" \notin VerifiedStatuses
  /\ "unsupported" \notin VerifiedStatuses /\ "tested" \notin VerifiedStatuses
  /\ "checker_accepted" \notin VerifiedStatuses
BY DEF VerifiedStatuses

LEMMA RefusalsAreModest ==
  ASSUME NEW op PROVE Modest(Rejected(op)) /\ Modest(Computed(op))
BY AnswerIsModest, PlainStatuses DEF Rejected, Computed

(* A status from a manifest is answered if it is not verified; a verified   *)
(* one comes from the receipt.                                              *)
LEMMA ManifestIsModest == ASSUME NEW op, NEW b PROVE Modest(SafeManifestStatus(op, b))
<1>1. CASE TrustedStatusFromReceipt(b) = "raises"
  BY <1>1, RefusalsAreModest DEF SafeManifestStatus
<1>2. CASE TrustedStatusFromReceipt(b) = "none"
  <2>. DEFINE status == IF b.status \in VerifiedStatuses THEN "computed" ELSE b.status
  <2>1. status \notin VerifiedStatuses
    BY PlainStatuses
  <2>2. SafeManifestStatus(op, b) = Answer(op, status)
    BY <1>2 DEF SafeManifestStatus
  <2>. HIDE DEF status
  <2>. QED  BY <2>1, <2>2, AnswerIsModest
<1>3. CASE TrustedStatusFromReceipt(b) \notin {"raises", "none"} /\ ContentVerified(b)
  <2>. DEFINE a == [Answer(op, b.receipt.status) EXCEPT !.claim = b.receipt.claim # "none",
                                                        !.about = "receipt"]
  <2>1. SafeManifestStatus(op, b) = a
    BY <1>3 DEF SafeManifestStatus
  <2>2. a.kind = "answer" /\ a.certified # "yes" /\ a.about = "receipt"
    BY DEF Answer
  <2>. HIDE DEF a
  <2>. QED  BY <2>1, <2>2 DEF Modest
<1>4. CASE TrustedStatusFromReceipt(b) \notin {"raises", "none"} /\ ~ContentVerified(b)
  BY <1>4, AnswerIsModest, PlainStatuses DEF SafeManifestStatus
<1>. QED  BY <1>1, <1>2, <1>3, <1>4

LEMMA ReplayIsModest == ASSUME NEW c PROVE Modest(OpKernelReplay(c, cap, lock))
<1>. DEFINE a == [Unverified("kernel_replay", "computed") EXCEPT !.theorem = TRUE, !.id = TRUE]
<1>1. Modest(a)
  <2>1. a.kind = "answer" /\ a.certified # "yes" /\ a.status = "computed"
    BY DEF Unverified, Answer
  <2>. HIDE DEF a
  <2>. QED  BY <2>1, PlainStatuses DEF Modest
<1>2. OpKernelReplay(c, cap, lock) \in {a, Rejected("kernel_replay")}
  BY DEF OpKernelReplay
<1>. HIDE DEF a
<1>. QED  BY <1>1, <1>2, RefusalsAreModest

LEMMA OpenedIsModest == ASSUME NEW r PROVE Modest(OpOpenCertification(r, cap, lock))
<1>. DEFINE a == OpOpenCertification(r, cap, lock)
<1>1. a.kind = "answer" /\ a.certified # "yes" /\ a.status = "rejected"
  BY DEF OpOpenCertification, Rejected, Answer
<1>. HIDE DEF a
<1>2. Modest(a)
  BY <1>1, PlainStatuses DEF Modest
<1>. QED  BY <1>2 DEF a

LEMMA OperationsAreModest ==
  \A op, b, lean, c, r, requested, backend, x :
         /\ Modest(OpCheckSupport(cap, requested)) /\ Modest(OpComputeEvidence(cap, backend))
         /\ Modest(OpOpenBundle(op, b)) /\ Modest(OpVerifyBundle(op, b, lean))
         /\ Modest(OpKernelReplay(c, cap, lock)) /\ Modest(OpOpenCertification(r, cap, lock))
         /\ Modest(OpListCertifications) /\ Modest(OpPlan(op))
         /\ Modest(OpProveSufficient(x)) /\ Modest(OpDelete(x)) /\ Modest(OpCounterexample(op, x))
<1>. TAKE op, b, lean, c, r, requested, backend, x
<1>1. Modest(OpOpenBundle(op, b))
  BY RefusalsAreModest, ManifestIsModest, UnverifiedIsModest, PlainStatuses DEF OpOpenBundle
<1>2. \A o, s : s \notin VerifiedStatuses => Modest(Answer(o, s))
  BY AnswerIsModest
<1>3. \A o : Modest(Rejected(o)) /\ Modest(Computed(o))
  BY RefusalsAreModest
<1>4. Modest(OpVerifyBundle(op, b, lean))
  BY <1>3, UnverifiedIsModest, PlainStatuses DEF OpVerifyBundle
<1>5. Modest(OpCheckSupport(cap, requested)) /\ Modest(OpComputeEvidence(cap, backend))
  BY <1>2, <1>3, PlainStatuses DEF OpCheckSupport, OpComputeEvidence
<1>6. /\ Modest(OpListCertifications) /\ Modest(OpPlan(op))
      /\ Modest(OpProveSufficient(x)) /\ Modest(OpDelete(x)) /\ Modest(OpCounterexample(op, x))
  BY <1>2, <1>3, PlainStatuses
  DEF OpListCertifications, OpPlan, OpProveSufficient, OpDelete, OpCounterexample
<1>. QED  BY <1>1, <1>4, <1>5, <1>6, ReplayIsModest, OpenedIsModest

(* The kinds that are not an answer are those the operations on episodes,   *)
(* lattices and plans leave.                                                *)
Kinds == {"nothing", "episode", "campaign", "lattice", "plan", "answer"}

ModestInv ==
  /\ artifact.kind \in Kinds
  /\ artifact.kind = "answer" => Modest(artifact)
  /\ label # "none" => artifact.kind = "answer" /\ label \in {"Ambiguous", "Tested", "Computed"}

(* A step leaves the artifact and its label, shows an answer in Studio, or  *)
(* makes an artifact of some kind that has no label yet.                    *)
LEMMA ArtifactSteps ==
  ASSUME BackedInv, [Next]_vars
  PROVE  \/ UNCHANGED <<artifact, label>>
         \/ ShowInStudio
         \/ label' = "none" /\ artifact'.kind \in {"nothing", "episode"}
         \/ label' = "none" /\ artifact'.kind = "campaign" /\ Campaign
         \/ label' = "none" /\ artifact'.kind = "lattice" /\ (MakeLattice \/ CertifyLattice)
         \/ label' = "none" /\ artifact'.kind = "plan" /\ MakePlan
         \/ label' = "none" /\ Modest(artifact')
<1>. DEFINE Answered == label' = "none" /\ Modest(artifact')
<1>1. CASE Drop
  BY <1>1 DEF Drop, Nothing
<1>2. CASE Query \/ KernelReplay \/ OpenCertification \/ Mirror
  <2>1. ASSUME NEW a, Modest(a), artifact' = a, label' = "none" PROVE Answered
    BY <2>1
  <2>2. CASE Query
    BY <2>1, <2>2, OperationsAreModest DEF Query, Respond
  <2>3. CASE KernelReplay
    BY <2>1, <2>3, OperationsAreModest DEF KernelReplay, Respond
  <2>4. CASE OpenCertification
    BY <2>1, <2>4, OperationsAreModest DEF OpenCertification, Respond
  <2>5. CASE Mirror
    BY <2>1, <2>5, OperationsAreModest DEF Mirror, WorkOn
  <2>. QED  BY <1>2, <2>2, <2>3, <2>4, <2>5
<1>3. CASE StartEpisode
  BY <1>3 DEF StartEpisode, WorkOn, NewEpisode
<1>4. CASE StepEpisode
  <2>1. artifact.kind = "episode" /\ Backed(artifact, everVerified)
    BY <1>4 DEF StepEpisode, BackedInv, ArtifactBacked
  <2>2. Backed(artifact', everVerified')
    BY <1>4, <2>1, EpisodeStepBacked
  <2>3. label' = "none"
    BY <1>4 DEF StepEpisode, WorkOn
  <2>. QED  BY <2>2, <2>3 DEF Backed
<1>5. CASE Campaign
  BY <1>5 DEF Campaign, WorkOn
<1>6. CASE MakeLattice
  BY <1>6, BuiltLatticeBacked DEF MakeLattice, WorkOn
<1>7. CASE CertifyLattice
  <2>1. artifact.kind = "lattice" /\ LatticeBacked(artifact, everVerified)
    BY <1>7 DEF CertifyLattice, BackedInv, ArtifactBacked
  <2>2. /\ artifact' = CertifySufficientSet(artifact, Ids(artifact.recommended), AtHand)
        /\ label' = "none"
    BY <1>7 DEF CertifyLattice, WorkOn
  <2>3. artifact'.kind = "lattice"
    BY <2>1, <2>2 DEF CertifySufficientSet, LatticeBacked, LatticeFields
  <2>. QED  BY <1>7, <2>2, <2>3
<1>8. CASE MakePlan
  <2>1. \A traces : PlanFromTraces(traces).kind = "plan"
    BY DEF PlanFromTraces
  <2>2. label' = "none" /\ \E traces : artifact' = PlanFromTraces(traces)
    BY <1>8 DEF MakePlan, WorkOn
  <2>. QED  BY <1>8, <2>1, <2>2
<1>9. CASE UNCHANGED vars \/ EditRegistry \/ AdvanceLock \/ FindRecord \/ Reconstruct
  BY <1>9 DEF vars, EditRegistry, AdvanceLock, FindRecord, Reconstruct
<1>. QED
  BY <1>1, <1>2, <1>3, <1>4, <1>5, <1>6, <1>7, <1>8, <1>9 DEF Next

LEMMA ModestInitially == Init => ModestInv
BY DEF Init, ModestInv, Kinds, Nothing

LEMMA ModestStep == BackedInv /\ ModestInv /\ [Next]_vars => ModestInv'
<1>. SUFFICES ASSUME BackedInv, ModestInv, [Next]_vars PROVE ModestInv'
  OBVIOUS
<1>1. CASE UNCHANGED <<artifact, label>>
  BY <1>1 DEF ModestInv, Modest
<1>2. CASE ShowInStudio
  <2>1. /\ artifact' = artifact /\ artifact.kind = "answer"
        /\ artifact.certified # "yes" /\ Modest(artifact)
    BY <1>2 DEF ShowInStudio, ModestInv, Modest
  <2>2. EpistemicFromResultStatus(artifact) \in {"Ambiguous", "Tested", "Computed"}
    BY <2>1 DEF EpistemicFromResultStatus, CertificationGate
  <2>3. label' \in {"Ambiguous", "Tested", "Computed"}
    BY <1>2, <2>2 DEF ShowInStudio, CertificationSurface
  <2>. QED  BY <2>1, <2>3 DEF ModestInv, Kinds, Modest
<1>3. CASE label' = "none" /\ artifact'.kind \in {"nothing", "episode", "lattice", "campaign", "plan"}
  BY <1>3 DEF ModestInv, Kinds
<1>4. CASE label' = "none" /\ Modest(artifact')
  <2>1. artifact'.kind = "answer"
    BY <1>4 DEF Modest
  <2>. QED  BY <1>4, <2>1 DEF ModestInv, Kinds
<1>. QED  BY <1>1, <1>2, <1>3, <1>4, ArtifactSteps

(* Whatever a client asks, of whichever bundle, receipt or record: a        *)
(* verified status is answered only of a receipt that parses, fits the      *)
(* manifest and the certificate of its bundle, and Studio shows Certified   *)
(* only for a record that verified.  The second part holds because nothing  *)
(* is shown as Certified: OpOpenCertification never answers with success.   *)
THEOREM LabelsAreEarned == Spec => []LabelIsEarned
<1>1. ModestInv => LabelIsEarned
  BY DEF ModestInv, LabelIsEarned, Modest
<1>2. Spec => []BackedInv
  BY BackedInitially, BackedStep, PTL DEF Spec
<1>. QED  BY <1>1, <1>2, ModestInitially, ModestStep, PTL DEF Spec

-----------------------------------------------------------------------------
(* Types.                                                                   *)

RecordIds == {c.id : c \in Candidates} \cup {r.id : r \in ForeignRecords}

(* A record at hand is none, a foreign one or one that was issued: it has   *)
(* the fields of a record and a known id, whichever it is.                  *)
HasRecord(r) == r = NoCertificate \/ (DOMAIN r = RecordFields /\ r.id \in RecordIds)

TypeInv ==
  /\ Accepted
  /\ lock \in 0..MaxLock
  /\ HasRecord(record)
  /\ ~DirectEvidenceOk(recon)
  /\ everVerified \subseteq RecordIds

LEMMA TypeInitially == Init => TypeInv
<1>. SUFFICES ASSUME Init PROVE TypeInv
  OBVIOUS
<1>1. lock \in 0..MaxLock
  BY LockAssumption DEF Init
<1>2. ~DirectEvidenceOk(recon)
  BY DEF Init, NoRecon, DirectEvidenceOk
<1>. QED  BY <1>1, <1>2 DEF Init, TypeInv, Accepted, HasRecord

(* What an action changes of the record and the environment.                *)
LEMMA IssuedIsARecord ==
  ASSUME NEW c \in Candidates PROVE HasRecord(Issued(c, cap, lock))
<1>1. DOMAIN Issued(c, cap, lock) = RecordFields
  BY DEF Issued, RecordFields
<1>2. Issued(c, cap, lock).id = c.id
  BY DEF Issued
<1>3. c.id \in RecordIds
  BY DEF RecordIds
<1>. QED  BY <1>1, <1>2, <1>3 DEF HasRecord

LEMMA UsedIsKnown ==
  ASSUME HasRecord(record), everVerified \subseteq RecordIds, NEW rec
  PROVE  Used(rec) \subseteq RecordIds
BY DEF Used, HasRecord, RecordVerified

LEMMA RecordSteps ==
  ASSUME [Next]_vars
  PROVE  /\ \/ record' = record
            \/ record' \in ForeignRecords
            \/ \E c \in Candidates : record' = Issued(c, cap, lock)
         /\ lock' = lock \/ lock' \in {NoLock} \cup (lock..MaxLock)
         /\ recon' = recon \/ recon' = ReconstructFromReceipt(RecordVerified)
         /\ everVerified' = everVerified \/ \E rec : everVerified' = Used(rec)
<1>1. CASE KernelReplay
  BY <1>1 DEF KernelReplay, Respond
<1>2. CASE StepEpisode
  BY <1>2 DEF StepEpisode, WorkOn
<1>3. CASE Query \/ OpenCertification
  BY <1>3 DEF Query, OpenCertification, Respond
<1>4. CASE StartEpisode \/ Campaign \/ Mirror
  BY <1>4 DEF StartEpisode, Campaign, Mirror, WorkOn
<1>5. CASE MakeLattice \/ CertifyLattice \/ MakePlan
  BY <1>5 DEF MakeLattice, CertifyLattice, MakePlan, WorkOn
<1>6. CASE UNCHANGED vars \/ EditRegistry \/ AdvanceLock \/ Drop \/ FindRecord \/ ShowInStudio \/ Reconstruct
  BY <1>6 DEF vars, EditRegistry, AdvanceLock, Drop, FindRecord, ShowInStudio, Reconstruct
<1>. QED  BY <1>1, <1>2, <1>3, <1>4, <1>5, <1>6 DEF Next

LEMMA TypeStep == TypeInv /\ Accepted' /\ [Next]_vars => TypeInv'
<1>. SUFFICES ASSUME TypeInv, Accepted', [Next]_vars PROVE TypeInv'
  OBVIOUS
<1>1. HasRecord(record')
  <2>1. CASE record' = record
    BY <2>1 DEF TypeInv
  <2>2. CASE record' \in ForeignRecords
    BY <2>2, ForeignAssumption DEF HasRecord, RecordIds
  <2>3. CASE \E c \in Candidates : record' = Issued(c, cap, lock)
    BY <2>3, IssuedIsARecord
  <2>. QED  BY <2>1, <2>2, <2>3, RecordSteps
<1>2. lock' \in 0..MaxLock
  BY RecordSteps, LockAssumption DEF TypeInv, NoLock
<1>3. ~DirectEvidenceOk(recon')
  BY RecordSteps DEF TypeInv, ReconstructFromReceipt, DirectEvidenceOk, NoRecon
<1>4. everVerified' \subseteq RecordIds
  BY RecordSteps, UsedIsKnown DEF TypeInv
<1>. QED  BY <1>1, <1>2, <1>3, <1>4 DEF TypeInv, HasRecord

(* Every variable keeps its type: only answers are labelled, no id is taken *)
(* for verified that no record has, and no reconstruction of a record can   *)
(* advance a direct proof step, for it names no declaration.                *)
THEOREM TrustTypes == Spec => []TypeOK
<1>1. TypeInv /\ ModestInv => TypeOK
  BY DEF TypeInv, ModestInv, TypeOK, Accepted, HasRecord, RecordIds, Kinds, Labels
<1>2. Spec => []BackedInv
  BY BackedInitially, BackedStep, PTL DEF Spec
<1>3. Spec => []ModestInv
  BY <1>2, ModestInitially, ModestStep, PTL DEF Spec
<1>4. Spec => []TypeInv
  BY EntriesStayAccepted, TypeInitially, TypeStep, PTL DEF Spec
<1>. QED  BY <1>1, <1>3, <1>4, PTL

-----------------------------------------------------------------------------
(* Plans.                                                                   *)

(* A step is certified, and advances, only with evidence of its own kind;   *)
(* an advanceable one that is not certified is unresolved.                  *)
LEMMA TraceNodeFacts ==
  ASSUME NEW t
  PROVE  LET n == TraceNode(t)
         IN /\ n.id = t.id
            /\ n.status = "kernel_certified" => Evidence(n.step, n.recon)
            /\ n.advances => /\ n.step \in Advanceable
                             /\ n.status \in {"kernel_certified", "checkable"}
                             /\ Evidence(n.step, n.recon)
            /\ n.step \in Advanceable /\ n.status # "kernel_certified"
                 => Unresolved(ClassifyTraceItem(t), t.recon)
<1>. DEFINE kind == ClassifyTraceItem(t)
            n == TraceNode(t)
<1>1. /\ n.id = t.id /\ n.step = kind /\ n.recon = t.recon /\ n.status = Status(kind, t.recon)
      /\ n.advances = Advances(kind, Status(kind, t.recon), t.recon)
  BY DEF TraceNode
<1>. HIDE DEF kind, n
<1>2. Evidence(kind, t.recon) => kind \in Advanceable
  BY DEF Evidence, Advanceable
<1>3. n.status = "kernel_certified" => Evidence(kind, t.recon)
  BY <1>1 DEF Status
<1>4. n.advances => n.status \in {"kernel_certified", "checkable"} /\ Evidence(kind, t.recon)
  BY <1>1 DEF Advances
<1>5. kind \in Advanceable /\ n.status # "kernel_certified" => Unresolved(kind, t.recon)
  BY <1>1 DEF Unresolved
<1>. QED  BY <1>1, <1>2, <1>3, <1>4, <1>5 DEF kind, n

(* The plan of two traces, spelled out.                                     *)
LEMMA PlanOfTwo ==
  ASSUME NEW a, NEW b
  PROVE  LET p == PlanFromTraces(<<a, b>>)
         IN /\ p.nodes = <<TargetNode, TraceNode(a), TraceNode(b)>>
            /\ p.edges = { [from |-> a.id, to |-> "target", kind |-> "depends_on"],
                           [from |-> b.id, to |-> "target", kind |-> "depends_on"],
                           [from |-> a.id, to |-> b.id, kind |-> "suggests"] }
            /\ Unresolved(ClassifyTraceItem(a), a.recon) => a.id \in p.unresolved
            /\ Unresolved(ClassifyTraceItem(b), b.recon) => b.id \in p.unresolved
<1>. DEFINE ts == <<a, b>>
<1>1. DOMAIN ts = {1, 2} /\ ts[1] = a /\ ts[2] = b
  OBVIOUS
<1>2. [i \in DOMAIN ts |-> TraceNode(ts[i])] = <<TraceNode(a), TraceNode(b)>>
  OBVIOUS
<1>3. <<TargetNode>> \o <<TraceNode(a), TraceNode(b)>> = <<TargetNode, TraceNode(a), TraceNode(b)>>
  BY AppendTwo
<1>. HIDE DEF ts
<1>4. {[from |-> ts[i].id, to |-> "target", kind |-> "depends_on"] : i \in DOMAIN ts}
        = { [from |-> a.id, to |-> "target", kind |-> "depends_on"],
            [from |-> b.id, to |-> "target", kind |-> "depends_on"] }
  BY <1>1
<1>5. DOMAIN ts \ {1} = {2}
  BY <1>1
<1>6. {[from |-> ts[i - 1].id, to |-> ts[i].id, kind |-> "suggests"] : i \in DOMAIN ts \ {1}}
        = {[from |-> a.id, to |-> b.id, kind |-> "suggests"]}
  <2>1. \A i \in DOMAIN ts \ {1} : ts[i - 1] = a /\ ts[i] = b
    BY <1>1, <1>5
  <2>2. 2 \in DOMAIN ts \ {1}
    BY <1>5
  <2>. QED  BY <2>1, <2>2
<1>7. PlanFromTraces(ts).nodes = <<TargetNode, TraceNode(a), TraceNode(b)>>
  BY <1>2, <1>3 DEF PlanFromTraces
<1>8. PlanFromTraces(ts).edges
        = { [from |-> a.id, to |-> "target", kind |-> "depends_on"],
            [from |-> b.id, to |-> "target", kind |-> "depends_on"],
            [from |-> a.id, to |-> b.id, kind |-> "suggests"] }
  BY <1>4, <1>6 DEF PlanFromTraces
<1>9. /\ Unresolved(ClassifyTraceItem(a), a.recon) => a.id \in PlanFromTraces(ts).unresolved
      /\ Unresolved(ClassifyTraceItem(b), b.recon) => b.id \in PlanFromTraces(ts).unresolved
  BY <1>1 DEF PlanFromTraces
<1>. QED  BY <1>7, <1>8, <1>9 DEF ts

(* The target waits for both traces and nothing waits for the target, so    *)
(* two rounds of taking away what has no open dependency leave nothing.     *)
LEMMA PlanIsAcyclic ==
  ASSUME NEW p, NEW x, NEW y, x # "target", y # "target",
         NodeIds(p) = {"target", x, y},
         Dependencies(p, "target") = {x, y}, Dependencies(p, x) = {}, Dependencies(p, y) = {}
  PROVE  Acyclic(p)
<1>. DEFINE ids == NodeIds(p)
            k   == Cardinality(ids)
            Is(f) == f = [n \in 0..k |-> IF n = 0 THEN ids
                            ELSE {id \in f[n - 1] : Dependencies(p, id) \cap f[n - 1] # {}}]
            peel == CHOOSE f : Is(f)
            left == [n \in 0..k |-> IF n = 0 THEN ids ELSE IF n = 1 THEN {"target"} ELSE {}]
<1>1. k \in 2..3
  <2>1. CASE x = y
    <3>1. ids = {"target"} \cup {x}
      BY <2>1
    <3>2. IsFiniteSet({"target"}) /\ Cardinality({"target"}) = 1
      BY FS_Singleton
    <3>3. Cardinality({"target"} \cup {x}) = 2
      BY <3>2, FS_AddElement
    <3>. QED  BY <3>1, <3>3
  <2>2. CASE x # y
    <3>1. ids = ({"target"} \cup {x}) \cup {y}
      BY <2>2
    <3>2. IsFiniteSet({"target"}) /\ Cardinality({"target"}) = 1
      BY FS_Singleton
    <3>3. Cardinality({"target"} \cup {x}) = 2 /\ IsFiniteSet({"target"} \cup {x})
      BY <3>2, FS_AddElement
    <3>4. Cardinality(({"target"} \cup {x}) \cup {y}) = 3
      BY <2>2, <3>3, FS_AddElement
    <3>. QED  BY <3>1, <3>4
  <2>. QED  BY <2>1, <2>2
<1>2. Acyclic(p) <=> peel[k] = {}
  BY DEF Acyclic
<1>3. /\ {id \in ids : Dependencies(p, id) \cap ids # {}} = {"target"}
      /\ {id \in {"target"} : Dependencies(p, id) \cap {"target"} # {}} = {}
      /\ {id \in {} : Dependencies(p, id) \cap {} # {}} = {}
  OBVIOUS
<1>. DEFINE Round(f, n) == IF n = 0 THEN ids
                           ELSE {id \in f[n - 1] : Dependencies(p, id) \cap f[n - 1] # {}}
<1>. HIDE DEF k, ids
<1>4. ASSUME NEW n \in 0..k PROVE left[n] = Round(left, n)
  <2>1. CASE n = 0
    BY <2>1
  <2>2. CASE n = 1
    <3>1. left[1] = {"target"} /\ left[0] = ids
      BY <1>1
    <3>. HIDE DEF left
    <3>. QED  BY <2>2, <3>1, <1>3
  <2>3. CASE n = 2
    <3>1. left[2] = {} /\ left[1] = {"target"}
      BY <1>1
    <3>. HIDE DEF left
    <3>. QED  BY <2>3, <3>1, <1>3
  <2>4. CASE n = 3
    <3>1. left[3] = {} /\ left[2] = {}
      BY <1>1, <2>4
    <3>. HIDE DEF left
    <3>. QED  BY <2>4, <3>1, <1>3
  <2>. QED  BY <1>1, <2>1, <2>2, <2>3, <2>4
<1>5. Is(left)
  <2>1. left = [n \in 0..k |-> left[n]]
    OBVIOUS
  <2>. HIDE DEF left
  <2>. QED  BY <1>4, <2>1
<1>6. Is(peel)
  <2>. HIDE DEF left, Is
  <2>. QED  BY <1>5
<1>. HIDE DEF peel
<1>7. \A n \in 0..k : peel[n] = Round(peel, n)
  BY <1>6
<1>8. peel[0] = ids /\ peel[1] = Round(peel, 1) /\ peel[2] = Round(peel, 2)
  <2>1. 0 \in 0..k /\ 1 \in 0..k /\ 2 \in 0..k
    BY <1>1
  <2>2. Round(peel, 0) = ids
    OBVIOUS
  <2>. HIDE DEF Round
  <2>. QED  BY <1>7, <2>1, <2>2
<1>9. peel[1] = {"target"}
  BY <1>3, <1>8
<1>10. peel[2] = {}
  BY <1>3, <1>8, <1>9
<1>11. k = 3 => peel[3] = {}
  <2>. SUFFICES ASSUME k = 3 PROVE peel[3] = {}
    OBVIOUS
  <2>1. peel[3] = Round(peel, 3)
    BY <1>7
  <2>2. 3 - 1 = 2 /\ 3 # 0
    OBVIOUS
  <2>. QED  BY <2>1, <2>2, <1>3, <1>10
<1>. QED  BY <1>1, <1>2, <1>10, <1>11

(* What the checks of a plan need of its nodes, for the target and for each *)
(* trace alike.                                                             *)
Honest(n) ==
  /\ n.status = "kernel_certified" => Evidence(n.step, n.recon)
  /\ n.advances => /\ n.step \in Advanceable
                   /\ n.status \in {"kernel_certified", "checkable"}
                   /\ Evidence(n.step, n.recon)
  /\ n.id = "target" => n.status # "kernel_certified"

LEMMA TargetIsHonest == Honest(TargetNode) /\ TargetNode.id = "target" /\ TargetNode.step \notin Advanceable
BY DEF Honest, TargetNode, Advanceable

LEMMA TraceIsHonest == ASSUME NEW t, t.id # "target" PROVE Honest(TraceNode(t))
BY TraceNodeFacts DEF Honest

(* Of two nodes with one id the later one is looked at: it is a node.       *)
LEMMA NodeIsFound ==
  ASSUME NEW p, NEW n1, NEW n2, NEW n3, p.nodes = <<n1, n2, n3>>, NEW id \in NodeIds(p)
  PROVE  NodeWith(p, id) \in {n1, n2, n3} /\ NodeWith(p, id).id = id
<1>. DEFINE nodes == p.nodes
            Latest(i) == nodes[i].id = id /\ \A j \in DOMAIN nodes : j > i => nodes[j].id # id
<1>1. DOMAIN nodes = {1, 2, 3} /\ nodes[1] = n1 /\ nodes[2] = n2 /\ nodes[3] = n3
  OBVIOUS
<1>2. \E i \in DOMAIN nodes : nodes[i].id = id
  BY DEF NodeIds
<1>. HIDE DEF nodes
<1>3. \E i \in DOMAIN nodes : Latest(i)
  <2>1. CASE nodes[3].id = id
    BY <1>1, <2>1
  <2>2. CASE nodes[3].id # id /\ nodes[2].id = id
    BY <1>1, <2>2
  <2>3. CASE nodes[3].id # id /\ nodes[2].id # id
    <3>1. nodes[1].id = id
      BY <1>1, <1>2, <2>3
    <3>. QED  BY <1>1, <2>3, <3>1
  <2>. QED  BY <2>1, <2>2, <2>3
<1>. DEFINE at == CHOOSE i \in DOMAIN nodes : Latest(i)
<1>4. at \in DOMAIN nodes /\ Latest(at)
  BY <1>3
<1>5. NodeWith(p, id) = nodes[at]
  BY DEF NodeWith, nodes
<1>. HIDE DEF at
<1>. QED  BY <1>1, <1>4, <1>5

(* The plan of two traces passes its own checks and hides no open step.     *)
LEMMA PlanIsSound ==
  ASSUME NEW a, NEW b, a.id # "target", b.id # "target"
  PROVE  LET p == PlanFromTraces(<<a, b>>)
         IN /\ ~PlanRaises(p)
            /\ \A i \in DOMAIN p.nodes :
                 /\ p.nodes[i].status = "kernel_certified" => Evidence(p.nodes[i].step, p.nodes[i].recon)
                 /\ p.nodes[i].id # "target" /\ p.nodes[i].step \in Advanceable
                      /\ p.nodes[i].status # "kernel_certified" => p.nodes[i].id \in p.unresolved
<1>. DEFINE p == PlanFromTraces(<<a, b>>)
            n1 == TargetNode
            n2 == TraceNode(a)
            n3 == TraceNode(b)
            N  == {n1, n2, n3}
<1>1. /\ p.nodes = <<n1, n2, n3>>
      /\ p.edges = { [from |-> a.id, to |-> "target", kind |-> "depends_on"],
                     [from |-> b.id, to |-> "target", kind |-> "depends_on"],
                     [from |-> a.id, to |-> b.id, kind |-> "suggests"] }
      /\ Unresolved(ClassifyTraceItem(a), a.recon) => a.id \in p.unresolved
      /\ Unresolved(ClassifyTraceItem(b), b.recon) => b.id \in p.unresolved
  BY PlanOfTwo
<1>2. \A n \in N : Honest(n)
  BY TargetIsHonest, TraceIsHonest
<1>3. n1.id = "target" /\ n2.id = a.id /\ n3.id = b.id
  BY TargetIsHonest, TraceNodeFacts
<1>4. \A n \in N : n.id # "target" /\ n.step \in Advanceable /\ n.status # "kernel_certified"
                     => n.id \in p.unresolved
  BY <1>1, <1>3, TraceNodeFacts
<1>. HIDE DEF p, n1, n2, n3
<1>5. DOMAIN p.nodes = {1, 2, 3} /\ \A i \in DOMAIN p.nodes : p.nodes[i] \in N
  BY <1>1
<1>6. NodeIds(p) = {"target", a.id, b.id}
  <2>1. p.nodes[1] = n1 /\ p.nodes[2] = n2 /\ p.nodes[3] = n3
    BY <1>1
  <2>. QED  BY <1>3, <1>5, <2>1 DEF NodeIds
<1>7. \A id \in NodeIds(p) : NodeWith(p, id) \in N
  BY <1>1, NodeIsFound
<1>8. Acyclic(p)
  <2>. DEFINE Into(id) == {f \in p.edges : f.kind # "suggests" /\ f.to = id}
              e1 == [from |-> a.id, to |-> "target", kind |-> "depends_on"]
              e2 == [from |-> b.id, to |-> "target", kind |-> "depends_on"]
  <2>2. \A id : Dependencies(p, id) = {e.from : e \in Into(id)}
    BY DEF Dependencies
  <2>3. Into("target") = {e1, e2} /\ \A id : id # "target" => Into(id) = {}
    BY <1>1
  <2>4. e1.from = a.id /\ e2.from = b.id
    OBVIOUS
  <2>. HIDE DEF Into, e1, e2
  <2>1. \A id : Dependencies(p, id) = IF id = "target" THEN {a.id, b.id} ELSE {}
    BY <2>2, <2>3, <2>4
  <2>. QED  BY <1>6, <2>1, PlanIsAcyclic
<1>9. ValidPlan(p)
  <2>1. HintsNeverAdvance(p)
    BY <1>2, <1>5 DEF HintsNeverAdvance, Honest
  <2>2. \A e \in p.edges : {e.from, e.to} \subseteq NodeIds(p)
    BY <1>1, <1>6
  <2>3. \A id \in NodeIds(p) :
          NodeWith(p, id).advances =>
            /\ NodeWith(p, id).status \in {"kernel_certified", "checkable"}
            /\ Evidence(NodeWith(p, id).step, NodeWith(p, id).recon)
    BY <1>2, <1>7 DEF Honest
  <2>. QED  BY <1>8, <2>1, <2>2, <2>3 DEF ValidPlan
<1>10. SoundPlan(p)
  BY <1>2, <1>7 DEF SoundPlan, Honest
<1>11. \A i \in DOMAIN p.nodes :
         p.nodes[i].status = "kernel_certified" => Evidence(p.nodes[i].step, p.nodes[i].recon)
  BY <1>2, <1>5 DEF Honest
<1>12. \A i \in DOMAIN p.nodes :
         p.nodes[i].id # "target" /\ p.nodes[i].step \in Advanceable
           /\ p.nodes[i].status # "kernel_certified" => p.nodes[i].id \in p.unresolved
  BY <1>4, <1>5
<1>13. ~PlanRaises(p)
  BY <1>9, <1>10 DEF PlanRaises
<1>. QED  BY <1>11, <1>12, <1>13 DEF p

(* An artifact is a plan only as plan_from_traces made it.                  *)
LEMMA PlanStep == BackedInv /\ PlanIsHonest /\ [Next]_vars => PlanIsHonest'
<1>. SUFFICES ASSUME BackedInv, PlanIsHonest, [Next]_vars PROVE PlanIsHonest'
  OBVIOUS
<1>1. CASE artifact' = artifact
  BY <1>1 DEF PlanIsHonest
<1>2. CASE MakePlan
  <2>1. PICK ids \in TraceIdPairs, w1 \in RawItems, w2 \in RawItems,
             r1 \in CallerRecons \cup {recon}, r2 \in CallerRecons \cup {recon} :
          WorkOn(PlanFromTraces(<<[id |-> ids[1], raw |-> w1, recon |-> r1],
                                  [id |-> ids[2], raw |-> w2, recon |-> r2]>>), NoRecord)
    BY <1>2 DEF MakePlan
  <2>. DEFINE a == [id |-> ids[1], raw |-> w1, recon |-> r1]
              b == [id |-> ids[2], raw |-> w2, recon |-> r2]
  <2>2. artifact' = PlanFromTraces(<<a, b>>)
    BY <2>1 DEF WorkOn
  <2>3. a.id # "target" /\ b.id # "target"
    BY TracesAssumption
  <2>. HIDE DEF a, b
  <2>. QED  BY <2>2, <2>3, PlanIsSound DEF PlanIsHonest
<1>3. CASE artifact'.kind # "plan"
  BY <1>3 DEF PlanIsHonest
<1>4. artifact' = artifact \/ MakePlan \/ artifact'.kind # "plan"
  BY ArtifactSteps DEF ShowInStudio, Modest
<1>. QED  BY <1>1, <1>2, <1>3, <1>4

(* plan_from_traces never trips over its own checks (validate_plan_invariants, *)
(* check_plan_soundness), certifies nothing without evidence and never the     *)
(* target, and lists every step that could have advanced and did not; whatever *)
(* the two traces say, and also when they have one id.                         *)
THEOREM PlansAreHonest == Spec => []PlanIsHonest
<1>1. Init => PlanIsHonest
  BY DEF Init, PlanIsHonest, Nothing
<1>2. Spec => []BackedInv
  BY BackedInitially, BackedStep, PTL DEF Spec
<1>. QED  BY <1>1, <1>2, PlanStep, PTL DEF Spec

-----------------------------------------------------------------------------
(* Campaigns.                                                               *)

FalseAt(pred) == {w \in DOMAIN pred : pred[w] = "false"}

LEMMA SearchFinds ==
  ASSUME NEW pred, pred \in Seq(Values)
  PROVE  /\ FindCounterexample(pred) # NoWitness => CheckFiniteCounterexample(pred, FindCounterexample(pred))
         /\ FindCounterexample(pred) = NoWitness /\ Len(pred) <= MaxAssignments => FalseAt(pred) = {}
<1>. DEFINE tried == {w \in DOMAIN pred : w <= MaxAssignments}
            hits == {w \in tried : CheckFiniteCounterexample(pred, w)}
            first == CHOOSE w \in hits : \A v \in hits : w <= v
<1>1. DOMAIN pred = 1..Len(pred) /\ Len(pred) \in Nat
  OBVIOUS
<1>2. hits \subseteq Nat /\ 0 \notin hits
  BY <1>1
<1>3. FindCounterexample(pred) = IF hits = {} THEN NoWitness ELSE first
  BY DEF FindCounterexample
<1>4. \A w \in hits : CheckFiniteCounterexample(pred, w)
  OBVIOUS
<1>5. ASSUME Len(pred) <= MaxAssignments, NEW w \in FalseAt(pred) PROVE w \in hits
  BY <1>1, <1>5, SearchAssumption DEF FalseAt, CheckFiniteCounterexample
<1>. HIDE DEF hits
<1>6. hits # {} => first \in hits
  BY <1>2, LeastExists
<1>. HIDE DEF first
<1>7. FindCounterexample(pred) # NoWitness => CheckFiniteCounterexample(pred, FindCounterexample(pred))
  BY <1>3, <1>4, <1>6
<1>8. FindCounterexample(pred) = NoWitness /\ Len(pred) <= MaxAssignments => FalseAt(pred) = {}
  BY <1>2, <1>3, <1>5, <1>6 DEF NoWitness
<1>. QED  BY <1>7, <1>8

Outcomes == {"candidate_statement", "falsified", "bounded_verified", "formally_proved", "open"}

(* An episode of a campaign for pred: it has left its first state, and an   *)
(* accepted preview has shown a counterexample.                             *)
Campaigner(ep, pred) ==
  /\ Episode(ep) /\ ep.pred = pred
  /\ ep.state \in Outcomes
  /\ ep.preview = "mirror_accepted" => FalseAt(pred) # {}

LEMMA StartsCampaigner ==
  ASSUME NEW pred PROVE Campaigner(ToCandidate(NewEpisode(pred)), pred)
BY DEF Campaigner, Episode, ToCandidate, NewEpisode, Outcomes

LEMMA PreviewCampaigner ==
  ASSUME NEW pred, NEW ep, NEW w, Campaigner(ep, pred)
  PROVE  Campaigner(PreviewRefutation(ep, w), pred)
<1>1. CASE CheckFiniteCounterexample(pred, w)
  BY <1>1 DEF Campaigner, Episode, PreviewRefutation, Outcomes, FalseAt, CheckFiniteCounterexample
<1>2. CASE ~CheckFiniteCounterexample(pred, w)
  BY <1>2 DEF Campaigner, Episode, PreviewRefutation
<1>. QED  BY <1>1, <1>2

LEMMA FromRecordCampaigner ==
  ASSUME NEW pred, NEW ep, NEW rec, Campaigner(ep, pred)
  PROVE  Campaigner(CertifyFromRecord(ep, rec), pred)
BY DEF Campaigner, Episode, CertifyFromRecord, Outcomes

LEMMA RefutationCampaigner ==
  ASSUME NEW pred, NEW ep, NEW w, NEW rec, Campaigner(ep, pred)
  PROVE  Campaigner(CertifyRefutation(ep, w, rec), pred)
<1>. DEFINE seen == PreviewRefutation(ep, w)
            bare == [seen EXCEPT !.refutation = "none"]
<1>1. Campaigner(seen, pred)
  BY PreviewCampaigner
<1>2. CertifyRefutation(ep, w, rec) \in {seen, bare, CertifyFromRecord(seen, rec)}
  BY DEF CertifyRefutation
<1>. HIDE DEF seen
<1>3. Campaigner(bare, pred)
  BY <1>1 DEF Campaigner, Episode
<1>. HIDE DEF bare
<1>. QED  BY <1>1, <1>2, <1>3, FromRecordCampaigner

LEMMA MarksCampaigner ==
  ASSUME NEW pred, NEW ep, Campaigner(ep, pred), NEW bound, NEW t, NEW rec
  PROVE  /\ Campaigner(MarkBoundedVerified(ep, bound), pred)
         /\ Campaigner(MarkOpenProblem(ep), pred)
         /\ Campaigner(MarkFormallyProved(ep, t, rec), pred)
<1>1. Campaigner(MarkBoundedVerified(ep, bound), pred)
  BY DEF Campaigner, Episode, MarkBoundedVerified, Outcomes
<1>2. Campaigner(MarkOpenProblem(ep), pred)
  BY DEF Campaigner, Episode, MarkOpenProblem, Outcomes
<1>3. Campaigner(MarkFormallyProved(ep, t, rec), pred)
  BY DEF Campaigner, Episode, MarkFormallyProved, Outcomes
<1>. QED  BY <1>1, <1>2, <1>3

LEMMA ProveOrOpenCampaigner ==
  ASSUME NEW pred, NEW ep, NEW t, NEW rec, Campaigner(ep, pred)
  PROVE  Campaigner(ProveOrOpen(ep, t, rec), pred)
BY MarksCampaigner DEF ProveOrOpen

LEMMA AttemptedCampaigner ==
  ASSUME NEW cand, NEW rec PROVE Campaigner(Attempted(cand, rec), cand.pred)
BY StartsCampaigner, RefutationCampaigner DEF Attempted

LEMMA RunCampaigner ==
  ASSUME NEW cand, NEW rec PROVE Campaigner(RunCandidate(cand, rec), cand.pred)
<1>. DEFINE ep == Attempted(cand, rec)
<1>1. Campaigner(ep, cand.pred)
  BY AttemptedCampaigner
<1>2. RunCandidate(cand, rec) \in
        {ep, ProveOrOpen(ep, cand.proof, rec), MarkOpenProblem(MarkBoundedVerified(ep, cand.bound)),
         MarkBoundedVerified(ep, cand.bound)}
  BY DEF RunCandidate
<1>. HIDE DEF ep
<1>. QED  BY <1>1, <1>2, ProveOrOpenCampaigner, MarksCampaigner

LEMMA BatchCampaigner ==
  ASSUME NEW cand, NEW rec PROVE Campaigner(RunBatchCandidate(cand, rec), cand.pred)
<1>. DEFINE ep == ToCandidate(NewEpisode(cand.pred))
            w  == FindCounterexample(cand.pred)
<1>1. Campaigner(ep, cand.pred)
  BY StartsCampaigner
<1>2. RunBatchCandidate(cand, rec) \in
        {ProveOrOpen(ep, cand.proof, rec), MarkOpenProblem(ep),
         MarkOpenProblem(MarkBoundedVerified(ep, cand.bound)),
         MarkBoundedVerified(ep, Len(cand.pred)), CertifyRefutation(ep, w, rec)}
  BY DEF RunBatchCandidate
<1>. HIDE DEF ep, w
<1>3. Campaigner(ProveOrOpen(ep, cand.proof, rec), cand.pred)
  BY <1>1, ProveOrOpenCampaigner
<1>4. Campaigner(CertifyRefutation(ep, w, rec), cand.pred)
  BY <1>1, RefutationCampaigner
<1>5. /\ Campaigner(MarkOpenProblem(ep), cand.pred)
      /\ Campaigner(MarkBoundedVerified(ep, Len(cand.pred)), cand.pred)
      /\ Campaigner(MarkOpenProblem(MarkBoundedVerified(ep, cand.bound)), cand.pred)
  BY <1>1, MarksCampaigner
<1>. QED  BY <1>2, <1>3, <1>4, <1>5

(* A request of the API is bounded-verified only if its search found nothing. *)
LEMMA RequestSearches ==
  ASSUME NEW pred, NEW bound, RunRequest(pred, bound).state = "bounded_verified"
  PROVE  FindCounterexample(pred) = NoWitness
<1>. DEFINE cand == [pred |-> pred, request |-> TRUE, witness |-> NoWitness, outcome |-> "none",
                     bound |-> bound]
            ep == Attempted(cand, NoRecord)
            start == ToCandidate(NewEpisode(pred))
            w == FindCounterexample(pred)
<1>. SUFFICES ASSUME w # NoWitness PROVE FALSE
  OBVIOUS
<1>1. /\ cand.pred = pred /\ cand.request = TRUE /\ cand.witness = NoWitness
      /\ cand.outcome = "none"
  OBVIOUS
<1>2. RunCandidate(cand, NoRecord).state = "bounded_verified"
  BY DEF RunRequest
<1>. HIDE DEF cand
<1>3. Witness(cand) = w
  BY <1>1 DEF Witness
<1>4. ep = CertifyRefutation(start, w, NoRecord)
  BY <1>1, <1>3 DEF Attempted
<1>5. start.state = "candidate_statement" /\ Episode(start)
  BY DEF ToCandidate, NewEpisode, Episode
<1>. HIDE DEF start, w
<1>6. LET seen == PreviewRefutation(start, w)
      IN seen.state = "candidate_statement" /\ Episode(seen)
  BY <1>5 DEF PreviewRefutation, Episode
<1>7. ep.state = "candidate_statement"
  <2>. DEFINE seen == PreviewRefutation(start, w)
  <2>1. ep \in {seen, [seen EXCEPT !.refutation = "none"]}
    BY <1>4 DEF CertifyRefutation
  <2>2. seen.state = "candidate_statement" /\ Episode(seen)
    BY <1>6
  <2>. HIDE DEF seen
  <2>. QED  BY <2>1, <2>2 DEF Episode
<1>8. RunCandidate(cand, NoRecord) = ep
  BY <1>1, <1>3, <1>7 DEF RunCandidate
<1>. QED  BY <1>2, <1>7, <1>8

(* Among three episodes, each index of a set counts one.                    *)
One(i, S) == IF i \in S THEN 1 ELSE 0

LEMMA CountOfThree ==
  ASSUME NEW S, S \subseteq {1, 2, 3}
  PROVE  Cardinality(S) = One(1, S) + One(2, S) + One(3, S)
<1>. DEFINE A == IF 1 \in S THEN {} \cup {1} ELSE {}
            B == IF 2 \in S THEN A \cup {2} ELSE A
            C == IF 3 \in S THEN B \cup {3} ELSE B
<1>1. IsFiniteSet({}) /\ Cardinality({}) = 0
  BY FS_EmptySet
<1>2. IsFiniteSet(A) /\ Cardinality(A) = One(1, S) /\ 2 \notin A /\ 3 \notin A
  BY <1>1, FS_AddElement DEF One
<1>. HIDE DEF A
<1>3. IsFiniteSet(B) /\ Cardinality(B) = One(1, S) + One(2, S) /\ 3 \notin B
  BY <1>2, FS_AddElement DEF One
<1>4. S = C
  BY DEF A
<1>. HIDE DEF B
<1>5. Cardinality(C) = One(1, S) + One(2, S) + One(3, S)
  BY <1>3, FS_AddElement DEF One
<1>. QED  BY <1>4, <1>5

(* Every episode is counted under its state, and under no other.            *)
LEMMA CountsAddUp ==
  ASSUME NEW eps, Len(eps) = 3, DOMAIN eps = {1, 2, 3}, \A i \in {1, 2, 3} : eps[i].state \in Outcomes
  PROVE  LET acc == PrecisionAccounting(eps)
         IN acc.falsified + acc.boundedVerified + acc.formallyProved + acc.openProblems
              + acc.candidateStatements = acc.proposed
<1>. DEFINE At(i, state) == IF eps[i].state = state THEN 1 ELSE 0
<1>1. ASSUME NEW state
      PROVE  CountIn(eps, state) = At(1, state) + At(2, state) + At(3, state)
  <2>. DEFINE S == {i \in DOMAIN eps : eps[i].state = state}
  <2>1. S \subseteq {1, 2, 3} /\ \A i \in {1, 2, 3} : One(i, S) = At(i, state)
    BY DEF One
  <2>2. CountIn(eps, state) = Cardinality(S)
    BY DEF CountIn
  <2>. HIDE DEF S
  <2>3. Cardinality(S) = One(1, S) + One(2, S) + One(3, S)
    BY <2>1, CountOfThree
  <2>. QED  BY <2>1, <2>2, <2>3
<1>2. ASSUME NEW i \in {1, 2, 3}
      PROVE  /\ At(i, "falsified") + At(i, "bounded_verified") + At(i, "formally_proved")
                  + At(i, "open") + At(i, "candidate_statement") = 1
             /\ At(i, "falsified") \in Nat /\ At(i, "bounded_verified") \in Nat
             /\ At(i, "formally_proved") \in Nat /\ At(i, "open") \in Nat
             /\ At(i, "candidate_statement") \in Nat
  BY DEF Outcomes
<1>. HIDE DEF At
<1>3. CountIn(eps, "falsified") + CountIn(eps, "bounded_verified") + CountIn(eps, "formally_proved")
        + CountIn(eps, "open") + CountIn(eps, "candidate_statement") = 3
  BY <1>1, <1>2
<1>. QED  BY <1>3 DEF PrecisionAccounting

LEMMA CampaignSums ==
  ASSUME NEW cand, NEW rec, cand.pred \in Seq(Values)
  PROVE  LET eps == <<RunCandidate(cand, rec), RunBatchCandidate(cand, rec),
                      RunRequest(cand.pred, cand.bound)>>
             acc == PrecisionAccounting(eps)
         IN /\ acc.falsified + acc.boundedVerified + acc.formallyProved + acc.openProblems
                 + acc.candidateStatements = acc.proposed
            /\ eps[3].state = "bounded_verified" /\ Len(cand.pred) <= MaxAssignments
                 => FalseAt(cand.pred) = {}
            /\ acc.mirrorAccepted > 0 => FalseAt(cand.pred) # {}
<1>. DEFINE pred == cand.pred
            e1 == RunCandidate(cand, rec)
            e2 == RunBatchCandidate(cand, rec)
            e3 == RunRequest(pred, cand.bound)
            eps == <<e1, e2, e3>>
            acc == PrecisionAccounting(eps)
<1>1. Campaigner(e1, pred) /\ Campaigner(e2, pred)
  BY RunCampaigner, BatchCampaigner
<1>2. Campaigner(e3, pred)
  <2>. DEFINE c == [pred |-> pred, request |-> TRUE, witness |-> NoWitness, outcome |-> "none",
                    bound |-> cand.bound]
  <2>1. Campaigner(RunCandidate(c, NoRecord), c.pred)
    BY RunCampaigner
  <2>. QED  BY <2>1 DEF RunRequest
<1>3. e3.state = "bounded_verified" => FindCounterexample(pred) = NoWitness
  BY RequestSearches
<1>4. FindCounterexample(pred) = NoWitness /\ Len(pred) <= MaxAssignments => FalseAt(pred) = {}
  BY SearchFinds
<1>. HIDE DEF pred, e1, e2, e3
<1>5. Len(eps) = 3 /\ DOMAIN eps = {1, 2, 3} /\ eps[1] = e1 /\ eps[2] = e2 /\ eps[3] = e3
  OBVIOUS
<1>. HIDE DEF eps
<1>6. \A i \in {1, 2, 3} : Campaigner(eps[i], pred)
  BY <1>1, <1>2, <1>5
<1>7. acc.falsified + acc.boundedVerified + acc.formallyProved + acc.openProblems
        + acc.candidateStatements = acc.proposed
  <2>1. \A i \in {1, 2, 3} : eps[i].state \in Outcomes
    BY <1>6 DEF Campaigner
  <2>. QED  BY <1>5, <2>1, CountsAddUp
<1>8. acc.mirrorAccepted > 0 => FalseAt(pred) # {}
  <2>. DEFINE M == {i \in DOMAIN eps : eps[i].preview = "mirror_accepted"}
  <2>1. acc.mirrorAccepted = Cardinality(M)
    BY DEF PrecisionAccounting
  <2>2. M # {} => FalseAt(pred) # {}
    BY <1>5, <1>6 DEF Campaigner
  <2>. HIDE DEF acc, M
  <2>3. M = {} => Cardinality(M) = 0
    BY FS_EmptySet
  <2>. QED  BY <2>1, <2>2, <2>3
<1>9. eps[3].state = "bounded_verified" /\ Len(pred) <= MaxAssignments => FalseAt(pred) = {}
  BY <1>3, <1>4, <1>5
<1>. HIDE DEF acc
<1>10. /\ acc.falsified + acc.boundedVerified + acc.formallyProved + acc.openProblems
            + acc.candidateStatements = acc.proposed
       /\ eps[3].state = "bounded_verified" /\ Len(pred) <= MaxAssignments => FalseAt(pred) = {}
       /\ acc.mirrorAccepted > 0 => FalseAt(pred) # {}
  BY <1>7, <1>8, <1>9
<1>. QED  BY <1>10 DEF acc, eps, pred, e1, e2, e3

(* An artifact is a campaign only as the three runs of its candidate left   *)
(* it.                                                                      *)
LEMMA CampaignStep == BackedInv /\ CampaignIsHonest /\ [Next]_vars => CampaignIsHonest'
<1>. SUFFICES ASSUME BackedInv, CampaignIsHonest, [Next]_vars PROVE CampaignIsHonest'
  OBVIOUS
<1>1. CASE artifact' = artifact
  BY <1>1 DEF CampaignIsHonest
<1>2. CASE Campaign
  <2>1. PICK cand \in CampaignCandidates, rec \in MaybeAtHand :
          LET eps == <<RunCandidate(cand, rec), RunBatchCandidate(cand, rec),
                       RunRequest(cand.pred, cand.bound)>>
          IN WorkOn([kind |-> "campaign", candidate |-> cand, episodes |-> eps,
                     accounting |-> PrecisionAccounting(eps)], rec)
    BY <1>2 DEF Campaign
  <2>. DEFINE eps == <<RunCandidate(cand, rec), RunBatchCandidate(cand, rec),
                       RunRequest(cand.pred, cand.bound)>>
              acc == PrecisionAccounting(eps)
  <2>2. artifact' = [kind |-> "campaign", candidate |-> cand, episodes |-> eps, accounting |-> acc]
    BY <2>1 DEF WorkOn
  <2>3. /\ acc.falsified + acc.boundedVerified + acc.formallyProved + acc.openProblems
             + acc.candidateStatements = acc.proposed
        /\ eps[3].state = "bounded_verified" /\ Len(cand.pred) <= MaxAssignments
             => FalseAt(cand.pred) = {}
        /\ acc.mirrorAccepted > 0 => FalseAt(cand.pred) # {}
    BY CampaignSums, PredicatesAssumption
  <2>. HIDE DEF eps, acc
  <2>4. artifact'.candidate = cand /\ artifact'.episodes = eps /\ artifact'.accounting = acc
    BY <2>2
  <2>. QED  BY <2>3, <2>4 DEF CampaignIsHonest, FalseAt
<1>3. CASE artifact'.kind # "campaign"
  BY <1>3 DEF CampaignIsHonest
<1>4. artifact' = artifact \/ Campaign \/ artifact'.kind # "campaign"
  BY ArtifactSteps DEF ShowInStudio, Modest
<1>. QED  BY <1>1, <1>2, <1>3, <1>4

(* The accounting of a campaign counts every episode once; an episode that  *)
(* a request left bounded-verified has no counterexample at all, if the     *)
(* search of hypothesis_util.py could try every assignment; and a preview   *)
(* that the mirror accepted has one.  For any predicates and search limit.  *)
THEOREM CampaignsAreHonest == Spec => []CampaignIsHonest
<1>1. Init => CampaignIsHonest
  BY DEF Init, CampaignIsHonest, Nothing
<1>2. Spec => []BackedInv
  BY BackedInitially, BackedStep, PTL DEF Spec
<1>. QED  BY <1>1, <1>2, CampaignStep, PTL DEF Spec

-----------------------------------------------------------------------------
(* Lattices.  Both loops of the hypothesis engine are recursive functions   *)
(* of the number of rounds; what holds before the first and survives each   *)
(* holds after the last.                                                    *)

(* What the loop over the conditions preserves: the working set stays       *)
(* sufficient, its ids and the redundant ones make up all and share none,   *)
(* and an id that was tried and stayed cannot be missed.                    *)
States(all) == [working : SUBSET all, redundant : SUBSET Ids(all), unresolved : SUBSET Ids(all)]

Reduced(req, all, st, tried) ==
  /\ Sufficient(req, st.working)
  /\ Ids(st.working) \cup st.redundant = Ids(all)
  /\ Ids(st.working) \cap st.redundant = {}
  /\ \A id \in tried : id \in Ids(st.working) => ~Sufficient(req, Without(st.working, id))

LEMMA WithoutFacts ==
  ASSUME NEW conds, NEW id
  PROVE  Without(conds, id) \subseteq conds /\ Ids(Without(conds, id)) = Ids(conds) \ {id}
BY DEF Without, Ids

(* Fewer conditions never suffice where more do not.                        *)
LEMMA SufficiencyGrows ==
  ASSUME NEW req, NEW few, NEW many, few \subseteq many, Sufficient(req, few)
  PROVE  Sufficient(req, many)
BY DEF Sufficient, DenominatorsCovered, Exprs

LEMMA TryDeleteDoes ==
  ASSUME NEW req, NEW all, NEW st \in States(all), NEW id \in Ids(all)
  PROVE  LET W == st.working
             t == TryDelete(req, st, id)
             goes == id \in Ids(W) /\ Sufficient(req, Without(W, id))
         IN /\ t \in States(all)
            /\ goes => t.working = Without(W, id) /\ t.redundant = st.redundant \cup {id}
            /\ ~goes => t.working = W /\ t.redundant = st.redundant
<1>. DEFINE W == st.working
            t == TryDelete(req, st, id)
            goes == id \in Ids(W) /\ Sufficient(req, Without(W, id))
            gone == [st EXCEPT !.working = Without(W, id), !.redundant = @ \cup {id}]
            kept == [st EXCEPT !.unresolved = @ \cup {id}]
<1>1. goes => t = gone
  BY DEF TryDelete, DeleteHypothesis
<1>2. ~goes => t \in {st, kept}
  BY DEF TryDelete, DeleteHypothesis
<1>3. Without(W, id) \in SUBSET all
  BY WithoutFacts DEF States
<1>. HIDE DEF t, goes
<1>4. gone \in States(all) /\ gone.working = Without(W, id) /\ gone.redundant = st.redundant \cup {id}
  BY <1>3 DEF States
<1>5. kept \in States(all) /\ kept.working = W /\ kept.redundant = st.redundant
  BY DEF States
<1>. QED  BY <1>1, <1>2, <1>4, <1>5 DEF goes, t

LEMMA TryDeleteReduces ==
  ASSUME NEW req, NEW all, NEW st \in States(all), NEW id \in Ids(all), NEW tried,
         Reduced(req, all, st, tried)
  PROVE  Reduced(req, all, TryDelete(req, st, id), tried \cup {id})
<1>. DEFINE W == st.working
            t == TryDelete(req, st, id)
            goes == id \in Ids(W) /\ Sufficient(req, Without(W, id))
<1>1. /\ goes => t.working = Without(W, id) /\ t.redundant = st.redundant \cup {id}
      /\ ~goes => t.working = W /\ t.redundant = st.redundant
  BY TryDeleteDoes
<1>. HIDE DEF t
<1>2. CASE goes
  <2>1. Sufficient(req, t.working)
    BY <1>1, <1>2
  <2>2. Ids(t.working) = Ids(W) \ {id} /\ t.redundant = st.redundant \cup {id}
    BY <1>1, <1>2, WithoutFacts
  <2>3. /\ Ids(t.working) \cup t.redundant = Ids(all)
        /\ Ids(t.working) \cap t.redundant = {}
    BY <1>2, <2>2 DEF Reduced
  <2>4. ASSUME NEW k \in tried \cup {id}, k \in Ids(t.working)
        PROVE  ~Sufficient(req, Without(t.working, k))
    <3>1. k \in tried /\ k \in Ids(W)
      BY <2>2, <2>4
    <3>2. ~Sufficient(req, Without(W, k))
      BY <3>1 DEF Reduced
    <3>3. Without(t.working, k) \subseteq Without(W, k)
      BY <1>1, <1>2 DEF Without
    <3>. QED  BY <3>2, <3>3, SufficiencyGrows
  <2>. QED  BY <2>1, <2>3, <2>4 DEF Reduced, t
<1>3. CASE ~goes
  BY <1>1, <1>3 DEF Reduced, t
<1>. QED  BY <1>2, <1>3

LEMMA ReduceReduces ==
  ASSUME NEW req, NEW conds, NEW X, conds \in Seq(X), Sufficient(req, Range(conds))
  PROVE  /\ Reduce(req, conds) \in States(Range(conds))
         /\ Reduced(req, Range(conds), Reduce(req, conds), Ids(Range(conds)))
<1>. DEFINE n == Len(conds)
            all == Range(conds)
            S == States(all)
            start == [working |-> all, redundant |-> {}, unresolved |-> {}]
            Is(f) == f = [i \in 0..n |-> IF i = 0 THEN start
                                         ELSE TryDelete(req, f[i - 1], conds[i].id)]
            after == CHOOSE f : Is(f)
            tried(i) == {conds[j].id : j \in 1..i}
<1>1. Reduce(req, conds) = after[n]
  BY DEF Reduce
<1>2. n \in Nat /\ DOMAIN conds = 1..n
  OBVIOUS
<1>3. \A i \in 1..n : conds[i].id \in Ids(all)
  BY <1>2 DEF Range, Ids
<1>4. start \in S /\ Reduced(req, all, start, {})
  BY DEF States, Reduced
<1>5. tried(n) = Ids(all)
  BY <1>2 DEF Range, Ids
<1>. HIDE DEF n, all, start, S
<1>6. \A st \in S, i \in 1..n : TryDelete(req, st, conds[i].id) \in S
  BY <1>3, TryDeleteDoes DEF S
<1>7. \E f : Is(f)
  <2>. DEFINE step == [i \in 1..n |-> [st \in S |-> TryDelete(req, st, conds[i].id)]]
  <2>1. step \in [1..n -> [S -> S]]
    BY <1>6
  <2>2. \A i \in 1..n, st \in S : step[i][st] = TryDelete(req, st, conds[i].id)
    OBVIOUS
  <2>. HIDE DEF step
  <2>3. PICK f \in [0..n -> S] : Runs(f, n, start, step)
    BY <1>2, <1>4, <2>1, LoopRuns
  <2>4. \A i \in 1..n : f[i] = TryDelete(req, f[i - 1], conds[i].id)
    <3>1. \A i \in 1..n : f[i - 1] \in S
      BY <1>2
    <3>. QED  BY <2>2, <2>3, <3>1 DEF Runs
  <2>5. \A i \in 0..n : f[i] = IF i = 0 THEN start ELSE TryDelete(req, f[i - 1], conds[i].id)
    BY <1>2, <2>3, <2>4 DEF Runs
  <2>6. f = [i \in 0..n |-> f[i]]
    OBVIOUS
  <2>7. Is(f)
    BY <2>5, <2>6
  <2>. QED  BY <2>7
<1>8. Is(after)
  <2>. HIDE DEF Is
  <2>. QED  BY <1>7
<1>. HIDE DEF after
<1>9. after[0] = start /\ \A i \in 1..n : after[i] = TryDelete(req, after[i - 1], conds[i].id)
  BY <1>2, <1>8
<1>. DEFINE G == {i \in 0..n : after[i] \in S /\ Reduced(req, all, after[i], tried(i))}
<1>10. 0 \in G
  <2>1. tried(0) = {}
    OBVIOUS
  <2>. HIDE DEF tried
  <2>2. after[0] = start /\ 0 \in 0..n
    BY <1>2, <1>9
  <2>3. after[0] \in S /\ Reduced(req, all, after[0], tried(0))
    BY <1>4, <2>1, <2>2
  <2>. QED  BY <2>2, <2>3
<1>11. ASSUME NEW i \in 1..n, i - 1 \in G PROVE i \in G
  <2>1. after[i - 1] \in S /\ Reduced(req, all, after[i - 1], tried(i - 1))
    BY <1>11
  <2>2. tried(i) = tried(i - 1) \cup {conds[i].id}
    <3>1. 1..i = 1..(i - 1) \cup {i}
      BY <1>2
    <3>. QED  BY <3>1
  <2>. HIDE DEF tried
  <2>3. after[i] \in S
    BY <1>6, <1>9, <2>1
  <2>4. Reduced(req, all, after[i], tried(i))
    BY <1>3, <1>9, <2>1, <2>2, TryDeleteReduces DEF S
  <2>. QED  BY <1>2, <2>3, <2>4
<1>. HIDE DEF G
<1>12. n \in G
  BY <1>2, <1>10, <1>11, Rounds
<1>. QED  BY <1>1, <1>5, <1>12 DEF G, S, all

(* Without conditions of the caller the engine proposes a list of its own.  *)
LEMMA ProposalIsAList ==
  ASSUME NEW req, req.dens \in Seq(Range(req.dens))
  PROVE  \E X : ProposeConditions(req) \in Seq(X)
<1>. DEFINE n == Len(req.dens)
            named(i) == [id |-> "c" \o ToString(i - 1), expr |-> req.dens[i]]
            known(i) == \E j \in 1..(i - 1) : req.dens[j] = req.dens[i]
            X == {named(i) : i \in 1..n}
            S == Seq(X)
            round(s, i) == IF known(i) THEN s ELSE Append(s, named(i))
            Is(f) == f = [i \in 0..n |-> IF i = 0 THEN <<>>
                                         ELSE IF known(i) THEN f[i - 1]
                                         ELSE Append(f[i - 1], named(i))]
            upTo == CHOOSE f : Is(f)
<1>1. ProposeConditions(req) = upTo[n]
  BY DEF ProposeConditions
<1>2. n \in Nat
  OBVIOUS
<1>3. \A i \in 1..n : named(i) \in X
  OBVIOUS
<1>. HIDE DEF n, named, known, X
<1>4. <<>> \in S
  OBVIOUS
<1>5. \A i \in 1..n, s \in S : round(s, i) \in S
  BY <1>3
<1>. HIDE DEF S
<1>6. \E f : Is(f)
  <2>. HIDE DEF round
  <2>. DEFINE step == [i \in 1..n |-> [s \in S |-> round(s, i)]]
  <2>1. step \in [1..n -> [S -> S]]
    BY <1>5
  <2>2. \A i \in 1..n, s \in S : step[i][s] = round(s, i)
    OBVIOUS
  <2>. HIDE DEF step
  <2>3. PICK f \in [0..n -> S] : Runs(f, n, <<>>, step)
    BY <1>2, <1>4, <2>1, LoopRuns
  <2>4. \A i \in 1..n : f[i] = round(f[i - 1], i)
    <3>1. \A i \in 1..n : f[i - 1] \in S
      BY <1>2
    <3>. QED  BY <2>2, <2>3, <3>1 DEF Runs
  <2>5. \A i \in 0..n : f[i] = IF i = 0 THEN <<>> ELSE round(f[i - 1], i)
    BY <1>2, <2>3, <2>4 DEF Runs
  <2>6. f = [i \in 0..n |-> f[i]]
    OBVIOUS
  <2>7. f = [i \in 0..n |-> IF i = 0 THEN <<>> ELSE round(f[i - 1], i)]
    BY <2>5, <2>6
  <2>8. Is(f)
    BY <2>7 DEF round
  <2>. QED  BY <2>8
<1>7. Is(upTo)
  <2>. HIDE DEF Is
  <2>. QED  BY <1>6
<1>. HIDE DEF upTo
<1>8. upTo[0] = <<>> /\ \A i \in 1..n : upTo[i] = round(upTo[i - 1], i)
  <2>1. \A i \in 0..n : upTo[i] = IF i = 0 THEN <<>> ELSE round(upTo[i - 1], i)
    BY <1>7
  <2>. HIDE DEF round, Is
  <2>2. 0 \in 0..n /\ \A i \in 1..n : i \in 0..n /\ i # 0
    BY <1>2
  <2>. QED  BY <2>1, <2>2
<1>. HIDE DEF round
<1>. DEFINE G == {i \in 0..n : upTo[i] \in S}
<1>9. 0 \in G
  BY <1>2, <1>4, <1>8
<1>10. ASSUME NEW i \in 1..n, i - 1 \in G PROVE i \in G
  <2>1. upTo[i - 1] \in S
    BY <1>10
  <2>2. upTo[i] \in S
    BY <1>5, <1>8, <2>1
  <2>. QED  BY <1>2, <2>2
<1>. HIDE DEF G
<1>11. n \in G
  BY <1>2, <1>9, <1>10, Rounds
<1>. QED  BY <1>1, <1>11 DEF G, S

ReducedLattice(l) ==
  l.sufficient =>
    /\ Sufficient(l.request, l.recommended)
    /\ \A id \in Ids(l.recommended) : ~Sufficient(l.request, Without(l.recommended, id))
    /\ Ids(l.recommended) \cup l.redundant = Ids(l.conditions)
    /\ Ids(l.recommended) \cap l.redundant = {}

LEMMA LatticeIsBuiltReduced ==
  ASSUME NEW req, NEW original, NEW given, NEW weaker, NEW related,
         req.dens \in Seq(Range(req.dens)), original \in Seq(Range(original)),
         given \in Seq(Range(given))
  PROVE  ReducedLattice(BuildLattice(req, original, given, weaker, related))
<1>. DEFINE proposed == IF given = <<>> THEN ProposeConditions(req) ELSE given
            list == original \o proposed
            all == Range(list)
            end == Reduce(req, list)
            l == BuildLattice(req, original, given, weaker, related)
<1>1. /\ l.request = req /\ l.conditions = all /\ l.sufficient = Sufficient(req, all)
      /\ Sufficient(req, all) => l.recommended = end.working /\ l.redundant = end.redundant
  BY DEF BuildLattice
<1>2. PICK Y : proposed \in Seq(Y)
  <2>1. PICK P : ProposeConditions(req) \in Seq(P)
    BY ProposalIsAList
  <2>. QED  BY <2>1
<1>. HIDE DEF proposed, l, end
<1>3. list \in Seq(Range(original) \cup Y)
  BY <1>2
<1>. HIDE DEF list
<1>4. Sufficient(req, all) => Reduced(req, all, end, Ids(all))
  BY <1>3, ReduceReduces DEF end
<1>5. ASSUME Sufficient(req, all), NEW id \in Ids(end.working)
      PROVE  ~Sufficient(req, Without(end.working, id))
  BY <1>4, <1>5 DEF Reduced
<1>6. ASSUME Sufficient(req, all)
      PROVE  /\ Sufficient(req, end.working)
             /\ Ids(end.working) \cup end.redundant = Ids(all)
             /\ Ids(end.working) \cap end.redundant = {}
  BY <1>4, <1>6 DEF Reduced
<1>7. CASE Sufficient(req, all)
  BY <1>1, <1>5, <1>6, <1>7 DEF ReducedLattice, l
<1>8. CASE ~Sufficient(req, all)
  BY <1>1, <1>8 DEF ReducedLattice, l
<1>. QED  BY <1>7, <1>8

(* A certificate names a set of a lattice and changes none of it.           *)
LEMMA LatticeStep == BackedInv /\ LatticeIsReduced /\ [Next]_vars => LatticeIsReduced'
<1>. SUFFICES ASSUME BackedInv, LatticeIsReduced, [Next]_vars PROVE LatticeIsReduced'
  OBVIOUS
<1>0. /\ LatticeIsReduced <=> (artifact.kind = "lattice" => ReducedLattice(artifact))
      /\ LatticeIsReduced' <=> (artifact'.kind = "lattice" => ReducedLattice(artifact'))
  BY DEF LatticeIsReduced, ReducedLattice
<1>1. CASE artifact' = artifact
  BY <1>0, <1>1
<1>2. CASE MakeLattice
  <2>1. PICK req \in LatticeRequests, original \in Originals, given \in Givens,
             weaker \in {"none", "survives", "falsified"}, related \in SUBSET ConditionIds :
          artifact' = BuildLattice(req, original, given, weaker, related)
    BY <1>2 DEF MakeLattice, WorkOn
  <2>2. /\ req.dens \in Seq(Range(req.dens))
        /\ original \in Seq(Range(original)) /\ given \in Seq(Range(given))
    BY ConditionsAssumption
  <2>3. ReducedLattice(artifact')
    BY <2>1, <2>2, LatticeIsBuiltReduced
  <2>. QED  BY <1>0, <2>3
<1>3. CASE CertifyLattice
  <2>1. /\ artifact.kind = "lattice" /\ LatticeBacked(artifact, everVerified)
        /\ artifact' = CertifySufficientSet(artifact, Ids(artifact.recommended), AtHand)
    BY <1>3 DEF CertifyLattice, WorkOn, BackedInv, ArtifactBacked
  <2>2. \A x \in LatticeFields : x # "certified" => artifact'[x] = artifact[x]
    BY <2>1 DEF CertifySufficientSet, LatticeBacked, LatticeFields
  <2>3. /\ artifact'.request = artifact.request /\ artifact'.sufficient = artifact.sufficient
        /\ artifact'.recommended = artifact.recommended
        /\ artifact'.redundant = artifact.redundant /\ artifact'.conditions = artifact.conditions
    BY <2>2 DEF LatticeFields
  <2>. QED  BY <1>0, <2>1, <2>3 DEF ReducedLattice
<1>4. CASE artifact'.kind # "lattice"
  BY <1>0, <1>4
<1>5. artifact' = artifact \/ MakeLattice \/ CertifyLattice \/ artifact'.kind # "lattice"
  BY ArtifactSteps DEF ShowInStudio, Modest
<1>. QED  BY <1>1, <1>2, <1>3, <1>4, <1>5

(* build_condition_lattice recommends an interface that is sufficient,      *)
(* loses that with any of its ids, and accounts for each id of the caller   *)
(* and of the engine as recommended or redundant, never as both: whatever   *)
(* conditions are given, in whatever order and with whichever ids.          *)
THEOREM LatticesAreReduced == Spec => []LatticeIsReduced
<1>1. Init => LatticeIsReduced
  BY DEF Init, LatticeIsReduced, Nothing
<1>2. Spec => []BackedInv
  BY BackedInitially, BackedStep, PTL DEF Spec
<1>. QED  BY <1>1, <1>2, LatticeStep, PTL DEF Spec
=============================================================================
