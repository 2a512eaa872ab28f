SPECIFICATION Spec
CONSTANTS
  Capabilities <- MCCapabilities
  Candidates <- MCCandidates
  ForeignRecords <- MCForeignRecords
  Bundles <- MCBundles
  Predicates <- MCPredicates
  CampaignCandidates <- MCCampaignCandidates
  ProofClaims <- MCProofClaims
  LatticeRequests <- MCLatticeRequests
  Originals <- MCOriginals
  Givens <- MCGivens
  ConditionIds <- MCConditionIds
  TraceIdPairs <- MCTraceIdPairs
  RawItems <- MCRawItems
  CallerRecons <- MCCallerRecons
  MaxLock = 2
  MaxAssignments = 2
INVARIANTS TypeOK CertifiedWasVerified IssuedVerifies StaleNeverVerifies EligibleReplays LabelIsEarned LatticeIsReduced PlanIsHonest CampaignIsHonest
