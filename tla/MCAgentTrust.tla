---------------------------- MODULE MCAgentTrust ----------------------------
(* A capability as three accepted registry entries and one that is not,     *)
(* two candidates, records that are forged, old or legacy, and small inputs *)
(* for the artifacts.                                                       *)
EXTENDS AgentTrust

Entry == [ known |-> TRUE, policy |-> TRUE, version |-> "v1", crEligible |-> TRUE,
           generator |-> "g1", complete |-> TRUE, exactExists |-> TRUE,
           modes |-> {"kernel_replay"}, outcomes |-> {"proved", "refuted"},
           computed |-> TRUE, claims |-> {"soundResult", "refutation"} ]
MCCapabilities ==
  { Entry,
    [Entry EXCEPT !.version = "v2", !.outcomes = {"proved"}],
    [Entry EXCEPT !.crEligible = FALSE, !.generator = "none", !.exactExists = FALSE, !.modes = {}],
    [Entry EXCEPT !.modes = {"native_checked"}] }

MCCandidates ==
  { [id |-> "r1", requested |-> "soundResult", generator |-> "g1", type |-> "t1", accepted |-> TRUE],
    [id |-> "r2", requested |-> "refutation", generator |-> "g1", type |-> "t2", accepted |-> TRUE],
    [id |-> "r3", requested |-> "optimum", generator |-> "g1", type |-> "t2", accepted |-> TRUE] }

Good == Issued([id |-> "f1", requested |-> "soundResult", generator |-> "g1", type |-> "t1"], Entry, 1)
MCForeignRecords ==
  { [Good EXCEPT !.genuine = FALSE], [Good EXCEPT !.flaws = {"axioms"}],
    [Good EXCEPT !.schema = "0.3.0", !.generator = "none", !.tier = "none"] }

Receipt == [ status |-> "soundness_verified", claim |-> "soundResult", mode |-> "kernel_replay",
             theorem |-> TRUE, signed |-> "no", request |-> "same", certificate |-> "same" ]
Legacy == [ kind |-> "legacy", status |-> "soundness_verified", certificate |-> "listed",
            receipt |-> Receipt ]
MCBundles ==
  { Legacy, [Legacy EXCEPT !.kind = "candidate"], [Legacy EXCEPT !.receipt = NoReceipt],
    [Legacy EXCEPT !.certificate = "changed"], [Legacy EXCEPT !.kind = "absent"],
    [Legacy EXCEPT !.certificate = "missing", !.receipt.status = "computed"],
    [Legacy EXCEPT !.receipt.mode = "native_checked"], [Legacy EXCEPT !.receipt.signed = "forged"] }

MCPredicates == { <<"true", "true">>, <<"true", "false">>, <<"true", "true", "false">>,
                  <<"undefined", "true">>, <<>> }
Claim == [ named |-> TRUE, axioms |-> TRUE, type |-> "t1", lock |-> 1, conjecture |-> "none",
           source |-> "none" ]
MCProofClaims == { Claim, [Claim EXCEPT !.conjecture = "t2"], [Claim EXCEPT !.source = "validated"] }
MCCampaignCandidates ==
  { [pred |-> p, request |-> p # <<>>, witness |-> w, outcome |-> o, proof |-> Claim, bound |-> 3] :
      p \in MCPredicates, w \in {0, 2}, o \in {"none", "formally_proved", "open", "bounded_verified"} }

Cond(id, expr) == [id |-> id, expr |-> expr]
MCLatticeRequests ==
  { [dens |-> d, identity |-> i] : d \in {<<>>, <<"d">>, <<"e", "d", "e">>}, i \in BOOLEAN }
MCOriginals == { <<>>, <<Cond("c0", "d")>>, <<Cond("c0", "e"), Cond("h", "d")>> }
MCGivens == { <<>>, <<Cond("c0", "d"), Cond("c1", "e")>>, <<Cond("c0", "d"), Cond("c0", "e")>> }
MCConditionIds == {"c0", "c1"}
MCTraceIdPairs == {<<"a", "b">>, <<"a", "a">>}
MCRawItems ==
  { [as |-> "none", words |-> {"checker"}], [as |-> "none", words |-> {"direct"}],
    [as |-> "none", words |-> {"goal", "hint"}], [as |-> "mystery", words |-> {}],
    [as |-> "direct_proof_step", words |-> {"hint"}] }
Given(gate, theorem, axioms) == [gate |-> gate, theorem |-> theorem, axioms |-> axioms, given |-> TRUE]
MCCallerRecons == { NoRecon, Given("ok", TRUE, FALSE), Given("none", TRUE, TRUE) }
=============================================================================
