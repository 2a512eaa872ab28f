---------------------------- MODULE OfflineBundle ----------------------------
(***************************************************************************
 The offline exact bundle (adapters/common/exact_replay/offline_bundle.py): a
 directory with a candidate, the Lean source generated for it and a manifest,
 built by build_offline_exact_bundle and replayed in both modes, one after the
 other, by both_modes_agree; on request Lean then checks the source.

 Nothing locks the directory.  Another build may be writing to it, a build may
 die on the way, somebody may edit a finished bundle, and the lock file of the
 workspace may move on between the build and the replay.

 What a file says is the candidate it was written for and the edits made since;
 a digest of a file is what the file says.  Lean's module lock is in ReplayLock.
 ***************************************************************************)
EXTENDS ExactPlugins, BoundedProcess, Sequences, FiniteSets

CONSTANT Cases   \* what is built, which edits, and how the replay is called

\* The cases of mutate_bundle_for_tamper.
Tampers == {"candidate", "generated_source", "artifact_delete", "artifact_mutate",
            "manifest", "generator_version", "declaration_identity",
            "toolchain_lock", "capability_id"}

ASSUME CasesAssumption ==
    \A x \in Cases : x.builds # {} /\ x.tampers \subseteq Tampers

VARIABLES
    case,      \* one of Cases
    disk,      \* the role files
    live,      \* the lock of the workspace
    builder,   \* next step of each build, and the hashes it has read back
    edited,    \* edits of mutate_bundle_for_tamper that changed the bundle
    changed,   \* whether something has changed since the replay began
    pc, mode, held,
    lean,      \* the Lean process that is running
    results    \* the outcome of each mode that has ended

bundleVars == <<disk, live, builder, edited, changed>>
replayVars == <<pc, mode, held, lean, results>>
vars == <<case, bundleVars, replayVars, boundedVars>>

Artifacts == <<"request", "certificate", "source", "toolchain", "identity">>
Roles == {"manifest"} \cup {Artifacts[i] : i \in 1..5}
Modes == <<"regenerate-and-verify", "artifact-replay">>
Outcomes == {"setup_integrity_error", "tamper_detected", "theorem_pending",
             "theorem_proved", "theorem_failure", "raised"}
Accepting == {"theorem_pending", "theorem_proved"}

File(is, c, lock) == [is |-> is, of |-> c, lock |-> lock, edits |-> {}, hashes |-> <<>>]
Absent == File("absent", CHOOSE c \in case.builds : TRUE, 0)

Init ==
    /\ case \in Cases
    /\ disk = [r \in Roles |-> Absent]
    /\ live = 0
    /\ builder = [c \in case.builds |-> [at |-> 1, hashes |-> <<>>]]
    /\ edited = {} /\ changed = FALSE
    /\ pc = "idle" /\ mode = 1 /\ held = [r \in Roles |-> Absent]
    /\ lean = "none" /\ results = <<>>
    /\ BoundedInit

----------------------------------------------------------------------------
(* build_offline_exact_bundle *)

At(c, steps) == builder[c].at \in steps
To(c, step) == builder' = [builder EXCEPT
                 ![c] = [at |-> step, hashes |-> IF step = 0 THEN <<>> ELSE @.hashes]]
Begun == pc # "idle" \/ mode = 2
Writes(r, f) == disk' = [disk EXCEPT ![r] = f] /\ changed' = Begun

\* The module is generated before anything is written; a candidate that is
\* refused raises.
GenerateFirst(c) ==
    /\ At(c, {1})
    /\ case.overlap \/ \A d \in case.builds : At(d, {0, 1})
    /\ To(c, IF Refused(c) THEN 0 ELSE 2)
    /\ UNCHANGED <<disk, changed>>

\* A role file is truncated, then filled.  Steps 2 to 11 are the artifacts, then
\* 12 to 16 read their hashes back, and 17 and 18 write the manifest; 0 is the end.
WriteArtifact(c) ==
    /\ At(c, 2..11)
    /\ LET i == builder[c].at \div 2
           is == IF builder[c].at % 2 = 0 THEN "torn" ELSE "full"
       IN Writes(Artifacts[i], File(is, c, live))
    /\ To(c, builder[c].at + 1)
HashArtifact(c) ==
    /\ At(c, 12..16)
    /\ builder' = [builder EXCEPT
         ![c] = [at |-> @.at + 1, hashes |-> Append(@.hashes, disk[Artifacts[@.at - 11]])]]
    /\ UNCHANGED <<disk, changed>>
WriteManifest(c) ==
    /\ At(c, 17..18)
    /\ Writes("manifest",
              [File(IF At(c, {17}) THEN "torn" ELSE "full", c, live)
                 EXCEPT !.hashes = builder[c].hashes])
    /\ To(c, IF At(c, {17}) THEN 18 ELSE 0)

Build(c) == /\ GenerateFirst(c) \/ WriteArtifact(c) \/ HashArtifact(c) \/ WriteManifest(c)
            /\ UNCHANGED <<case, live, edited, replayVars, boundedVars>>
\* The process that builds dies.
Crash(c) == /\ case.crash /\ At(c, 2..18)
            /\ To(c, 0)
            /\ UNCHANGED <<case, disk, live, edited, changed, replayVars, boundedVars>>

\* The dependencies of the workspace are updated.
Advance ==
    /\ case.advance /\ live = 0
    /\ live' = 1 /\ changed' = Begun
    /\ UNCHANGED <<case, disk, builder, edited, replayVars, boundedVars>>

\* The cases of mutate_bundle_for_tamper.  The edit of a request is of a
\* coefficient for an ideal, and else a field that nobody looks at, as that of a
\* certificate.  An edited identity has its hash updated.
Edit(t) == LET d == [r \in Roles |-> disk[r]]
               Put(r, what) == [d EXCEPT ![r].edits = @ \cup {what}]
    IN CASE t = "candidate" ->
              Put("request", IF disk["request"].of.cap = "ideal" THEN "semantic" ELSE "ignored")
         [] t = "generated_source" -> Put("source", "text")
         [] t = "artifact_delete" -> [d EXCEPT !["certificate"].is = "absent"]
         [] t = "artifact_mutate" -> Put("certificate", "ignored")
         [] t = "manifest" -> Put("manifest", "source")
         [] t = "generator_version" -> Put("manifest", "generator")
         [] t = "declaration_identity" ->
              [Put("identity", "name") EXCEPT !["manifest"].hashes[5].edits = {"name"}]
         [] t = "toolchain_lock" -> Put("manifest", "lock")
         [] t = "capability_id" ->
              IF disk["manifest"].of.cap = "rational" THEN d ELSE Put("manifest", "generator")

Tamper(t) ==
    /\ t \in case.tampers \ edited
    /\ \A c \in case.builds : At(c, {0})
    /\ \A r \in Roles : disk[r].is = "full"
    /\ disk' = Edit(t)
    /\ edited' = IF disk' = disk THEN edited ELSE edited \cup {t}
    /\ changed' = (changed \/ (Begun /\ disk' # disk))
    /\ UNCHANGED <<case, live, builder, replayVars, boundedVars>>

----------------------------------------------------------------------------
(* replay_offline_exact_bundle *)

Goto(from, to) == pc = from /\ pc' = to
\* Mutant of Ends: an error ends both modes.
EndsBoth(outcome) ==
    /\ results' = Append(results, outcome)
    /\ pc' = IF mode = 1 /\ outcome \in Accepting THEN "idle" ELSE "end"
    /\ mode' = IF mode = 1 THEN 2 ELSE mode
    /\ lean' = "none"
    /\ UNCHANGED held
Ends(outcome) ==
    /\ results' = Append(results, outcome)
    /\ pc' = IF mode = 1 THEN "idle" ELSE "end"
    /\ mode' = IF mode = 1 THEN 2 ELSE mode
    /\ lean' = "none"
    /\ UNCHANGED held

\* A check ends the replay with what it is mapped to, or lets it go on.
Check(from, to, refusal) ==
    /\ pc = from
    /\ \/ refusal = "none" /\ pc' = to /\ UNCHANGED <<mode, held, lean, results>>
       \/ refusal # "none" /\ Ends(refusal)
    /\ UNCHANGED <<case, bundleVars, boundedVars>>

\* The outcome of the first of the checks that fails.
First(checks) ==
    LET failed == {i \in DOMAIN checks : ~checks[i][1]}
    IN IF failed = {} THEN "none"
       ELSE checks[CHOOSE i \in failed : \A j \in failed : i <= j][2]

\* The environment, and whether the roles are there.
Open ==
    /\ case.meanwhile \/ \A c \in case.builds : At(c, {0})
    /\ Check("idle", "manifest",
         First(<< <<case.offline, "setup_integrity_error">>,
                  <<\A r \in Roles : disk[r].is # "absent", "setup_integrity_error">> >>))

Fetch(from, to, r) ==
    /\ pc = from
    /\ IF disk[r].is = "full" \/ (disk[r].is = "torn" /\ r = "source")
         THEN pc' = to /\ held' = [held EXCEPT ![r] = disk[r]] /\ UNCHANGED <<mode, lean, results>>
         ELSE Ends("raised")
    /\ UNCHANGED <<case, bundleVars, boundedVars>>

\* Each artifact is read twice, for its hash and for its content.
Reads == <<"hash 1", "hash 2", "hash 3", "hash 4", "hash 5",
           "load 1", "load 2", "load 3", "load 4", "load 5", "source">>

LoadManifest == Fetch("manifest", "generator", "manifest")
\* schema, driver and policy are fixed; generator and grammar are the plugin's.
CheckGenerator ==
    Check("generator", Reads[1], IF "generator" \in held["manifest"].edits THEN "tamper_detected" ELSE "none")

\* Mutant of VerifyHash: a hash that differs is passed over.
HashUnverified == \E i \in 1..5 : Check(Reads[i], Reads[i + 1], "none")
\* _verify_artifact_hashes, one file after the other.
VerifyHash ==
    \E i \in 1..5 :
        Check(Reads[i], Reads[i + 1],
              IF disk[Artifacts[i]] = held["manifest"].hashes[i] THEN "none"
              ELSE "tamper_detected")

Load ==
    \E i \in 1..5 :
        Fetch(Reads[i + 5], Reads[i + 6],
              <<"request", "certificate", "toolchain", "identity", "source">>[i])

\* generatedSourceHash is that of the generated text, not read back.
BoundTo(f) == Source(f, f, f.of)
\* Mutant of CheckSource: the listed hashes were right, so the text is.
CheckSourceListed == Check("source", "toolchain", "none")
CheckSource ==
    LET m == held["manifest"]
        s == held["source"]
    IN Check("source", "toolchain",
             IF /\ s.is = "full" /\ s.edits = {} /\ "source" \notin m.edits
                /\ BoundTo(s) = BoundTo(m)
               THEN "none" ELSE "tamper_detected")

ManifestLock == IF "lock" \in held["manifest"].edits THEN 2 ELSE held["manifest"].lock
\* The toolchain contract: against the workspace, or only against the manifest.
CheckToolchain ==
    Check("toolchain", "identity",
          IF case.live
            THEN IF ManifestLock = live THEN "none" ELSE "setup_integrity_error"
            ELSE IF ManifestLock = held["toolchain"].lock THEN "none" ELSE "tamper_detected")
CheckIdentity ==
    Check("identity", "regenerate", IF "name" \in held["identity"].edits THEN "tamper_detected" ELSE "none")

Regenerated ==
    IF ~Generates(held["request"], held["certificate"]) THEN "raised"
    ELSE IF Source(held["request"], held["certificate"], held["manifest"].of)
              # BoundTo(held["manifest"]) THEN "tamper_detected" ELSE "none"
\* Mutant of Regenerate: the saved source is enough for artifact-replay.
RegenerateOnce ==
    Check("regenerate", "manifest_hash", IF Modes[mode] = "artifact-replay" THEN "none" ELSE Regenerated)
\* Both modes regenerate; only the first compares the text too, which is known
\* to have the bound hash.
Regenerate == Check("regenerate", "manifest_hash", Regenerated)

\* The digest of the manifest is read again, for the result.
HashManifest ==
    Check("manifest_hash", "lean", IF disk["manifest"].is = "absent" THEN "raised" ELSE "none")

\* Lean is asked for by the call or by the environment.
Deferred == IF case.lean = "required" THEN "setup_integrity_error" ELSE "theorem_pending"
StartLean ==
    /\ IF case.lean = "off" \/ ~case.lake
         THEN /\ pc = "lean" /\ Ends(IF case.lean = "off" THEN "theorem_pending" ELSE Deferred)
              /\ UNCHANGED <<case, bundleVars, boundedVars>>
         ELSE /\ Goto("lean", "inspect") /\ lean' = "build"
              /\ UNCHANGED <<case, bundleVars, boundedVars, mode, held, results>>

Codes == IF lean = "build" \/ LeanAccepts(held["source"].of) THEN Ran ELSE {"nonzero"}

RunLean ==
    /\ pc = "inspect"
    /\ Wait(Codes)
    /\ UNCHANGED <<case, bundleVars, replayVars>>
LeanProcesses ==
    /\ Processes
    /\ UNCHANGED <<case, bundleVars, replayVars>>

\* Mutant of FailureOf: running out of time is a refusal.
FailureOfAny(code) == "theorem_failure"
FailureOf(code) ==
    IF code = "nonzero" /\ lean # "build" THEN "theorem_failure" ELSE Deferred

\* The next process, or the end: the identity that Lean reports may not be as
\* expected, or its axioms not the allowed ones.
LeanAnswers ==
    /\ pc = "inspect" /\ waiter = "done"
    /\ IF answer # "zero" THEN Ends(FailureOf(answer))
       ELSE IF lean = "inspect" THEN \E o \in {"theorem_proved", "theorem_failure"} : Ends(o)
       ELSE /\ lean' = IF lean = "build" THEN "compile" ELSE "inspect"
            /\ UNCHANGED <<pc, mode, held, results>>
    /\ waiter' = "idle" /\ child' = "none" /\ helper' = "none"
    /\ timedOut' = FALSE /\ answer' = "none"
    /\ UNCHANGED <<case, bundleVars>>

Ended == pc = "end" /\ UNCHANGED vars

Replay == \/ Open \/ LoadManifest \/ CheckGenerator \/ VerifyHash \/ Load \/ CheckSource
          \/ CheckToolchain \/ CheckIdentity \/ Regenerate \/ HashManifest
          \/ StartLean \/ RunLean \/ LeanAnswers

Next == \/ Replay \/ LeanProcesses \/ Advance \/ Ended
        \/ \E c \in case.builds : Build(c) \/ Crash(c)
        \/ \E t \in case.tampers : Tamper(t)

Spec == Init /\ [][Next]_vars /\ WF_vars(Replay)
             /\ WF_vars(\E c \in case.builds : Build(c))

----------------------------------------------------------------------------
TypeOK ==
    /\ \A r \in Roles : /\ disk[r].is \in {"absent", "torn", "full"}
                        /\ disk[r].of \in case.builds
    /\ Len(results) <= 2 /\ \A i \in DOMAIN results : results[i] \in Outcomes
    /\ pc = "end" => Len(results) = 2
    /\ waiter # "idle" => pc = "inspect" /\ lean \in {"build", "compile", "inspect"}
    /\ live \in 0..1 /\ edited \subseteq case.tampers

Settled(outcomes) == /\ pc \in {"idle", "end"} /\ results # <<>>
                     /\ results[Len(results)] \in outcomes

\* What replay_offline_exact_bundle accepts was written by one build: although
\* other builds and edits may interleave with its reads, the request, the
\* certificate and the source that it has loaded are those the manifest was made
\* for, up to the spelling of rationals and fields that nobody reads.
AcceptedIsOneBuild ==
    Settled(Accepting) =>
        LET c == held["manifest"].of
        IN /\ ~Refused(c)
           /\ held["request"].of.id = c.id
           /\ "semantic" \notin held["request"].edits
           /\ Rendered(held["certificate"].of) = Rendered(c)
           /\ held["source"].of = c

\* A finished bundle with one of the edits of mutate_bundle_for_tamper, or several,
\* is accepted in neither mode.
TamperNeverAccepted ==
    edited # {} /\ ~changed =>
        \A i \in DOMAIN results : results[i] \notin Accepting

\* both_modes_agree: a bundle that stays as it is has the same outcome in both
\* modes, whatever earlier builds and edits have left of it, but for what Lean says.
ModesAgree ==
    LET Integrity(o) == IF o \in Accepting \cup {"theorem_failure"} THEN "sound" ELSE o
    IN Len(results) = 2 /\ ~changed /\ case.lean # "required" =>
           Integrity(results[1]) = Integrity(results[2])

\* A theorem reported as proved is one that Lean accepts for the candidate that
\* the manifest names, not only for the source that happened to be there.
ProvedIsSound == Settled({"theorem_proved"}) => LeanAccepts(held["manifest"].of)

\* A missing dependency, a lack of time or an exception is never reported as a
\* failure of the theorem: that is only said after Lean has answered on it.
FailureIsLeans ==
    [][Len(results') > Len(results) /\ results'[Len(results')] = "theorem_failure"
         => /\ answer \in Ran
            /\ lean # "build" /\ child = "exited"]_vars

\* Both replays come to an end, also if a process of Lean or one that it has
\* started does not.
ReplayEnds == <>(pc = "end")
=============================================================================
