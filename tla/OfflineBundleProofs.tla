-------------------------- MODULE OfflineBundleProofs --------------------------
(***************************************************************************)
(* Theorems about exact bundles as OfflineBundle models them: for any       *)
(* candidates built into one directory at a time or over each other, any    *)
(* edits, any moment at which a build dies or the lock of the workspace     *)
(* moves on, and any interleaving of all that with both replays.            *)
(***************************************************************************)
EXTENDS OfflineBundle, SequenceTheorems, TLAPS

-----------------------------------------------------------------------------
(***************************************************************************)
(* Types.  The digest of a file is the file, so a manifest lists files; the *)
(* files that it lists list none.                                           *)
(***************************************************************************)
Marks == {"semantic", "ignored", "text", "source", "generator", "name", "lock"}

Files(builds, lists) ==
  [is : {"absent", "torn", "full"}, of : builds, lock : 0..1, edits : SUBSET Marks,
   hashes : lists]
Artifact(builds) == Files(builds, {<<>>})
AnyFile(builds)  == Files(builds, Seq(Artifact(builds)))

DiskType ==
  /\ disk \in [Roles -> AnyFile(case.builds)]
  /\ \A i \in 1..5 : disk[Artifacts[i]].hashes = <<>>
  /\ disk["manifest"].is # "absent" => Len(disk["manifest"].hashes) = 5

Builders(builds) == [at : 0..18, hashes : Seq(Artifact(builds))]

(* How many hashes a build has read back.                                   *)
HashesRead(b) ==
  /\ b.at \in 1..11 => b.hashes = <<>>
  /\ b.at \in 12..17 => Len(b.hashes) = b.at - 12
  /\ b.at = 18 => Len(b.hashes) = 5

BuildType ==
  /\ case \in Cases
  /\ DiskType
  /\ builder \in [case.builds -> Builders(case.builds)]
  /\ \A c \in case.builds : HashesRead(builder[c])
  /\ live \in 0..1 /\ edited \subseteq case.tampers /\ changed \in BOOLEAN

(* The steps of a replay, in order; the steps of Reads are between them.    *)
Last    == {"manifest_hash", "lean", "inspect"}
Sourced == {"toolchain", "identity", "regenerate"} \cup Last
Read    == {Reads[k] : k \in 1..11} \cup Sourced
Named   == {"generator"} \cup Read
Steps   == {"manifest"} \cup Named

ReplayType ==
  /\ held \in [Roles -> AnyFile(case.builds)]
  /\ mode \in {1, 2} /\ pc \in {"idle", "end"} \cup Steps
  /\ results \in Seq(Outcomes)
  /\ Len(results) = (IF pc = "end" THEN 2 ELSE mode - 1)
  /\ pc = "end" => mode = 2
  /\ pc = "inspect" => lean \in {"build", "compile", "inspect"}
  /\ pc # "inspect" => waiter = "idle"
  /\ waiter = "done" /\ answer \in Ran => child = "exited"

TypeInv == BuildType /\ ReplayType

-----------------------------------------------------------------------------
LEMMA RolesAre ==
  /\ Roles = {"manifest", "request", "certificate", "source", "toolchain", "identity"}
  /\ Artifacts[1] = "request" /\ Artifacts[2] = "certificate" /\ Artifacts[3] = "source"
  /\ Artifacts[4] = "toolchain" /\ Artifacts[5] = "identity"
  /\ \A r \in Roles : r # "manifest" <=> \E i \in 1..5 : r = Artifacts[i]
<1>1. 1..5 = {1, 2, 3, 4, 5}
  OBVIOUS
<1> QED
  BY <1>1 DEF Roles, Artifacts

(* The fields of a file.                                                    *)
LEMMA FileFields ==
  ASSUME NEW B, NEW f \in AnyFile(B)
  PROVE  /\ f = [is |-> f.is, of |-> f.of, lock |-> f.lock, edits |-> f.edits,
                 hashes |-> f.hashes]
         /\ f.is \in {"absent", "torn", "full"} /\ f.of \in B /\ f.lock \in 0..1
         /\ f.edits \subseteq Marks /\ f.hashes \in Seq(Artifact(B))
         /\ f.hashes = <<>> => f \in Artifact(B)
BY DEF AnyFile, Artifact, Files

LEMMA ArtifactIsFile ==
  ASSUME NEW B, NEW f \in Artifact(B)
  PROVE  f \in AnyFile(B) /\ f.hashes = <<>>
<1>1. <<>> \in Seq(Artifact(B))
  BY EmptySeq
<1> QED
  BY <1>1 DEF AnyFile, Artifact, Files

LEMMA NewFile ==
  ASSUME NEW B, NEW is \in {"absent", "torn", "full"}, NEW c \in B, NEW lock \in 0..1
  PROVE  /\ File(is, c, lock) \in Artifact(B) /\ File(is, c, lock) \in AnyFile(B)
         /\ File(is, c, lock).is = is /\ File(is, c, lock).of = c
         /\ File(is, c, lock).edits = {} /\ File(is, c, lock).lock = lock
         /\ File(is, c, lock).hashes = <<>>
<1>1. File(is, c, lock) \in Artifact(B)
  BY DEF File, Artifact, Files
<1> QED
  BY <1>1, ArtifactIsFile DEF File

LEMMA AbsentType ==
  ASSUME case \in Cases
  PROVE  /\ Absent \in Artifact(case.builds) /\ Absent \in AnyFile(case.builds)
         /\ Absent.is = "absent" /\ Absent.edits = {} /\ Absent.hashes = <<>>
<1>1. (CHOOSE c \in case.builds : TRUE) \in case.builds
  BY CasesAssumption
<1>2. 0 \in 0..1 /\ "absent" \in {"absent", "torn", "full"}
  OBVIOUS
<1> QED
  BY <1>1, <1>2, NewFile DEF Absent

LEMMA TypeInit == Init => TypeInv
<1> SUFFICES ASSUME Init PROVE TypeInv
  OBVIOUS
<1>1. case \in Cases /\ disk = [r \in Roles |-> Absent] /\ held = [r \in Roles |-> Absent]
  BY DEF Init
<1>2. disk \in [Roles -> AnyFile(case.builds)] /\ held \in [Roles -> AnyFile(case.builds)]
  BY <1>1, AbsentType
<1>3. \A r \in Roles : disk[r].hashes = <<>> /\ disk[r].is = "absent"
  BY <1>1, AbsentType
<1>4. builder \in [case.builds -> Builders(case.builds)]
  BY EmptySeq DEF Init, Builders
<1>5. \A c \in case.builds : HashesRead(builder[c])
  BY DEF Init, HashesRead
<1>6. BuildType
  <2>1. \A i \in 1..5 : Artifacts[i] \in Roles /\ "manifest" \in Roles
    BY RolesAre
  <2>2. DiskType
    BY <1>2, <1>3, <2>1 DEF DiskType
  <2>3. live \in 0..1 /\ edited \subseteq case.tampers /\ changed \in BOOLEAN
    <3>1. live = 0 /\ edited = {} /\ changed = FALSE
      BY DEF Init
    <3>2. live \in 0..1
      BY <3>1
    <3> QED
      BY <3>1, <3>2, Zenon
  <2> QED
    BY <1>1, <1>4, <1>5, <2>2, <2>3 DEF BuildType
<1>7. ReplayType
  BY <1>2, EmptySeq DEF Init, ReplayType, BoundedInit, Ran
<1> QED
  BY <1>6, <1>7 DEF TypeInv

(* A build moves on.                                                        *)
LEMMA ToFacts ==
  ASSUME BuildType, NEW c \in case.builds, NEW step \in 0..18, To(c, step),
         UNCHANGED case
  PROVE  /\ builder'[c].at = step
         /\ builder'[c].hashes = IF step = 0 THEN <<>> ELSE builder[c].hashes
         /\ \A d \in case.builds : d # c => builder'[d] = builder[d]
         /\ builder' \in [case.builds -> Builders(case.builds)]
<1>1. <<>> \in Seq(Artifact(case.builds))
  BY EmptySeq
<1>2. builder[c] \in Builders(case.builds)
  BY DEF BuildType
<1>3. [at |-> step, hashes |-> IF step = 0 THEN <<>> ELSE builder[c].hashes]
        \in Builders(case.builds)
  BY <1>1, <1>2 DEF Builders
<1> QED
  BY <1>3 DEF BuildType, To

LEMMA HalfStep ==
  ASSUME NEW n \in 2..11
  PROVE  n \div 2 \in 1..5
<1>1. n \in {2, 3, 4, 5, 6, 7, 8, 9, 10, 11}
  OBVIOUS
<1> QED
  BY <1>1

LEMMA BuildStepType ==
  ASSUME BuildType, NEW c \in case.builds, Build(c) \/ Crash(c)
  PROVE  BuildType'
<1> USE DEF At
<1>0. UNCHANGED <<case, live, edited>>
  BY DEF Build, Crash
<1>1. builder[c] \in Builders(case.builds) /\ HashesRead(builder[c])
  BY DEF BuildType
<1>2. ASSUME builder' \in [case.builds -> Builders(case.builds)],
             \A d \in case.builds : d # c => builder'[d] = builder[d],
             HashesRead(builder'[c]), DiskType', changed' \in BOOLEAN
      PROVE  BuildType'
  BY <1>0, <1>2 DEF BuildType
<1>3. ASSUME NEW step \in 0..18, To(c, step),
             LET b == [at |-> step, hashes |-> IF step = 0 THEN <<>> ELSE builder[c].hashes]
             IN HashesRead(b),
             DiskType', changed' \in BOOLEAN
      PROVE  BuildType'
  <2>1. builder'[c] = [at |-> step, hashes |-> IF step = 0 THEN <<>>
                                               ELSE builder[c].hashes]
    BY <1>3 DEF To, BuildType
  <2>2. HashesRead(builder'[c])
    BY <1>3, <2>1
  <2> QED
    BY <1>0, <1>2, <1>3, <2>2, ToFacts
<1>4. CASE GenerateFirst(c)
  <2>1. To(c, IF Refused(c) THEN 0 ELSE 2) /\ UNCHANGED <<disk, changed>> /\ builder[c].at = 1
    BY <1>4 DEF GenerateFirst
  <2>2. PICK step \in {0, 2} : To(c, step)
    BY <2>1
  <2>3. builder[c].hashes = <<>>
    BY <1>1, <2>1 DEF HashesRead
  <2>4. HashesRead([at |-> step, hashes |-> IF step = 0 THEN <<>> ELSE builder[c].hashes])
    BY <2>2, <2>3 DEF HashesRead
  <2>5. DiskType' /\ changed' \in BOOLEAN
    BY <1>0, <2>1 DEF BuildType, DiskType
  <2> QED
    BY <1>3, <2>2, <2>4, <2>5
<1>5. CASE WriteArtifact(c)
  <2> DEFINE i == builder[c].at \div 2
             is == IF builder[c].at % 2 = 0 THEN "torn" ELSE "full"
             file == File(is, c, live)
             step == builder[c].at + 1
  <2>1. /\ builder[c].at \in 2..11
        /\ disk' = [disk EXCEPT ![Artifacts[i]] = file] /\ changed' = Begun
        /\ To(c, step)
    BY <1>5 DEF WriteArtifact, Writes
  <2>2. i \in 1..5 /\ step \in 3..12
    BY <2>1, HalfStep
  <2>3. file \in AnyFile(case.builds) /\ file.hashes = <<>>
    BY NewFile, ArtifactIsFile DEF BuildType
  <2>4. HashesRead([at |-> step, hashes |-> IF step = 0 THEN <<>> ELSE builder[c].hashes])
    <3>1. builder[c].hashes = <<>> /\ Len(builder[c].hashes) = 0
      BY <1>1, <2>1, EmptySeq DEF HashesRead
    <3> QED
      BY <2>2, <3>1 DEF HashesRead
  <2> HIDE DEF i, is, file, step
  <2>5. DiskType'
    <3>1. \A k \in 1..5 : Artifacts[k] \in Roles /\ Artifacts[k] # "manifest"
      BY RolesAre
    <3>2. /\ disk' \in [Roles -> AnyFile(case.builds)]
          /\ \A r \in Roles : disk'[r] = IF r = Artifacts[i] THEN file ELSE disk[r]
      BY <2>1, <2>3 DEF BuildType, DiskType
    <3>3. /\ \A k \in 1..5 : disk'[Artifacts[k]].hashes = <<>>
          /\ disk'["manifest"] = disk["manifest"]
      BY <2>2, <2>3, <3>1, <3>2, RolesAre DEF BuildType, DiskType
    <3> QED
      BY <1>0, <3>2, <3>3 DEF BuildType, DiskType
  <2>6. changed' \in BOOLEAN
    BY <2>1 DEF Begun
  <2> QED
    BY <1>3, <2>1, <2>2, <2>4, <2>5, <2>6
<1>6. CASE HashArtifact(c)
  <2> DEFINE file == disk[Artifacts[builder[c].at - 11]]
             hashes == Append(builder[c].hashes, file)
  <2>1. /\ builder[c].at \in 12..16 /\ UNCHANGED <<disk, changed>>
        /\ builder' = [builder EXCEPT ![c] = [at |-> builder[c].at + 1, hashes |-> hashes]]
    BY <1>6 DEF HashArtifact
  <2>2. /\ builder[c].hashes \in Seq(Artifact(case.builds))
        /\ Len(builder[c].hashes) = builder[c].at - 12
    BY <1>1, <2>1 DEF Builders, HashesRead
  <2>3. file \in Artifact(case.builds)
    <3>1. builder[c].at - 11 \in 1..5
      BY <2>1
    <3>2. file \in AnyFile(case.builds) /\ file.hashes = <<>>
      BY <3>1, RolesAre DEF BuildType, DiskType
    <3> QED
      BY <3>2, FileFields
  <2> HIDE DEF file
  <2>4. hashes \in Seq(Artifact(case.builds)) /\ Len(hashes) = builder[c].at + 1 - 12
    BY <2>1, <2>2, <2>3, AppendProperties
  <2> HIDE DEF hashes
  <2> DEFINE new == [at |-> builder[c].at + 1, hashes |-> hashes]
  <2>5. new \in Builders(case.builds) /\ HashesRead(new)
    <3>1. new.at = builder[c].at + 1 /\ new.hashes = hashes
      OBVIOUS
    <3>2. new \in Builders(case.builds)
      <4>1. builder[c].at + 1 \in 0..18
        BY <2>1
      <4> QED
        BY <2>4, <4>1, Zenon DEF Builders
    <3> HIDE DEF new
    <3>3. new.at \in 13..17 /\ Len(new.hashes) = new.at - 12
      BY <2>1, <2>4, <3>1
    <3>4. new.at \notin 1..11 /\ new.at # 18
      <4> DEFINE n == new.at
      <4>1. n \in 13..17
        BY <3>3
      <4> HIDE DEF n
      <4>2. n \notin 1..11 /\ n # 18
        BY <4>1
      <4> QED
        BY <4>2 DEF n
    <3> QED
      BY <3>2, <3>3, <3>4, Zenon DEF HashesRead
  <2> HIDE DEF new
  <2>6. /\ builder' \in [case.builds -> Builders(case.builds)]
        /\ \A d \in case.builds : d # c => builder'[d] = builder[d]
        /\ builder'[c] = new
    BY <2>1, <2>5 DEF BuildType, new
  <2>7. DiskType' /\ changed' \in BOOLEAN
    BY <1>0, <2>1 DEF BuildType, DiskType
  <2> QED
    BY <1>2, <2>5, <2>6, <2>7
<1>7. CASE WriteManifest(c)
  <2> DEFINE is == IF At(c, {17}) THEN "torn" ELSE "full"
             file == [File(is, c, live) EXCEPT !.hashes = builder[c].hashes]
  <2>1. /\ builder[c].at \in {17, 18}
        /\ disk' = [disk EXCEPT !["manifest"] = file] /\ changed' = Begun
        /\ To(c, IF builder[c].at = 17 THEN 18 ELSE 0)
    BY <1>7 DEF WriteManifest, Writes
  <2>2. builder[c].hashes \in Seq(Artifact(case.builds)) /\ Len(builder[c].hashes) = 5
    <3>1. builder[c].at = 17 => Len(builder[c].hashes) = 5
      <4> SUFFICES ASSUME builder[c].at = 17 PROVE Len(builder[c].hashes) = 5
        OBVIOUS
      <4>1. builder[c].at \in 12..17 /\ builder[c].at - 12 = 5
        OBVIOUS
      <4> QED
        BY <1>1, <4>1, Zenon DEF HashesRead
    <3>2. builder[c].at = 18 => Len(builder[c].hashes) = 5
      BY <1>1 DEF HashesRead
    <3>3. builder[c].hashes \in Seq(Artifact(case.builds))
      BY <1>1 DEF Builders
    <3> QED
      BY <2>1, <3>1, <3>2, <3>3
  <2>3. file \in AnyFile(case.builds) /\ file.hashes = builder[c].hashes
    <3>1. is \in {"torn", "full"} /\ live \in 0..1
      BY DEF BuildType
    <3> HIDE DEF is
    <3> QED
      BY <2>2, <3>1 DEF File, AnyFile, Files
  <2> HIDE DEF file, is
  <2>4. PICK step \in {0, 18} : To(c, step)
    BY <2>1
  <2>5. HashesRead([at |-> step, hashes |-> IF step = 0 THEN <<>> ELSE builder[c].hashes])
    BY <2>2, <2>4 DEF HashesRead
  <2>6. DiskType'
    <3>1. \A k \in 1..5 : Artifacts[k] \in Roles /\ Artifacts[k] # "manifest"
      BY RolesAre
    <3>2. /\ disk' \in [Roles -> AnyFile(case.builds)]
          /\ disk'["manifest"] = file
          /\ \A r \in Roles : r # "manifest" => disk'[r] = disk[r]
      BY <2>1, <2>3, RolesAre DEF BuildType, DiskType
    <3> QED
      BY <1>0, <2>2, <2>3, <3>1, <3>2 DEF BuildType, DiskType
  <2>7. changed' \in BOOLEAN
    BY <2>1 DEF Begun
  <2> QED
    BY <1>3, <2>4, <2>5, <2>6, <2>7
<1>8. CASE Crash(c)
  <2>1. To(c, 0) /\ UNCHANGED <<disk, changed>>
    BY <1>8 DEF Crash
  <2>2. HashesRead([at |-> 0, hashes |-> IF 0 = 0 THEN <<>> ELSE builder[c].hashes])
    BY DEF HashesRead
  <2>3. DiskType' /\ changed' \in BOOLEAN
    BY <1>0, <2>1 DEF BuildType, DiskType
  <2> QED
    BY <1>3, <2>1, <2>2, <2>3
<1> QED
  BY <1>4, <1>5, <1>6, <1>7, <1>8 DEF Build

-----------------------------------------------------------------------------
(* What an edit does to a file, and to the bundle.                          *)
Kept(f, g) == g.of = f.of /\ g.lock = f.lock /\ f.edits \subseteq g.edits

(* Each edit leaves a mark.                                                 *)
Mark(t) ==
  CASE t = "candidate" -> disk["request"].edits # {}
    [] t = "generated_source" -> disk["source"].edits # {}
    [] t = "artifact_delete" -> disk["certificate"].is = "absent"
    [] t = "artifact_mutate" -> disk["certificate"].edits # {}
    [] t = "manifest" -> "source" \in disk["manifest"].edits
    [] t \in {"generator_version", "capability_id"} -> "generator" \in disk["manifest"].edits
    [] t = "declaration_identity" -> "name" \in disk["identity"].edits
    [] t = "toolchain_lock" -> "lock" \in disk["manifest"].edits

EditedDisk ==
  /\ disk' \in [Roles -> AnyFile(case.builds)]
  /\ \A r \in Roles : Kept(disk[r], disk'[r])
  /\ \A i \in 1..5 : disk'[Artifacts[i]].hashes = <<>>
  /\ Len(disk'["manifest"].hashes) = 5
  /\ \A i \in 1..4 : disk'["manifest"].hashes[i] = disk["manifest"].hashes[i]

LEMMA EditedFile ==
  ASSUME NEW B, NEW f \in AnyFile(B), NEW w \in Marks,
         NEW g, g = [f EXCEPT !.edits = @ \cup {w}]
  PROVE  /\ g \in AnyFile(B) /\ Kept(f, g) /\ g.hashes = f.hashes /\ g.is = f.is
         /\ w \in g.edits
BY DEF AnyFile, Files, Kept

LEMMA OneEdit ==
  ASSUME DiskType, NEW r \in Roles, NEW g \in AnyFile(case.builds),
         Kept(disk[r], g), g.hashes = disk[r].hashes,
         Len(disk["manifest"].hashes) = 5,
         disk' = [disk EXCEPT ![r] = g]
  PROVE  EditedDisk
<1>1. /\ disk' \in [Roles -> AnyFile(case.builds)]
      /\ disk'[r] = g /\ \A q \in Roles : q # r => disk'[q] = disk[q]
  BY DEF DiskType
<1>2. \A q \in Roles : Kept(disk[q], disk'[q]) /\ disk'[q].hashes = disk[q].hashes
  BY <1>1 DEF Kept
<1>3. "manifest" \in Roles /\ \A i \in 1..5 : Artifacts[i] \in Roles
  BY RolesAre
<1> QED
  BY <1>1, <1>2, <1>3 DEF EditedDisk, DiskType

LEMMA FunctionIsSeq ==
  ASSUME NEW S, NEW n \in Nat, NEW s \in [1..n -> S]
  PROVE  s \in Seq(S) /\ Len(s) = n
OBVIOUS
LEMMA FifthReplaced ==
  ASSUME NEW S, NEW s \in Seq(S), Len(s) = 5, NEW e \in S
  PROVE  /\ [s EXCEPT ![5] = e] \in Seq(S) /\ Len([s EXCEPT ![5] = e]) = 5
         /\ \A i \in 1..4 : [s EXCEPT ![5] = e][i] = s[i]
<1> DEFINE t == [s EXCEPT ![5] = e]
<1>1. s \in [1..5 -> S]
  BY LenProperties
<1>2. t \in [1..5 -> S] /\ \A i \in 1..4 : t[i] = s[i]
  BY <1>1
<1> HIDE DEF t
<1>3. t \in Seq(S) /\ Len(t) = 5
  BY <1>2, FunctionIsSeq
<1> QED
  BY <1>2, <1>3 DEF t

(* The edited identity and its hash in the manifest.                        *)
LEMMA IdentityEdit ==
  ASSUME DiskType, Len(disk["manifest"].hashes) = 5,
         disk' = [[disk EXCEPT !["identity"].edits = @ \cup {"name"}]
                    EXCEPT !["manifest"].hashes[5].edits = {"name"}]
  PROVE  /\ EditedDisk /\ "name" \in disk'["identity"].edits
         /\ \A r \in Roles : disk'[r].is = disk[r].is
<1> DEFINE B == case.builds
           m == disk["manifest"]
           listed == [m.hashes[5] EXCEPT !.edits = {"name"}]
           list == [m.hashes EXCEPT ![5] = listed]
           new == [m EXCEPT !.hashes = list]
           identity == [disk["identity"] EXCEPT !.edits = @ \cup {"name"}]
<1>1. "manifest" \in Roles /\ "identity" \in Roles /\ Artifacts[5] = "identity"
  BY RolesAre
<1>2. m \in AnyFile(B) /\ disk["identity"] \in AnyFile(B)
  BY <1>1 DEF DiskType
<1>3. m.hashes \in Seq(Artifact(B)) /\ Len(m.hashes) = 5
  BY <1>2, FileFields
<1>4. m.hashes[5] \in Artifact(B)
  BY <1>3, ElementOfSeq
<1>5. listed \in Artifact(B)
  BY <1>4 DEF Artifact, Files, Marks
<1> HIDE DEF listed
<1>6. /\ list \in Seq(Artifact(B)) /\ Len(list) = 5
      /\ \A i \in 1..4 : list[i] = m.hashes[i]
  BY <1>3, <1>5, FifthReplaced
<1> HIDE DEF list
<1>7. new \in AnyFile(B) /\ new.hashes = list /\ Kept(m, new) /\ new.is = m.is
  BY <1>2, <1>6 DEF AnyFile, Files, Kept
<1>8. /\ identity \in AnyFile(B) /\ Kept(disk["identity"], identity)
      /\ "name" \in identity.edits /\ identity.is = disk["identity"].is
      /\ identity.hashes = disk["identity"].hashes
  <2>1. "name" \in Marks
    BY DEF Marks
  <2> QED
    BY <1>2, <2>1, EditedFile
<1>9. disk' = [disk EXCEPT !["identity"] = identity, !["manifest"] = new]
  BY <1>1 DEF DiskType, new, list, listed, identity
<1> HIDE DEF new, identity
<1>10. /\ disk' \in [Roles -> AnyFile(B)]
       /\ disk'["identity"] = identity /\ disk'["manifest"] = new
       /\ \A r \in Roles : r \notin {"identity", "manifest"} => disk'[r] = disk[r]
  BY <1>1, <1>7, <1>8, <1>9 DEF DiskType
<1>11. \A r \in Roles : Kept(disk[r], disk'[r]) /\ disk'[r].is = disk[r].is
  BY <1>7, <1>8, <1>10 DEF Kept
<1>12. \A i \in 1..5 : disk'[Artifacts[i]].hashes = disk[Artifacts[i]].hashes
  <2>1. \A i \in 1..5 : Artifacts[i] \in Roles /\ Artifacts[i] # "manifest"
    BY RolesAre
  <2> QED
    BY <1>8, <1>10, <2>1
<1> QED
  BY <1>6, <1>7, <1>8, <1>10, <1>11, <1>12 DEF EditedDisk, DiskType

LEMMA EditFacts ==
  ASSUME BuildType, NEW t \in case.tampers, Tamper(t)
  PROVE  /\ EditedDisk
         /\ disk' = disk \/ Mark(t)'
         /\ \A r \in Roles : disk'[r].is = "full" \/ t = "artifact_delete"
<1>1. /\ \A r \in Roles : disk[r].is = "full"
      /\ disk' = Edit(t) /\ disk \in [Roles -> AnyFile(case.builds)] /\ DiskType
  BY DEF Tamper, BuildType, DiskType
<1>2. t \in Tampers /\ \A w \in {"semantic", "ignored", "text", "source", "generator",
                                 "name", "lock"} : w \in Marks
  BY CasesAssumption DEF BuildType, Marks
<1>3. /\ "manifest" \in Roles /\ "request" \in Roles /\ "certificate" \in Roles
      /\ "source" \in Roles /\ "identity" \in Roles
  BY RolesAre
<1>4. Len(disk["manifest"].hashes) = 5
  BY <1>1, <1>3 DEF DiskType
<1>5. disk = [r \in Roles |-> disk[r]]
  BY <1>1
<1>6. ASSUME NEW r \in Roles, NEW w \in Marks,
             disk' = [disk EXCEPT ![r].edits = @ \cup {w}]
      PROVE  /\ EditedDisk /\ w \in disk'[r].edits
             /\ \A q \in Roles : disk'[q].is = "full"
  <2> DEFINE g == [disk[r] EXCEPT !.edits = @ \cup {w}]
  <2>1. disk' = [disk EXCEPT ![r] = g] /\ disk[r] \in AnyFile(case.builds)
    BY <1>1, <1>6
  <2>2. /\ g \in AnyFile(case.builds) /\ Kept(disk[r], g) /\ g.hashes = disk[r].hashes
        /\ g.is = disk[r].is /\ w \in g.edits
    BY <2>1, EditedFile
  <2> HIDE DEF g
  <2> QED
    BY <1>1, <1>4, <2>1, <2>2, OneEdit
<1>7. CASE t = "candidate"
  <2>1. PICK w \in {"semantic", "ignored"} : disk' = [disk EXCEPT !["request"].edits = @ \cup {w}]
    BY <1>1, <1>5, <1>7 DEF Edit
  <2> QED
    BY <1>2, <1>3, <1>6, <1>7, <2>1 DEF Mark
<1>8. CASE t = "generated_source"
  <2>1. disk' = [disk EXCEPT !["source"].edits = @ \cup {"text"}]
    BY <1>1, <1>5, <1>8 DEF Edit
  <2> QED
    BY <1>2, <1>3, <1>6, <1>8, <2>1 DEF Mark
<1>9. CASE t = "artifact_delete"
  <2> DEFINE g == [disk["certificate"] EXCEPT !.is = "absent"]
  <2>1. disk' = [disk EXCEPT !["certificate"] = g]
    BY <1>1, <1>5, <1>9 DEF Edit
  <2>2. /\ g \in AnyFile(case.builds) /\ Kept(disk["certificate"], g)
        /\ g.hashes = disk["certificate"].hashes /\ g.is = "absent"
    <3>1. disk["certificate"] \in AnyFile(case.builds)
      BY <1>1, <1>3
    <3> QED
      BY <3>1 DEF AnyFile, Files, Kept
  <2> HIDE DEF g
  <2>3. EditedDisk /\ disk'["certificate"].is = "absent"
    BY <1>1, <1>3, <1>4, <2>1, <2>2, OneEdit
  <2> QED
    BY <1>9, <2>3 DEF Mark
<1>10. CASE t = "artifact_mutate"
  <2>1. disk' = [disk EXCEPT !["certificate"].edits = @ \cup {"ignored"}]
    BY <1>1, <1>5, <1>10 DEF Edit
  <2> QED
    BY <1>2, <1>3, <1>6, <1>10, <2>1 DEF Mark
<1>11. CASE t = "manifest"
  <2>1. disk' = [disk EXCEPT !["manifest"].edits = @ \cup {"source"}]
    BY <1>1, <1>5, <1>11 DEF Edit
  <2> QED
    BY <1>2, <1>3, <1>6, <1>11, <2>1 DEF Mark
<1>12. CASE t = "generator_version"
  <2>1. disk' = [disk EXCEPT !["manifest"].edits = @ \cup {"generator"}]
    BY <1>1, <1>5, <1>12 DEF Edit
  <2> QED
    BY <1>2, <1>3, <1>6, <1>12, <2>1 DEF Mark
<1>13. CASE t = "declaration_identity"
  <2>1. disk' = [[disk EXCEPT !["identity"].edits = @ \cup {"name"}]
                   EXCEPT !["manifest"].hashes[5].edits = {"name"}]
    BY <1>1, <1>5, <1>13 DEF Edit
  <2> QED
    BY <1>1, <1>4, <1>13, <2>1, IdentityEdit DEF Mark
<1>14. CASE t = "toolchain_lock"
  <2>1. disk' = [disk EXCEPT !["manifest"].edits = @ \cup {"lock"}]
    BY <1>1, <1>5, <1>14 DEF Edit
  <2> QED
    BY <1>2, <1>3, <1>6, <1>14, <2>1 DEF Mark
<1>15. CASE t = "capability_id"
  <2>1. \/ disk' = disk
        \/ disk' = [disk EXCEPT !["manifest"].edits = @ \cup {"generator"}]
    BY <1>1, <1>5, <1>15 DEF Edit
  <2>2. CASE disk' = disk
    <3>1. EditedDisk
      BY <1>1, <1>4, <2>2 DEF EditedDisk, Kept, DiskType
    <3> QED
      BY <1>1, <2>2, <3>1
  <2>3. CASE disk' = [disk EXCEPT !["manifest"].edits = @ \cup {"generator"}]
    BY <1>2, <1>3, <1>6, <1>15, <2>3 DEF Mark
  <2> QED
    BY <2>1, <2>2, <2>3
<1> QED
  BY <1>2, <1>7, <1>8, <1>9, <1>10, <1>11, <1>12, <1>13, <1>14, <1>15 DEF Tampers

LEMMA TamperType ==
  ASSUME BuildType, NEW t \in case.tampers, Tamper(t)
  PROVE  BuildType'
<1>1. /\ UNCHANGED <<case, live, builder>> /\ edited' \in {edited, edited \cup {t}}
      /\ changed' = (changed \/ (Begun /\ disk' # disk))
  BY DEF Tamper
<1>2. EditedDisk
  BY EditFacts
<1>3. DiskType'
  BY <1>1, <1>2 DEF EditedDisk, DiskType
<1>4. edited' \subseteq case.tampers /\ changed' \in BOOLEAN
  BY <1>1 DEF BuildType
<1> QED
  BY <1>1, <1>3, <1>4 DEF BuildType

LEMMA AdvanceType ==
  ASSUME BuildType, Advance
  PROVE  BuildType'
<1>1. /\ UNCHANGED <<case, disk, builder, edited>> /\ live' = 1 /\ changed' = Begun
  BY DEF Advance
<1>2. live' \in 0..1 /\ changed' \in BOOLEAN
  BY <1>1 DEF Begun
<1> QED
  BY <1>1, <1>2 DEF BuildType, DiskType

-----------------------------------------------------------------------------
(***************************************************************************)
(* What the steps of a replay do: each passes its check, or ends the replay.*)
(***************************************************************************)
LoadOrder == <<"request", "certificate", "toolchain", "identity", "source">>

LEMMA ReadsAre ==
  /\ \A i, j \in 1..11 : Reads[i] = Reads[j] => i = j
  /\ \A i \in 1..11 : Reads[i] \notin {"idle", "end", "manifest", "generator"} \cup Sourced
  /\ Reads[11] = "source"
<1>1. /\ Reads[1] = "hash 1" /\ Reads[2] = "hash 2" /\ Reads[3] = "hash 3"
      /\ Reads[4] = "hash 4" /\ Reads[5] = "hash 5" /\ Reads[6] = "load 1"
      /\ Reads[7] = "load 2" /\ Reads[8] = "load 3" /\ Reads[9] = "load 4"
      /\ Reads[10] = "load 5" /\ Reads[11] = "source"
  BY DEF Reads
<1>2. \A i \in 1..11 : i \in {1, 2, 3, 4, 5, 6, 7, 8, 9, 10, 11}
  OBVIOUS
<1>3. \A i \in 1..11 : Reads[i] \in {"hash 1", "hash 2", "hash 3", "hash 4", "hash 5", "load 1",
                                    "load 2", "load 3", "load 4", "load 5", "source"}
  BY <1>1, <1>2
<1> DEFINE Place(s) == CASE s = "hash 1" -> 1 [] s = "hash 2" -> 2 [] s = "hash 3" -> 3
                        [] s = "hash 4" -> 4 [] s = "hash 5" -> 5 [] s = "load 1" -> 6
                        [] s = "load 2" -> 7 [] s = "load 3" -> 8 [] s = "load 4" -> 9
                        [] s = "load 5" -> 10 [] s = "source" -> 11
<1>4. \A i \in {1, 2, 3, 4, 5, 6, 7, 8, 9, 10, 11} : Place(Reads[i]) = i
  BY <1>1
<1> HIDE DEF Place
<1>5. \A i, j \in 1..11 : Reads[i] = Reads[j] => i = j
  BY <1>2, <1>4
<1> QED
  BY <1>1, <1>3, <1>5 DEF Sourced, Last

LEMMA LoadOrderIs ==
  /\ \A i \in 1..5 : LoadOrder[i] \in Roles \ {"manifest"} /\ (LoadOrder[i] = "source" <=> i = 5)
  /\ \A r \in Roles : r # "manifest" => \E i \in 1..5 : r = LoadOrder[i]
  /\ \A i, j \in 1..5 : LoadOrder[i] = LoadOrder[j] => i = j
  /\ LoadOrder[1] = "request" /\ LoadOrder[2] = "certificate"
  /\ LoadOrder[3] = "toolchain" /\ LoadOrder[4] = "identity" /\ LoadOrder[5] = "source"
<1>1. /\ LoadOrder[1] = "request" /\ LoadOrder[2] = "certificate" /\ LoadOrder[3] = "toolchain"
      /\ LoadOrder[4] = "identity" /\ LoadOrder[5] = "source"
  BY DEF LoadOrder
<1>2. 1..5 = {1, 2, 3, 4, 5}
  OBVIOUS
<1> QED
  BY <1>1, <1>2, RolesAre

SourceHolds(s, m) ==
  s.is = "full" /\ s.edits = {} /\ "source" \notin m.edits /\ BoundTo(s) = BoundTo(m)

RegeneratedFrom(request, certificate, m) ==
  IF ~Generates(request, certificate) THEN "raised"
  ELSE IF Source(request, certificate, m.of) # BoundTo(m) THEN "tamper_detected" ELSE "none"

LockOf(m) == IF "lock" \in m.edits THEN 2 ELSE m.lock
LockHolds(m, toolchain) ==
  IF case.live THEN LockOf(m) = live ELSE LockOf(m) = toolchain.lock

Whole(r) == disk[r].is = "full"
AllThere == case.offline /\ \A r \in Roles : disk[r].is # "absent"
HashHolds(i) == disk[Artifacts[i]] = disk["manifest"].hashes[i]

LoadedSource == SourceHolds(held["source"], held["manifest"])
LoadedPair ==
  RegeneratedFrom(held["request"], held["certificate"], held["manifest"]) = "none"

Still == UNCHANGED <<case, bundleVars, boundedVars>>
Passes(from, to) == pc = from /\ pc' = to /\ UNCHANGED <<mode, held, lean, results>>
Reaches(from, to, r) ==
  /\ pc = from /\ pc' = to /\ held' = [held EXCEPT ![r] = disk[r]]
  /\ UNCHANGED <<mode, lean, results>>
Fails(from, outcome) == pc = from /\ Ends(outcome)

(* A check with one refusal.                                                *)
LEMMA CheckSteps ==
  ASSUME NEW from, NEW to, NEW ok \in BOOLEAN, NEW refusal \in Outcomes,
         Check(from, to, IF ok THEN "none" ELSE refusal)
  PROVE  Still /\ ((ok /\ Passes(from, to)) \/ (~ok /\ Fails(from, refusal)))
<1>1. refusal # "none"
  BY DEF Outcomes
<1>2. Still
  BY DEF Check, Still
<1>3. CASE ok
  <2>1. Check(from, to, "none")
    BY <1>3
  <2>2. Passes(from, to)
    BY <2>1 DEF Check, Passes
  <2> QED
    BY <1>2, <1>3, <2>2
<1>4. CASE ~ok
  <2>1. Check(from, to, refusal)
    BY <1>4
  <2>2. Fails(from, refusal)
    BY <1>1, <2>1 DEF Check, Fails
  <2> QED
    BY <1>2, <1>4, <2>2
<1> QED
  BY <1>3, <1>4

LEMMA FetchSteps ==
  ASSUME NEW from, NEW to, NEW r \in Roles, Fetch(from, to, r)
  PROVE  Still /\ \/ (r # "source" => Whole(r)) /\ Reaches(from, to, r)
                  \/ /\ ~Whole(r) /\ (r = "source" => disk[r].is # "torn")
                     /\ Fails(from, "raised")
BY DEF Fetch, Still, Reaches, Fails, Whole

LEMMA OpenSteps ==
  ASSUME Open
  PROVE  Still /\ \/ AllThere /\ Passes("idle", "manifest")
                  \/ ~AllThere /\ Fails("idle", "setup_integrity_error")
<1> DEFINE checks == << <<case.offline, "setup_integrity_error">>,
                        <<\A r \in Roles : disk[r].is # "absent", "setup_integrity_error">> >>
           failed == {i \in DOMAIN checks : ~checks[i][1]}
<1>1. Check("idle", "manifest", First(checks))
  BY DEF Open
<1>2. /\ DOMAIN checks = {1, 2}
      /\ checks[1][1] <=> case.offline
      /\ checks[2][1] <=> \A r \in Roles : disk[r].is # "absent"
      /\ \A i \in {1, 2} : checks[i][2] = "setup_integrity_error"
  OBVIOUS
<1>3. First(checks) = IF failed = {} THEN "none"
                      ELSE checks[CHOOSE i \in failed : \A j \in failed : i <= j][2]
  BY DEF First
<1>4. failed = {} <=> AllThere
  BY <1>2 DEF AllThere
<1>5. failed # {} => (CHOOSE i \in failed : \A j \in failed : i <= j) \in {1, 2}
  <2>1. failed \subseteq {1, 2}
    BY <1>2
  <2> HIDE DEF failed
  <2>2. failed # {} => \E i \in failed : \A j \in failed : i <= j
    <3>1. 1 \in failed => \A j \in failed : 1 <= j
      BY <2>1
    <3>2. 1 \notin failed => \A j \in failed : 2 <= j
      BY <2>1
    <3> QED
      BY <2>1, <3>1, <3>2
  <2> QED
    BY <2>1, <2>2
<1> HIDE DEF failed, checks
<1>6. First(checks) = IF AllThere THEN "none" ELSE "setup_integrity_error"
  BY <1>2, <1>3, <1>4, <1>5
<1>7. AllThere \in BOOLEAN /\ "setup_integrity_error" \in Outcomes
  BY DEF AllThere, Outcomes
<1> QED
  BY <1>1, <1>6, <1>7, CheckSteps

LEMMA GeneratorSteps ==
  ASSUME CheckGenerator
  PROVE  Still /\ \/ "generator" \notin held["manifest"].edits /\ Passes("generator", Reads[1])
                  \/ /\ "generator" \in held["manifest"].edits
                     /\ Fails("generator", "tamper_detected")
<1> DEFINE ok == "generator" \notin held["manifest"].edits
<1>1. Check("generator", Reads[1], IF ok THEN "none" ELSE "tamper_detected")
  BY DEF CheckGenerator
<1>2. ok \in BOOLEAN /\ "tamper_detected" \in Outcomes
  BY DEF Outcomes
<1> QED
  BY <1>1, <1>2, CheckSteps

LEMMA HashSteps ==
  ASSUME VerifyHash
  PROVE  Still /\ \E i \in 1..5 :
            \/ /\ disk[Artifacts[i]] = held["manifest"].hashes[i]
               /\ Passes(Reads[i], Reads[i + 1])
            \/ /\ disk[Artifacts[i]] # held["manifest"].hashes[i]
               /\ Fails(Reads[i], "tamper_detected")
<1>1. PICK i \in 1..5 :
        Check(Reads[i], Reads[i + 1],
              IF disk[Artifacts[i]] = held["manifest"].hashes[i] THEN "none"
              ELSE "tamper_detected")
  BY DEF VerifyHash
<1>2. (disk[Artifacts[i]] = held["manifest"].hashes[i]) \in BOOLEAN
      /\ "tamper_detected" \in Outcomes
  BY DEF Outcomes
<1> QED
  BY <1>1, <1>2, CheckSteps

LEMMA LoadSteps ==
  ASSUME Load
  PROVE  Still /\ \E i \in 1..5 :
            \/ /\ i # 5 => Whole(LoadOrder[i])
               /\ Reaches(Reads[i + 5], Reads[i + 6], LoadOrder[i])
            \/ /\ ~Whole(LoadOrder[i]) /\ (i = 5 => disk[LoadOrder[i]].is # "torn")
               /\ Fails(Reads[i + 5], "raised")
<1>1. PICK i \in 1..5 : Fetch(Reads[i + 5], Reads[i + 6], LoadOrder[i])
  BY DEF Load, LoadOrder
<1> QED
  BY <1>1, FetchSteps, LoadOrderIs

LEMMA SourceSteps ==
  ASSUME CheckSource
  PROVE  Still /\ \/ LoadedSource /\ Passes("source", "toolchain")
                  \/ ~LoadedSource /\ Fails("source", "tamper_detected")
<1>1. Check("source", "toolchain", IF LoadedSource THEN "none" ELSE "tamper_detected")
  BY DEF CheckSource, LoadedSource, SourceHolds
<1>2. LoadedSource \in BOOLEAN /\ "tamper_detected" \in Outcomes
  BY DEF LoadedSource, SourceHolds, Outcomes
<1> QED
  BY <1>1, <1>2, CheckSteps

LEMMA ToolchainSteps ==
  ASSUME CheckToolchain
  PROVE  LET holds == LockHolds(held["manifest"], held["toolchain"])
         IN Still /\ \/ holds /\ Passes("toolchain", "identity")
                     \/ /\ ~holds
                        /\ Fails("toolchain", IF case.live THEN "setup_integrity_error"
                                              ELSE "tamper_detected")
<1> DEFINE holds == LockHolds(held["manifest"], held["toolchain"])
           refusal == IF case.live THEN "setup_integrity_error" ELSE "tamper_detected"
<1>1. Check("toolchain", "identity", IF holds THEN "none" ELSE refusal)
  BY DEF CheckToolchain, LockHolds, LockOf, ManifestLock
<1>2. holds \in BOOLEAN /\ refusal \in Outcomes
  BY DEF Outcomes, LockHolds
<1> QED
  BY <1>1, <1>2, CheckSteps

LEMMA IdentitySteps ==
  ASSUME CheckIdentity
  PROVE  Still /\ \/ "name" \notin held["identity"].edits /\ Passes("identity", "regenerate")
                  \/ "name" \in held["identity"].edits /\ Fails("identity", "tamper_detected")
<1> DEFINE ok == "name" \notin held["identity"].edits
<1>1. Check("identity", "regenerate", IF ok THEN "none" ELSE "tamper_detected")
  BY DEF CheckIdentity
<1>2. ok \in BOOLEAN /\ "tamper_detected" \in Outcomes
  BY DEF Outcomes
<1> QED
  BY <1>1, <1>2, CheckSteps

LEMMA RegenerateSteps ==
  ASSUME Regenerate
  PROVE  LET pair == RegeneratedFrom(held["request"], held["certificate"], held["manifest"])
         IN Still /\ \/ LoadedPair /\ Passes("regenerate", "manifest_hash")
                     \/ /\ ~LoadedPair /\ pair \in {"raised", "tamper_detected"}
                        /\ Fails("regenerate", pair)
<1> DEFINE pair == RegeneratedFrom(held["request"], held["certificate"], held["manifest"])
<1>1. Check("regenerate", "manifest_hash", pair)
  BY DEF Regenerate, Regenerated, RegeneratedFrom
<1>2. pair \in {"none", "raised", "tamper_detected"} /\ (LoadedPair <=> pair = "none")
  BY DEF RegeneratedFrom, LoadedPair
<1> HIDE DEF pair
<1>3. Still
  BY <1>1 DEF Check, Still
<1>4. CASE pair = "none"
  <2>1. LoadedPair /\ Passes("regenerate", "manifest_hash")
    BY <1>1, <1>2, <1>4 DEF Check, Passes
  <2> QED
    BY <1>3, <2>1
<1>5. CASE pair # "none"
  <2>1. ~LoadedPair /\ pair \in {"raised", "tamper_detected"} /\ Fails("regenerate", pair)
    BY <1>1, <1>2, <1>5 DEF Check, Fails
  <2> QED
    BY <1>3, <2>1 DEF pair
<1> QED
  BY <1>4, <1>5

LEMMA ManifestHashSteps ==
  ASSUME HashManifest
  PROVE  Still /\ \/ disk["manifest"].is # "absent" /\ Passes("manifest_hash", "lean")
                  \/ disk["manifest"].is = "absent" /\ Fails("manifest_hash", "raised")
<1> DEFINE ok == disk["manifest"].is # "absent"
<1>1. Check("manifest_hash", "lean", IF ok THEN "none" ELSE "raised")
  BY DEF HashManifest
<1>2. ok \in BOOLEAN /\ "raised" \in Outcomes
  BY DEF Outcomes
<1> QED
  BY <1>1, <1>2, CheckSteps

LEMMA StartSteps ==
  ASSUME StartLean
  PROVE  Still /\ \/ \E o \in {"theorem_pending", "setup_integrity_error"} :
                       /\ o = "setup_integrity_error" => case.lean = "required"
                       /\ Fails("lean", o)
                  \/ /\ pc = "lean" /\ pc' = "inspect" /\ lean' = "build"
                     /\ UNCHANGED <<mode, held, results>>
BY DEF StartLean, Still, Fails, Deferred, Goto

(* The processes of Lean.                                                   *)
LEMMA WaitSteps ==
  ASSUME RunLean
  PROVE  /\ pc = "inspect" /\ UNCHANGED <<case, bundleVars, replayVars>>
         /\ waiter' = "done" /\ answer' \in Ran => child' = "exited" /\ answer' \in Codes
<1>1. pc = "inspect" /\ Wait(Codes) /\ UNCHANGED <<case, bundleVars, replayVars>>
  BY DEF RunLean
<1>2. CASE Spawn
  BY <1>1, <1>2 DEF Spawn, Answered, Ran
<1>3. CASE Communicated(Codes)
  BY <1>1, <1>3 DEF Communicated, Answered, Ran
<1>4. CASE FirstTimeout \/ SecondTimeout
  BY <1>1, <1>4 DEF FirstTimeout, SecondTimeout
<1>5. CASE ThirdTimeout
  BY <1>1, <1>5 DEF ThirdTimeout, Answered, Ran
<1> QED
  BY <1>1, <1>2, <1>3, <1>4, <1>5 DEF Wait

LEMMA ProcessSteps ==
  ASSUME LeanProcesses
  PROVE  /\ UNCHANGED <<case, bundleVars, replayVars, waiter, answer>>
         /\ child = "exited" => child' = "exited"
<1>1. Processes /\ UNCHANGED <<case, bundleVars, replayVars>>
  BY DEF LeanProcesses
<1>2. UNCHANGED <<waiter, answer>> /\ (child = "exited" => child' = "exited")
  BY <1>1 DEF Processes, Fork, ChildExits, HelperExits
<1> QED
  BY <1>1, <1>2

LEMMA AnswerSteps ==
  ASSUME LeanAnswers
  PROVE  /\ pc = "inspect" /\ waiter = "done" /\ UNCHANGED <<case, bundleVars>>
         /\ waiter' = "idle"
         /\ \/ answer # "zero" /\ Fails("inspect", FailureOf(answer))
            \/ /\ answer = "zero" /\ lean = "inspect"
               /\ \E o \in {"theorem_proved", "theorem_failure"} : Fails("inspect", o)
            \/ /\ answer = "zero" /\ lean # "inspect" /\ lean' \in {"compile", "inspect"}
               /\ UNCHANGED <<pc, mode, held, results>>
<1>1. /\ pc = "inspect" /\ waiter = "done" /\ UNCHANGED <<case, bundleVars>>
      /\ waiter' = "idle"
  BY DEF LeanAnswers
<1>2. IF answer # "zero" THEN Ends(FailureOf(answer))
      ELSE IF lean = "inspect" THEN \E o \in {"theorem_proved", "theorem_failure"} : Ends(o)
      ELSE /\ lean' = IF lean = "build" THEN "compile" ELSE "inspect"
           /\ UNCHANGED <<pc, mode, held, results>>
  BY DEF LeanAnswers
<1> QED
  BY <1>1, <1>2 DEF Fails

-----------------------------------------------------------------------------
(* A replay that ends, or goes on, keeps its types.                         *)
LEMMA EndsType ==
  ASSUME TypeInv, pc # "end", NEW o \in Outcomes, Ends(o), UNCHANGED case, waiter' = "idle"
  PROVE  /\ ReplayType'
         /\ results' = Append(results, o) /\ results' # <<>>
         /\ Len(results') = Len(results) + 1
         /\ results'[Len(results')] = o
         /\ \A i \in 1..Len(results) : results'[i] = results[i]
<1>1. /\ results' = Append(results, o) /\ pc' = (IF mode = 1 THEN "idle" ELSE "end")
      /\ mode' = (IF mode = 1 THEN 2 ELSE mode) /\ held' = held
  BY DEF Ends
<1>2. /\ results \in Seq(Outcomes) /\ mode \in {1, 2} /\ Len(results) = mode - 1
      /\ held \in [Roles -> AnyFile(case.builds)]
  BY DEF TypeInv, ReplayType
<1>3. /\ results' \in Seq(Outcomes) /\ Len(results') = Len(results) + 1
      /\ results'[Len(results) + 1] = o
      /\ \A i \in 1..Len(results) : results'[i] = results[i]
  BY <1>1, <1>2, AppendProperties
<1>4. results' # <<>>
  BY <1>2, <1>3, EmptySeq
<1>5. Len(results') = (IF pc' = "end" THEN 2 ELSE mode' - 1) /\ mode' \in {1, 2}
  BY <1>1, <1>2, <1>3
<1>6. pc' \in {"idle", "end"} /\ (pc' = "end" => mode' = 2)
  BY <1>1, <1>2
<1>7. ReplayType'
  BY <1>1, <1>2, <1>3, <1>5, <1>6 DEF ReplayType
<1> QED
  BY <1>1, <1>3, <1>4, <1>7

LEMMA GoesOnType ==
  ASSUME TypeInv, pc \notin {"end", "inspect"}, pc' \in Steps,
         pc' = "inspect" => lean' = "build",
         held' \in [Roles -> AnyFile(case.builds)],
         UNCHANGED <<mode, results>>, Still
  PROVE  ReplayType'
<1>1. UNCHANGED <<case, waiter, answer, child, mode, results>> /\ waiter = "idle"
  BY DEF Still, boundedVars, TypeInv, ReplayType
<1>2. pc' # "end"
  BY ReadsAre DEF Steps, Named, Read, Sourced, Last
<1> QED
  BY <1>1, <1>2 DEF TypeInv, ReplayType

LEMMA PassType ==
  ASSUME TypeInv, Still, NEW from, NEW to, from \notin {"end", "inspect"},
         to \in Steps \ {"inspect"}, Passes(from, to)
  PROVE  ReplayType'
BY GoesOnType DEF Passes, TypeInv, ReplayType

LEMMA ReachType ==
  ASSUME TypeInv, Still, NEW from, NEW to, NEW r \in Roles, from \notin {"end", "inspect"},
         to \in Steps \ {"inspect"}, Reaches(from, to, r)
  PROVE  ReplayType'
<1>1. disk[r] \in AnyFile(case.builds) /\ held \in [Roles -> AnyFile(case.builds)]
  BY DEF TypeInv, BuildType, DiskType, ReplayType
<1>2. held' \in [Roles -> AnyFile(case.builds)]
  BY <1>1 DEF Reaches
<1> QED
  BY <1>2, GoesOnType DEF Reaches

LEMMA FailType ==
  ASSUME TypeInv, Still, NEW from, NEW o \in Outcomes, from \notin {"end", "inspect"},
         Fails(from, o)
  PROVE  ReplayType'
<1>1. pc # "end" /\ Ends(o) /\ UNCHANGED case /\ waiter' = "idle"
  BY DEF Fails, Still, boundedVars, TypeInv, ReplayType
<1> QED
  BY <1>1, EndsType

LEMMA StepsAre ==
  /\ Steps \cap {"idle", "end"} = {}
  /\ {"manifest", "generator", "toolchain", "identity", "regenerate", "manifest_hash",
      "lean", "inspect", "source"} \subseteq Steps
  /\ \A i \in 1..11 : Reads[i] \in Steps \ {"end", "inspect", "idle"}
<1>1. \A i \in 1..11 : Reads[i] \notin {"idle", "end", "inspect"}
  BY ReadsAre DEF Sourced, Last
<1>2. "source" \in Steps
  BY ReadsAre DEF Steps, Named, Read
<1> QED
  BY <1>1, <1>2 DEF Steps, Named, Read, Sourced, Last

LEMMA OutcomesAre ==
  /\ \A o \in {"setup_integrity_error", "tamper_detected", "raised", "theorem_pending",
               "theorem_proved", "theorem_failure"} : o \in Outcomes
  /\ \A code : FailureOf(code) \in Outcomes \ {"theorem_proved"}
BY DEF Outcomes, FailureOf, Deferred

LEMMA ReplayStepType ==
  ASSUME TypeInv, Replay
  PROVE  ReplayType' /\ UNCHANGED <<case, bundleVars>>
<1> USE StepsAre, OutcomesAre
<1>1. ASSUME Still PROVE UNCHANGED <<case, bundleVars>>
  BY <1>1 DEF Still
<1>2. CASE Open
  BY <1>1, <1>2, OpenSteps, PassType, FailType
<1>3. CASE LoadManifest
  <2>1. "manifest" \in Roles
    BY RolesAre
  <2> QED
    BY <1>1, <1>3, <2>1, FetchSteps, ReachType, FailType DEF LoadManifest
<1>4. CASE CheckGenerator
  <2>1. 1 \in 1..11
    OBVIOUS
  <2> QED
    BY <1>1, <1>4, <2>1, GeneratorSteps, PassType, FailType
<1>5. CASE VerifyHash
  <2>1. PICK i \in 1..5 : Still /\ \/ Passes(Reads[i], Reads[i + 1])
                                   \/ Fails(Reads[i], "tamper_detected")
    BY <1>5, HashSteps
  <2>2. i \in 1..11 /\ i + 1 \in 1..11
    OBVIOUS
  <2> QED
    BY <1>1, <2>1, <2>2, PassType, FailType
<1>6. CASE Load
  <2>1. PICK i \in 1..5 : Still /\ \/ Reaches(Reads[i + 5], Reads[i + 6], LoadOrder[i])
                                   \/ Fails(Reads[i + 5], "raised")
    BY <1>6, LoadSteps
  <2>2. i + 5 \in 1..11 /\ i + 6 \in 1..11
    OBVIOUS
  <2>3. LoadOrder[i] \in Roles
    BY LoadOrderIs
  <2> QED
    BY <1>1, <2>1, <2>2, <2>3, ReachType, FailType
<1>7. CASE CheckSource
  BY <1>1, <1>7, SourceSteps, PassType, FailType
<1>8. CASE CheckToolchain
  BY <1>1, <1>8, ToolchainSteps, PassType, FailType
<1>9. CASE CheckIdentity
  BY <1>1, <1>9, IdentitySteps, PassType, FailType
<1>10. CASE Regenerate
  BY <1>1, <1>10, RegenerateSteps, PassType, FailType
<1>11. CASE HashManifest
  BY <1>1, <1>11, ManifestHashSteps, PassType, FailType
<1>12. CASE StartLean
  <2>1. CASE \E o \in {"theorem_pending", "setup_integrity_error"} : Fails("lean", o)
    BY <1>1, <1>12, <2>1, StartSteps, FailType
  <2>2. CASE /\ pc = "lean" /\ pc' = "inspect" /\ lean' = "build"
             /\ UNCHANGED <<mode, held, results>>
    <3>1. held' \in [Roles -> AnyFile(case.builds)] /\ Still
      BY <1>12, <2>2, StartSteps DEF TypeInv, ReplayType
    <3> QED
      BY <1>1, <2>2, <3>1, GoesOnType
  <2> QED
    BY <1>12, <2>1, <2>2, StartSteps
<1>13. CASE RunLean
  <2>1. /\ pc = "inspect" /\ UNCHANGED <<case, bundleVars, replayVars>>
        /\ waiter' = "done" /\ answer' \in Ran => child' = "exited"
    BY <1>13, WaitSteps
  <2>2. UNCHANGED <<pc, mode, held, lean, results>>
    BY <2>1 DEF replayVars
  <2> QED
    BY <2>1, <2>2 DEF TypeInv, ReplayType
<1>14. CASE LeanAnswers
  <2>1. /\ pc = "inspect" /\ waiter' = "idle" /\ UNCHANGED <<case, bundleVars>>
    BY <1>14, AnswerSteps
  <2>2. ASSUME NEW o \in Outcomes, Fails("inspect", o)
        PROVE  ReplayType'
    <3>1. pc # "end" /\ Ends(o) /\ UNCHANGED case
      BY <2>1, <2>2 DEF Fails
    <3> QED
      BY <2>1, <3>1, EndsType
  <2>3. CASE lean' \in {"compile", "inspect"} /\ UNCHANGED <<pc, mode, held, results>>
    BY <2>1, <2>3 DEF TypeInv, ReplayType
  <2> QED
    BY <1>14, <2>1, <2>2, <2>3, AnswerSteps
<1> QED
  BY <1>2, <1>3, <1>4, <1>5, <1>6, <1>7, <1>8, <1>9, <1>10, <1>11, <1>12, <1>13, <1>14
     DEF Replay

LEMMA BundleKept ==
  ASSUME BuildType, UNCHANGED <<case, bundleVars>>
  PROVE  BuildType'
<1>1. UNCHANGED <<case, disk, live, builder, edited, changed>>
  BY DEF bundleVars
<1> QED
  BY <1>1 DEF BuildType, DiskType

LEMMA ReplayKept ==
  ASSUME ReplayType, UNCHANGED <<case, replayVars, boundedVars>>
  PROVE  ReplayType'
<1>1. UNCHANGED <<case, pc, mode, held, lean, results, waiter, child, answer>>
  BY DEF replayVars, boundedVars
<1> QED
  BY <1>1 DEF ReplayType

LEMMA TypeStep ==
  ASSUME TypeInv, [Next]_vars
  PROVE  TypeInv'
<1>1. CASE Replay
  BY <1>1, ReplayStepType, BundleKept DEF TypeInv
<1>2. CASE LeanProcesses
  <2>1. UNCHANGED <<case, pc, mode, held, lean, results, waiter, answer>>
        /\ (child = "exited" => child' = "exited") /\ UNCHANGED <<case, bundleVars>>
    BY <1>2, ProcessSteps DEF replayVars
  <2>2. ReplayType'
    BY <2>1 DEF TypeInv, ReplayType
  <2> QED
    BY <2>1, <2>2, BundleKept DEF TypeInv
<1>3. CASE Advance
  <2>1. UNCHANGED <<case, replayVars, boundedVars>>
    BY <1>3 DEF Advance
  <2> QED
    BY <1>3, <2>1, AdvanceType, ReplayKept DEF TypeInv
<1>4. CASE \E c \in case.builds : Build(c) \/ Crash(c)
  <2>1. UNCHANGED <<case, replayVars, boundedVars>>
    BY <1>4 DEF Build, Crash
  <2> QED
    BY <1>4, <2>1, BuildStepType, ReplayKept DEF TypeInv
<1>5. CASE \E t \in case.tampers : Tamper(t)
  <2>1. UNCHANGED <<case, replayVars, boundedVars>>
    BY <1>5 DEF Tamper
  <2> QED
    BY <1>5, <2>1, TamperType, ReplayKept DEF TypeInv
<1>6. CASE UNCHANGED vars
  <2>1. UNCHANGED <<case, bundleVars>> /\ UNCHANGED <<case, replayVars, boundedVars>>
    BY <1>6 DEF vars
  <2> QED
    BY <2>1, BundleKept, ReplayKept DEF TypeInv
<1> QED
  BY <1>1, <1>2, <1>3, <1>4, <1>5, <1>6 DEF Next, Ended

LEMMA TypeHolds == TypeInv => TypeOK
<1> SUFFICES ASSUME TypeInv PROVE TypeOK
  OBVIOUS
<1>1. \A r \in Roles : disk[r].is \in {"absent", "torn", "full"} /\ disk[r].of \in case.builds
  BY FileFields DEF TypeInv, BuildType, DiskType
<1>2. results \in Seq(Outcomes) /\ Len(results) = (IF pc = "end" THEN 2 ELSE mode - 1)
      /\ mode \in {1, 2}
  BY DEF TypeInv, ReplayType
<1>3. Len(results) <= 2 /\ \A i \in DOMAIN results : results[i] \in Outcomes
  BY <1>2, ElementOfSeq, LenProperties
<1>4. waiter # "idle" => pc = "inspect" /\ lean \in {"build", "compile", "inspect"}
  BY DEF TypeInv, ReplayType
<1>5. pc = "end" => Len(results) = 2
  BY <1>2
<1>6. live \in 0..1 /\ edited \subseteq case.tampers
  BY DEF TypeInv, BuildType
<1> QED
  BY <1>1, <1>3, <1>4, <1>5, <1>6 DEF TypeOK

LEMMA TypeAlways == Spec => []TypeInv
<1>1. Init => TypeInv
  BY TypeInit
<1>2. TypeInv /\ [Next]_vars => TypeInv'
  BY TypeStep
<1> QED
  BY <1>1, <1>2, PTL DEF Spec

(***************************************************************************)
(* Whatever builds, crashes, edits and lock changes there are, every        *)
(* variable keeps its type: a replay never holds a file or a hash that no   *)
(* build or edit has made, and gives one of the documented outcomes.        *)
(***************************************************************************)
THEOREM BundleTypes == Spec => []TypeOK
<1>1. TypeInv => TypeOK
  BY TypeHolds
<1> QED
  BY <1>1, TypeAlways, PTL

-----------------------------------------------------------------------------
(***************************************************************************)
(* What is written.  No file is written for a candidate that its generator  *)
(* refuses; a file is written without edits.                                *)
(***************************************************************************)
WrittenInv ==
  /\ \A c \in case.builds : At(c, 2..18) => ~Refused(c)
  /\ \A r \in Roles : disk[r].is # "absent" => ~Refused(disk[r].of)

LEMMA BuildFacts ==
  ASSUME BuildType, NEW c \in case.builds, Build(c)
  PROVE  /\ UNCHANGED <<case, live, edited, replayVars, boundedVars>>
         /\ At(c, 1..18) /\ (At(c, {1}) => ~Refused(c) \/ builder'[c].at = 0)
         /\ \A d \in case.builds : d # c => builder'[d] = builder[d]
         /\ \A r \in Roles :
              disk'[r] # disk[r] => disk'[r].of = c /\ disk'[r].edits = {} /\ At(c, 2..18)
         /\ (disk' = disk /\ changed' = changed) \/ changed' = Begun
<1> USE DEF At
<1>1. UNCHANGED <<case, live, edited, replayVars, boundedVars>>
  BY DEF Build
<1>2. ASSUME NEW r \in Roles, NEW is, NEW file, file.of = c, file.edits = {},
             disk' = [disk EXCEPT ![r] = file]
      PROVE  \A q \in Roles : disk'[q] # disk[q] => disk'[q].of = c /\ disk'[q].edits = {}
  BY <1>2 DEF BuildType, DiskType
<1>3. CASE GenerateFirst(c)
  <2>1. /\ builder[c].at = 1 /\ UNCHANGED <<disk, changed>>
        /\ To(c, IF Refused(c) THEN 0 ELSE 2)
    BY <1>3 DEF GenerateFirst
  <2>2. PICK step \in 0..18 : step = (IF Refused(c) THEN 0 ELSE 2) /\ To(c, step)
    BY <2>1
  <2>3. builder'[c].at = step /\ \A d \in case.builds : d # c => builder'[d] = builder[d]
    BY <1>1, <2>2, ToFacts
  <2> QED
    BY <1>1, <2>1, <2>2, <2>3
<1>4. CASE WriteArtifact(c)
  <2> DEFINE r == Artifacts[builder[c].at \div 2]
             file == File(IF builder[c].at % 2 = 0 THEN "torn" ELSE "full", c, live)
  <2>1. /\ builder[c].at \in 2..11 /\ disk' = [disk EXCEPT ![r] = file]
        /\ changed' = Begun /\ To(c, builder[c].at + 1)
    BY <1>4 DEF WriteArtifact, Writes
  <2>2. builder[c].at + 1 \in 0..18 /\ r \in Roles
    BY <2>1, HalfStep, RolesAre
  <2>3. file.of = c /\ file.edits = {}
    BY DEF File
  <2> HIDE DEF r, file
  <2>4. \A q \in Roles : disk'[q] # disk[q] => disk'[q].of = c /\ disk'[q].edits = {}
    BY <1>2, <2>1, <2>2, <2>3
  <2>5. \A d \in case.builds : d # c => builder'[d] = builder[d]
    BY <1>1, <2>1, <2>2, ToFacts
  <2>6. builder[c].at \in 1..18 /\ builder[c].at \in 2..18 /\ builder[c].at # 1
    BY <2>1
  <2> QED
    BY <1>1, <2>1, <2>4, <2>5, <2>6
<1>5. CASE HashArtifact(c)
  <2>1. /\ builder[c].at \in 12..16 /\ UNCHANGED <<disk, changed>>
        /\ \A d \in case.builds : d # c => builder'[d] = builder[d]
    BY <1>5 DEF HashArtifact, BuildType
  <2> QED
    BY <1>1, <2>1
<1>6. CASE WriteManifest(c)
  <2> DEFINE file == [File(IF At(c, {17}) THEN "torn" ELSE "full", c, live)
                        EXCEPT !.hashes = builder[c].hashes]
  <2>1. /\ builder[c].at \in {17, 18} /\ disk' = [disk EXCEPT !["manifest"] = file]
        /\ changed' = Begun /\ To(c, IF builder[c].at = 17 THEN 18 ELSE 0)
    BY <1>6 DEF WriteManifest, Writes
  <2>2. PICK step \in 0..18 : To(c, step)
    BY <2>1
  <2>3. file.of = c /\ file.edits = {} /\ "manifest" \in Roles
    BY RolesAre DEF File
  <2> HIDE DEF file
  <2>4. \A q \in Roles : disk'[q] # disk[q] => disk'[q].of = c /\ disk'[q].edits = {}
    BY <1>2, <2>1, <2>3
  <2>5. \A d \in case.builds : d # c => builder'[d] = builder[d]
    BY <1>1, <2>2, ToFacts
  <2> QED
    BY <1>1, <2>1, <2>4, <2>5
<1> QED
  BY <1>3, <1>4, <1>5, <1>6 DEF Build

LEMMA CrashFacts ==
  ASSUME BuildType, NEW c \in case.builds, Crash(c)
  PROVE  /\ UNCHANGED <<case, disk, live, edited, changed, replayVars, boundedVars>>
         /\ builder'[c].at = 0 /\ builder'[c].hashes = <<>>
         /\ \A d \in case.builds : d # c => builder'[d] = builder[d]
<1>1. To(c, 0) /\ UNCHANGED <<case, disk, live, edited, changed, replayVars, boundedVars>>
  BY DEF Crash
<1>2. 0 \in 0..18
  OBVIOUS
<1> QED
  BY <1>1, <1>2, ToFacts

LEMMA WrittenInit == Init => WrittenInv
<1> SUFFICES ASSUME Init PROVE WrittenInv
  OBVIOUS
<1>1. /\ case \in Cases /\ disk = [r \in Roles |-> Absent]
      /\ builder = [c \in case.builds |-> [at |-> 1, hashes |-> <<>>]]
  BY DEF Init
<1>2. \A r \in Roles : disk[r].is = "absent"
  BY <1>1, AbsentType
<1>3. \A c \in case.builds : builder[c].at = 1
  BY <1>1
<1> QED
  BY <1>2, <1>3 DEF WrittenInv, At

LEMMA WrittenStep ==
  ASSUME TypeInv, WrittenInv, [Next]_vars
  PROVE  WrittenInv'
<1> USE DEF At
<1>1. ASSUME UNCHANGED <<case, disk, builder>> PROVE WrittenInv'
  BY <1>1 DEF WrittenInv
<1>2. CASE Replay
  BY <1>1, <1>2, ReplayStepType DEF bundleVars
<1>3. CASE LeanProcesses
  BY <1>1, <1>3, ProcessSteps DEF bundleVars
<1>4. CASE Advance
  BY <1>1, <1>4 DEF Advance
<1>5. ASSUME NEW c \in case.builds, Build(c)
      PROVE  WrittenInv'
  <2>1. /\ UNCHANGED case /\ builder[c].at \in 1..18
        /\ builder[c].at = 1 => ~Refused(c) \/ builder'[c].at = 0
        /\ \A d \in case.builds : d # c => builder'[d] = builder[d]
        /\ \A r \in Roles : disk'[r] # disk[r] => disk'[r].of = c /\ builder[c].at \in 2..18
    BY <1>5, BuildFacts DEF TypeInv
  <2>2. builder[c].at = 1 \/ builder[c].at \in 2..18
    BY <2>1
  <2>3. builder'[c].at \in 2..18 => ~Refused(c)
    BY <2>1, <2>2 DEF WrittenInv
  <2>4. \A r \in Roles : disk'[r].is # "absent" => ~Refused(disk'[r].of)
    BY <2>1 DEF WrittenInv
  <2> QED
    BY <2>1, <2>3, <2>4 DEF WrittenInv
<1>6. ASSUME NEW c \in case.builds, Crash(c)
      PROVE  WrittenInv'
  <2>1. /\ UNCHANGED <<case, disk>> /\ builder'[c].at = 0
        /\ \A d \in case.builds : d # c => builder'[d] = builder[d]
    BY <1>6, CrashFacts DEF TypeInv
  <2> QED
    BY <2>1 DEF WrittenInv
<1>7. ASSUME NEW t \in case.tampers, Tamper(t)
      PROVE  WrittenInv'
  <2>1. /\ UNCHANGED <<case, builder>> /\ \A r \in Roles : disk[r].is = "full"
    BY <1>7 DEF Tamper
  <2>2. \A r \in Roles : disk'[r].of = disk[r].of
    BY <1>7, EditFacts DEF TypeInv, EditedDisk, Kept
  <2> QED
    BY <2>1, <2>2 DEF WrittenInv
<1>8. CASE UNCHANGED vars
  BY <1>1, <1>8 DEF vars, bundleVars
<1> QED
  BY <1>2, <1>3, <1>4, <1>5, <1>6, <1>7, <1>8 DEF Next, Ended

-----------------------------------------------------------------------------
(***************************************************************************)
(* What is accepted.  The checks that a replay has passed hold of what it   *)
(* has loaded, whatever has become of the bundle since.                     *)
(***************************************************************************)
LoadedManifest == ~Refused(held["manifest"].of)

HeldAt ==
  /\ pc \in Named => LoadedManifest
  /\ pc \in Sourced => LoadedSource
  /\ pc \in Last => LoadedPair
HeldInv ==
  /\ HeldAt
  /\ Settled(Accepting) => LoadedManifest /\ LoadedSource /\ LoadedPair
  /\ waiter = "done" /\ answer = "zero" /\ lean # "build" => LeanAccepts(held["source"].of)
  /\ Settled({"theorem_proved"}) => LeanAccepts(held["source"].of)

LEMMA PlacesAre ==
  /\ Last \subseteq Sourced /\ Sourced \subseteq Named
  /\ {"idle", "end", "manifest"} \cap Named = {}
  /\ "generator" \in Named \ Sourced
  /\ \A i \in 1..11 : Reads[i] \in Named \ Sourced
  /\ {"toolchain", "identity", "regenerate"} \subseteq Sourced \ Last
  /\ {"manifest_hash", "lean", "inspect"} \subseteq Last
<1>1. \A i \in 1..11 : Reads[i] \notin {"idle", "end", "manifest"} \cup Sourced
  BY ReadsAre
<1> QED
  BY <1>1 DEF Named, Read, Sourced, Last

(* A replay that ends: it may only accept what it has checked.              *)
LEMMA FailHeld ==
  ASSUME TypeInv, HeldInv, NEW from, NEW o \in Outcomes, from # "end",
         Fails(from, o), UNCHANGED case, waiter' = "idle",
         o \in Accepting => from \in Last,
         o = "theorem_proved" => LeanAccepts(held["source"].of)
  PROVE  HeldInv'
<1>1. /\ held' = held /\ pc' \in {"idle", "end"} /\ pc = from
  BY DEF Fails, Ends
<1>2. results'[Len(results')] = o
  BY EndsType DEF Fails
<1>3. HeldAt'
  BY <1>1, PlacesAre DEF HeldAt
<1>4. Settled(Accepting)' => (LoadedManifest /\ LoadedSource /\ LoadedPair)'
  <2>1. Settled(Accepting)' => o \in Accepting
    BY <1>2 DEF Settled, Accepting
  <2>2. pc \in Last => LoadedManifest /\ LoadedSource /\ LoadedPair
    BY PlacesAre DEF HeldInv, HeldAt
  <2>3. LoadedManifest' = LoadedManifest /\ LoadedSource' = LoadedSource
        /\ LoadedPair' = LoadedPair
    BY <1>1 DEF LoadedManifest, LoadedSource, LoadedPair
  <2> QED
    BY <1>1, <2>1, <2>2, <2>3
<1>5. Settled({"theorem_proved"})' => LeanAccepts(held["source"].of)'
  <2>1. Settled({"theorem_proved"})' => o = "theorem_proved"
    BY <1>2 DEF Settled
  <2> QED
    BY <1>1, <2>1
<1> QED
  BY <1>3, <1>4, <1>5 DEF HeldInv

LEMMA PassHeld ==
  ASSUME TypeInv, HeldInv, Still, NEW from, NEW to \in Steps, Passes(from, to),
         from # "inspect",
         to \in Named => LoadedManifest,
         to \in Sourced => LoadedSource,
         to \in Last => LoadedPair
  PROVE  HeldInv'
<1>1. pc' = to /\ held' = held /\ UNCHANGED waiter /\ waiter = "idle"
  BY DEF Passes, Still, boundedVars, TypeInv, ReplayType
<1>2. LoadedManifest' = LoadedManifest /\ LoadedSource' = LoadedSource
      /\ LoadedPair' = LoadedPair
  BY <1>1 DEF LoadedManifest, LoadedSource, LoadedPair
<1>3. ~Settled(Accepting)' /\ ~Settled({"theorem_proved"})'
  <2>1. pc' \in Steps
    BY <1>1
  <2> QED
    BY <2>1, StepsAre DEF Settled
<1> QED
  BY <1>1, <1>2, <1>3 DEF HeldInv, HeldAt

LEMMA ReachHeld ==
  ASSUME TypeInv, HeldInv, Still, NEW from, NEW to \in Steps \ Sourced, NEW r \in Roles,
         Reaches(from, to, r), from # "inspect",
         r = "manifest" => ~Refused(disk["manifest"].of),
         r # "manifest" => from \in Named
  PROVE  HeldInv'
<1>1. /\ pc' = to /\ pc = from /\ held' = [held EXCEPT ![r] = disk[r]]
      /\ UNCHANGED waiter /\ waiter = "idle"
  BY DEF Reaches, Still, boundedVars, TypeInv, ReplayType
<1>2. /\ held \in [Roles -> AnyFile(case.builds)] /\ "manifest" \in Roles
  BY RolesAre DEF TypeInv, ReplayType
<1>3. LoadedManifest'
  <2>1. CASE r = "manifest"
    BY <1>1, <1>2, <2>1 DEF LoadedManifest
  <2>2. CASE r # "manifest"
    BY <1>1, <1>2, <2>2 DEF LoadedManifest, HeldInv, HeldAt
  <2> QED
    BY <2>1, <2>2
<1>4. ~Settled(Accepting)' /\ ~Settled({"theorem_proved"})'
  <2>1. pc' \in Steps
    BY <1>1
  <2> QED
    BY <2>1, StepsAre DEF Settled
<1> QED
  BY <1>1, <1>3, <1>4, PlacesAre DEF HeldInv, HeldAt

LEMMA HeldStep ==
  ASSUME TypeInv, WrittenInv, HeldInv, Replay
  PROVE  HeldInv'
<1> USE StepsAre, OutcomesAre, PlacesAre
<1>1. ASSUME NEW from, NEW o \in Outcomes \ Accepting, from # "end", from # "inspect",
             Still, Fails(from, o)
      PROVE  HeldInv'
  <2>1. UNCHANGED case /\ waiter' = "idle" /\ o # "theorem_proved"
    BY <1>1 DEF Still, boundedVars, Fails, TypeInv, ReplayType, Accepting
  <2> QED
    BY <1>1, <2>1, FailHeld
<1>2. /\ {"setup_integrity_error", "tamper_detected", "raised"} \subseteq Outcomes \ Accepting
      /\ "theorem_pending" \in Accepting
  BY DEF Outcomes, Accepting
<1>3. CASE Open
  BY <1>1, <1>2, <1>3, OpenSteps, PassHeld
<1>4. CASE LoadManifest
  <2>1. "manifest" \in Roles
    BY RolesAre
  <2>2. Still /\ \/ Whole("manifest") /\ Reaches("manifest", "generator", "manifest")
                 \/ Fails("manifest", "raised")
    BY <1>4, <2>1, FetchSteps DEF LoadManifest
  <2>3. Whole("manifest") => ~Refused(disk["manifest"].of)
    BY <2>1 DEF WrittenInv, Whole
  <2> QED
    BY <1>1, <1>2, <2>1, <2>2, <2>3, ReachHeld
<1>5. CASE CheckGenerator
  <2>1. 1 \in 1..11
    OBVIOUS
  <2>2. pc = "generator" => LoadedManifest
    BY DEF HeldInv, HeldAt
  <2> QED
    BY <1>1, <1>2, <1>5, <2>1, <2>2, GeneratorSteps, PassHeld DEF Passes
<1>6. CASE VerifyHash
  <2>1. PICK i \in 1..5 : Still /\ \/ Passes(Reads[i], Reads[i + 1])
                                   \/ Fails(Reads[i], "tamper_detected")
    BY <1>6, HashSteps
  <2>2. i \in 1..11 /\ i + 1 \in 1..11
    OBVIOUS
  <2>3. pc = Reads[i] => LoadedManifest
    BY <2>2 DEF HeldInv, HeldAt
  <2> QED
    BY <1>1, <1>2, <2>1, <2>2, <2>3, PassHeld DEF Passes
<1>7. CASE Load
  <2>1. PICK i \in 1..5 : Still /\ \/ Reaches(Reads[i + 5], Reads[i + 6], LoadOrder[i])
                                   \/ Fails(Reads[i + 5], "raised")
    BY <1>7, LoadSteps
  <2>2. i + 5 \in 1..11 /\ i + 6 \in 1..11
    OBVIOUS
  <2>3. LoadOrder[i] \in Roles /\ LoadOrder[i] # "manifest"
    BY LoadOrderIs
  <2> QED
    BY <1>1, <1>2, <2>1, <2>2, <2>3, ReachHeld
<1>8. CASE CheckSource
  <2>1. pc = "source" => LoadedManifest
    <3>1. 11 \in 1..11 /\ Reads[11] = "source"
      BY ReadsAre
    <3> QED
      BY <3>1 DEF HeldInv, HeldAt
  <2> QED
    BY <1>1, <1>2, <1>8, <2>1, SourceSteps, PassHeld DEF Passes
<1>9. pc \in Sourced => LoadedManifest /\ LoadedSource
  BY DEF HeldInv, HeldAt
<1>10. CASE CheckToolchain
  BY <1>1, <1>2, <1>9, <1>10, ToolchainSteps, PassHeld DEF Passes
<1>11. CASE CheckIdentity
  BY <1>1, <1>2, <1>9, <1>11, IdentitySteps, PassHeld DEF Passes
<1>12. CASE Regenerate
  BY <1>1, <1>2, <1>9, <1>12, RegenerateSteps, PassHeld DEF Passes
<1>13. pc \in Last => LoadedPair
  BY DEF HeldInv, HeldAt
<1>14. CASE HashManifest
  BY <1>1, <1>2, <1>9, <1>13, <1>14, ManifestHashSteps, PassHeld DEF Passes
<1>15. CASE StartLean
  <2>1. ASSUME NEW o \in {"theorem_pending", "setup_integrity_error"}, Fails("lean", o)
        PROVE  HeldInv'
    <3>1. UNCHANGED case /\ waiter' = "idle"
      BY <1>15, <2>1, StartSteps DEF Still, boundedVars, Fails, TypeInv, ReplayType
    <3> QED
      BY <2>1, <3>1, FailHeld
  <2>2. CASE /\ pc = "lean" /\ pc' = "inspect" /\ lean' = "build"
             /\ UNCHANGED <<mode, held, results>>
    <3>1. LoadedManifest' /\ LoadedSource' /\ LoadedPair'
      BY <1>9, <1>13, <2>2 DEF LoadedManifest, LoadedSource, LoadedPair
    <3>2. ~Settled(Accepting)' /\ ~Settled({"theorem_proved"})'
      BY <2>2 DEF Settled
    <3> QED
      BY <2>2, <3>1, <3>2 DEF HeldInv, HeldAt
  <2> QED
    BY <1>15, <2>1, <2>2, StartSteps
<1>16. CASE RunLean
  <2>1. /\ UNCHANGED <<pc, mode, held, lean, results>> /\ pc = "inspect"
        /\ waiter' = "done" /\ answer' \in Ran => answer' \in Codes
    BY <1>16, WaitSteps DEF replayVars
  <2>2. waiter' = "done" /\ answer' = "zero" /\ lean # "build" => LeanAccepts(held["source"].of)
    BY <2>1 DEF Codes, Ran
  <2>3. LoadedManifest' = LoadedManifest /\ LoadedSource' = LoadedSource
        /\ LoadedPair' = LoadedPair
    BY <2>1 DEF LoadedManifest, LoadedSource, LoadedPair
  <2>4. Settled(Accepting)' = Settled(Accepting)
        /\ Settled({"theorem_proved"})' = Settled({"theorem_proved"})
    BY <2>1 DEF Settled, Accepting
  <2> QED
    BY <2>1, <2>2, <2>3, <2>4 DEF HeldInv, HeldAt
<1>17. CASE LeanAnswers
  <2>1. /\ pc = "inspect" /\ waiter = "done" /\ UNCHANGED case /\ waiter' = "idle"
    BY <1>17, AnswerSteps
  <2>2. ASSUME NEW o \in Outcomes, Fails("inspect", o),
               o = "theorem_proved" => answer = "zero" /\ lean = "inspect"
        PROVE  HeldInv'
    <3>1. o = "theorem_proved" => LeanAccepts(held["source"].of)
      BY <2>1, <2>2 DEF HeldInv
    <3> QED
      BY <2>1, <2>2, <3>1, FailHeld
  <2>3. CASE UNCHANGED <<pc, mode, held, results>>
    <3>1. LoadedManifest' = LoadedManifest /\ LoadedSource' = LoadedSource
          /\ LoadedPair' = LoadedPair
      BY <2>3 DEF LoadedManifest, LoadedSource, LoadedPair
    <3>2. Settled(Accepting)' = Settled(Accepting)
          /\ Settled({"theorem_proved"})' = Settled({"theorem_proved"})
      BY <2>3 DEF Settled, Accepting
    <3> QED
      BY <2>1, <2>3, <3>1, <3>2 DEF HeldInv, HeldAt
  <2> QED
    BY <1>17, <2>2, <2>3, AnswerSteps
<1> QED
  BY <1>3, <1>4, <1>5, <1>6, <1>7, <1>8, <1>10, <1>11, <1>12, <1>14, <1>15, <1>16, <1>17
     DEF Replay

LEMMA EnvironmentSteps ==
  ASSUME Next, ~Replay
  PROVE  \/ UNCHANGED <<case, pc, mode, held, lean, results, waiter, answer>>
         \/ UNCHANGED vars
<1>1. CASE LeanProcesses
  BY <1>1, ProcessSteps DEF replayVars
<1>2. CASE Advance
  BY <1>2 DEF Advance, replayVars, boundedVars
<1>3. CASE \E c \in case.builds : Build(c) \/ Crash(c)
  BY <1>3 DEF Build, Crash, replayVars, boundedVars
<1>4. CASE \E t \in case.tampers : Tamper(t)
  BY <1>4 DEF Tamper, replayVars, boundedVars
<1> QED
  BY <1>1, <1>2, <1>3, <1>4 DEF Next, Ended

LEMMA HeldKept ==
  ASSUME HeldInv, UNCHANGED <<pc, held, lean, results, waiter, answer>>
  PROVE  HeldInv'
<1>1. LoadedManifest' = LoadedManifest /\ LoadedSource' = LoadedSource
      /\ LoadedPair' = LoadedPair
  BY DEF LoadedManifest, LoadedSource, LoadedPair
<1>2. Settled(Accepting)' = Settled(Accepting)
      /\ Settled({"theorem_proved"})' = Settled({"theorem_proved"})
  BY DEF Settled, Accepting
<1> QED
  BY <1>1, <1>2 DEF HeldInv, HeldAt

LEMMA HeldInit == Init => HeldInv
<1> SUFFICES ASSUME Init PROVE HeldInv
  OBVIOUS
<1>1. pc = "idle" /\ results = <<>> /\ waiter = "idle"
  BY DEF Init, BoundedInit
<1> QED
  BY <1>1, PlacesAre DEF HeldInv, HeldAt, Settled

LEMMA HeldAlways == Spec => [](TypeInv /\ WrittenInv /\ HeldInv)
<1> DEFINE Inv == TypeInv /\ WrittenInv /\ HeldInv
<1>1. Init => Inv
  BY TypeInit, WrittenInit, HeldInit
<1>2. Inv /\ [Next]_vars => Inv'
  <2> SUFFICES ASSUME TypeInv, WrittenInv, HeldInv, [Next]_vars PROVE Inv'
    OBVIOUS
  <2>1. TypeInv' /\ WrittenInv'
    BY TypeStep, WrittenStep
  <2>2. HeldInv'
    <3>1. CASE Replay
      BY <3>1, HeldStep
    <3>2. CASE ~Replay
      <4>1. UNCHANGED vars => UNCHANGED <<pc, held, lean, results, waiter, answer>>
        BY DEF vars, replayVars, boundedVars
      <4> QED
        BY <3>2, <4>1, EnvironmentSteps, HeldKept
    <3> QED
      BY <3>1, <3>2
  <2> QED
    BY <2>1, <2>2
<1> QED
  BY <1>1, <1>2, PTL DEF Spec

(* What a pair of passed checks says: the source binds the candidate of the *)
(* manifest, and was generated from the request and the certificate.        *)
LEMMA OneBuild ==
  ASSUME LoadedSource, LoadedPair
  PROVE  LET c == held["manifest"].of
         IN /\ held["request"].of.id = c.id
            /\ "semantic" \notin held["request"].edits
            /\ Rendered(held["certificate"].of) = Rendered(c)
            /\ held["source"].of = c
<1> DEFINE m == held["manifest"]
           s == held["source"]
           request == held["request"]
           certificate == held["certificate"]
<1>1. s.edits = {} /\ Source(s, s, s.of) = Source(m, m, m.of)
  BY DEF LoadedSource, SourceHolds, BoundTo
<1>2. Source(request, certificate, m.of) = Source(m, m, m.of)
  BY DEF LoadedPair, RegeneratedFrom, BoundTo
<1> HIDE DEF m, s, request, certificate
<1>3. ASSUME NEW r1, NEW k1, NEW b1, NEW r2, NEW k2, NEW b2,
             Source(r1, k1, b1) = Source(r2, k2, b2)
      PROVE  /\ r1.of.id = r2.of.id /\ Rendered(k1.of) = Rendered(k2.of) /\ b1 = b2
             /\ ("semantic" \in r1.edits) = ("semantic" \in r2.edits)
  <2>1. /\ Source(r1, k1, b1).request = r1.of.id /\ Source(r2, k2, b2).request = r2.of.id
        /\ Source(r1, k1, b1).certificate = Rendered(k1.of)
        /\ Source(r2, k2, b2).certificate = Rendered(k2.of)
        /\ Source(r1, k1, b1).bundle = b1 /\ Source(r2, k2, b2).bundle = b2
    BY DEF Source
  <2>2. /\ Source(r1, k1, b1).edited = ("semantic" \in r1.edits)
        /\ Source(r2, k2, b2).edited = ("semantic" \in r2.edits)
    BY DEF Source
  <2> QED
    BY <1>3, <2>1, <2>2
<1>4. s.of = m.of /\ ("semantic" \in s.edits) = ("semantic" \in m.edits)
  BY <1>1, <1>3
<1>5. /\ request.of.id = m.of.id /\ Rendered(certificate.of) = Rendered(m.of)
      /\ ("semantic" \in request.edits) = ("semantic" \in m.edits)
  BY <1>2, <1>3
<1>6. "semantic" \notin request.edits
  BY <1>1, <1>4, <1>5
<1> QED
  BY <1>4, <1>5, <1>6 DEF m, s, request, certificate

(***************************************************************************)
(* replay_offline_exact_bundle reads its files one after the other, while   *)
(* other builds and edits of the directory go on.  Yet what it accepts is   *)
(* the request, the certificate and the source of the one build whose       *)
(* manifest it has read, up to the spelling of numbers and fields that      *)
(* nobody reads: for any set of cases and any interleaving.                 *)
(***************************************************************************)
THEOREM AcceptanceIsOfOneBuild == Spec => []AcceptedIsOneBuild
<1>1. HeldInv => AcceptedIsOneBuild
  BY OneBuild DEF HeldInv, AcceptedIsOneBuild, LoadedManifest
<1> QED
  BY <1>1, HeldAlways, PTL

(***************************************************************************)
(* _lean_inspect_offline has Lean check the source that the replay loaded,  *)
(* and theorem_proved is reported only when Lean accepts it.  As that       *)
(* source was regenerated from the loaded certificate, Lean accepts the     *)
(* candidate that the manifest names, not some other that was there.        *)
(***************************************************************************)
THEOREM ProofsAreSound == Spec => []ProvedIsSound
<1>1. HeldInv => ProvedIsSound
  <2> SUFFICES ASSUME HeldInv, Settled({"theorem_proved"})
               PROVE  LeanAccepts(held["manifest"].of)
    BY DEF ProvedIsSound
  <2>1. Settled(Accepting)
    BY DEF Settled, Accepting
  <2>2. LeanAccepts(held["source"].of) /\ held["source"].of = held["manifest"].of
    BY <2>1, OneBuild DEF HeldInv
  <2> QED
    BY <2>2
<1> QED
  BY <1>1, HeldAlways, PTL

(* Only Lean fails a theorem: a step that adds the outcome theorem_failure  *)
(* follows an answer of Lean on it (FailureIsLeans).                        *)
LEMMA FailureStep ==
  ASSUME TypeInv, [Next]_vars,
         Len(results') > Len(results), results'[Len(results')] = "theorem_failure"
  PROVE  answer \in Ran /\ lean # "build" /\ child = "exited"
<1> USE OutcomesAre
<1>1. Len(results) \in Nat
  BY DEF TypeInv, ReplayType
<1>2. results' # results
  BY <1>1
<1>3. Replay
  BY <1>2, EnvironmentSteps DEF vars, replayVars
<1>4. ASSUME NEW from, NEW o \in Outcomes, from # "end", Still, Fails(from, o), from # "inspect"
      PROVE  o = "theorem_failure"
  <2>1. UNCHANGED case /\ waiter' = "idle" /\ pc # "end" /\ Ends(o)
    BY <1>4 DEF Still, boundedVars, Fails, TypeInv, ReplayType
  <2> QED
    BY <2>1, EndsType
<1>5. CASE Open
  BY <1>2, <1>4, <1>5, OpenSteps DEF Passes
<1>6. CASE LoadManifest
  <2>1. "manifest" \in Roles
    BY RolesAre
  <2> QED
    BY <1>2, <1>4, <1>6, <2>1, FetchSteps DEF LoadManifest, Reaches
<1>7. CASE CheckGenerator
  BY <1>2, <1>4, <1>7, GeneratorSteps DEF Passes
<1>8. CASE VerifyHash
  <2>1. PICK i \in 1..5 : Still /\ Fails(Reads[i], "tamper_detected")
    BY <1>2, <1>8, HashSteps DEF Passes
  <2>2. i \in 1..11
    OBVIOUS
  <2> QED
    BY <1>4, <2>1, <2>2, StepsAre
<1>9. CASE Load
  <2>1. PICK i \in 1..5 : Still /\ Fails(Reads[i + 5], "raised")
    BY <1>2, <1>9, LoadSteps DEF Reaches
  <2>2. i + 5 \in 1..11
    OBVIOUS
  <2> QED
    BY <1>4, <2>1, <2>2, StepsAre
<1>10. CASE CheckSource
  BY <1>2, <1>4, <1>10, SourceSteps DEF Passes
<1>11. CASE CheckToolchain
  BY <1>2, <1>4, <1>11, ToolchainSteps DEF Passes
<1>12. CASE CheckIdentity
  BY <1>2, <1>4, <1>12, IdentitySteps DEF Passes
<1>13. CASE Regenerate
  BY <1>2, <1>4, <1>13, RegenerateSteps DEF Passes
<1>14. CASE HashManifest
  BY <1>2, <1>4, <1>14, ManifestHashSteps DEF Passes
<1>15. CASE StartLean
  BY <1>2, <1>4, <1>15, StartSteps
<1>16. CASE RunLean
  BY <1>2, <1>16, WaitSteps DEF replayVars
<1>17. CASE LeanAnswers
  <2>1. /\ pc = "inspect" /\ waiter = "done" /\ UNCHANGED case /\ waiter' = "idle"
        /\ lean \in {"build", "compile", "inspect"}
    BY <1>17, AnswerSteps DEF TypeInv, ReplayType
  <2>2. ASSUME NEW o \in Outcomes, Fails("inspect", o)
        PROVE  o = "theorem_failure"
    BY <2>1, <2>2, EndsType DEF Fails
  <2>3. CASE answer # "zero" /\ Fails("inspect", FailureOf(answer))
    <3>1. FailureOf(answer) = "theorem_failure"
      BY <2>2, <2>3
    <3>2. answer = "nonzero" /\ lean # "build"
      BY <3>1 DEF FailureOf, Deferred
    <3> QED
      BY <2>1, <3>2 DEF TypeInv, ReplayType, Ran
  <2>4. CASE answer = "zero" /\ lean = "inspect"
    BY <2>1, <2>4 DEF TypeInv, ReplayType, Ran
  <2> QED
    BY <1>2, <1>17, <2>3, <2>4, AnswerSteps
<1> QED
  BY <1>3, <1>5, <1>6, <1>7, <1>8, <1>9, <1>10, <1>11, <1>12, <1>13, <1>14, <1>15, <1>16, <1>17
     DEF Replay

(***************************************************************************)
(* theorem_failure is a statement about the theorem: _lean_inspect_offline  *)
(* makes it only in a step in which Lean itself has run to its end on the   *)
(* source, never for a missing Lean, a failed build of the checkers, a time *)
(* limit or a process that hangs.                                           *)
(***************************************************************************)
THEOREM FailuresAreLeans == Spec => FailureIsLeans
<1>1. TypeInv /\ [Next]_vars =>
        [Len(results') > Len(results) /\ results'[Len(results')] = "theorem_failure"
           => /\ answer \in Ran
              /\ lean # "build" /\ child = "exited"]_vars
  BY FailureStep
<1> QED
  BY <1>1, TypeAlways, PTL DEF Spec, FailureIsLeans

-----------------------------------------------------------------------------
(***************************************************************************)
(* Agreement.  If nothing changes, both replays find in the bundle what is  *)
(* there to be found: the outcome of the first check that fails.            *)
(***************************************************************************)
PairNow == RegeneratedFrom(disk["request"], disk["certificate"], disk["manifest"])

Verdict ==
  IF ~AllThere THEN "setup_integrity_error"
  ELSE IF ~Whole("manifest") THEN "raised"
  ELSE IF "generator" \in disk["manifest"].edits \/ \E i \in 1..5 : ~HashHolds(i)
    THEN "tamper_detected"
  ELSE IF \E i \in 1..4 : ~Whole(LoadOrder[i]) THEN "raised"
  ELSE IF ~SourceHolds(disk["source"], disk["manifest"]) THEN "tamper_detected"
  ELSE IF ~LockHolds(disk["manifest"], disk["toolchain"])
    THEN IF case.live THEN "setup_integrity_error" ELSE "tamper_detected"
  ELSE IF "name" \in disk["identity"].edits THEN "tamper_detected"
  ELSE IF PairNow # "none" THEN PairNow ELSE "sound"

(* What a replay knows of the bundle when it is at a step.                  *)
Hashed(i) == {Reads[k] : k \in (i + 1)..11} \cup Sourced
Loaded(i) == {Reads[k] : k \in (i + 6)..11} \cup Sourced

HoldsManifest == Whole("manifest") /\ held["manifest"] = disk["manifest"]
HoldsLoaded(i) ==
  held[LoadOrder[i]] = disk[LoadOrder[i]] /\ (i # 5 => Whole(LoadOrder[i]))

KnownAt(step) ==
  /\ step \in Steps => AllThere
  /\ step \in Named => HoldsManifest
  /\ step \in Read  => "generator" \notin disk["manifest"].edits
  /\ \A i \in 1..5 : step \in Hashed(i) => HashHolds(i)
  /\ \A i \in 1..5 : step \in Loaded(i) => HoldsLoaded(i)
  /\ step \in Sourced => SourceHolds(disk["source"], disk["manifest"])
  /\ step \in Sourced \ {"toolchain"} => LockHolds(disk["manifest"], disk["toolchain"])
  /\ step \in Last \cup {"regenerate"} => "name" \notin disk["identity"].edits
  /\ step \in Last => Verdict = "sound"

AnswerRight(outcome) ==
  IF outcome \in Accepting \cup {"theorem_failure"} THEN Verdict = "sound"
  ELSE case.lean # "required" => outcome = Verdict

VerdictInv ==
  ~changed => KnownAt(pc) /\ \A i \in 1..Len(results) : AnswerRight(results[i])

LEMMA InReads ==
  ASSUME NEW i \in 1..5
  PROVE  /\ \A k \in 1..11 : (Reads[k] \in Hashed(i) <=> k >= i + 1)
         /\ \A k \in 1..11 : (Reads[k] \in Loaded(i) <=> k >= i + 6)
         /\ Sourced \subseteq Hashed(i) /\ Sourced \subseteq Loaded(i)
         /\ {"idle", "end", "manifest", "generator"} \cap (Hashed(i) \cup Loaded(i)) = {}
         /\ "source" \in Hashed(i)
<1>1. (i + 1)..11 \subseteq 1..11 /\ (i + 6)..11 \subseteq 1..11
  OBVIOUS
<1>2. \A k \in 1..11 : (Reads[k] \in Hashed(i) <=> k >= i + 1)
  <2>1. \A k \in 1..11 : Reads[k] \in Hashed(i) <=> \E j \in (i + 1)..11 : Reads[k] = Reads[j]
    BY ReadsAre DEF Hashed
  <2>2. \A k \in 1..11 : (\E j \in (i + 1)..11 : Reads[k] = Reads[j]) <=> k \in (i + 1)..11
    BY <1>1, ReadsAre
  <2> QED
    BY <2>1, <2>2
<1>3. \A k \in 1..11 : (Reads[k] \in Loaded(i) <=> k >= i + 6)
  <2>1. \A k \in 1..11 : Reads[k] \in Loaded(i) <=> \E j \in (i + 6)..11 : Reads[k] = Reads[j]
    BY ReadsAre DEF Loaded
  <2>2. \A k \in 1..11 : (\E j \in (i + 6)..11 : Reads[k] = Reads[j]) <=> k \in (i + 6)..11
    BY <1>1, ReadsAre
  <2> QED
    BY <2>1, <2>2
<1>4. {"idle", "end", "manifest", "generator"} \cap (Hashed(i) \cup Loaded(i)) = {}
  <2>1. {"idle", "end", "manifest", "generator"} \cap Sourced = {}
    BY DEF Sourced, Last
  <2>2. \A k \in 1..11 : Reads[k] \notin {"idle", "end", "manifest", "generator"}
    BY ReadsAre
  <2> QED
    BY <1>1, <2>1, <2>2 DEF Hashed, Loaded
<1>5. "source" \in Hashed(i)
  <2>1. 11 \in 1..11 /\ Reads[11] = "source" /\ 11 >= i + 1
    BY ReadsAre
  <2> QED
    BY <1>2, <2>1
<1> QED
  BY <1>2, <1>3, <1>4, <1>5 DEF Hashed, Loaded

(* A check that passes adds to what is known; see KnownAt.                  *)
LEMMA KnownNext ==
  /\ AllThere => KnownAt("manifest")
  /\ KnownAt("idle") /\ KnownAt("end")
  /\ KnownAt("generator") /\ "generator" \notin held["manifest"].edits => KnownAt(Reads[1])
  /\ \A i \in 1..5 :
       KnownAt(Reads[i]) /\ disk[Artifacts[i]] = held["manifest"].hashes[i]
         => KnownAt(Reads[i + 1])
<1>1. \A i \in 1..5 : {"idle", "end", "manifest", "generator"} \cap (Hashed(i) \cup Loaded(i)) = {}
  BY InReads
<1>2. /\ "manifest" \notin Named /\ "manifest" \notin Read \cup Sourced \cup Last
      /\ {"idle", "end"} \cap (Steps \cup Named \cup Read \cup Sourced \cup Last) = {}
  BY PlacesAre, StepsAre DEF Named, Sourced
<1>3. "regenerate" \notin {"manifest", "idle", "end"}
  OBVIOUS
<1>4. AllThere => KnownAt("manifest")
  BY <1>1, <1>2, <1>3 DEF KnownAt
<1>5. KnownAt("idle") /\ KnownAt("end")
  BY <1>1, <1>2, <1>3 DEF KnownAt
<1>6. \A k \in 1..11 : Reads[k] \in Steps /\ Reads[k] \in Named /\ Reads[k] \in Read
                       /\ Reads[k] \notin Sourced \cup Last \cup {"regenerate"}
  <2>1. \A k \in 1..11 : Reads[k] \notin Sourced /\ Reads[k] \in Read
    BY ReadsAre DEF Read
  <2> QED
    BY <2>1, PlacesAre DEF Named, Steps
<1>7. "generator" \in Steps /\ "generator" \in Named
  BY DEF Steps, Named
<1>8. KnownAt("generator") /\ "generator" \notin held["manifest"].edits => KnownAt(Reads[1])
  <2> SUFFICES ASSUME KnownAt("generator"), "generator" \notin held["manifest"].edits
               PROVE  KnownAt(Reads[1])
    OBVIOUS
  <2>1. AllThere /\ HoldsManifest /\ "generator" \notin disk["manifest"].edits
    BY <1>7 DEF KnownAt, HoldsManifest
  <2>2. 1 \in 1..11 /\ \A i \in 1..5 : ~(1 >= i + 1) /\ ~(1 >= i + 6)
    OBVIOUS
  <2>3. \A i \in 1..5 : Reads[1] \notin Hashed(i) /\ Reads[1] \notin Loaded(i)
    BY <2>2, InReads
  <2> QED
    BY <1>6, <2>1, <2>2, <2>3 DEF KnownAt
<1>9. ASSUME NEW i \in 1..5, KnownAt(Reads[i]),
             disk[Artifacts[i]] = held["manifest"].hashes[i]
      PROVE  KnownAt(Reads[i + 1])
  <2>1. i \in 1..11 /\ i + 1 \in 1..11
    OBVIOUS
  <2>2. AllThere /\ HoldsManifest /\ "generator" \notin disk["manifest"].edits
    BY <1>6, <1>9, <2>1 DEF KnownAt
  <2>3. ASSUME NEW j \in 1..5, Reads[i + 1] \in Hashed(j) PROVE HashHolds(j)
    <3>1. i + 1 >= j + 1
      BY <2>1, <2>3, InReads
    <3>2. CASE i = j
      BY <1>9, <2>2, <3>2 DEF HashHolds, HoldsManifest
    <3>3. CASE i # j
      <4>1. i >= j + 1
        BY <3>1, <3>3
      <4>2. Reads[i] \in Hashed(j)
        BY <2>1, <4>1, InReads
      <4> QED
        BY <1>9, <4>2 DEF KnownAt
    <3> QED
      BY <3>2, <3>3
  <2>4. \A j \in 1..5 : Reads[i + 1] \notin Loaded(j)
    <3>1. \A j \in 1..5 : ~(i + 1 >= j + 6)
      OBVIOUS
    <3> QED
      BY <2>1, <3>1, InReads
  <2> QED
    BY <1>6, <2>1, <2>2, <2>3, <2>4 DEF KnownAt
<1> QED
  BY <1>4, <1>5, <1>8, <1>9

LEMMA KnownSoFar ==
  ASSUME NEW step \in Sourced \cup {"source"}, KnownAt(step)
  PROVE  /\ AllThere /\ HoldsManifest /\ "generator" \notin disk["manifest"].edits
         /\ \A i \in 1..5 : HashHolds(i)
         /\ \A i \in 1..4 : Whole(LoadOrder[i])
         /\ held["request"] = disk["request"] /\ held["certificate"] = disk["certificate"]
         /\ held["toolchain"] = disk["toolchain"] /\ held["identity"] = disk["identity"]
         /\ held["source"] = disk["source"]
<1>1. 11 \in 1..11 /\ Reads[11] = "source"
  BY ReadsAre
<1>2. step \in Read /\ step \in Named /\ step \in Steps
  BY <1>1 DEF Steps, Named, Read
<1>3. \A i \in 1..5 : step \in Hashed(i) /\ step \in Loaded(i)
  <2>1. \A i \in 1..5 : 11 >= i + 6
    OBVIOUS
  <2> QED
    BY <1>1, <2>1, InReads
<1>4. \A i \in 1..5 : HashHolds(i) /\ HoldsLoaded(i)
  BY <1>3 DEF KnownAt
<1>5. \A i \in 1..4 : Whole(LoadOrder[i])
  <2>1. \A i \in 1..4 : i \in 1..5 /\ i # 5
    OBVIOUS
  <2> QED
    BY <1>4, <2>1 DEF HoldsLoaded
<1>6. \A i \in 1..5 : held[LoadOrder[i]] = disk[LoadOrder[i]]
  BY <1>4 DEF HoldsLoaded
<1>7. 1 \in 1..5 /\ 2 \in 1..5 /\ 3 \in 1..5 /\ 4 \in 1..5 /\ 5 \in 1..5
  OBVIOUS
<1>8. /\ held["request"] = disk["request"] /\ held["certificate"] = disk["certificate"]
      /\ held["toolchain"] = disk["toolchain"] /\ held["identity"] = disk["identity"]
      /\ held["source"] = disk["source"]
  BY <1>6, <1>7, LoadOrderIs
<1> QED
  BY <1>2, <1>4, <1>5, <1>8 DEF KnownAt

LEMMA KnownSourced ==
  /\ KnownAt("source") /\ LoadedSource => KnownAt("toolchain")
  /\ KnownAt("toolchain") /\ LockHolds(held["manifest"], held["toolchain"])
       => KnownAt("identity")
  /\ KnownAt("identity") /\ "name" \notin held["identity"].edits => KnownAt("regenerate")
  /\ KnownAt("regenerate") /\ LoadedPair => KnownAt("manifest_hash")
  /\ KnownAt("manifest_hash") => KnownAt("lean")
  /\ KnownAt("lean") => KnownAt("inspect")
<1> DEFINE Base == /\ AllThere /\ HoldsManifest /\ "generator" \notin disk["manifest"].edits
                   /\ \A i \in 1..5 : HashHolds(i) /\ HoldsLoaded(i)
<1>1. 11 \in 1..11 /\ Reads[11] = "source" /\ "source" \notin Sourced
  BY ReadsAre
<1>2. \A step \in Sourced \cup {"source"} :
        /\ step \in Steps /\ step \in Named /\ step \in Read
        /\ \A i \in 1..5 : step \in Hashed(i) /\ step \in Loaded(i)
  <2>1. \A i \in 1..5 : 11 >= i + 6
    OBVIOUS
  <2> QED
    BY <1>1, <2>1, InReads DEF Steps, Named, Read
<1>3. \A step \in Sourced \cup {"source"} : KnownAt(step) => Base
  BY <1>2 DEF KnownAt
<1>4. ASSUME NEW step \in Sourced, Base,
             SourceHolds(disk["source"], disk["manifest"]),
             step # "toolchain" => LockHolds(disk["manifest"], disk["toolchain"]),
             step \in Last \cup {"regenerate"} => "name" \notin disk["identity"].edits,
             step \in Last => Verdict = "sound"
      PROVE  KnownAt(step)
  BY <1>2, <1>4 DEF KnownAt
<1> HIDE DEF Base
<1>5. /\ "toolchain" \in Sourced /\ "identity" \in Sourced /\ "regenerate" \in Sourced
      /\ "manifest_hash" \in Last /\ "lean" \in Last /\ "inspect" \in Last
      /\ Last \subseteq Sourced
      /\ "toolchain" \notin Last /\ "identity" \notin Last /\ "regenerate" \notin Last
  BY DEF Sourced, Last
<1>6. \A step \in Sourced :
        KnownAt(step) =>
          /\ SourceHolds(disk["source"], disk["manifest"])
          /\ step # "toolchain" => LockHolds(disk["manifest"], disk["toolchain"])
          /\ step \in Last \cup {"regenerate"} => "name" \notin disk["identity"].edits
          /\ step \in Last => Verdict = "sound"
  BY DEF KnownAt
<1>7. KnownAt("source") /\ LoadedSource => KnownAt("toolchain")
  <2>1. KnownAt("source") /\ LoadedSource => SourceHolds(disk["source"], disk["manifest"])
    BY KnownSoFar DEF LoadedSource, HoldsManifest
  <2> QED
    BY <1>3, <1>4, <1>5, <2>1
<1>8. KnownAt("toolchain") /\ LockHolds(held["manifest"], held["toolchain"])
        => KnownAt("identity")
  <2>1. KnownAt("toolchain") => held["manifest"] = disk["manifest"]
                                /\ held["toolchain"] = disk["toolchain"]
    BY <1>5, KnownSoFar DEF HoldsManifest
  <2> QED
    BY <1>3, <1>4, <1>5, <1>6, <2>1
<1>9. KnownAt("identity") /\ "name" \notin held["identity"].edits => KnownAt("regenerate")
  <2>1. KnownAt("identity") => held["identity"] = disk["identity"]
    BY <1>5, KnownSoFar
  <2> QED
    BY <1>3, <1>4, <1>5, <1>6, <2>1
<1>10. KnownAt("regenerate") /\ LoadedPair => KnownAt("manifest_hash")
  <2> SUFFICES ASSUME KnownAt("regenerate"), LoadedPair PROVE KnownAt("manifest_hash")
    OBVIOUS
  <2>1. /\ AllThere /\ HoldsManifest /\ "generator" \notin disk["manifest"].edits
        /\ \A i \in 1..5 : HashHolds(i)
        /\ \A i \in 1..4 : Whole(LoadOrder[i])
        /\ held["request"] = disk["request"] /\ held["certificate"] = disk["certificate"]
    BY <1>5, KnownSoFar
  <2>2. /\ SourceHolds(disk["source"], disk["manifest"])
        /\ LockHolds(disk["manifest"], disk["toolchain"])
        /\ "name" \notin disk["identity"].edits
    BY <1>5, <1>6
  <2>3. PairNow = "none"
    BY <2>1 DEF PairNow, LoadedPair, HoldsManifest
  <2>4. Verdict = "sound"
    BY <2>1, <2>2, <2>3 DEF Verdict, HoldsManifest
  <2> QED
    BY <1>3, <1>4, <1>5, <2>2, <2>4
<1>11. KnownAt("manifest_hash") => KnownAt("lean")
  BY <1>3, <1>4, <1>5, <1>6
<1>12. KnownAt("lean") => KnownAt("inspect")
  BY <1>3, <1>4, <1>5, <1>6
<1> QED
  BY <1>7, <1>8, <1>9, <1>10, <1>11, <1>12

(* A check that fails is the first that does.                               *)
LEMMA VerdictOfFailure ==
  ASSUME TypeInv
  PROVE  /\ ~AllThere => Verdict = "setup_integrity_error"
         /\ KnownAt("manifest") /\ ~Whole("manifest") => Verdict = "raised"
         /\ KnownAt("generator") /\ "generator" \in held["manifest"].edits
              => Verdict = "tamper_detected"
         /\ \A i \in 1..5 :
              KnownAt(Reads[i]) /\ disk[Artifacts[i]] # held["manifest"].hashes[i]
                => Verdict = "tamper_detected"
         /\ \A i \in 1..5 :
              /\ KnownAt(Reads[i + 5]) /\ ~Whole(LoadOrder[i])
              /\ i = 5 => disk[LoadOrder[i]].is # "torn"
              => Verdict = "raised"
         /\ KnownAt("source") /\ ~LoadedSource => Verdict = "tamper_detected"
         /\ KnownAt("toolchain") /\ ~LockHolds(held["manifest"], held["toolchain"])
              => Verdict = IF case.live THEN "setup_integrity_error" ELSE "tamper_detected"
         /\ KnownAt("identity") /\ "name" \in held["identity"].edits
              => Verdict = "tamper_detected"
         /\ KnownAt("regenerate") /\ ~LoadedPair
              => Verdict = RegeneratedFrom(held["request"], held["certificate"],
                                           held["manifest"])
<1>1. ~AllThere => Verdict = "setup_integrity_error"
  BY DEF Verdict
<1>2. KnownAt("manifest") /\ ~Whole("manifest") => Verdict = "raised"
  <2>1. "manifest" \in Steps
    BY DEF Steps
  <2> QED
    BY <2>1 DEF KnownAt, Verdict
<1>3. KnownAt("generator") /\ "generator" \in held["manifest"].edits
        => Verdict = "tamper_detected"
  <2>1. "generator" \in Steps /\ "generator" \in Named
    BY DEF Steps, Named
  <2> QED
    BY <2>1 DEF KnownAt, Verdict, HoldsManifest
<1>4. \A k \in 1..11 : Reads[k] \in Steps /\ Reads[k] \in Named /\ Reads[k] \in Read
  BY DEF Steps, Named, Read
<1>5. ASSUME NEW i \in 1..5, KnownAt(Reads[i]),
             disk[Artifacts[i]] # held["manifest"].hashes[i]
      PROVE  Verdict = "tamper_detected"
  <2>1. i \in 1..11
    OBVIOUS
  <2>2. AllThere /\ HoldsManifest
    BY <1>4, <1>5, <2>1 DEF KnownAt
  <2>3. ~HashHolds(i)
    BY <1>5, <2>2 DEF HashHolds, HoldsManifest
  <2> QED
    BY <2>2, <2>3 DEF Verdict, HoldsManifest
<1>6. ASSUME NEW i \in 1..5, KnownAt(Reads[i + 5]), ~Whole(LoadOrder[i]),
             i = 5 => disk[LoadOrder[i]].is # "torn"
      PROVE  Verdict = "raised"
  <2>1. i + 5 \in 1..11 /\ \A j \in 1..5 : i + 5 >= j + 1
    OBVIOUS
  <2>2. AllThere /\ HoldsManifest /\ "generator" \notin disk["manifest"].edits
    BY <1>4, <1>6, <2>1 DEF KnownAt
  <2>3. \A j \in 1..5 : HashHolds(j)
    BY <1>6, <2>1, InReads DEF KnownAt
  <2>4. disk[LoadOrder[i]].is \in {"torn", "full"}
    <3>1. LoadOrder[i] \in Roles
      BY LoadOrderIs
    <3>2. disk[LoadOrder[i]].is \in {"absent", "torn", "full"}
      BY <3>1, FileFields DEF TypeInv, BuildType, DiskType
    <3> QED
      BY <2>2, <3>1, <3>2 DEF AllThere
  <2>5. i \in 1..4
    BY <1>6, <2>4 DEF Whole
  <2> QED
    BY <1>6, <2>2, <2>3, <2>5 DEF Verdict, HoldsManifest
<1>7. KnownAt("source") /\ ~LoadedSource => Verdict = "tamper_detected"
  <2> SUFFICES ASSUME KnownAt("source"), ~LoadedSource PROVE Verdict = "tamper_detected"
    OBVIOUS
  <2>1. /\ AllThere /\ HoldsManifest /\ "generator" \notin disk["manifest"].edits
        /\ \A i \in 1..5 : HashHolds(i)
        /\ \A i \in 1..4 : Whole(LoadOrder[i])
        /\ held["source"] = disk["source"]
    BY KnownSoFar
  <2>2. ~SourceHolds(disk["source"], disk["manifest"])
    BY <2>1 DEF LoadedSource, HoldsManifest
  <2> QED
    BY <2>1, <2>2 DEF Verdict, HoldsManifest
<1>8. ASSUME NEW step \in Sourced, KnownAt(step)
      PROVE  /\ AllThere /\ HoldsManifest /\ "generator" \notin disk["manifest"].edits
             /\ \A i \in 1..5 : HashHolds(i)
             /\ \A i \in 1..4 : Whole(LoadOrder[i])
             /\ SourceHolds(disk["source"], disk["manifest"])
             /\ held["request"] = disk["request"] /\ held["certificate"] = disk["certificate"]
             /\ held["toolchain"] = disk["toolchain"] /\ held["identity"] = disk["identity"]
             /\ step # "toolchain" => LockHolds(disk["manifest"], disk["toolchain"])
             /\ step = "regenerate" => "name" \notin disk["identity"].edits
  <2>1. step \in Sourced \cup {"source"}
    OBVIOUS
  <2> QED
    BY <1>8, <2>1, KnownSoFar DEF KnownAt
<1>9. "toolchain" \in Sourced /\ "identity" \in Sourced /\ "regenerate" \in Sourced
  BY DEF Sourced
<1>10. KnownAt("toolchain") /\ ~LockHolds(held["manifest"], held["toolchain"])
         => Verdict = IF case.live THEN "setup_integrity_error" ELSE "tamper_detected"
  <2>1. KnownAt("toolchain") => held["manifest"] = disk["manifest"]
                                /\ held["toolchain"] = disk["toolchain"]
    BY <1>8, <1>9 DEF HoldsManifest
  <2>2. KnownAt("toolchain") /\ ~LockHolds(disk["manifest"], disk["toolchain"])
          => Verdict = IF case.live THEN "setup_integrity_error" ELSE "tamper_detected"
    BY <1>8, <1>9 DEF Verdict, HoldsManifest
  <2> QED
    BY <2>1, <2>2
<1>11. KnownAt("identity") /\ "name" \in held["identity"].edits
         => Verdict = "tamper_detected"
  <2>1. KnownAt("identity") => held["identity"] = disk["identity"]
    BY <1>8, <1>9
  <2>2. KnownAt("identity") /\ "name" \in disk["identity"].edits
          => Verdict = "tamper_detected"
    BY <1>8, <1>9 DEF Verdict, HoldsManifest
  <2> QED
    BY <2>1, <2>2
<1>12. KnownAt("regenerate") /\ ~LoadedPair
         => Verdict = RegeneratedFrom(held["request"], held["certificate"], held["manifest"])
  <2> SUFFICES ASSUME KnownAt("regenerate"), ~LoadedPair
               PROVE  Verdict = RegeneratedFrom(held["request"], held["certificate"],
                                                held["manifest"])
    OBVIOUS
  <2>1. PairNow = RegeneratedFrom(held["request"], held["certificate"], held["manifest"])
    BY <1>8, <1>9 DEF PairNow, HoldsManifest
  <2>2. PairNow # "none"
    BY <2>1 DEF LoadedPair
  <2>3. Verdict = PairNow
    BY <1>8, <1>9, <2>2 DEF Verdict, HoldsManifest
  <2> QED
    BY <2>1, <2>3
<1> QED
  BY <1>1, <1>2, <1>3, <1>5, <1>6, <1>7, <1>10, <1>11, <1>12

LEMMA VerdictKept ==
  ASSUME UNCHANGED <<case, disk, live>>
  PROVE  /\ Verdict' = Verdict /\ AllThere' = AllThere
         /\ \A r : Whole(r)' = Whole(r)
         /\ \A i : HashHolds(i)' = HashHolds(i)
         /\ \A m, t : LockHolds(m, t)' = LockHolds(m, t)
<1>1. AllThere' = AllThere
  BY DEF AllThere
<1>2. \A r : Whole(r)' = Whole(r)
  BY DEF Whole
<1>3. \A i : HashHolds(i)' = HashHolds(i)
  BY DEF HashHolds
<1>4. \A m, t : LockHolds(m, t)' = LockHolds(m, t)
  BY DEF LockHolds
<1>5. PairNow' = PairNow
  BY DEF PairNow
<1>6. LockHolds(disk["manifest"], disk["toolchain"])'
        = LockHolds(disk["manifest"], disk["toolchain"])
  BY DEF LockHolds
<1>7. (\E i \in 1..5 : ~HashHolds(i))' = (\E i \in 1..5 : ~HashHolds(i))
  BY <1>3
<1>8. (\E i \in 1..4 : ~Whole(LoadOrder[i]))' = (\E i \in 1..4 : ~Whole(LoadOrder[i]))
  BY DEF Whole
<1>9. Whole("manifest")' = Whole("manifest")
  BY DEF Whole
<1>10. Verdict' = Verdict
  BY <1>1, <1>5, <1>6, <1>7, <1>8, <1>9 DEF Verdict
<1> QED
  BY <1>1, <1>2, <1>3, <1>4, <1>10

(* The parts of KnownAt that do not depend on what is held.                 *)
LEMMA KnownMoves ==
  ASSUME UNCHANGED <<case, disk, live>>, NEW to, pc' = to, KnownAt(to),
         to \in Named => HoldsManifest',
         \A i \in 1..5 : to \in Loaded(i) => HoldsLoaded(i)'
  PROVE  KnownAt(pc)'
<1>1. /\ Verdict' = Verdict /\ AllThere' = AllThere
      /\ \A i : HashHolds(i)' = HashHolds(i)
  BY VerdictKept
<1>2. LockHolds(disk["manifest"], disk["toolchain"])'
        = LockHolds(disk["manifest"], disk["toolchain"])
  BY DEF LockHolds
<1>3. SourceHolds(disk["source"], disk["manifest"])'
        = SourceHolds(disk["source"], disk["manifest"])
  OBVIOUS
<1>4. /\ to \in Steps => AllThere'
      /\ to \in Read  => "generator" \notin disk'["manifest"].edits
      /\ \A i \in 1..5 : to \in Hashed(i) => HashHolds(i)'
      /\ to \in Sourced => SourceHolds(disk["source"], disk["manifest"])'
      /\ to \in Sourced \ {"toolchain"} => LockHolds(disk["manifest"], disk["toolchain"])'
      /\ to \in Last \cup {"regenerate"} => "name" \notin disk'["identity"].edits
      /\ to \in Last => Verdict' = "sound"
  BY <1>1, <1>2, <1>3 DEF KnownAt
<1> QED
  BY <1>4 DEF KnownAt

LEMMA LoadManifestVerdict ==
  ASSUME TypeInv, VerdictInv, Still, Whole("manifest"),
         Reaches("manifest", "generator", "manifest")
  PROVE  VerdictInv'
<1> SUFFICES ASSUME ~changed'
             PROVE  (KnownAt(pc) /\ \A i \in 1..Len(results) : AnswerRight(results[i]))'
  BY DEF VerdictInv
<1>1. /\ UNCHANGED <<case, disk, live, changed, results>> /\ pc = "manifest"
      /\ pc' = "generator" /\ held' = [held EXCEPT !["manifest"] = disk["manifest"]]
  BY DEF Still, bundleVars, Reaches
<1>2. KnownAt("manifest") /\ \A i \in 1..Len(results) : AnswerRight(results[i])
  BY <1>1 DEF VerdictInv
<1>3. "manifest" \in Steps /\ "manifest" \in Roles
  BY RolesAre DEF Steps
<1>4. AllThere' /\ HoldsManifest'
  BY <1>1, <1>2, <1>3, VerdictKept DEF KnownAt, HoldsManifest, Whole, TypeInv, ReplayType
<1>5. /\ "generator" \notin Read \cup Sourced \cup Last \cup {"regenerate"}
      /\ \A i \in 1..5 : "generator" \notin Hashed(i) /\ "generator" \notin Loaded(i)
  BY ReadsAre, InReads DEF Read, Sourced, Last
<1>6. KnownAt(pc)'
  BY <1>1, <1>4, <1>5 DEF KnownAt
<1>7. \A i \in 1..Len(results') : AnswerRight(results[i])'
  BY <1>1, <1>2, VerdictKept DEF AnswerRight
<1> QED
  BY <1>6, <1>7

LEMMA LoadVerdict ==
  ASSUME TypeInv, VerdictInv, Still, NEW i \in 1..5, i # 5 => Whole(LoadOrder[i]),
         Reaches(Reads[i + 5], Reads[i + 6], LoadOrder[i])
  PROVE  VerdictInv'
<1> SUFFICES ASSUME ~changed'
             PROVE  (KnownAt(pc) /\ \A j \in 1..Len(results) : AnswerRight(results[j]))'
  BY DEF VerdictInv
<1> DEFINE from == Reads[i + 5]
           to == Reads[i + 6]
           r == LoadOrder[i]
<1>1. /\ UNCHANGED <<case, disk, live, changed, results>> /\ pc = from
      /\ pc' = to /\ held' = [held EXCEPT ![r] = disk[r]]
  BY DEF Still, bundleVars, Reaches
<1>2. KnownAt(from) /\ \A j \in 1..Len(results) : AnswerRight(results[j])
  BY <1>1 DEF VerdictInv
<1>3. r \in Roles /\ r # "manifest" /\ held \in [Roles -> AnyFile(case.builds)]
      /\ "manifest" \in Roles
  BY LoadOrderIs, RolesAre DEF TypeInv, ReplayType
<1>4. i + 5 \in 1..11 /\ i + 6 \in 1..11
  OBVIOUS
<1>5. /\ from \in Steps /\ from \in Named /\ from \in Read /\ to \in Named
      /\ to \notin Sourced \cup Last \cup {"regenerate"}
      /\ \A j \in 1..5 : from \in Hashed(j)
  <2>1. \A j \in 1..5 : i + 5 >= j + 1
    OBVIOUS
  <2>2. from \in Named /\ to \in Named \ Sourced /\ from \in Read /\ from \in Steps
    BY <1>4, PlacesAre, StepsAre DEF Read
  <2> QED
    BY <1>4, <2>1, <2>2, InReads, PlacesAre
<1>6. /\ AllThere /\ HoldsManifest /\ "generator" \notin disk["manifest"].edits
      /\ \A j \in 1..5 : HashHolds(j)
  BY <1>2, <1>5 DEF KnownAt
<1>7. HoldsManifest'
  BY <1>1, <1>3, <1>6 DEF HoldsManifest, Whole
<1>8. ASSUME NEW j \in 1..5, to \in Loaded(j)
      PROVE  HoldsLoaded(j)'
  <2>1. i + 6 >= j + 6
    BY <1>4, <1>8, InReads
  <2>2. CASE i = j
    <3>1. held'[r] = disk'[r] /\ disk' = disk
      BY <1>1, <1>3
    <3> QED
      BY <2>2, <3>1 DEF HoldsLoaded, Whole
  <2>3. CASE i # j
    <3>1. i + 5 >= j + 6
      BY <2>1, <2>3
    <3>2. HoldsLoaded(j)
      BY <1>2, <1>4, <3>1, InReads DEF KnownAt
    <3>3. LoadOrder[j] # r /\ LoadOrder[j] \in Roles
      BY <2>3, LoadOrderIs
    <3> QED
      BY <1>1, <1>3, <3>2, <3>3 DEF HoldsLoaded, Whole
  <2> QED
    BY <2>2, <2>3
<1> HIDE DEF from, to, r
<1>9. KnownAt(pc)'
  <2>1. AllThere' /\ (\A j \in 1..5 : HashHolds(j)') /\ "generator" \notin disk'["manifest"].edits
    BY <1>1, <1>6, VerdictKept
  <2> QED
    BY <1>1, <1>5, <1>7, <1>8, <2>1 DEF KnownAt
<1>10. \A j \in 1..Len(results') : AnswerRight(results[j])'
  BY <1>1, <1>2, VerdictKept DEF AnswerRight
<1> QED
  BY <1>9, <1>10

LEMMA FailVerdict ==
  ASSUME TypeInv, VerdictInv, UNCHANGED <<case, bundleVars>>, waiter' = "idle",
         NEW from, NEW o \in Outcomes, from # "end", Fails(from, o),
         ~changed => AnswerRight(o)
  PROVE  VerdictInv'
<1> SUFFICES ASSUME ~changed'
             PROVE  (KnownAt(pc) /\ \A i \in 1..Len(results) : AnswerRight(results[i]))'
  BY DEF VerdictInv
<1>1. /\ UNCHANGED <<case, disk, live, changed>> /\ pc = from
      /\ pc' \in {"idle", "end"}
  BY DEF bundleVars, Fails, Ends
<1>2. AnswerRight(o) /\ \A i \in 1..Len(results) : AnswerRight(results[i])
  BY <1>1 DEF VerdictInv
<1>3. /\ Len(results') = Len(results) + 1 /\ results'[Len(results')] = o
      /\ \A i \in 1..Len(results) : results'[i] = results[i]
      /\ Len(results) \in Nat
  <2>1. Ends(o) /\ pc # "end" /\ UNCHANGED case /\ Len(results) \in Nat
    BY <1>1 DEF Fails, TypeInv, ReplayType
  <2> QED
    BY <2>1, EndsType
<1>4. Verdict' = Verdict
  BY <1>1, VerdictKept
<1>5. \A i \in 1..Len(results') : AnswerRight(results[i])'
  <2> SUFFICES ASSUME NEW i \in 1..Len(results') PROVE AnswerRight(results[i])'
    OBVIOUS
  <2>1. results'[i] = o \/ (i \in 1..Len(results) /\ results'[i] = results[i])
    BY <1>3
  <2>2. AnswerRight(results'[i])
    BY <1>2, <2>1
  <2> QED
    BY <1>1, <1>4, <2>2 DEF AnswerRight
<1>6. KnownAt(pc)'
  <2>1. PICK to \in {"idle", "end"} : pc' = to
    BY <1>1
  <2>2. to \notin Named /\ \A i \in 1..5 : to \notin Loaded(i)
    BY PlacesAre, InReads
  <2>3. KnownAt(to)
    BY KnownNext
  <2> QED
    BY <1>1, <2>1, <2>2, <2>3, KnownMoves
<1> QED
  BY <1>5, <1>6

LEMMA GoesOnVerdict ==
  ASSUME VerdictInv, UNCHANGED <<case, disk, live, changed, held, results>>,
         NEW to, pc' = to, ~changed => KnownAt(to)
  PROVE  VerdictInv'
<1> SUFFICES ASSUME ~changed'
             PROVE  (KnownAt(pc) /\ \A i \in 1..Len(results) : AnswerRight(results[i]))'
  BY DEF VerdictInv
<1>1. KnownAt(to) /\ \A i \in 1..Len(results) : AnswerRight(results[i])
  BY DEF VerdictInv
<1>2. HoldsManifest' = HoldsManifest /\ \A i : HoldsLoaded(i)' = HoldsLoaded(i)
  BY DEF HoldsManifest, HoldsLoaded, Whole
<1>3. to \in Named => HoldsManifest'
  BY <1>1, <1>2 DEF KnownAt
<1>4. \A i \in 1..5 : to \in Loaded(i) => HoldsLoaded(i)'
  BY <1>1, <1>2 DEF KnownAt
<1>5. KnownAt(pc)'
  BY <1>1, <1>3, <1>4, KnownMoves
<1>6. \A i \in 1..Len(results') : AnswerRight(results[i])'
  BY <1>1, VerdictKept DEF AnswerRight
<1> QED
  BY <1>5, <1>6

LEMMA PassVerdict ==
  ASSUME VerdictInv, Still, NEW from, NEW to, Passes(from, to),
         KnownAt(from) => KnownAt(to)
  PROVE  VerdictInv'
<1>1. /\ UNCHANGED <<case, disk, live, changed, held, results>> /\ pc = from /\ pc' = to
  BY DEF Still, bundleVars, Passes
<1>2. ~changed => KnownAt(to)
  BY <1>1 DEF VerdictInv
<1> QED
  BY <1>1, <1>2, GoesOnVerdict

LEMMA AnswersOf ==
  /\ \A o \in {"theorem_pending", "theorem_proved", "theorem_failure"} :
       Verdict = "sound" => AnswerRight(o)
  /\ \A o \in {"setup_integrity_error", "tamper_detected", "raised"} :
       Verdict = o \/ case.lean = "required" => AnswerRight(o)
  /\ Verdict = "sound" => \A code : AnswerRight(FailureOf(code))
BY DEF AnswerRight, Accepting, FailureOf, Deferred

LEMMA VerdictStep ==
  ASSUME TypeInv, VerdictInv, Replay
  PROVE  VerdictInv'
<1> USE StepsAre, OutcomesAre, AnswersOf, KnownNext, KnownSourced, VerdictOfFailure
<1>1. ~changed => KnownAt(pc)
  BY DEF VerdictInv
<1>2. ASSUME NEW from, NEW o \in Outcomes, from \notin {"end", "inspect"}, Still,
             Fails(from, o), KnownAt(from) => AnswerRight(o)
      PROVE  VerdictInv'
  <2>1. UNCHANGED <<case, bundleVars>> /\ waiter' = "idle"
    BY <1>2 DEF Still, boundedVars, Fails, TypeInv, ReplayType
  <2>2. ~changed => AnswerRight(o)
    BY <1>1, <1>2 DEF Fails
  <2> QED
    BY <1>2, <2>1, <2>2, FailVerdict
<1>3. CASE Open
  <2>1. CASE Still /\ AllThere /\ Passes("idle", "manifest")
    BY <2>1, PassVerdict
  <2>2. CASE Still /\ ~AllThere /\ Fails("idle", "setup_integrity_error")
    BY <1>2, <2>2
  <2> QED
    BY <1>3, <2>1, <2>2, OpenSteps
<1>4. CASE LoadManifest
  <2>1. "manifest" \in Roles
    BY RolesAre
  <2>2. CASE Still /\ Whole("manifest") /\ Reaches("manifest", "generator", "manifest")
    BY <2>2, LoadManifestVerdict
  <2>3. CASE Still /\ ~Whole("manifest") /\ Fails("manifest", "raised")
    BY <1>2, <2>3
  <2> QED
    BY <1>4, <2>1, <2>2, <2>3, FetchSteps DEF LoadManifest
<1>5. CASE CheckGenerator
  <2>1. CASE /\ Still /\ "generator" \notin held["manifest"].edits
             /\ Passes("generator", Reads[1])
    BY <2>1, PassVerdict
  <2>2. CASE /\ Still /\ "generator" \in held["manifest"].edits
             /\ Fails("generator", "tamper_detected")
    BY <1>2, <2>2
  <2> QED
    BY <1>5, <2>1, <2>2, GeneratorSteps
<1>6. CASE VerifyHash
  <2>1. ASSUME NEW i \in 1..5, Still,
               disk[Artifacts[i]] = held["manifest"].hashes[i],
               Passes(Reads[i], Reads[i + 1])
        PROVE  VerdictInv'
    BY <2>1, PassVerdict
  <2>2. ASSUME NEW i \in 1..5, Still,
               disk[Artifacts[i]] # held["manifest"].hashes[i],
               Fails(Reads[i], "tamper_detected")
        PROVE  VerdictInv'
    <3>1. i \in 1..11
      OBVIOUS
    <3> QED
      BY <1>2, <2>2, <3>1
  <2> QED
    BY <1>6, <2>1, <2>2, HashSteps
<1>7. CASE Load
  <2>1. ASSUME NEW i \in 1..5, Still, i # 5 => Whole(LoadOrder[i]),
               Reaches(Reads[i + 5], Reads[i + 6], LoadOrder[i])
        PROVE  VerdictInv'
    BY <2>1, LoadVerdict
  <2>2. ASSUME NEW i \in 1..5, Still, ~Whole(LoadOrder[i]),
               i = 5 => disk[LoadOrder[i]].is # "torn", Fails(Reads[i + 5], "raised")
        PROVE  VerdictInv'
    <3>1. i + 5 \in 1..11
      OBVIOUS
    <3>2. KnownAt(Reads[i + 5]) => Verdict = "raised"
      BY <2>2
    <3> QED
      BY <1>2, <2>2, <3>1, <3>2
  <2> QED
    BY <1>7, <2>1, <2>2, LoadSteps
<1>8. CASE CheckSource
  <2>1. CASE Still /\ LoadedSource /\ Passes("source", "toolchain")
    BY <2>1, PassVerdict
  <2>2. CASE Still /\ ~LoadedSource /\ Fails("source", "tamper_detected")
    BY <1>2, <2>2
  <2> QED
    BY <1>8, <2>1, <2>2, SourceSteps
<1>9. CASE CheckToolchain
  <2> DEFINE holds == LockHolds(held["manifest"], held["toolchain"])
             refusal == IF case.live THEN "setup_integrity_error" ELSE "tamper_detected"
  <2>1. CASE Still /\ holds /\ Passes("toolchain", "identity")
    BY <2>1, PassVerdict
  <2>2. CASE Still /\ ~holds /\ Fails("toolchain", refusal)
    <3>1. KnownAt("toolchain") => Verdict = refusal
      BY <2>2
    <3>2. refusal \in {"setup_integrity_error", "tamper_detected"}
      OBVIOUS
    <3> HIDE DEF refusal
    <3> QED
      BY <1>2, <2>2, <3>1, <3>2
  <2> QED
    BY <1>9, <2>1, <2>2, ToolchainSteps
<1>10. CASE CheckIdentity
  <2>1. CASE /\ Still /\ "name" \notin held["identity"].edits
             /\ Passes("identity", "regenerate")
    BY <2>1, PassVerdict
  <2>2. CASE /\ Still /\ "name" \in held["identity"].edits
             /\ Fails("identity", "tamper_detected")
    BY <1>2, <2>2
  <2> QED
    BY <1>10, <2>1, <2>2, IdentitySteps
<1>11. CASE Regenerate
  <2> DEFINE pair == RegeneratedFrom(held["request"], held["certificate"], held["manifest"])
  <2>1. CASE Still /\ LoadedPair /\ Passes("regenerate", "manifest_hash")
    BY <2>1, PassVerdict
  <2>2. CASE /\ Still /\ ~LoadedPair /\ pair \in {"raised", "tamper_detected"}
             /\ Fails("regenerate", pair)
    <3>1. KnownAt("regenerate") => Verdict = pair
      BY <2>2
    <3> HIDE DEF pair
    <3> QED
      BY <1>2, <2>2, <3>1
  <2> QED
    BY <1>11, <2>1, <2>2, RegenerateSteps
<1>12. CASE HashManifest
  <2>1. CASE Still /\ Passes("manifest_hash", "lean")
    BY <2>1, PassVerdict
  <2>2. CASE Still /\ disk["manifest"].is = "absent" /\ Fails("manifest_hash", "raised")
    <3>1. ~KnownAt("manifest_hash")
      BY <2>2, RolesAre DEF KnownAt, AllThere
    <3> QED
      BY <1>2, <2>2, <3>1
  <2> QED
    BY <1>12, <2>1, <2>2, ManifestHashSteps
<1>13. KnownAt("lean") \/ KnownAt("inspect") => Verdict = "sound"
  BY DEF KnownAt, Last
<1>14. CASE StartLean
  <2>1. ASSUME NEW o \in {"theorem_pending", "setup_integrity_error"}, Still,
               o = "setup_integrity_error" => case.lean = "required", Fails("lean", o)
        PROVE  VerdictInv'
    BY <1>2, <1>13, <2>1
  <2>2. CASE /\ Still /\ pc = "lean" /\ pc' = "inspect" /\ lean' = "build"
             /\ UNCHANGED <<mode, held, results>>
    <3>1. /\ UNCHANGED <<case, disk, live, changed, held, results>>
      BY <2>2 DEF Still, bundleVars
    <3>2. ~changed => KnownAt("inspect")
      BY <1>1, <2>2
    <3> QED
      BY <2>2, <3>1, <3>2, GoesOnVerdict
  <2> QED
    BY <1>14, <2>1, <2>2, StartSteps
<1>15. CASE RunLean
  <2>1. UNCHANGED <<case, disk, live, changed, held, results, pc>>
    BY <1>15, WaitSteps DEF bundleVars, replayVars
  <2>2. pc = "inspect"
    BY <1>15, WaitSteps
  <2> QED
    BY <1>1, <2>1, <2>2, GoesOnVerdict
<1>16. CASE LeanAnswers
  <2>1. /\ pc = "inspect" /\ UNCHANGED <<case, bundleVars>> /\ waiter' = "idle"
    BY <1>16, AnswerSteps
  <2>2. ASSUME NEW o \in Outcomes, Fails("inspect", o), Verdict = "sound" => AnswerRight(o)
        PROVE  VerdictInv'
    <3>1. ~changed => AnswerRight(o)
      BY <1>1, <1>13, <2>1, <2>2
    <3> QED
      BY <2>1, <2>2, <3>1, FailVerdict
  <2>3. CASE Fails("inspect", FailureOf(answer))
    BY <2>2, <2>3
  <2>4. CASE \E o \in {"theorem_proved", "theorem_failure"} : Fails("inspect", o)
    BY <2>2, <2>4
  <2>5. CASE UNCHANGED <<pc, mode, held, results>>
    <3>1. UNCHANGED <<case, disk, live, changed, held, results, pc>>
      BY <2>1, <2>5 DEF bundleVars
    <3> QED
      BY <1>1, <2>1, <3>1, GoesOnVerdict
  <2> QED
    BY <1>16, <2>3, <2>4, <2>5, AnswerSteps
<1> QED
  BY <1>3, <1>4, <1>5, <1>6, <1>7, <1>8, <1>9, <1>10, <1>11, <1>12, <1>14, <1>15, <1>16
     DEF Replay

LEMMA VerdictOutside ==
  ASSUME TypeInv, VerdictInv, Next, ~Replay
  PROVE  VerdictInv'
<1>1. ASSUME UNCHANGED <<case, pc, mode, held, results>>,
             \/ UNCHANGED <<disk, live, changed>>
             \/ changed' = Begun
             \/ changed' = (changed \/ (Begun /\ disk' # disk)) /\ UNCHANGED live
      PROVE  VerdictInv'
  <2>1. CASE changed'
    BY <2>1 DEF VerdictInv
  <2>2. CASE ~Begun
    <3>1. pc = "idle" /\ mode = 1
      BY <2>2 DEF Begun, TypeInv, ReplayType
    <3>2. pc' = "idle" /\ Len(results') = 0
      BY <1>1, <3>1 DEF TypeInv, ReplayType
    <3>3. KnownAt(pc)'
      <4>1. /\ "idle" \notin Steps \cup Named \cup Read \cup Sourced \cup Last
            /\ \A k \in 1..5 : "idle" \notin Hashed(k) \cup Loaded(k)
        BY PlacesAre, StepsAre, InReads DEF Named
      <4> QED
        BY <3>2, <4>1 DEF KnownAt
    <3>4. 1..Len(results') = {}
      BY <3>2
    <3> QED
      BY <3>3, <3>4 DEF VerdictInv
  <2>3. CASE UNCHANGED <<disk, live, changed>>
    <3>1. ~changed => KnownAt(pc)
      BY DEF VerdictInv
    <3> QED
      BY <1>1, <2>3, <3>1, GoesOnVerdict
  <2>4. CASE Begun /\ ~changed'
    <3>1. UNCHANGED <<disk, live, changed>>
      BY <1>1, <2>4 DEF TypeInv, BuildType
    <3> QED
      BY <2>3, <3>1
  <2> QED
    BY <2>1, <2>2, <2>4
<1>2. CASE LeanProcesses
  <2>1. UNCHANGED <<case, pc, mode, held, results, disk, live, changed>>
    BY <1>2, ProcessSteps DEF replayVars, bundleVars
  <2> QED
    BY <1>1, <2>1
<1>3. CASE Advance
  <2>1. UNCHANGED <<case, pc, mode, held, results>> /\ changed' = Begun
    BY <1>3 DEF Advance, replayVars
  <2> QED
    BY <1>1, <2>1
<1>4. ASSUME NEW c \in case.builds, Build(c) PROVE VerdictInv'
  <2>1. /\ UNCHANGED <<case, live, pc, mode, held, results>>
        /\ (disk' = disk /\ changed' = changed) \/ changed' = Begun
    BY <1>4, BuildFacts DEF TypeInv, replayVars
  <2> QED
    BY <1>1, <2>1
<1>5. ASSUME NEW c \in case.builds, Crash(c) PROVE VerdictInv'
  <2>1. UNCHANGED <<case, disk, live, changed, pc, mode, held, results>>
    BY <1>5 DEF Crash, replayVars
  <2> QED
    BY <1>1, <2>1
<1>6. ASSUME NEW t \in case.tampers, Tamper(t) PROVE VerdictInv'
  <2>1. /\ UNCHANGED <<case, live, pc, mode, held, results>>
        /\ changed' = (changed \/ (Begun /\ disk' # disk))
    BY <1>6 DEF Tamper, replayVars
  <2> QED
    BY <1>1, <2>1
<1>7. CASE UNCHANGED vars
  <2>1. UNCHANGED <<case, pc, mode, held, results, disk, live, changed>>
    BY <1>7 DEF vars, replayVars, bundleVars
  <2> QED
    BY <1>1, <2>1
<1> QED
  BY <1>2, <1>3, <1>4, <1>5, <1>6, <1>7 DEF Next, Ended

LEMMA VerdictInit == Init => VerdictInv
<1> SUFFICES ASSUME Init PROVE VerdictInv
  OBVIOUS
<1>1. pc = "idle" /\ Len(results) = 0
  BY EmptySeq DEF Init
<1>2. 1..Len(results) = {}
  BY <1>1
<1> QED
  BY <1>1, <1>2, KnownNext DEF VerdictInv

LEMMA VerdictAlways == Spec => [](TypeInv /\ VerdictInv)
<1>1. Init => TypeInv /\ VerdictInv
  BY TypeInit, VerdictInit
<1>2. TypeInv /\ VerdictInv /\ [Next]_vars => (TypeInv /\ VerdictInv)'
  <2> SUFFICES ASSUME TypeInv, VerdictInv, [Next]_vars PROVE TypeInv' /\ VerdictInv'
    OBVIOUS
  <2>1. TypeInv'
    BY TypeStep
  <2>2. VerdictInv'
    <3>1. CASE Replay
      BY <3>1, VerdictStep
    <3>2. CASE Next /\ ~Replay
      BY <3>2, VerdictOutside
    <3>3. CASE UNCHANGED vars
      <4>1. /\ UNCHANGED <<case, disk, live, changed, held, results, pc>>
        BY <3>3 DEF vars, bundleVars, replayVars
      <4>2. ~changed => KnownAt(pc)
        BY DEF VerdictInv
      <4> QED
        BY <4>1, <4>2, GoesOnVerdict
    <3> QED
      BY <3>1, <3>2, <3>3
  <2> QED
    BY <2>1, <2>2
<1> QED
  BY <1>1, <1>2, PTL DEF Spec

(***************************************************************************)
(* both_modes_agree: the generator-assisted and the generator-independent   *)
(* replay of a directory that does not change in between find the same      *)
(* fault in it, or both find none: also when crashed, concurrent or edited  *)
(* builds have left a mixture there.  Only what Lean says may differ.       *)
(***************************************************************************)
THEOREM BothModesAgree == Spec => []ModesAgree
<1>1. TypeInv /\ VerdictInv => ModesAgree
  <2> DEFINE Integrity(o) == IF o \in Accepting \cup {"theorem_failure"} THEN "sound" ELSE o
  <2> SUFFICES ASSUME TypeInv, VerdictInv, Len(results) = 2, ~changed, case.lean # "required"
               PROVE  Integrity(results[1]) = Integrity(results[2])
    BY DEF ModesAgree
  <2>1. 1 \in 1..Len(results) /\ 2 \in 1..Len(results)
    OBVIOUS
  <2>2. AnswerRight(results[1]) /\ AnswerRight(results[2])
    BY <2>1 DEF VerdictInv
  <2>3. Integrity(results[1]) = Verdict /\ Integrity(results[2]) = Verdict
    BY <2>2 DEF AnswerRight
  <2> QED
    BY <2>3
<1> QED
  BY <1>1, VerdictAlways, PTL

-----------------------------------------------------------------------------
(***************************************************************************)
(* Edits.  Nothing is edited before the builds have ended, so no hash of a  *)
(* request, a certificate, a source or a toolchain is that of an edited     *)
(* file; and each edit leaves its mark.                                     *)
(***************************************************************************)
HashesClean ==
  \A c \in case.builds : \A i \in 1..Len(builder[c].hashes) : builder[c].hashes[i].edits = {}
ManifestClean ==
  disk["manifest"].is # "absent" => \A i \in 1..4 : disk["manifest"].hashes[i].edits = {}
BuildsFirst ==
  (\E c \in case.builds : ~At(c, {0})) => edited = {} /\ \A r \in Roles : disk[r].edits = {}
Marked == \A t \in edited : Mark(t)

TamperInv == HashesClean /\ ManifestClean /\ BuildsFirst /\ Marked

LEMMA TamperInit == Init => TamperInv
<1> SUFFICES ASSUME Init PROVE TamperInv
  OBVIOUS
<1>1. /\ case \in Cases /\ disk = [r \in Roles |-> Absent] /\ edited = {}
      /\ builder = [c \in case.builds |-> [at |-> 1, hashes |-> <<>>]]
  BY DEF Init
<1>2. \A r \in Roles : disk[r].is = "absent" /\ disk[r].edits = {}
  BY <1>1, AbsentType
<1>3. "manifest" \in Roles
  BY RolesAre
<1>4. \A c \in case.builds : Len(builder[c].hashes) = 0
  BY <1>1
<1>5. HashesClean
  BY <1>4 DEF HashesClean
<1> QED
  BY <1>1, <1>2, <1>3, <1>5 DEF TamperInv, ManifestClean, BuildsFirst, Marked

LEMMA BuildTamper ==
  ASSUME TypeInv, TamperInv, NEW c \in case.builds, Build(c)
  PROVE  TamperInv'
<1> USE DEF At
<1>1. /\ UNCHANGED <<case, edited>> /\ builder[c].at \in 1..18
      /\ \A d \in case.builds : d # c => builder'[d] = builder[d]
      /\ \A r \in Roles : disk'[r] # disk[r] => disk'[r].edits = {}
  BY BuildFacts DEF TypeInv
<1>2. edited = {} /\ \A r \in Roles : disk[r].edits = {}
  BY <1>1 DEF TamperInv, BuildsFirst
<1>3. BuildsFirst' /\ Marked'
  BY <1>1, <1>2 DEF BuildsFirst, Marked
<1>4. BuildType /\ builder[c] \in Builders(case.builds)
      /\ \A i \in 1..Len(builder[c].hashes) : builder[c].hashes[i].edits = {}
  BY DEF TypeInv, BuildType, TamperInv, HashesClean
<1>5. ASSUME builder'[c].hashes \in {<<>>, builder[c].hashes}
      PROVE  HashesClean'
  <2>1. \A i \in 1..Len(builder'[c].hashes) : builder'[c].hashes[i].edits = {}
    BY <1>4, <1>5
  <2> QED
    BY <1>1, <2>1 DEF TamperInv, HashesClean
<1>6. ASSUME NEW step \in 0..18, To(c, step)
      PROVE  HashesClean'
  <2>1. builder'[c].hashes = IF step = 0 THEN <<>> ELSE builder[c].hashes
    BY <1>1, <1>4, <1>6, ToFacts
  <2> QED
    BY <1>5, <2>1
<1>7. CASE GenerateFirst(c)
  <2>1. UNCHANGED disk /\ To(c, IF Refused(c) THEN 0 ELSE 2)
    BY <1>7 DEF GenerateFirst
  <2>2. PICK step \in 0..18 : To(c, step)
    BY <2>1
  <2>3. ManifestClean'
    BY <2>1 DEF TamperInv, ManifestClean
  <2> QED
    BY <1>3, <1>6, <2>2, <2>3 DEF TamperInv
<1>8. CASE WriteArtifact(c)
  <2>1. /\ builder[c].at \in 2..11 /\ To(c, builder[c].at + 1)
        /\ \E file : disk' = [disk EXCEPT ![Artifacts[builder[c].at \div 2]] = file]
    BY <1>8 DEF WriteArtifact, Writes
  <2>2. builder[c].at + 1 \in 0..18 /\ builder[c].at \div 2 \in 1..5
    BY <2>1, HalfStep
  <2>3. disk'["manifest"] = disk["manifest"]
    BY <1>4, <2>1, <2>2, RolesAre DEF BuildType, DiskType
  <2>4. ManifestClean'
    BY <2>3 DEF TamperInv, ManifestClean
  <2> QED
    BY <1>3, <1>6, <2>1, <2>2, <2>4 DEF TamperInv
<1>9. CASE HashArtifact(c)
  <2> DEFINE file == disk[Artifacts[builder[c].at - 11]]
             old == builder[c].hashes
  <2>1. /\ builder[c].at \in 12..16 /\ UNCHANGED disk
        /\ builder' = [builder EXCEPT ![c] = [at |-> builder[c].at + 1,
                                              hashes |-> Append(old, file)]]
    BY <1>9 DEF HashArtifact
  <2>2. builder'[c].hashes = Append(old, file) /\ old \in Seq(Artifact(case.builds))
    BY <1>4, <2>1 DEF BuildType, Builders
  <2>3. file.edits = {} /\ file \in Artifact(case.builds)
    <3>1. builder[c].at - 11 \in 1..5
      BY <2>1
    <3>2. Artifacts[builder[c].at - 11] \in Roles
      BY <3>1, RolesAre
    <3>3. file \in AnyFile(case.builds) /\ file.hashes = <<>>
      BY <1>4, <3>1, <3>2 DEF BuildType, DiskType
    <3> QED
      BY <1>2, <3>2, <3>3, FileFields
  <2>4. \A i \in 1..Len(old) : old[i].edits = {}
    BY <1>4
  <2> HIDE DEF old, file
  <2>5. /\ Len(Append(old, file)) = Len(old) + 1 /\ Len(old) \in Nat
        /\ \A i \in 1..Len(old) : Append(old, file)[i] = old[i]
        /\ Append(old, file)[Len(old) + 1] = file
    BY <2>2, <2>3, AppendProperties
  <2>6. \A i \in 1..Len(builder'[c].hashes) : builder'[c].hashes[i].edits = {}
    BY <2>2, <2>3, <2>4, <2>5
  <2>7. HashesClean'
    BY <1>1, <2>6 DEF TamperInv, HashesClean
  <2>8. ManifestClean'
    BY <2>1 DEF TamperInv, ManifestClean
  <2> QED
    BY <1>3, <2>7, <2>8 DEF TamperInv
<1>10. CASE WriteManifest(c)
  <2> DEFINE file == [File(IF At(c, {17}) THEN "torn" ELSE "full", c, live)
                        EXCEPT !.hashes = builder[c].hashes]
  <2>1. /\ builder[c].at \in {17, 18} /\ disk' = [disk EXCEPT !["manifest"] = file]
        /\ To(c, IF builder[c].at = 17 THEN 18 ELSE 0)
    BY <1>10 DEF WriteManifest, Writes
  <2>2. PICK step \in 0..18 : To(c, step)
    BY <2>1
  <2>3. file.hashes = builder[c].hashes
    BY DEF File
  <2> HIDE DEF file
  <2>4. disk'["manifest"].hashes = builder[c].hashes
    BY <1>4, <2>1, <2>3, RolesAre DEF BuildType, DiskType
  <2>5. Len(builder[c].hashes) = 5
    <3>1. HashesRead(builder[c])
      BY <1>4 DEF BuildType
    <3>2. builder[c].at = 17 => Len(builder[c].hashes) = 17 - 12
      BY <3>1 DEF HashesRead
    <3>3. builder[c].at = 18 => Len(builder[c].hashes) = 5
      BY <3>1 DEF HashesRead
    <3>4. 17 - 12 = 5
      OBVIOUS
    <3> QED
      BY <2>1, <3>2, <3>3, <3>4
  <2>6. ManifestClean'
    <3>1. \A i \in 1..4 : i \in 1..5
      OBVIOUS
    <3>2. \A i \in 1..4 : builder[c].hashes[i].edits = {}
      BY <1>4, <2>5, <3>1
    <3> QED
      BY <2>4, <3>2 DEF ManifestClean
  <2> QED
    BY <1>3, <1>6, <2>2, <2>6 DEF TamperInv
<1> QED
  BY <1>7, <1>8, <1>9, <1>10 DEF Build

LEMMA EditTamper ==
  ASSUME TypeInv, TamperInv, NEW t \in case.tampers, Tamper(t)
  PROVE  TamperInv'
<1>1. /\ UNCHANGED <<case, builder>> /\ \A r \in Roles : disk[r].is = "full"
      /\ \A c \in case.builds : At(c, {0})
      /\ edited' = IF disk' = disk THEN edited ELSE edited \cup {t}
  BY DEF Tamper
<1>2. EditedDisk /\ (disk' = disk \/ Mark(t)')
  BY EditFacts DEF TypeInv
<1>3. HashesClean' /\ BuildsFirst'
  BY <1>1 DEF TamperInv, HashesClean, BuildsFirst, At
<1>4. "manifest" \in Roles /\ "certificate" \in Roles /\ "request" \in Roles
      /\ "source" \in Roles /\ "identity" \in Roles
  BY RolesAre
<1>5. ManifestClean'
  BY <1>1, <1>2, <1>4 DEF EditedDisk, TamperInv, ManifestClean
<1>6. \A u \in edited : Mark(u)'
  <2> SUFFICES ASSUME NEW u \in edited PROVE Mark(u)'
    OBVIOUS
  <2>1. Mark(u) /\ u \in Tampers
    BY CasesAssumption DEF TamperInv, Marked, TypeInv, BuildType
  <2>2. \A r \in Roles : disk[r].edits \subseteq disk'[r].edits
    BY <1>2 DEF EditedDisk, Kept
  <2>3. u # "artifact_delete"
    BY <1>1, <1>4, <2>1 DEF Mark
  <2> QED
    BY <1>4, <2>1, <2>2, <2>3 DEF Mark, Tampers
<1>7. Marked'
  BY <1>1, <1>2, <1>6 DEF Marked
<1> QED
  BY <1>3, <1>5, <1>7 DEF TamperInv

LEMMA TamperStep ==
  ASSUME TypeInv, TamperInv, [Next]_vars
  PROVE  TamperInv'
<1>1. ASSUME UNCHANGED <<case, disk, builder, edited>>
      PROVE  TamperInv'
  <2>1. HashesClean' /\ ManifestClean' /\ BuildsFirst'
    BY <1>1 DEF TamperInv, HashesClean, ManifestClean, BuildsFirst, At
  <2>2. Marked'
    BY <1>1 DEF TamperInv, Marked, Mark
  <2> QED
    BY <2>1, <2>2 DEF TamperInv
<1>2. CASE Replay
  BY <1>1, <1>2, ReplayStepType DEF bundleVars
<1>3. CASE LeanProcesses
  BY <1>1, <1>3, ProcessSteps DEF bundleVars
<1>4. CASE Advance
  BY <1>1, <1>4 DEF Advance
<1>5. ASSUME NEW c \in case.builds, Crash(c)
      PROVE  TamperInv'
  <2>1. /\ UNCHANGED <<case, disk, edited>> /\ builder'[c].at = 0 /\ builder'[c].hashes = <<>>
        /\ \A d \in case.builds : d # c => builder'[d] = builder[d]
    BY <1>5, CrashFacts DEF TypeInv
  <2>2. HashesClean' /\ BuildsFirst'
    BY <2>1 DEF TamperInv, HashesClean, BuildsFirst, At
  <2>3. ManifestClean' /\ Marked'
    BY <2>1 DEF TamperInv, ManifestClean, Marked, Mark
  <2> QED
    BY <2>2, <2>3 DEF TamperInv
<1>6. CASE UNCHANGED vars
  BY <1>1, <1>6 DEF vars, bundleVars
<1> QED
  BY <1>2, <1>3, <1>4, <1>5, <1>6, BuildTamper, EditTamper DEF Next, Ended

LEMMA SoundIsUnmarked ==
  ASSUME TypeInv, TamperInv, Verdict = "sound"
  PROVE  edited = {}
<1>1. /\ AllThere /\ Whole("manifest") /\ "generator" \notin disk["manifest"].edits
      /\ \A i \in 1..5 : HashHolds(i)
      /\ SourceHolds(disk["source"], disk["manifest"])
      /\ LockHolds(disk["manifest"], disk["toolchain"])
      /\ "name" \notin disk["identity"].edits
  BY DEF Verdict
<1>2. \A i \in 1..4 : disk[Artifacts[i]].edits = {}
  <2>1. \A i \in 1..4 : i \in 1..5
    OBVIOUS
  <2> QED
    BY <1>1, <2>1 DEF HashHolds, Whole, TamperInv, ManifestClean
<1>3. 1 \in 1..4 /\ 2 \in 1..4 /\ 3 \in 1..4
  OBVIOUS
<1>4. disk["request"].edits = {} /\ disk["certificate"].edits = {} /\ disk["source"].edits = {}
  BY <1>2, <1>3, RolesAre
<1>5. "source" \notin disk["manifest"].edits
  BY <1>1 DEF SourceHolds
<1>6. "lock" \notin disk["manifest"].edits
  <2>1. live # 2 /\ disk["toolchain"].lock # 2
    <3>1. "toolchain" \in Roles
      BY RolesAre
    <3>2. disk["toolchain"].lock \in 0..1 /\ live \in 0..1
      BY <3>1, FileFields DEF TypeInv, BuildType, DiskType
    <3> QED
      BY <3>2
  <2> QED
    BY <1>1, <2>1 DEF LockHolds, LockOf
<1>7. disk["certificate"].is # "absent"
  BY <1>1, RolesAre DEF AllThere
<1> SUFFICES ASSUME NEW t \in edited PROVE FALSE
  OBVIOUS
<1>8. Mark(t) /\ t \in Tampers
  BY CasesAssumption DEF TamperInv, Marked, TypeInv, BuildType
<1> QED
  BY <1>1, <1>4, <1>5, <1>6, <1>7, <1>8 DEF Mark, Tampers

(***************************************************************************)
(* A finished bundle to which mutate_bundle_for_tamper has been applied, in *)
(* one or several of its ways, is accepted in neither mode, for any set of  *)
(* cases: each edit that changed something leaves a mark that one of the    *)
(* checks of the replay sees, and no second edit takes the mark away.       *)
(***************************************************************************)
THEOREM TampersAreRefused == Spec => []TamperNeverAccepted
<1>1. Init => TamperInv
  BY TamperInit
<1>2. TypeInv /\ TamperInv /\ [Next]_vars => TamperInv'
  BY TamperStep
<1>3. TypeInv /\ VerdictInv /\ TamperInv => TamperNeverAccepted
  <2> SUFFICES ASSUME TypeInv, VerdictInv, TamperInv, edited # {}, ~changed,
                      NEW i \in DOMAIN results
               PROVE  results[i] \notin Accepting
    BY DEF TamperNeverAccepted
  <2>1. i \in 1..Len(results)
    BY LenProperties DEF TypeInv, ReplayType
  <2>2. AnswerRight(results[i])
    BY <2>1 DEF VerdictInv
  <2>3. Verdict # "sound"
    BY SoundIsUnmarked
  <2> QED
    BY <2>2, <2>3 DEF AnswerRight
<1> QED
  BY <1>1, <1>2, <1>3, VerdictAlways, PTL DEF Spec

===============================================================================
