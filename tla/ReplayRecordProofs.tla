-------------------------- MODULE ReplayRecordProofs --------------------------
(***************************************************************************)
(* Theorems about the Certification Records of ReplayRecord, for any        *)
(* number of replays, of declaration names, of candidates, of rewrites and  *)
(* of faults.                                                               *)
(***************************************************************************)
EXTENDS ReplayRecord, TLAPS

Steps == {"idle"} \cup Replaying \cup Writing \cup Committing

(***************************************************************************)
(* What a replayer has read by the step it is at, and what it holds while   *)
(* it commits.                                                              *)
(***************************************************************************)
ReadAt(p) ==
  /\ pc[p] \notin {"idle", "certificate"} => got[p].checked \in Candidates
  /\ pc[p] \notin {"idle", "certificate", "manifest"} =>
       got[p].candidate \in Candidates
  /\ pc[p] \notin {"idle", "certificate", "manifest", "lean", "digest"} =>
       got[p].content \in Candidates
  /\ pc[p] \in {"entries", "verify"} \cup Committing => held[p] \in RecordDigest
  /\ pc[p] \in {"list", "copy", "index", "append"} => key[p] \in RecordDigest

DiskOK ==
  /\ bundle \in [certificate : Candidates, manifest : Candidates]
  /\ pending \in [Declarations -> RecordDirectory]
  /\ StoredRecords \subseteq RecordDigest
  /\ store \in [StoredRecords -> RecordDirectory]
  /\ listed \subseteq RecordDigest

MineOK ==
  /\ pc \in [Replayers -> Steps]
  /\ got \in [Replayers -> [candidate : Maybe(Candidates),
                            checked : Maybe(Candidates),
                            content : Maybe(Candidates)]]
  /\ held \in [Replayers -> Maybe(RecordDigest)]
  /\ key \in [Replayers -> Maybe(RecordDigest)]
  /\ left \in [Replayers -> SUBSET RecordFiles]
  /\ tmp \in [Replayers -> RecordDirectory]
  /\ seen \in [Replayers -> SUBSET RecordDigest]
  /\ \A p \in Replayers : ReadAt(p)

ToldOK ==
  /\ base \in [Replayers -> Bases]
  /\ answers \subseteq RecordDigest
  /\ verified \subseteq RecordDigest
  /\ faults \in 0..MaxFaults

TypeInv == DiskOK /\ MineOK /\ ToldOK

LEMMA TypeInvImpliesTypeOK == TypeInv => TypeOK
BY DEF TypeInv, DiskOK, MineOK, ToldOK, TypeOK, Steps

-----------------------------------------------------------------------------
(* Facts about the operators.                                               *)

(* A directory without files has the type of a record's directory.          *)
LEMMA EmptyDirType == EmptyDir \in RecordDirectory
BY DEF EmptyDir, RecordDirectory, RecordFiles

(* One file of a directory is written: the rest stays.                      *)
LEMMA WithFile ==
  ASSUME NEW dir \in RecordDirectory
  PROVE  /\ \A v \in Identity : [dir EXCEPT !.identity = v] \in RecordDirectory
         /\ \A v \in RecordDigest : [dir EXCEPT !.receipt = v] \in RecordDirectory
         /\ \A v \in Manifest : [dir EXCEPT !.manifest = v] \in RecordDirectory
BY DEF RecordDirectory

(* One file is copied from a directory to another.                          *)
LEMMA CopiedFile ==
  ASSUME NEW from \in RecordDirectory, NEW to \in RecordDirectory,
         NEW f \in RecordFiles
  PROVE  [to EXCEPT ![f] = from[f]] \in RecordDirectory
BY DEF RecordDirectory, RecordFiles

(* A record is put under a digest and no other is touched.                  *)
LEMMA PutType ==
  ASSUME DiskOK, NEW d \in RecordDigest, NEW dir \in RecordDirectory,
         store' = Put(d, dir)
  PROVE  /\ StoredRecords' = StoredRecords \cup {d}
         /\ StoredRecords' \subseteq RecordDigest
         /\ store' \in [StoredRecords' -> RecordDirectory]
         /\ store'[d] = dir
         /\ \A e \in StoredRecords : e # d => store'[e] = store[e]
BY DEF DiskOK, Put, StoredRecords

(* A replay that ends leaves nothing behind in memory.                      *)
LEMMA EndsType ==
  ASSUME MineOK, NEW p \in Replayers, Ends(p)
  PROVE  MineOK'
<1>1. Nothing \in [candidate : Maybe(Candidates), checked : Maybe(Candidates),
                   content : Maybe(Candidates)]
  BY DEF Nothing, Maybe
<1>2. pc' \in [Replayers -> Steps]
  BY DEF Ends, MineOK, Steps
<1>3. got' \in [Replayers -> [candidate : Maybe(Candidates),
                              checked : Maybe(Candidates),
                              content : Maybe(Candidates)]]
  BY <1>1 DEF Ends, MineOK
<1>4. /\ held' \in [Replayers -> Maybe(RecordDigest)]
      /\ key' \in [Replayers -> Maybe(RecordDigest)]
  BY DEF Ends, MineOK, Maybe
<1>5. /\ left' \in [Replayers -> SUBSET RecordFiles]
      /\ seen' \in [Replayers -> SUBSET RecordDigest]
  BY DEF Ends, MineOK
<1>6. tmp' \in [Replayers -> RecordDirectory]
  BY EmptyDirType DEF Ends, MineOK
<1>7. ASSUME NEW q \in Replayers PROVE ReadAt(q)'
  <2>1. CASE q = p
    BY <2>1 DEF Ends, MineOK, ReadAt, Committing
  <2>2. CASE q # p
    BY <2>2 DEF Ends, MineOK, ReadAt
  <2> QED
    BY <2>1, <2>2
<1> QED
  BY <1>2, <1>3, <1>4, <1>5, <1>6, <1>7 DEF MineOK

(* A replayer at a step past the manifest has a pending directory.          *)
LEMMA PendingType ==
  ASSUME TypeInv, NEW p \in Replayers,
         pc[p] \notin {"idle", "certificate", "manifest"}
  PROVE  PendingOf(p) \in Declarations /\ pending[PendingOf(p)] \in RecordDirectory
<1>1. got[p].candidate \in Candidates
  BY DEF TypeInv, MineOK, ReadAt
<1>2. PendingOf(p) \in Declarations
  BY <1>1 DEF TypeInv, ToldOK, PendingOf, Declarations
<1> QED
  BY <1>2 DEF TypeInv, DiskOK

(* Removing a pending directory keeps the types of what is on disk.         *)
LEMMA RemoveType ==
  ASSUME DiskOK, NEW d \in Declarations,
         pending' = [pending EXCEPT ![d] = EmptyDir],
         UNCHANGED <<bundle, store, listed>>
  PROVE  DiskOK'
BY EmptyDirType DEF DiskOK, StoredRecords

-----------------------------------------------------------------------------
(* The types hold at the start ...                                          *)
LEMMA TypeInit == Init => TypeInv
<1> SUFFICES ASSUME Init PROVE TypeInv
  OBVIOUS
<1>1. DiskOK
  BY EmptyDirType DEF Init, DiskOK, StoredRecords
<1>2. MineOK
  BY EmptyDirType DEF Init, MineOK, ReadAt, Nothing, Maybe, Steps, Committing
<1>3. ToldOK
  BY ReplayAssumption DEF Init, ToldOK
<1> QED
  BY <1>1, <1>2, <1>3 DEF TypeInv

(* ... are kept by a commit that ends with the exception dropped ...        *)
LEMMA AnswersAnywayType ==
  ASSUME TypeInv, NEW p \in Replayers, pc[p] \in Committing, AnswersAnyway(p)
  PROVE  MineOK' /\ answers' \subseteq RecordDigest
<1>1. held[p] \in RecordDigest
  BY DEF TypeInv, MineOK, ReadAt
<1> QED
  BY <1>1, EndsType DEF AnswersAnyway, TypeInv, ToldOK

(* ... by the steps of a replay up to the receipt ...                       *)
LEMMA ReplayingType ==
  ASSUME TypeInv, NEW p \in Replayers,
         \/ VerifyBundle(p) \/ LoadCertificate(p) \/ LoadManifest(p)
         \/ Compile(p) \/ DigestCertificate(p) \/ ClearPending(p)
  PROVE  TypeInv'
<1> USE DEF Goto, disk, mine, told
<1>1. CASE VerifyBundle(p)
  BY <1>1 DEF VerifyBundle, TypeInv, DiskOK, MineOK, ToldOK, StoredRecords,
              ReadAt, Steps, Replaying, Committing
<1>2. CASE LoadCertificate(p)
  BY <1>2 DEF LoadCertificate, TypeInv, DiskOK, MineOK, ToldOK, StoredRecords,
              ReadAt, Steps, Replaying, Committing, Maybe
<1>3. CASE LoadManifest(p)
  BY <1>3 DEF LoadManifest, TypeInv, DiskOK, MineOK, ToldOK, StoredRecords,
              ReadAt, Steps, Replaying, Committing, Maybe
<1>4. CASE Compile(p)
  <2>1. MineOK'
    <3>1. CASE Ends(p)
      BY <3>1, EndsType DEF TypeInv
    <3>2. CASE pc' = [pc EXCEPT ![p] = "digest"] /\ UNCHANGED mine
      BY <1>4, <3>2 DEF Compile, TypeInv, MineOK, ReadAt, Steps, Replaying,
                        Committing
    <3> QED
      BY <1>4, <3>1, <3>2 DEF Compile
  <2> QED
    BY <1>4, <2>1 DEF Compile, TypeInv, DiskOK, ToldOK, StoredRecords
<1>5. CASE DigestCertificate(p)
  BY <1>5 DEF DigestCertificate, TypeInv, DiskOK, MineOK, ToldOK, StoredRecords,
              ReadAt, Steps, Replaying, Committing, Maybe
<1>6. CASE ClearPending(p)
  <2>1. DiskOK'
    BY <1>6, PendingType, RemoveType DEF ClearPending, TypeInv
  <2>2. MineOK'
    BY <1>6 DEF ClearPending, TypeInv, MineOK, ReadAt, Steps, Replaying, Writing,
                Committing
  <2> QED
    BY <1>6, <2>1, <2>2 DEF ClearPending, TypeInv, ToldOK
<1> QED
  BY <1>1, <1>2, <1>3, <1>4, <1>5, <1>6

(* ... by those that write the record ...                                   *)
LEMMA WritingType ==
  ASSUME TypeInv, NEW p \in Replayers,
         \/ WriteIdentity(p) \/ WriteReceipt(p) \/ WriteManifest(p)
         \/ VerifyRecord(p)
  PROVE  TypeInv'
<1> DEFINE d   == PendingOf(p)
           dir == pending[d]
<1>1. /\ d \in Declarations /\ dir \in RecordDirectory
      /\ got[p].candidate \in Candidates
      /\ got[p].checked \in Candidates
      /\ got[p].content \in Candidates
      /\ base[p] \in Bases
  BY PendingType
     DEF WriteIdentity, WriteReceipt, WriteManifest, VerifyRecord, Goto, TypeInv,
         ToldOK, MineOK, ReadAt
<1>2. CASE WriteIdentity(p)
  <2> DEFINE id == [name |-> base[p], candidate |-> got[p].candidate,
                    checked |-> got[p].checked]
  <2>1. id \in Identity
    BY <1>1 DEF Identity
  <2>2. [dir EXCEPT !.identity = id] \in RecordDirectory
    BY <1>1, <2>1, WithFile
  <2>3. pending' = [pending EXCEPT ![d] = [dir EXCEPT !.identity = id]]
    BY <1>2 DEF WriteIdentity
  <2>4. DiskOK'
    BY <1>1, <1>2, <2>2, <2>3 DEF WriteIdentity, TypeInv, DiskOK, StoredRecords
  <2>5. MineOK'
    BY <1>2 DEF WriteIdentity, Goto, mine, TypeInv, MineOK, ReadAt, Steps, Writing,
                Committing
  <2> QED
    BY <1>2, <2>4, <2>5 DEF WriteIdentity, TypeInv, ToldOK, told
<1>3. CASE WriteReceipt(p)
  <2>1. CASE dir.identity = None
    <3>1. DiskOK' /\ MineOK'
      BY <1>1, <1>3, <2>1, RemoveType, EndsType DEF WriteReceipt, TypeInv
    <3> QED
      BY <1>3, <3>1 DEF WriteReceipt, TypeInv, ToldOK, told
  <2>2. CASE dir.identity # None
    <3> DEFINE digest == [name |-> base[p], candidate |-> got[p].candidate,
                          checked |-> got[p].checked, content |-> got[p].content,
                          identity |-> dir.identity]
    <3>1. digest \in RecordDigest
      BY <1>1, <2>2 DEF RecordDigest, RecordDirectory
    <3>2. [dir EXCEPT !.receipt = digest] \in RecordDirectory
      BY <1>1, <3>1, WithFile
    <3>3. /\ pending' = [pending EXCEPT ![d] = [dir EXCEPT !.receipt = digest]]
          /\ held' = [held EXCEPT ![p] = digest]
          /\ pc' = [pc EXCEPT ![p] = "entries"]
          /\ pc[p] = "receipt"
          /\ UNCHANGED <<got, key, left, tmp, seen>>
          /\ UNCHANGED <<base, bundle, store, listed, told, faults>>
      BY <1>3, <2>2 DEF WriteReceipt
    <3> HIDE DEF digest
    <3>4. DiskOK'
      BY <1>1, <3>2, <3>3 DEF TypeInv, DiskOK, StoredRecords
    <3>5. MineOK'
      BY <1>1, <3>1, <3>3 DEF TypeInv, MineOK, ReadAt, Steps, Writing, Committing,
                              Maybe
    <3> QED
      BY <3>3, <3>4, <3>5 DEF TypeInv, ToldOK, told
  <2> QED
    BY <2>1, <2>2
<1>4. CASE WriteManifest(p)
  <2>1. CASE dir.identity = None \/ dir.receipt = None
    <3>1. DiskOK' /\ MineOK'
      BY <1>1, <1>4, <2>1, RemoveType, EndsType DEF WriteManifest, TypeInv
    <3> QED
      BY <1>4, <3>1 DEF WriteManifest, TypeInv, ToldOK, told
  <2>2. CASE dir.identity # None /\ dir.receipt # None
    <3> DEFINE manifest == [digest |-> held[p], identity |-> dir.identity,
                            receipt |-> dir.receipt]
    <3>1. manifest \in Manifest
      BY <1>1, <1>4, <2>2 DEF WriteManifest, TypeInv, MineOK, ReadAt, Manifest,
                              RecordDirectory
    <3>2. [dir EXCEPT !.manifest = manifest] \in RecordDirectory
      BY <1>1, <3>1, WithFile
    <3>3. /\ pending' = [pending EXCEPT ![d] = [dir EXCEPT !.manifest = manifest]]
          /\ pc' = [pc EXCEPT ![p] = "verify"]
          /\ pc[p] = "entries"
          /\ UNCHANGED mine
          /\ UNCHANGED <<base, bundle, store, listed, told, faults>>
      BY <1>4, <2>2 DEF WriteManifest
    <3> HIDE DEF manifest
    <3>4. DiskOK'
      BY <1>1, <3>2, <3>3 DEF TypeInv, DiskOK, StoredRecords
    <3>5. MineOK'
      BY <3>3 DEF TypeInv, MineOK, ReadAt, Steps, Writing, Committing, mine
    <3> QED
      BY <3>3, <3>4, <3>5 DEF TypeInv, ToldOK, told
  <2> QED
    BY <2>1, <2>2
<1>5. CASE VerifyRecord(p)
  <2>1. CASE VerifiesRecord(dir)
    BY <1>5, <2>1 DEF VerifyRecord, TypeInv, DiskOK, MineOK, ToldOK, StoredRecords,
                      ReadAt, Steps, Committing, mine, told
  <2>2. CASE ~VerifiesRecord(dir)
    <3>1. DiskOK' /\ MineOK'
      BY <1>1, <1>5, <2>2, RemoveType, EndsType DEF VerifyRecord, TypeInv
    <3> QED
      BY <1>5, <3>1 DEF VerifyRecord, TypeInv, ToldOK, told
  <2> QED
    BY <2>1, <2>2
<1> QED
  BY <1>2, <1>3, <1>4, <1>5

(* ... by those that commit it ...                                          *)
LEMMA CommittingType ==
  ASSUME TypeInv, NEW p \in Replayers,
         \/ CommitVerify(p) \/ CheckRecords(p) \/ ListPending(p) \/ CopyFile(p)
         \/ Publish(p) \/ ReadIndex(p) \/ WriteIndex(p)
  PROVE  TypeInv'
<1> DEFINE d   == PendingOf(p)
           dir == pending[d]
<1>1. /\ pc[p] \in Committing
      /\ d \in Declarations /\ dir \in RecordDirectory
  BY PendingType
     DEF CommitVerify, CheckRecords, ListPending, CopyFile, Publish, ReadIndex,
         WriteIndex, Goto, Committing
<1>2. ASSUME AnswersAnyway(p), UNCHANGED disk, UNCHANGED <<base, verified, faults>>
      PROVE  TypeInv'
  BY <1>1, <1>2, AnswersAnywayType DEF TypeInv, DiskOK, ToldOK, StoredRecords, disk
<1>3. CASE CommitVerify(p)
  <2>1. CASE VerifiesRecord(dir)
    BY <1>3, <2>1 DEF CommitVerify, TypeInv, DiskOK, MineOK, ToldOK, StoredRecords,
                      ReadAt, Steps, Committing, mine, disk
  <2> QED
    BY <1>2, <1>3, <2>1 DEF CommitVerify
<1>4. CASE CheckRecords(p)
  <2>1. CASE /\ dir.manifest # None
             /\ key' = [key EXCEPT ![p] = dir.manifest.digest]
             /\ pc'[p] \in {"index", "list"}
             /\ pc' = [pc EXCEPT ![p] = pc'[p]]
             /\ UNCHANGED <<got, held, left, tmp, seen, answers>>
    <3>1. dir.manifest.digest \in RecordDigest
      BY <1>1, <2>1 DEF RecordDirectory, Manifest
    <3>2. MineOK'
      BY <1>1, <2>1, <3>1 DEF TypeInv, MineOK, ReadAt, Steps, Committing, Maybe
    <3> QED
      BY <1>4, <2>1, <3>2 DEF CheckRecords, TypeInv, DiskOK, ToldOK, StoredRecords,
                              disk
  <2>2. pc \in [Replayers -> Steps]
    BY DEF TypeInv, MineOK
  <2> QED
    BY <1>2, <1>4, <2>1, <2>2 DEF CheckRecords
<1>5. CASE ListPending(p)
  <2>1. CASE Exists(dir)
    <3>1. {f \in RecordFiles : dir[f] # None} \in SUBSET RecordFiles
      OBVIOUS
    <3>2. MineOK'
      BY <1>1, <1>5, <2>1, <3>1 DEF ListPending, TypeInv, MineOK, ReadAt, Steps,
                                    Committing
    <3> QED
      BY <1>5, <2>1, <3>2 DEF ListPending, TypeInv, DiskOK, ToldOK, StoredRecords,
                              disk
  <2> QED
    BY <1>2, <1>5, <2>1 DEF ListPending
<1>6. CASE CopyFile(p)
  <2>1. ASSUME NEW f \in left[p],
               tmp' = [tmp EXCEPT ![p][f] = dir[f]],
               left' = [left EXCEPT ![p] = @ \ {f}],
               UNCHANGED <<pc, got, held, key, seen, answers>>
        PROVE  TypeInv'
    <3>1. left[p] \in SUBSET RecordFiles /\ tmp[p] \in RecordDirectory
      BY DEF TypeInv, MineOK
    <3>2. [tmp[p] EXCEPT ![f] = dir[f]] \in RecordDirectory
      BY <1>1, <3>1, CopiedFile
    <3>3. left[p] \ {f} \in SUBSET RecordFiles
      BY <3>1
    <3>4. MineOK'
      BY <2>1, <3>2, <3>3 DEF TypeInv, MineOK, ReadAt
    <3> QED
      BY <1>6, <2>1, <3>4 DEF CopyFile, TypeInv, DiskOK, ToldOK, StoredRecords, disk
  <2> QED
    BY <1>2, <1>6, <2>1 DEF CopyFile
<1>7. CASE Publish(p)
  <2>1. CASE key[p] \notin StoredRecords
    <3>1. store' = Put(key[p], tmp[p]) /\ key[p] \in RecordDigest
          /\ tmp[p] \in RecordDirectory
      BY <1>7, <2>1 DEF Publish, TypeInv, MineOK, ReadAt, StoredRecords
    <3>2. DiskOK'
      BY <1>7, <3>1, PutType DEF Publish, TypeInv, DiskOK
    <3>3. /\ pc[p] = "copy"
          /\ tmp' = [tmp EXCEPT ![p] = EmptyDir]
          /\ pc' = [pc EXCEPT ![p] = "index"]
          /\ UNCHANGED <<got, held, key, left, seen, answers>>
      BY <1>7, <2>1 DEF Publish, StoredRecords
    <3>4. tmp' \in [Replayers -> RecordDirectory]
      BY <3>3, EmptyDirType DEF TypeInv, MineOK
    <3>5. pc' \in [Replayers -> Steps] /\ \A q \in Replayers : ReadAt(q)'
      BY <3>3 DEF TypeInv, MineOK, ReadAt, Steps, Committing
    <3>6. MineOK'
      BY <3>3, <3>4, <3>5 DEF TypeInv, MineOK
    <3> QED
      BY <1>7, <3>2, <3>3, <3>6 DEF Publish, TypeInv, ToldOK, StoredRecords
  <2> QED
    BY <1>2, <1>7, <2>1 DEF Publish, StoredRecords, disk
<1>8. CASE ReadIndex(p)
  BY <1>8 DEF ReadIndex, Goto, TypeInv, DiskOK, MineOK, ToldOK, StoredRecords, ReadAt,
              Steps, Committing, disk, told
<1>9. CASE WriteIndex(p)
  <2>1. key[p] \in RecordDigest /\ seen[p] \subseteq RecordDigest
    BY <1>9 DEF WriteIndex, TypeInv, MineOK, ReadAt
  <2> QED
    BY <1>9, <2>1, EndsType DEF WriteIndex, TypeInv, DiskOK, ToldOK, StoredRecords
<1> QED
  BY <1>3, <1>4, <1>5, <1>6, <1>7, <1>8, <1>9

(* ... by errors and deaths ...                                             *)
LEMMA FaultType ==
  ASSUME TypeInv, NEW p \in Replayers, IOError(p) \/ Die(p)
  PROVE  TypeInv'
<1>1. faults + 1 \in 0..MaxFaults
  BY ReplayAssumption DEF IOError, Die, TypeInv, ToldOK
<1>2. CASE IOError(p)
  <2>1. CASE pc[p] \in Replaying /\ Ends(p) /\ UNCHANGED <<pending, answers>>
    BY <1>1, <1>2, <2>1, EndsType DEF IOError, TypeInv, DiskOK, ToldOK, StoredRecords
  <2>2. CASE /\ pc[p] \in Writing
             /\ pending' = [pending EXCEPT ![PendingOf(p)] = EmptyDir]
             /\ Ends(p)
             /\ UNCHANGED answers
    <3>1. DiskOK'
      BY <1>2, <2>2, PendingType, RemoveType DEF IOError, TypeInv, Writing
    <3> QED
      BY <1>1, <1>2, <2>2, <3>1, EndsType DEF IOError, TypeInv, ToldOK
  <2>3. CASE pc[p] \in Committing /\ AnswersAnyway(p) /\ UNCHANGED pending
    BY <1>1, <1>2, <2>3, AnswersAnywayType
       DEF IOError, TypeInv, DiskOK, ToldOK, StoredRecords
  <2> QED
    BY <1>2, <2>1, <2>2, <2>3 DEF IOError
<1>3. CASE Die(p)
  BY <1>1, <1>3, EndsType DEF Die, TypeInv, DiskOK, ToldOK, StoredRecords, disk, told
<1> QED
  BY <1>2, <1>3

(* ... by a rewrite of the candidate and by a verification ...              *)
LEMMA OthersType ==
  ASSUME TypeInv,
         \/ \E c \in Rewrites : RewriteCertificate(c)
         \/ RewriteManifest
         \/ \E d \in StoredRecords : VerifyCertificationRecord(d)
  PROVE  TypeInv'
<1>1. ASSUME NEW c \in Rewrites, RewriteCertificate(c)
      PROVE  TypeInv'
  <2>1. c \in Candidates
    BY ReplayAssumption
  <2> QED
    BY <1>1, <2>1 DEF RewriteCertificate, TypeInv, DiskOK, MineOK, ToldOK, ReadAt,
                      StoredRecords, mine, told
<1>2. CASE RewriteManifest
  BY <1>2 DEF RewriteManifest, TypeInv, DiskOK, MineOK, ToldOK, ReadAt, StoredRecords,
              mine, told
<1>3. ASSUME NEW d \in StoredRecords, VerifyCertificationRecord(d)
      PROVE  TypeInv'
  <2>1. d \in RecordDigest
    BY DEF TypeInv, DiskOK, StoredRecords
  <2>2. UNCHANGED <<base, disk, pc, mine, answers, faults>> /\ verified' = verified \cup {d}
    BY <1>3 DEF VerifyCertificationRecord
  <2> QED
    BY <2>1, <2>2 DEF TypeInv, DiskOK, MineOK, ToldOK, ReadAt, StoredRecords, disk,
                      mine
<1> QED
  BY <1>1, <1>2, <1>3

(* ... so every step keeps them.                                            *)
LEMMA TypeStep == TypeInv /\ [Next]_vars => TypeInv'
<1> SUFFICES ASSUME TypeInv, [Next]_vars
             PROVE  TypeInv'
  OBVIOUS
<1>1. ASSUME NEW p \in Replayers, Step(p)
      PROVE  TypeInv'
  BY <1>1, ReplayingType, WritingType, CommittingType, FaultType DEF Step
<1>2. CASE UNCHANGED vars
  BY <1>2 DEF vars, TypeInv, DiskOK, MineOK, ToldOK, ReadAt, StoredRecords, disk, mine,
              told
<1> QED
  BY <1>1, <1>2, OthersType DEF Next, StoredRecords

LEMMA TypeInvariant == Spec => []TypeInv
BY TypeInit, TypeStep, PTL DEF Spec

(***************************************************************************)
(* Whatever errors, deaths, rewrites and rival replays there are, every     *)
(* variable keeps its type; in particular an answer, the index and the      *)
(* store never name a record with parts that nobody has written.            *)
(***************************************************************************)
THEOREM RecordTypes == Spec => []TypeOK
BY TypeInvariant, TypeInvImpliesTypeOK, PTL

-----------------------------------------------------------------------------
(* A replay stores a record under a digest that has none.                   *)
Stores(p) ==
  /\ pc[p] = "copy" /\ left[p] = {}
  /\ key[p] \notin StoredRecords
  /\ store' = Put(key[p], tmp[p])
  /\ tmp' = [tmp EXCEPT ![p] = EmptyDir]
  /\ pc' = [pc EXCEPT ![p] = "index"]
  /\ UNCHANGED <<got, held, key, left, seen, answers>>
  /\ UNCHANGED <<bundle, pending, listed, verified, faults>>

(* Nothing else changes the store.                                          *)
LEMMA StoreStep ==
  ASSUME [Next]_vars
  PROVE  UNCHANGED store \/ \E p \in Replayers : Publish(p) /\ Stores(p)
<1>1. CASE UNCHANGED vars
  BY <1>1 DEF vars, disk
<1>2. ASSUME NEW p \in Replayers, Step(p), ~Publish(p)
      PROVE  UNCHANGED store
  BY <1>2 DEF Step, VerifyBundle, LoadCertificate, LoadManifest, Compile,
       DigestCertificate, ClearPending, WriteIdentity, WriteReceipt, WriteManifest,
       VerifyRecord, CommitVerify, CheckRecords, ListPending, CopyFile, ReadIndex,
       WriteIndex, IOError, Die, disk
<1>3. ASSUME NEW p \in Replayers, Publish(p)
      PROVE  UNCHANGED store \/ Stores(p)
  <2>1. CASE key[p] \in StoredRecords
    BY <1>3, <2>1 DEF Publish, StoredRecords
  <2>2. CASE key[p] \notin StoredRecords
    <3> HIDE DEF StoredRecords
    <3>1. key[p] \notin DOMAIN store
      BY <2>2 DEF StoredRecords
    <3> QED
      BY <1>3, <2>2, <3>1 DEF Publish, Stores
  <2> QED
    BY <2>1, <2>2
<1>4. ASSUME NEW c \in Rewrites, RewriteCertificate(c)
      PROVE  UNCHANGED store
  BY <1>4 DEF RewriteCertificate
<1>5. CASE RewriteManifest
  BY <1>5 DEF RewriteManifest
<1>6. ASSUME NEW d \in StoredRecords, VerifyCertificationRecord(d)
      PROVE  UNCHANGED store
  BY <1>6 DEF VerifyCertificationRecord, disk
<1> QED
  BY <1>1, <1>2, <1>3, <1>4, <1>5, <1>6 DEF Next, StoredRecords

(* What is stored stays, as it is.                                          *)
RecordsStay ==
  /\ StoredRecords \subseteq StoredRecords'
  /\ \A d \in StoredRecords : store'[d] = store[d]

LEMMA RecordsStayStep == TypeInv /\ [Next]_vars => RecordsStay
<1> SUFFICES ASSUME TypeInv, [Next]_vars
             PROVE  RecordsStay
  OBVIOUS
<1>1. CASE UNCHANGED store
  BY <1>1 DEF RecordsStay, StoredRecords
<1>2. ASSUME NEW p \in Replayers, Stores(p)
      PROVE  RecordsStay
  <2>1. key[p] \in RecordDigest /\ tmp[p] \in RecordDirectory
    BY <1>2 DEF Stores, TypeInv, MineOK, ReadAt
  <2> QED
    BY <1>2, <2>1, PutType DEF Stores, RecordsStay, TypeInv
<1> QED
  BY <1>1, <1>2, StoreStep

(***************************************************************************)
(* The certification side of the store only grows: no commit, error, death  *)
(* or rewrite of the candidate takes a record away or replaces it, so what  *)
(* an id named once it names for good (commit_content_addressed, whose      *)
(* os.replace puts a record only where there is none).                      *)
(***************************************************************************)
THEOREM RecordsAreImmutable == Spec => [][RecordsStay]_vars
<1>1. TypeInv /\ [Next]_vars => [RecordsStay]_vars
  BY RecordsStayStep
<1> QED
  BY <1>1, TypeInvariant, PTL DEF Spec

-----------------------------------------------------------------------------
(* The index names records that are stored, and so does what a replay is    *)
(* about to make of it.                                                     *)
IndexInv ==
  /\ ListedAreStored
  /\ \A p \in Replayers :
       /\ seen[p] \subseteq StoredRecords
       /\ pc[p] \in {"index", "append"} => key[p] \in StoredRecords

LEMMA IndexInit == Init => IndexInv
BY DEF Init, IndexInv, ListedAreStored

(* The steps that have to do with the index, and all others.                *)
LEMMA IndexStep ==
  ASSUME TypeInv, IndexInv, [Next]_vars
  PROVE  IndexInv'
<1>1. StoredRecords \subseteq StoredRecords'
  BY RecordsStayStep DEF RecordsStay
<1>2. ASSUME NEW p \in Replayers, Ends(p), listed' \subseteq StoredRecords
      PROVE  IndexInv'
  <2>1. ASSUME NEW q \in Replayers
        PROVE  /\ seen'[q] \subseteq StoredRecords
               /\ pc'[q] \in {"index", "append"} => key'[q] \in StoredRecords
    <3>1. CASE q = p
      BY <1>2, <3>1 DEF Ends, TypeInv, MineOK
    <3>2. CASE q # p
      BY <1>2, <3>2 DEF Ends, TypeInv, MineOK, IndexInv
    <3> QED
      BY <3>1, <3>2
  <2> QED
    BY <1>1, <1>2, <2>1 DEF IndexInv, ListedAreStored
<1>3. ASSUME NEW p \in Replayers, AnswersAnyway(p), UNCHANGED listed
      PROVE  IndexInv'
  BY <1>2, <1>3 DEF AnswersAnyway, IndexInv, ListedAreStored
<1>4. ASSUME UNCHANGED <<listed, seen>>,
             \A p \in Replayers :
               pc'[p] \in {"index", "append"} =>
                 pc[p] \in {"index", "append"} /\ key'[p] = key[p]
      PROVE  IndexInv'
  BY <1>1, <1>4 DEF IndexInv, ListedAreStored
<1>5. ASSUME NEW p \in Replayers, NEW to \in Steps \ {"index", "append"},
             pc' = [pc EXCEPT ![p] = to], UNCHANGED <<listed, seen, key>>
      PROVE  IndexInv'
  <2>1. pc \in [Replayers -> Steps]
    BY DEF TypeInv, MineOK
  <2> QED
    BY <1>4, <1>5, <2>1
<1>6. ASSUME NEW p \in Replayers, Step(p)
      PROVE  IndexInv'
  <2> USE DEF Goto, disk, mine, told
  <2>1. CASE VerifyBundle(p) \/ LoadCertificate(p) \/ LoadManifest(p)
             \/ DigestCertificate(p) \/ ClearPending(p) \/ WriteIdentity(p)
    BY <1>5, <2>1 DEF VerifyBundle, LoadCertificate, LoadManifest,
         DigestCertificate, ClearPending, WriteIdentity, Steps, Replaying, Writing
  <2>2. CASE Compile(p)
    BY <1>2, <1>5, <2>2 DEF Compile, Steps, Replaying, IndexInv, ListedAreStored
  <2>3. CASE WriteReceipt(p)
    BY <1>2, <1>5, <2>3 DEF WriteReceipt, Steps, Writing, IndexInv, ListedAreStored
  <2>4. CASE WriteManifest(p)
    BY <1>2, <1>5, <2>4 DEF WriteManifest, Steps, Writing, IndexInv, ListedAreStored
  <2>5. CASE VerifyRecord(p)
    BY <1>2, <1>5, <2>5 DEF VerifyRecord, Steps, Committing, IndexInv,
         ListedAreStored
  <2>6. CASE CommitVerify(p)
    BY <1>3, <1>5, <2>6 DEF CommitVerify, Steps, Committing
  <2>7. CASE CheckRecords(p)
    <3> DEFINE d == pending[PendingOf(p)].manifest.digest
    <3>1. CASE AnswersAnyway(p)
      BY <1>3, <2>7, <3>1 DEF CheckRecords
    <3>2. CASE /\ key' = [key EXCEPT ![p] = d]
               /\ pc' = [pc EXCEPT ![p] = IF d \in StoredRecords THEN "index"
                                                                ELSE "list"]
               /\ UNCHANGED seen
      <4>1. ASSUME NEW q \in Replayers, pc'[q] \in {"index", "append"}
            PROVE  key'[q] \in StoredRecords
        BY <3>2, <4>1 DEF TypeInv, MineOK, IndexInv
      <4> QED
        BY <1>1, <2>7, <3>2, <4>1 DEF CheckRecords, IndexInv, ListedAreStored
    <3> QED
      BY <2>7, <3>1, <3>2 DEF CheckRecords, StoredRecords
  <2>8. CASE ListPending(p)
    BY <1>3, <1>5, <2>8 DEF ListPending, Steps, Committing
  <2>9. CASE CopyFile(p)
    BY <1>3, <1>4, <2>9 DEF CopyFile
  <2>10. CASE Publish(p)
    <3>1. CASE AnswersAnyway(p)
      BY <1>3, <2>10, <3>1 DEF Publish
    <3>2. CASE Stores(p)
      <4>1. key[p] \in StoredRecords'
        BY <3>2, PutType DEF Stores, TypeInv, MineOK, ReadAt
      <4>2. ASSUME NEW q \in Replayers, pc'[q] \in {"index", "append"}
            PROVE  key'[q] \in StoredRecords'
        BY <1>1, <3>2, <4>1, <4>2 DEF Stores, TypeInv, MineOK, IndexInv
      <4> QED
        BY <1>1, <3>2, <4>2 DEF Stores, IndexInv, ListedAreStored
    <3> QED
      BY <2>10, <3>1, <3>2 DEF Publish, Stores, StoredRecords
  <2>11. CASE ReadIndex(p)
    <3>1. ASSUME NEW q \in Replayers
          PROVE  /\ seen'[q] \subseteq StoredRecords
                 /\ pc'[q] \in {"index", "append"} => key'[q] \in StoredRecords
      BY <2>11 DEF ReadIndex, TypeInv, MineOK, IndexInv, ListedAreStored
    <3> QED
      BY <1>1, <2>11, <3>1 DEF ReadIndex, IndexInv, ListedAreStored
  <2>12. CASE WriteIndex(p)
    BY <1>2, <2>12 DEF WriteIndex, IndexInv
  <2>13. CASE IOError(p)
    BY <1>2, <1>3, <2>13 DEF IOError, IndexInv, ListedAreStored
  <2>14. CASE Die(p)
    BY <1>2, <2>14 DEF Die, IndexInv, ListedAreStored
  <2> QED
    BY <1>6, <2>1, <2>2, <2>3, <2>4, <2>5, <2>6, <2>7, <2>8, <2>9, <2>10, <2>11,
       <2>12, <2>13, <2>14 DEF Step
<1>7. CASE UNCHANGED <<listed, pc, mine>>
  BY <1>4, <1>7 DEF mine
<1>8. CASE UNCHANGED vars
  BY <1>7, <1>8 DEF vars, disk
<1>9. CASE \/ \E c \in Rewrites : RewriteCertificate(c)
           \/ RewriteManifest
           \/ \E d \in StoredRecords : VerifyCertificationRecord(d)
  BY <1>7, <1>9 DEF RewriteCertificate, RewriteManifest, VerifyCertificationRecord,
                    disk
<1> QED
  BY <1>6, <1>8, <1>9 DEF Next, StoredRecords

(***************************************************************************)
(* A certification is listed only when its record is stored.  The lost      *)
(* updates of _append_certification_index, which reads the index and later  *)
(* replaces it, may drop an entry but cannot bring one that has no record:  *)
(* all that is ever read from the index, and all that is ever added to it,  *)
(* is in the store, which never shrinks.                                    *)
(***************************************************************************)
THEOREM ListingIsBacked == Spec => []ListedAreStored
<1>1. Init => IndexInv
  BY IndexInit
<1>2. TypeInv /\ IndexInv /\ [Next]_vars => IndexInv'
  BY IndexStep
<1>3. IndexInv => ListedAreStored
  BY DEF IndexInv
<1> QED
  BY <1>1, <1>2, <1>3, TypeInvariant, PTL DEF Spec

-----------------------------------------------------------------------------
(***************************************************************************)
(* What is recorded was accepted.  A replay keeps in memory the certificate *)
(* it had Lean check, and takes the proof digest from there; the directory  *)
(* it writes to is named after the declaration, with the digest of the      *)
(* candidate.  So whatever other replays write to that directory, and       *)
(* whoever copies it, is about the same declaration and says of it only     *)
(* what Lean has accepted: which is said here of every place that a record, *)
(* or a part of one, passes on its way to the store.                        *)
(***************************************************************************)
Fits(decl, r) == r.name = decl[1] /\ r.candidate = decl[2] /\ r.checked \in Sound

FitsDigest(decl, d) == Fits(decl, d) /\ Fits(decl, d.identity)

FitsDir(decl, dir) ==
  /\ dir.identity # None => Fits(decl, dir.identity)
  /\ dir.receipt # None => Fits(decl, dir.receipt)
  /\ dir.manifest # None => FitsDigest(decl, dir.manifest.digest)

DeclarationOf(d) == <<d.name, d.candidate>>

AcceptedAt(p) ==
  /\ pc[p] \in {"digest", "clear"} \cup Writing \cup Committing =>
       got[p].checked \in Sound
  /\ pc[p] \in {"entries", "verify"} \cup Committing => FitsDigest(PendingOf(p), held[p])
  /\ pc[p] \in {"list", "copy", "index", "append"} => FitsDigest(PendingOf(p), key[p])
  /\ IF pc[p] = "copy" THEN FitsDir(PendingOf(p), tmp[p]) ELSE tmp[p] = EmptyDir

PendingFits == \A decl \in Declarations : FitsDir(decl, pending[decl])
StoredFits  ==
  \A d \in StoredRecords : FitsDigest(DeclarationOf(d), d) /\ FitsDir(DeclarationOf(d), store[d])
AnswersFit  == \A d \in answers : FitsDigest(DeclarationOf(d), d)
ReplaysFit  == \A p \in Replayers : AcceptedAt(p)

AcceptedInv == PendingFits /\ StoredFits /\ AnswersFit /\ ReplaysFit

(* A directory without files says nothing.                                  *)
LEMMA EmptyFits == ASSUME NEW decl PROVE FitsDir(decl, EmptyDir)
BY DEF FitsDir, EmptyDir, RecordFiles

LEMMA AcceptedInit == Init => AcceptedInv
BY EmptyFits
   DEF Init, AcceptedInv, PendingFits, StoredFits, AnswersFit, ReplaysFit, AcceptedAt,
       Writing, Committing, StoredRecords

(* A replay that goes on or ends leaves the others where they are.          *)
LEMMA OthersAccepted ==
  ASSUME AcceptedInv, NEW q \in Replayers, base' = base,
         pc'[q] = pc[q], got'[q] = got[q], held'[q] = held[q],
         key'[q] = key[q], tmp'[q] = tmp[q]
  PROVE  AcceptedAt(q)'
BY DEF AcceptedInv, ReplaysFit, AcceptedAt, PendingOf

(* A replay that ends.                                                      *)
LEMMA EndsAccepted ==
  ASSUME TypeInv, AcceptedInv, NEW p \in Replayers, Ends(p), base' = base
  PROVE  ReplaysFit'
<1> SUFFICES ASSUME NEW q \in Replayers PROVE AcceptedAt(q)'
  BY DEF ReplaysFit
<1>1. CASE q = p
  BY <1>1 DEF Ends, TypeInv, MineOK, AcceptedAt, Writing, Committing
<1>2. CASE q # p
  BY <1>2, OthersAccepted DEF Ends, TypeInv, MineOK
<1> QED
  BY <1>1, <1>2

(* A replay that goes on.                                                   *)
LEMMA GoesAccepted ==
  ASSUME TypeInv, AcceptedInv, NEW p \in Replayers, base' = base,
         pc' = [pc EXCEPT ![p] = pc'[p]],
         \A q \in Replayers \ {p} :
           /\ got'[q] = got[q] /\ held'[q] = held[q] /\ key'[q] = key[q]
           /\ tmp'[q] = tmp[q],
         AcceptedAt(p)'
  PROVE  ReplaysFit'
<1> SUFFICES ASSUME NEW q \in Replayers, q # p PROVE AcceptedAt(q)'
  BY DEF ReplaysFit
<1> QED
  BY OthersAccepted DEF TypeInv, MineOK

(* A pending directory gets other files.                                    *)
LEMMA PendingAccepted ==
  ASSUME TypeInv, AcceptedInv, NEW decl \in Declarations, NEW dir,
         FitsDir(decl, dir), pending' = [pending EXCEPT ![decl] = dir]
  PROVE  PendingFits'
<1> SUFFICES ASSUME NEW e \in Declarations PROVE FitsDir(e, pending'[e])
  BY DEF PendingFits
<1>1. CASE e = decl
  BY <1>1 DEF TypeInv, DiskOK
<1>2. CASE e # decl
  BY <1>2 DEF TypeInv, DiskOK, AcceptedInv, PendingFits
<1> QED
  BY <1>1, <1>2

LEMMA AcceptedReplaying ==
  ASSUME TypeInv, AcceptedInv, NEW p \in Replayers,
         \/ VerifyBundle(p) \/ LoadCertificate(p) \/ LoadManifest(p)
         \/ Compile(p) \/ DigestCertificate(p) \/ ClearPending(p)
  PROVE  AcceptedInv'
<1> USE DEF Goto, disk, mine, told
<1>1. AcceptedAt(p)
  BY DEF AcceptedInv, ReplaysFit
<1>2. pc \in [Replayers -> Steps] /\ got \in [Replayers -> [candidate : Maybe(Candidates),
                            checked : Maybe(Candidates), content : Maybe(Candidates)]]
  BY DEF TypeInv, MineOK
<1>3. ASSUME PendingFits', ReplaysFit', UNCHANGED <<store, answers>>
      PROVE  AcceptedInv'
  BY <1>3 DEF AcceptedInv, StoredFits, AnswersFit, StoredRecords
<1>4. ASSUME UNCHANGED pending PROVE PendingFits'
  BY <1>4 DEF AcceptedInv, PendingFits
<1>5. CASE VerifyBundle(p)
  <2>1. AcceptedAt(p)'
    BY <1>1, <1>2, <1>5 DEF VerifyBundle, AcceptedAt, Writing, Committing
  <2> QED
    BY <1>2, <1>3, <1>4, <1>5, <2>1, GoesAccepted DEF VerifyBundle
<1>6. CASE LoadCertificate(p)
  <2>1. AcceptedAt(p)'
    BY <1>1, <1>2, <1>6 DEF LoadCertificate, AcceptedAt, Writing, Committing
  <2> QED
    BY <1>2, <1>3, <1>4, <1>6, <2>1, GoesAccepted DEF LoadCertificate
<1>7. CASE LoadManifest(p)
  <2>1. AcceptedAt(p)'
    BY <1>1, <1>2, <1>7 DEF LoadManifest, AcceptedAt, Writing, Committing
  <2> QED
    BY <1>2, <1>3, <1>4, <1>7, <2>1, GoesAccepted DEF LoadManifest
<1>8. CASE Compile(p)
  <2>1. CASE Ends(p)
    BY <1>3, <1>4, <1>8, <2>1, EndsAccepted DEF Compile
  <2>2. CASE /\ got[p].checked \in Sound
             /\ pc' = [pc EXCEPT ![p] = "digest"]
             /\ UNCHANGED mine
    <3>1. AcceptedAt(p)'
      BY <1>1, <1>2, <1>8, <2>2 DEF Compile, AcceptedAt, Writing, Committing
    <3> QED
      BY <1>2, <1>3, <1>4, <1>8, <2>2, <3>1, GoesAccepted DEF Compile
  <2> QED
    BY <1>8, <2>1, <2>2 DEF Compile
<1>9. CASE DigestCertificate(p)
  <2>1. AcceptedAt(p)'
    BY <1>1, <1>2, <1>9 DEF DigestCertificate, AcceptedAt, Writing, Committing
  <2> QED
    BY <1>2, <1>3, <1>4, <1>9, <2>1, GoesAccepted DEF DigestCertificate
<1>10. CASE ClearPending(p)
  <2>1. PendingOf(p) \in Declarations
    BY <1>10, PendingType DEF ClearPending
  <2>2. PendingFits'
    BY <1>10, <2>1, EmptyFits, PendingAccepted DEF ClearPending
  <2>3. AcceptedAt(p)'
    BY <1>1, <1>2, <1>10 DEF ClearPending, AcceptedAt, Writing, Committing
  <2> QED
    BY <1>2, <1>3, <1>10, <2>2, <2>3, GoesAccepted DEF ClearPending
<1> QED
  BY <1>5, <1>6, <1>7, <1>8, <1>9, <1>10

LEMMA AcceptedWriting ==
  ASSUME TypeInv, AcceptedInv, NEW p \in Replayers,
         \/ WriteIdentity(p) \/ WriteReceipt(p) \/ WriteManifest(p)
         \/ VerifyRecord(p)
  PROVE  AcceptedInv'
<1> DEFINE d   == PendingOf(p)
           dir == pending[d]
<1>1. /\ d \in Declarations /\ dir \in RecordDirectory /\ FitsDir(d, dir)
      /\ d = <<base[p], got[p].candidate>>
      /\ got[p].checked \in Sound
  BY PendingType
     DEF WriteIdentity, WriteReceipt, WriteManifest, VerifyRecord, Goto, PendingOf,
         AcceptedInv, PendingFits, ReplaysFit, AcceptedAt, Writing
<1>2. AcceptedAt(p) /\ pc \in [Replayers -> Steps] /\ held \in [Replayers -> Maybe(RecordDigest)]
  BY DEF AcceptedInv, ReplaysFit, TypeInv, MineOK
<1>3. ASSUME PendingFits', ReplaysFit', UNCHANGED <<store, answers>>
      PROVE  AcceptedInv'
  BY <1>3 DEF AcceptedInv, StoredFits, AnswersFit, StoredRecords
<1>4. ASSUME Ends(p), pending' = [pending EXCEPT ![d] = EmptyDir],
             UNCHANGED <<base, store, answers>>
      PROVE  AcceptedInv'
  BY <1>1, <1>3, <1>4, EmptyFits, PendingAccepted, EndsAccepted
<1>5. CASE WriteIdentity(p)
  <2> DEFINE id == [name |-> base[p], candidate |-> got[p].candidate,
                    checked |-> got[p].checked]
             to == [dir EXCEPT !.identity = id]
  <2>1. pending' = [pending EXCEPT ![d] = to]
    BY <1>5 DEF WriteIdentity
  <2>2. FitsDir(d, to)
    BY <1>1 DEF FitsDir, Fits, RecordDirectory
  <2>3. PendingFits'
    <3> HIDE DEF d, to
    <3> QED
      BY <1>1, <2>1, <2>2, PendingAccepted
  <2>4. AcceptedAt(p)'
    BY <1>2, <1>5 DEF WriteIdentity, Goto, mine, AcceptedAt, PendingOf, Writing, Committing
  <2> QED
    BY <1>2, <1>3, <1>5, <2>3, <2>4, GoesAccepted DEF WriteIdentity, Goto, mine, told
<1>6. CASE WriteReceipt(p)
  <2>1. CASE dir.identity = None
    BY <1>4, <1>6, <2>1 DEF WriteReceipt, told
  <2>2. CASE dir.identity # None
    <3> DEFINE digest == [name |-> base[p], candidate |-> got[p].candidate,
                          checked |-> got[p].checked, content |-> got[p].content,
                          identity |-> dir.identity]
               to     == [dir EXCEPT !.receipt = digest]
    <3>1. FitsDigest(d, digest)
      BY <1>1, <2>2 DEF FitsDir, FitsDigest, Fits
    <3>2. /\ pending' = [pending EXCEPT ![d] = to]
          /\ held' = [held EXCEPT ![p] = digest]
          /\ pc' = [pc EXCEPT ![p] = "entries"]
          /\ pc[p] = "receipt"
          /\ UNCHANGED <<got, key, left, tmp, seen>>
          /\ UNCHANGED <<base, bundle, store, listed, told, faults>>
      BY <1>6, <2>2 DEF WriteReceipt
    <3> HIDE DEF digest
    <3>3. FitsDir(d, to)
      BY <1>1, <3>1 DEF FitsDir, FitsDigest, RecordDirectory
    <3>4. PendingFits'
      <4> HIDE DEF d, to
      <4> QED
        BY <1>1, <3>2, <3>3, PendingAccepted
    <3>5. AcceptedAt(p)'
      BY <1>1, <1>2, <3>1, <3>2 DEF AcceptedAt, PendingOf, Writing, Committing
    <3> QED
      BY <1>2, <1>3, <3>2, <3>4, <3>5, GoesAccepted DEF told
  <2> QED
    BY <2>1, <2>2
<1>7. CASE WriteManifest(p)
  <2>1. CASE dir.identity = None \/ dir.receipt = None
    BY <1>4, <1>7, <2>1 DEF WriteManifest, told
  <2>2. CASE dir.identity # None /\ dir.receipt # None
    <3> DEFINE manifest == [digest |-> held[p], identity |-> dir.identity,
                            receipt |-> dir.receipt]
               to       == [dir EXCEPT !.manifest = manifest]
    <3>1. FitsDigest(d, held[p])
      BY <1>2, <1>7 DEF WriteManifest, AcceptedAt
    <3>2. FitsDir(d, to)
      BY <1>1, <3>1 DEF FitsDir, RecordDirectory
    <3>3. /\ pending' = [pending EXCEPT ![d] = to]
          /\ pc' = [pc EXCEPT ![p] = "verify"]
          /\ pc[p] = "entries"
          /\ UNCHANGED mine
          /\ UNCHANGED <<base, bundle, store, listed, told, faults>>
      BY <1>7, <2>2 DEF WriteManifest
    <3>4. PendingFits'
      <4> HIDE DEF d, to
      <4> QED
        BY <1>1, <3>2, <3>3, PendingAccepted
    <3>5. AcceptedAt(p)'
      BY <1>2, <3>3 DEF mine, AcceptedAt, PendingOf, Writing, Committing
    <3> QED
      BY <1>2, <1>3, <3>3, <3>4, <3>5, GoesAccepted DEF mine, told
  <2> QED
    BY <2>1, <2>2
<1>8. CASE VerifyRecord(p)
  <2>1. CASE VerifiesRecord(dir)
    <3>1. AcceptedAt(p)'
      BY <1>2, <1>8, <2>1 DEF VerifyRecord, mine, AcceptedAt, PendingOf, Writing, Committing
    <3>2. PendingFits'
      BY <1>8, <2>1 DEF VerifyRecord, AcceptedInv, PendingFits
    <3> QED
      BY <1>2, <1>3, <1>8, <2>1, <3>1, <3>2, GoesAccepted DEF VerifyRecord, mine, told
  <2>2. CASE ~VerifiesRecord(dir)
    BY <1>4, <1>8, <2>2 DEF VerifyRecord, told
  <2> QED
    BY <2>1, <2>2
<1> QED
  BY <1>5, <1>6, <1>7, <1>8

LEMMA AcceptedCommitting ==
  ASSUME TypeInv, AcceptedInv, NEW p \in Replayers,
         \/ CommitVerify(p) \/ CheckRecords(p) \/ ListPending(p) \/ CopyFile(p)
         \/ Publish(p) \/ ReadIndex(p) \/ WriteIndex(p)
  PROVE  AcceptedInv'
<1> DEFINE d   == PendingOf(p)
           dir == pending[d]
<1>1. /\ pc[p] \in Committing
      /\ d \in Declarations /\ dir \in RecordDirectory /\ FitsDir(d, dir)
      /\ FitsDigest(d, held[p])
  BY PendingType
     DEF CommitVerify, CheckRecords, ListPending, CopyFile, Publish, ReadIndex,
         WriteIndex, Goto, Committing, AcceptedInv, PendingFits, ReplaysFit, AcceptedAt
<1>2. /\ AcceptedAt(p) /\ pc \in [Replayers -> Steps]
      /\ key \in [Replayers -> Maybe(RecordDigest)] /\ tmp \in [Replayers -> RecordDirectory]
  BY DEF AcceptedInv, ReplaysFit, TypeInv, MineOK
<1>3. ASSUME NEW e, FitsDigest(d, e) PROVE DeclarationOf(e) = d /\ FitsDigest(DeclarationOf(e), e)
  <2>1. d = <<e.name, e.candidate>>
    BY <1>1, <1>3 DEF FitsDigest, Fits, PendingOf
  <2> HIDE DEF d
  <2> QED
    BY <1>3, <2>1 DEF DeclarationOf
<1>4. ASSUME ReplaysFit', UNCHANGED <<pending, store, answers>>
      PROVE  AcceptedInv'
  BY <1>4 DEF AcceptedInv, PendingFits, StoredFits, AnswersFit, StoredRecords
<1>5. ASSUME AnswersAnyway(p), UNCHANGED <<base, pending, store>>
      PROVE  AcceptedInv'
  <2>1. FitsDigest(DeclarationOf(held[p]), held[p])
    BY <1>1, <1>3
  <2>2. AnswersFit'
    BY <1>5, <2>1 DEF AnswersAnyway, AcceptedInv, AnswersFit
  <2> QED
    BY <1>5, <2>2, EndsAccepted
       DEF AnswersAnyway, AcceptedInv, PendingFits, StoredFits, StoredRecords
<1>6. CASE CommitVerify(p)
  <2>1. CASE VerifiesRecord(dir)
    <3>1. AcceptedAt(p)'
      BY <1>2, <1>6, <2>1 DEF CommitVerify, mine, AcceptedAt, PendingOf, Writing, Committing
    <3> QED
      BY <1>2, <1>4, <1>6, <2>1, <3>1, GoesAccepted DEF CommitVerify, mine, disk
  <2> QED
    BY <1>5, <1>6, <2>1 DEF CommitVerify, disk
<1>7. CASE CheckRecords(p)
  <2>1. CASE /\ dir.manifest # None
             /\ key' = [key EXCEPT ![p] = dir.manifest.digest]
             /\ pc'[p] \in {"index", "list"}
             /\ pc' = [pc EXCEPT ![p] = pc'[p]]
             /\ UNCHANGED <<got, held, left, tmp, seen, answers>>
    <3>1. FitsDigest(d, dir.manifest.digest)
      BY <1>1, <2>1 DEF FitsDir
    <3>2. AcceptedAt(p)'
      BY <1>1, <1>2, <1>7, <2>1, <3>1 DEF CheckRecords, AcceptedAt, PendingOf, Writing, Committing
    <3> QED
      BY <1>2, <1>4, <1>7, <2>1, <3>2, GoesAccepted DEF CheckRecords, disk
  <2> QED
    BY <1>2, <1>5, <1>7, <2>1 DEF CheckRecords, disk
<1>8. CASE ListPending(p)
  <2>1. CASE Exists(dir)
    <3>1. AcceptedAt(p)'
      BY <1>2, <1>8, <2>1, EmptyFits
         DEF ListPending, AcceptedAt, PendingOf, Writing, Committing
    <3> QED
      BY <1>2, <1>4, <1>8, <2>1, <3>1, GoesAccepted DEF ListPending, disk
  <2> QED
    BY <1>5, <1>8, <2>1 DEF ListPending, disk
<1>9. CASE CopyFile(p)
  <2>1. ASSUME NEW f \in left[p], dir[f] # None, tmp' = [tmp EXCEPT ![p][f] = dir[f]],
               UNCHANGED <<pc, got, held, key, seen, answers>>
        PROVE  AcceptedInv'
    <3>1. f \in RecordFiles
      BY <2>1 DEF TypeInv, MineOK
    <3>2. tmp'[p] = [tmp[p] EXCEPT ![f] = dir[f]]
      BY <1>2, <2>1
    <3>3. pc[p] = "copy" /\ base' = base /\ UNCHANGED disk
      BY <1>9 DEF CopyFile
    <3>4. FitsDir(d, tmp[p]) /\ tmp[p] \in RecordDirectory
      BY <1>2, <3>3 DEF AcceptedAt
    <3>5. FitsDir(d, tmp'[p])
      <4> HIDE DEF d
      <4> QED
        BY <1>1, <3>1, <3>2, <3>4 DEF FitsDir, RecordDirectory, RecordFiles
    <3>6. AcceptedAt(p)'
      BY <1>2, <2>1, <3>3, <3>5 DEF AcceptedAt, PendingOf
    <3>7. ReplaysFit'
      BY <1>2, <2>1, <3>3, <3>6, GoesAccepted
    <3> QED
      BY <1>4, <2>1, <3>3, <3>7 DEF disk
  <2> QED
    BY <1>5, <1>9, <2>1 DEF CopyFile, disk
<1>10. CASE Publish(p)
  <2>1. CASE Stores(p)
    <3>1. /\ FitsDigest(d, key[p]) /\ FitsDir(d, tmp[p]) /\ key[p] \in RecordDigest
          /\ tmp[p] \in RecordDirectory
      BY <1>2, <2>1 DEF Stores, AcceptedAt, TypeInv, MineOK, ReadAt
    <3>2. /\ StoredRecords' = StoredRecords \cup {key[p]}
          /\ store'[key[p]] = tmp[p]
          /\ \A e \in StoredRecords : e # key[p] => store'[e] = store[e]
      BY <2>1, <3>1, PutType DEF Stores, TypeInv
    <3>3. FitsDigest(DeclarationOf(key[p]), key[p]) /\ FitsDir(DeclarationOf(key[p]), tmp[p])
      <4>1. DeclarationOf(key[p]) = d
        BY <1>3, <3>1
      <4> HIDE DEF d
      <4> QED
        BY <3>1, <4>1
    <3>4. StoredFits'
      BY <3>2, <3>3 DEF AcceptedInv, StoredFits
    <3>5. AcceptedAt(p)'
      BY <1>2, <1>10, <2>1 DEF Publish, Stores, AcceptedAt, PendingOf, Writing, Committing
    <3>6. ReplaysFit'
      BY <1>2, <1>10, <2>1, <3>5, GoesAccepted DEF Publish, Stores
    <3> QED
      BY <2>1, <3>4, <3>6 DEF Stores, AcceptedInv, PendingFits, AnswersFit
  <2>2. CASE AnswersAnyway(p) /\ UNCHANGED store
    BY <1>5, <1>10, <2>2 DEF Publish
  <2> QED
    BY <1>10, <2>1, <2>2 DEF Publish, Stores, StoredRecords
<1>11. CASE ReadIndex(p)
  <2>1. AcceptedAt(p)'
    BY <1>2, <1>11 DEF ReadIndex, Goto, AcceptedAt, PendingOf, Writing, Committing
  <2> QED
    BY <1>2, <1>4, <1>11, <2>1, GoesAccepted DEF ReadIndex, Goto, disk, told
<1>12. CASE WriteIndex(p)
  <2>1. FitsDigest(DeclarationOf(key[p]), key[p])
    BY <1>2, <1>3, <1>12 DEF WriteIndex, AcceptedAt
  <2>2. AnswersFit'
    BY <1>12, <2>1 DEF WriteIndex, AcceptedInv, AnswersFit
  <2> QED
    BY <1>12, <2>2, EndsAccepted
       DEF WriteIndex, AcceptedInv, PendingFits, StoredFits, StoredRecords
<1> QED
  BY <1>6, <1>7, <1>8, <1>9, <1>10, <1>11, <1>12

LEMMA AcceptedFault ==
  ASSUME TypeInv, AcceptedInv, NEW p \in Replayers, IOError(p) \/ Die(p)
  PROVE  AcceptedInv'
<1>1. ReplaysFit'
  BY EndsAccepted DEF IOError, Die, AnswersAnyway
<1>2. StoredFits'
  BY DEF IOError, Die, disk, AcceptedInv, StoredFits, StoredRecords
<1>3. PendingFits'
  <2>1. CASE UNCHANGED pending
    BY <2>1 DEF AcceptedInv, PendingFits
  <2>2. CASE pc[p] \in Writing /\ pending' = [pending EXCEPT ![PendingOf(p)] = EmptyDir]
    <3>1. PendingOf(p) \in Declarations
      BY <2>2, PendingType DEF Writing
    <3> QED
      BY <2>2, <3>1, EmptyFits, PendingAccepted
  <2> QED
    BY <2>1, <2>2 DEF IOError, Die, disk
<1>4. AnswersFit'
  <2>1. CASE UNCHANGED answers
    BY <2>1 DEF AcceptedInv, AnswersFit
  <2>2. CASE pc[p] \in Committing /\ AnswersAnyway(p)
    <3>1. PendingOf(p) = <<base[p], got[p].candidate>> /\ FitsDigest(PendingOf(p), held[p])
      BY <2>2 DEF PendingOf, AcceptedInv, ReplaysFit, AcceptedAt
    <3>2. PendingOf(p) = DeclarationOf(held[p])
      BY <3>1 DEF FitsDigest, Fits, DeclarationOf, PendingOf
    <3> QED
      BY <2>2, <3>1, <3>2 DEF AnswersAnyway, AcceptedInv, AnswersFit
  <2> QED
    BY <2>1, <2>2 DEF IOError, Die, told
<1> QED
  BY <1>1, <1>2, <1>3, <1>4 DEF AcceptedInv

LEMMA AcceptedStep ==
  ASSUME TypeInv, AcceptedInv, [Next]_vars
  PROVE  AcceptedInv'
<1>1. ASSUME NEW p \in Replayers, Step(p)
      PROVE  AcceptedInv'
  BY <1>1, AcceptedReplaying, AcceptedWriting, AcceptedCommitting, AcceptedFault DEF Step
<1>2. ASSUME UNCHANGED <<base, pending, store, pc, mine, answers>>
      PROVE  AcceptedInv'
  BY <1>2 DEF mine, AcceptedInv, PendingFits, StoredFits, AnswersFit, ReplaysFit,
              AcceptedAt, PendingOf, StoredRecords
<1>3. CASE UNCHANGED vars
  BY <1>2, <1>3 DEF vars, disk, told
<1>4. CASE \/ \E c \in Rewrites : RewriteCertificate(c)
           \/ RewriteManifest
           \/ \E d \in StoredRecords : VerifyCertificationRecord(d)
  BY <1>2, <1>4 DEF RewriteCertificate, RewriteManifest, VerifyCertificationRecord, disk, told
<1> QED
  BY <1>1, <1>3, <1>4 DEF Next, StoredRecords

(***************************************************************************)
(* Whoever shares the pending directories, rewrites the bundle, fails or    *)
(* dies: every part of a stored record, and what an answer of kernel_replay *)
(* names, stored or not, is about one declaration of one candidate, and     *)
(* says that a certificate was checked which Lean has accepted.  That it is *)
(* the certificate of that candidate is what nothing keeps (ExactBinding).  *)
(***************************************************************************)
THEOREM RecordsWereAccepted == Spec => []OnlyAcceptedIsRecorded
<1>1. AcceptedInv => OnlyAcceptedIsRecorded
  <2> SUFFICES ASSUME AcceptedInv PROVE OnlyAcceptedIsRecorded
    OBVIOUS
  <2>1. ASSUME NEW d \in StoredRecords \cup answers
        PROVE  FitsDigest(DeclarationOf(d), d)
    BY DEF AcceptedInv, StoredFits, AnswersFit
  <2>2. ASSUME NEW d \in StoredRecords, NEW r \in {store[d].identity, store[d].receipt} \ {None}
        PROVE  Fits(DeclarationOf(d), r)
    BY DEF AcceptedInv, StoredFits, FitsDir
  <2>3. ASSUME NEW d, NEW r, Fits(DeclarationOf(d), r)
        PROVE  r.name = d.name /\ r.candidate = d.candidate /\ r.checked \in Sound
    BY <2>3 DEF Fits, DeclarationOf
  <2> QED
    BY <2>1, <2>2, <2>3 DEF OnlyAcceptedIsRecorded, FitsDigest
<1>2. TypeInv /\ AcceptedInv /\ [Next]_vars => AcceptedInv'
  BY AcceptedStep
<1> QED
  BY <1>1, <1>2, AcceptedInit, TypeInvariant, PTL DEF Spec

-----------------------------------------------------------------------------
(***************************************************************************)
(* A record under its digest.  A replay that nobody shares the pending      *)
(* directory with finds at each step the files it has written, so that what *)
(* it copies to the store is, file by file, what the digest was taken of.   *)
(***************************************************************************)
MatchAt(p) ==
  LET dir == pending[PendingOf(p)] IN
  /\ pc[p] \in {"identity", "receipt"} => dir.receipt = None /\ dir.manifest = None
  /\ pc[p] = "entries" =>
       /\ dir.identity = held[p].identity
       /\ dir.receipt = held[p]
       /\ dir.manifest = None
  /\ pc[p] \in {"verify", "commit", "exists", "list", "copy"} =>
       dir = RecordOf(held[p])
  /\ pc[p] \in {"list", "copy"} => key[p] = held[p]
  /\ pc[p] = "copy" => \A f \in RecordFiles \ left[p] : tmp[p][f] = dir[f]

Whole == \A d \in StoredRecords : store[d] = RecordOf(d)

MatchInv == Whole /\ \A p \in Replayers : MatchAt(p)

(* Two directories with the same files are the same.                        *)
LEMMA SameFiles ==
  ASSUME NEW dir \in RecordDirectory, NEW d \in RecordDigest,
         dir.identity = d.identity, dir.receipt = d,
         dir.manifest = [digest |-> d, identity |-> d.identity, receipt |-> d]
  PROVE  dir = RecordOf(d)
BY DEF RecordDirectory, RecordOf

(* The files of a record are there, and have values of their own.           *)
LEMMA RecordOfFiles ==
  ASSUME NEW d \in RecordDigest
  PROVE  /\ RecordOf(d) \in RecordDirectory
         /\ \A f \in RecordFiles : RecordOf(d)[f] # None
         /\ RecordOf(d).manifest.digest = d
<1>1. d.identity \in Identity
  BY DEF RecordDigest
<1>2. RecordOf(d).manifest \in Manifest
  BY <1>1 DEF RecordOf, Manifest
<1> QED
  BY <1>1, <1>2, NoneAssumption DEF RecordOf, RecordDirectory, RecordFiles

(* What one replay writes in its pending directory is not in another's.     *)
LEMMA OwnDirectories ==
  ASSUME DistinctNames, NEW p \in Replayers, NEW q \in Replayers, p # q
  PROVE  PendingOf(p) # PendingOf(q)
BY DEF DistinctNames, PendingOf

(* So a replay keeps its files while another one moves ...                  *)
LEMMA OthersMatch ==
  ASSUME DistinctNames, TypeInv, MatchInv, base' = base, NEW p \in Replayers,
         NEW q \in Replayers, p # q,
         pc'[q] = pc[q], got'[q] = got[q], held'[q] = held[q],
         key'[q] = key[q], left'[q] = left[q], tmp'[q] = tmp[q],
         \/ pending' = pending
         \/ \E dir : pending' = [pending EXCEPT ![PendingOf(p)] = dir]
  PROVE  MatchAt(q)'
<1>1. CASE pc[q] \in Writing \cup {"commit", "exists", "list", "copy"}
  <2>1. PendingOf(q) \in Declarations
    BY <1>1, PendingType DEF Writing
  <2>2. pending'[PendingOf(q)] = pending[PendingOf(q)]
    BY <2>1, OwnDirectories DEF TypeInv, DiskOK
  <2>3. PendingOf(q)' = PendingOf(q)
    BY DEF PendingOf
  <2>4. MatchAt(q)
    BY DEF MatchInv
  <2> QED
    BY <2>2, <2>3, <2>4 DEF MatchAt
<1>2. CASE pc[q] \notin Writing \cup {"commit", "exists", "list", "copy"}
  BY <1>2 DEF MatchAt, Writing
<1> QED
  BY <1>1, <1>2

(* ... and one that is at none of these steps has nothing to keep.          *)
LEMMA NothingToMatch ==
  ASSUME NEW p \in Replayers,
         pc'[p] \in Steps \ (Writing \cup {"commit", "exists", "list", "copy"})
  PROVE  MatchAt(p)'
BY DEF MatchAt, Writing

LEMMA MatchInit == Init => MatchInv
BY DEF Init, MatchInv, Whole, StoredRecords, MatchAt

(* A replay that ends.                                                      *)
LEMMA MatchEnds ==
  ASSUME DistinctNames, TypeInv, MatchInv, base' = base, NEW p \in Replayers, Ends(p),
         \/ pending' = pending
         \/ \E dir : pending' = [pending EXCEPT ![PendingOf(p)] = dir]
  PROVE  \A q \in Replayers : MatchAt(q)'
<1> SUFFICES ASSUME NEW q \in Replayers PROVE MatchAt(q)'
  OBVIOUS
<1>1. CASE q = p
  <2>1. pc'[p] = "idle"
    BY DEF Ends, TypeInv, MineOK
  <2> QED
    BY <1>1, <2>1, NothingToMatch DEF Steps, Writing
<1>2. CASE q # p
  <2>1. /\ pc'[q] = pc[q] /\ got'[q] = got[q] /\ held'[q] = held[q]
        /\ key'[q] = key[q] /\ left'[q] = left[q] /\ tmp'[q] = tmp[q]
    BY <1>2 DEF Ends, TypeInv, MineOK
  <2> QED
    BY <1>2, <2>1, OthersMatch
<1> QED
  BY <1>1, <1>2

(* A replay goes on: the others keep their files, so what it keeps decides. *)
LEMMA MatchGoes ==
  ASSUME DistinctNames, TypeInv, MatchInv, base' = base, NEW p \in Replayers,
         pc' = [pc EXCEPT ![p] = pc'[p]],
         \A q \in Replayers \ {p} :
           /\ got'[q] = got[q] /\ held'[q] = held[q] /\ key'[q] = key[q]
           /\ left'[q] = left[q] /\ tmp'[q] = tmp[q],
         \/ pending' = pending
         \/ \E dir : pending' = [pending EXCEPT ![PendingOf(p)] = dir],
         MatchAt(p)'
  PROVE  \A q \in Replayers : MatchAt(q)'
<1> SUFFICES ASSUME NEW q \in Replayers, q # p PROVE MatchAt(q)'
  OBVIOUS
<1>1. pc'[q] = pc[q]
  BY DEF TypeInv, MineOK
<1> QED
  BY <1>1, OthersMatch

LEMMA MatchReplaying ==
  ASSUME DistinctNames, TypeInv, MatchInv, base' = base, NEW p \in Replayers,
         \/ VerifyBundle(p) \/ LoadCertificate(p) \/ LoadManifest(p)
         \/ Compile(p) \/ DigestCertificate(p) \/ ClearPending(p)
  PROVE  \A q \in Replayers : MatchAt(q)'
<1> USE DEF Goto, disk, mine, told
<1>1. CASE VerifyBundle(p) \/ LoadCertificate(p) \/ LoadManifest(p)
           \/ DigestCertificate(p)
  <2>1. pc'[p] \in {"certificate", "manifest", "lean", "clear"}
    BY <1>1 DEF VerifyBundle, LoadCertificate, LoadManifest, DigestCertificate,
                TypeInv, MineOK
  <2>2. MatchAt(p)'
    BY <2>1, NothingToMatch DEF Steps, Writing, Replaying
  <2> QED
    BY <1>1, <2>2, MatchGoes
       DEF VerifyBundle, LoadCertificate, LoadManifest, DigestCertificate, TypeInv,
           MineOK
<1>2. CASE Compile(p)
  <2>1. CASE Ends(p)
    BY <1>2, <2>1, MatchEnds DEF Compile
  <2>2. CASE pc' = [pc EXCEPT ![p] = "digest"] /\ UNCHANGED mine
    <3>1. pc'[p] = "digest"
      BY <2>2 DEF TypeInv, MineOK
    <3>2. MatchAt(p)'
      BY <3>1, NothingToMatch DEF Steps, Writing, Replaying
    <3> QED
      BY <1>2, <2>2, <3>2, MatchGoes DEF Compile
  <2> QED
    BY <1>2, <2>1, <2>2 DEF Compile
<1>3. CASE ClearPending(p)
  <2>1. PendingOf(p) \in Declarations /\ PendingOf(p)' = PendingOf(p)
    BY <1>3, PendingType DEF ClearPending, PendingOf
  <2>2. pending'[PendingOf(p)] = EmptyDir /\ pc'[p] = "identity"
    BY <1>3, <2>1 DEF ClearPending, TypeInv, DiskOK, MineOK
  <2>3. MatchAt(p)'
    BY <2>1, <2>2 DEF MatchAt, EmptyDir, RecordFiles
  <2> QED
    BY <1>3, <2>3, MatchGoes DEF ClearPending
<1> QED
  BY <1>1, <1>2, <1>3

LEMMA MatchWriting ==
  ASSUME DistinctNames, TypeInv, MatchInv, base' = base, NEW p \in Replayers,
         \/ WriteIdentity(p) \/ WriteReceipt(p) \/ WriteManifest(p)
         \/ VerifyRecord(p)
  PROVE  \A q \in Replayers : MatchAt(q)'
<1> DEFINE d   == PendingOf(p)
           dir == pending[d]
<1>1. /\ d \in Declarations /\ dir \in RecordDirectory /\ MatchAt(p)
      /\ got[p].candidate \in Candidates
      /\ got[p].checked \in Candidates
      /\ got[p].content \in Candidates
      /\ base[p] \in Bases
  BY PendingType
     DEF WriteIdentity, WriteReceipt, WriteManifest, VerifyRecord, Goto, TypeInv,
         ToldOK, MineOK, ReadAt, MatchInv
<1>2. ASSUME Ends(p), pending' = [pending EXCEPT ![d] = EmptyDir]
      PROVE  \A q \in Replayers : MatchAt(q)'
  BY <1>2, MatchEnds
<1>3. CASE WriteIdentity(p)
  <2> DEFINE id == [name |-> base[p], candidate |-> got[p].candidate,
                    checked |-> got[p].checked]
             to == [dir EXCEPT !.identity = id]
  <2>1. pending' = [pending EXCEPT ![d] = to] /\ pc[p] = "identity"
        /\ UNCHANGED mine /\ pc' = [pc EXCEPT ![p] = "receipt"]
    BY <1>3 DEF WriteIdentity, Goto
  <2>2. pending'[d] = to /\ d' = d /\ pc'[p] = "receipt"
    BY <1>1, <2>1 DEF TypeInv, DiskOK, MineOK, mine, PendingOf
  <2>3. to.receipt = None /\ to.manifest = None
    BY <1>1, <2>1 DEF MatchAt, RecordDirectory
  <2>4. MatchAt(p)'
    BY <2>2, <2>3 DEF MatchAt
  <2> QED
    BY <2>1, <2>4, MatchGoes DEF mine, TypeInv, MineOK
<1>4. CASE WriteReceipt(p)
  <2>1. CASE dir.identity = None
    BY <1>2, <1>4, <2>1 DEF WriteReceipt
  <2>2. CASE dir.identity # None
    <3> DEFINE digest == [name |-> base[p], candidate |-> got[p].candidate,
                          checked |-> got[p].checked, content |-> got[p].content,
                          identity |-> dir.identity]
               to     == [dir EXCEPT !.receipt = digest]
    <3>1. digest.identity = dir.identity
      OBVIOUS
    <3>2. /\ pending' = [pending EXCEPT ![d] = to]
          /\ held' = [held EXCEPT ![p] = digest]
          /\ pc' = [pc EXCEPT ![p] = "entries"]
          /\ pc[p] = "receipt"
          /\ UNCHANGED <<got, key, left, tmp, seen>>
      BY <1>4, <2>2 DEF WriteReceipt
    <3> HIDE DEF digest
    <3>3. /\ pending'[d] = to /\ d' = d
          /\ pc'[p] = "entries" /\ held'[p] = digest
      BY <1>1, <3>2 DEF TypeInv, DiskOK, MineOK, PendingOf
    <3>4. to.identity = digest.identity /\ to.receipt = digest /\ to.manifest = None
      BY <1>1, <3>1, <3>2 DEF MatchAt, RecordDirectory
    <3>5. MatchAt(p)'
      BY <3>3, <3>4 DEF MatchAt
    <3>6. \A q \in Replayers \ {p} : held'[q] = held[q]
      BY <3>2 DEF TypeInv, MineOK
    <3> QED
      BY <3>2, <3>3, <3>5, <3>6, MatchGoes
  <2> QED
    BY <2>1, <2>2
<1>5. CASE WriteManifest(p)
  <2>1. CASE dir.identity = None \/ dir.receipt = None
    BY <1>2, <1>5, <2>1 DEF WriteManifest
  <2>2. CASE dir.identity # None /\ dir.receipt # None
    <3> DEFINE manifest == [digest |-> held[p], identity |-> dir.identity,
                            receipt |-> dir.receipt]
               to       == [dir EXCEPT !.manifest = manifest]
    <3>1. /\ pending' = [pending EXCEPT ![d] = to]
          /\ pc' = [pc EXCEPT ![p] = "verify"]
          /\ pc[p] = "entries"
          /\ UNCHANGED mine
      BY <1>5, <2>2 DEF WriteManifest
    <3>2. held[p] \in RecordDigest
      BY <3>1 DEF TypeInv, MineOK, ReadAt
    <3>3. dir.identity = held[p].identity /\ dir.receipt = held[p]
      BY <1>1, <3>1 DEF MatchAt
    <3>4. manifest \in Manifest
      BY <3>2, <3>3 DEF Manifest, RecordDigest
    <3>5. to \in RecordDirectory
      BY <1>1, <3>4, WithFile
    <3>6. /\ to.identity = held[p].identity /\ to.receipt = held[p]
          /\ to.manifest = [digest |-> held[p], identity |-> held[p].identity,
                            receipt |-> held[p]]
      BY <1>1, <3>3 DEF RecordDirectory
    <3>7. to = RecordOf(held[p])
      BY <3>2, <3>5, <3>6, SameFiles
    <3>8. pending'[d] = to /\ d' = d /\ pc'[p] = "verify" /\ held'[p] = held[p]
      BY <1>1, <3>1 DEF TypeInv, DiskOK, MineOK, PendingOf, mine
    <3>9. MatchAt(p)'
      <4> HIDE DEF to
      <4> QED
        BY <3>7, <3>8 DEF MatchAt
    <3> QED
      BY <3>1, <3>8, <3>9, MatchGoes DEF mine
  <2> QED
    BY <2>1, <2>2
<1>6. CASE VerifyRecord(p)
  <2>1. CASE VerifiesRecord(dir)
    <3>1. pc' = [pc EXCEPT ![p] = "commit"] /\ UNCHANGED <<pending, mine>>
          /\ pc[p] = "verify"
      BY <1>6, <2>1 DEF VerifyRecord
    <3>2. pc'[p] = "commit" /\ pending' = pending
      BY <3>1 DEF TypeInv, MineOK
    <3>3. MatchAt(p)'
      BY <1>1, <3>1, <3>2 DEF MatchAt, mine, PendingOf
    <3> QED
      BY <3>1, <3>2, <3>3, MatchGoes DEF mine
  <2>2. CASE ~VerifiesRecord(dir)
    BY <1>2, <1>6, <2>2 DEF VerifyRecord
  <2> QED
    BY <2>1, <2>2
<1> QED
  BY <1>3, <1>4, <1>5, <1>6

LEMMA MatchCommitting ==
  ASSUME DistinctNames, TypeInv, MatchInv, base' = base, NEW p \in Replayers,
         \/ CommitVerify(p) \/ CheckRecords(p) \/ ListPending(p) \/ CopyFile(p)
         \/ Publish(p) \/ ReadIndex(p) \/ WriteIndex(p)
  PROVE  \A q \in Replayers : MatchAt(q)'
<1> DEFINE d   == PendingOf(p)
           dir == pending[d]
<1>1. /\ d \in Declarations /\ dir \in RecordDirectory /\ MatchAt(p)
      /\ held[p] \in RecordDigest
  BY PendingType
     DEF CommitVerify, CheckRecords, ListPending, CopyFile, Publish, ReadIndex,
         WriteIndex, Goto, Committing, MatchInv, TypeInv, MineOK, ReadAt
<1>2. /\ \A f \in RecordFiles : RecordOf(held[p])[f] # None
      /\ RecordOf(held[p]).manifest.digest = held[p]
  BY <1>1, RecordOfFiles
<1>3. ASSUME AnswersAnyway(p), UNCHANGED disk
      PROVE  \A q \in Replayers : MatchAt(q)'
  BY <1>3, MatchEnds DEF AnswersAnyway, disk
<1>4. CASE CommitVerify(p)
  <2>1. CASE VerifiesRecord(dir)
    <3>1. /\ pc[p] = "commit" /\ pc' = [pc EXCEPT ![p] = "exists"]
          /\ pc'[p] = "exists" /\ UNCHANGED <<pending, mine>>
      BY <1>4, <2>1 DEF CommitVerify, TypeInv, MineOK, disk
    <3>2. MatchAt(p)'
      BY <1>1, <3>1 DEF MatchAt, mine, PendingOf
    <3> QED
      BY <3>1, <3>2, MatchGoes DEF mine
  <2> QED
    BY <1>3, <1>4, <2>1 DEF CommitVerify
<1>5. CASE CheckRecords(p)
  <2>1. CASE /\ dir.manifest # None
             /\ key' = [key EXCEPT ![p] = dir.manifest.digest]
             /\ pc' = [pc EXCEPT ![p] = IF dir.manifest.digest \in DOMAIN store
                                        THEN "index" ELSE "list"]
             /\ UNCHANGED <<got, held, left, tmp, seen, answers>>
    <3>1. /\ pc[p] = "exists" /\ pending' = pending
          /\ pc'[p] \in {"index", "list"} /\ pc' = [pc EXCEPT ![p] = pc'[p]]
      BY <1>5, <2>1 DEF CheckRecords, TypeInv, MineOK, disk
    <3>2. dir = RecordOf(held[p])
      BY <1>1, <3>1 DEF MatchAt
    <3>3. key'[p] = held'[p] /\ held'[p] = held[p]
          /\ \A q \in Replayers \ {p} : key'[q] = key[q]
      BY <1>2, <2>1, <3>2 DEF TypeInv, MineOK
    <3>4. MatchAt(p)'
      BY <2>1, <3>1, <3>2, <3>3 DEF MatchAt, PendingOf
    <3> QED
      BY <2>1, <3>1, <3>3, <3>4, MatchGoes
  <2> QED
    BY <1>3, <1>5, <2>1 DEF CheckRecords
<1>6. CASE ListPending(p)
  <2>1. CASE Exists(dir)
    <3>1. /\ pc[p] = "list" /\ pending' = pending
          /\ pc' = [pc EXCEPT ![p] = "copy"] /\ pc'[p] = "copy"
          /\ left' = [left EXCEPT ![p] = {f \in RecordFiles : dir[f] # None}]
          /\ UNCHANGED <<got, held, key, tmp, seen, answers>>
      BY <1>6, <2>1 DEF ListPending, TypeInv, MineOK, disk
    <3>2. dir = RecordOf(held[p]) /\ key[p] = held[p]
      BY <1>1, <3>1 DEF MatchAt
    <3>3. left'[p] = RecordFiles /\ \A q \in Replayers \ {p} : left'[q] = left[q]
      BY <1>2, <3>1, <3>2 DEF TypeInv, MineOK
    <3>4. MatchAt(p)'
      BY <3>1, <3>2, <3>3 DEF MatchAt, PendingOf
    <3> QED
      BY <3>1, <3>3, <3>4, MatchGoes
  <2> QED
    BY <1>3, <1>6, <2>1 DEF ListPending
<1>7. CASE CopyFile(p)
  <2>1. ASSUME NEW f \in left[p],
               tmp' = [tmp EXCEPT ![p][f] = dir[f]],
               left' = [left EXCEPT ![p] = @ \ {f}],
               UNCHANGED <<pc, got, held, key, seen, answers>>
        PROVE  \A q \in Replayers : MatchAt(q)'
    <3>1. pc[p] = "copy" /\ pending' = pending
      BY <1>7 DEF CopyFile, disk
    <3>2. f \in RecordFiles /\ tmp[p] \in RecordDirectory
          /\ left[p] \in SUBSET RecordFiles
      BY <2>1 DEF TypeInv, MineOK
    <3>3. tmp'[p] = [tmp[p] EXCEPT ![f] = dir[f]] /\ left'[p] = left[p] \ {f}
      BY <2>1 DEF TypeInv, MineOK
    <3>4. \A q \in Replayers \ {p} : tmp'[q] = tmp[q] /\ left'[q] = left[q]
      BY <2>1 DEF TypeInv, MineOK
    <3>5. DOMAIN tmp[p] = RecordFiles
      BY <3>2 DEF RecordDirectory, RecordFiles
    <3>6. \A g \in RecordFiles \ left'[p] : tmp'[p][g] = dir[g]
      BY <1>1, <3>1, <3>2, <3>3, <3>5 DEF MatchAt
    <3>7. MatchAt(p)'
      BY <1>1, <2>1, <3>1, <3>6 DEF MatchAt, PendingOf
    <3>8. pc' = [pc EXCEPT ![p] = pc'[p]]
      BY <2>1 DEF TypeInv, MineOK
    <3> QED
      BY <2>1, <3>1, <3>4, <3>7, <3>8, MatchGoes
  <2> QED
    BY <1>3, <1>7, <2>1 DEF CopyFile
<1>8. CASE Publish(p)
  <2>1. CASE Stores(p)
    <3>1. pc'[p] = "index" /\ \A q \in Replayers \ {p} : tmp'[q] = tmp[q]
      BY <2>1 DEF Stores, TypeInv, MineOK
    <3>2. MatchAt(p)'
      BY <3>1, NothingToMatch DEF Steps, Writing, Committing
    <3> QED
      BY <2>1, <3>1, <3>2, MatchGoes DEF Stores
  <2>2. CASE AnswersAnyway(p) /\ UNCHANGED store
    BY <1>3, <1>8, <2>2 DEF Publish, disk
  <2> QED
    BY <1>8, <2>1, <2>2 DEF Publish, Stores, StoredRecords
<1>9. CASE ReadIndex(p)
  <2>1. pc'[p] = "append" /\ pc' = [pc EXCEPT ![p] = "append"] /\ pending' = pending
        /\ UNCHANGED <<got, held, key, left, tmp>>
    BY <1>9 DEF ReadIndex, Goto, TypeInv, MineOK, disk
  <2>2. MatchAt(p)'
    BY <2>1, NothingToMatch DEF Steps, Writing, Committing
  <2> QED
    BY <2>1, <2>2, MatchGoes
<1>10. CASE WriteIndex(p)
  BY <1>10, MatchEnds DEF WriteIndex
<1> QED
  BY <1>4, <1>5, <1>6, <1>7, <1>8, <1>9, <1>10

(* What a replay stores is the record of the digest it stores it under.     *)
LEMMA StoresRecord ==
  ASSUME TypeInv, MatchInv, NEW p \in Replayers, Stores(p)
  PROVE  Whole'
<1>1. /\ key[p] \in RecordDigest /\ tmp[p] \in RecordDirectory
      /\ held[p] \in RecordDigest /\ key[p] = held[p]
      /\ \A f \in RecordFiles : tmp[p][f] = RecordOf(key[p])[f]
  BY DEF Stores, TypeInv, MineOK, ReadAt, MatchInv, MatchAt, Committing
<1>2. tmp[p] = RecordOf(key[p])
  <2>1. /\ tmp[p].identity = key[p].identity
        /\ tmp[p].receipt = key[p]
        /\ tmp[p].manifest = [digest |-> key[p], identity |-> key[p].identity,
                              receipt |-> key[p]]
    BY <1>1 DEF RecordOf, RecordFiles
  <2> QED
    BY <1>1, <2>1, SameFiles
<1>3. /\ StoredRecords' = StoredRecords \cup {key[p]}
      /\ store'[key[p]] = tmp[p]
      /\ \A e \in StoredRecords : e # key[p] => store'[e] = store[e]
  BY <1>1, PutType DEF Stores, TypeInv
<1> QED
  BY <1>2, <1>3 DEF MatchInv, Whole

LEMMA MatchFault ==
  ASSUME DistinctNames, TypeInv, MatchInv, base' = base, NEW p \in Replayers, IOError(p) \/ Die(p)
  PROVE  \A q \in Replayers : MatchAt(q)'
BY MatchEnds DEF IOError, Die, AnswersAnyway, disk

(* A replayer is called with one name.                                      *)
LEMMA NamesStay == [Next]_vars => base' = base
<1>1. ASSUME NEW p \in Replayers, Step(p) PROVE base' = base
  BY <1>1 DEF Step, VerifyBundle, LoadCertificate, LoadManifest, Compile,
       DigestCertificate, ClearPending, WriteIdentity, WriteReceipt, WriteManifest,
       VerifyRecord, CommitVerify, CheckRecords, ListPending, CopyFile, Publish,
       ReadIndex, WriteIndex, IOError, Die
<1> QED
  BY <1>1 DEF Next, vars, RewriteCertificate, RewriteManifest, VerifyCertificationRecord

LEMMA MatchStep ==
  ASSUME DistinctNames, TypeInv, MatchInv, [Next]_vars
  PROVE  MatchInv'
<1>1. Whole'
  <2>1. CASE UNCHANGED store
    BY <2>1 DEF MatchInv, Whole, StoredRecords
  <2> QED
    BY <2>1, StoreStep, StoresRecord
<1>2. ASSUME NEW p \in Replayers, Step(p)
      PROVE  \A q \in Replayers : MatchAt(q)'
  BY <1>2, NamesStay, MatchReplaying, MatchWriting, MatchCommitting, MatchFault DEF Step
<1>3. ASSUME UNCHANGED <<base, pending, pc, mine>>
      PROVE  \A q \in Replayers : MatchAt(q)'
  BY <1>3 DEF mine, MatchInv, MatchAt, PendingOf
<1>4. CASE UNCHANGED vars
  BY <1>1, <1>3, <1>4 DEF vars, disk, MatchInv
<1>5. CASE \/ \E c \in Rewrites : RewriteCertificate(c)
           \/ RewriteManifest
           \/ \E d \in StoredRecords : VerifyCertificationRecord(d)
  BY <1>1, <1>3, <1>5
     DEF RewriteCertificate, RewriteManifest, VerifyCertificationRecord, disk, MatchInv
<1> QED
  BY <1>1, <1>2, <1>4, <1>5 DEF Next, StoredRecords, MatchInv

LEMMA MatchInvariant == Spec => [](DistinctNames => MatchInv)
<1>1. Init => (DistinctNames => MatchInv)
  BY MatchInit
<1>2. TypeInv /\ (DistinctNames => MatchInv) /\ [Next]_vars => (DistinctNames => MatchInv)'
  <2> SUFFICES ASSUME TypeInv, DistinctNames => MatchInv, [Next]_vars, DistinctNames'
               PROVE  MatchInv'
    OBVIOUS
  <2>1. DistinctNames
    BY NamesStay DEF DistinctNames
  <2> QED
    BY <2>1, MatchStep
<1> QED
  BY <1>1, <1>2, TypeInvariant, PTL DEF Spec

(***************************************************************************)
(* What a certification id names is what is stored under it: the directory  *)
(* that a replay copies file by file still has, at each copy, the files     *)
(* that the digest was taken of, and it is moved to the store only when it  *)
(* is complete.  Errors, deaths and rewrites of the candidate are covered;  *)
(* replays that share a pending directory are not, and can break it.        *)
(***************************************************************************)
THEOREM RecordsAreWhole == Spec => []RecordsMatchDigest
<1>1. (DistinctNames => MatchInv) => RecordsMatchDigest
  BY DEF MatchInv, Whole, RecordsMatchDigest
<1> QED
  BY <1>1, MatchInvariant, PTL

-----------------------------------------------------------------------------
Exact(d) == d.candidate \in Sound /\ d.checked = d.candidate /\ d.content = d.candidate

(* A verification that succeeds was of a record that is what its id says.   *)
LEMMA VerifiedStep ==
  ASSUME RecordsMatchDigest, VerifiedIsExact, [Next]_vars
  PROVE  VerifiedIsExact'
<1> SUFFICES ASSUME DistinctNames'
             PROVE  \A d \in verified' : Exact(d)
  BY DEF VerifiedIsExact, Exact
<1> DistinctNames /\ \A d \in verified : Exact(d)
  BY NamesStay DEF DistinctNames, VerifiedIsExact, Exact
<1>1. ASSUME NEW d \in StoredRecords, VerifyCertificationRecord(d)
      PROVE  \A e \in verified' : Exact(e)
  <2> DEFINE dir == store[d]
  <2>1. dir = RecordOf(d)
    BY DEF RecordsMatchDigest
  <2> HIDE DEF dir
  <2>2. dir.identity = d.identity /\ dir.receipt = d
    BY <2>1 DEF RecordOf
  <2>3. Exact(d)
    BY <1>1, <2>2 DEF VerifyCertificationRecord, dir, Exact
  <2>4. verified' = verified \cup {d}
    BY <1>1 DEF VerifyCertificationRecord
  <2> QED
    BY <2>3, <2>4
<1>2. CASE UNCHANGED verified
  BY <1>2
<1>3. ASSUME NEW p \in Replayers, Step(p)
      PROVE  UNCHANGED verified
  BY <1>3 DEF Step, VerifyBundle, LoadCertificate, LoadManifest, Compile,
       DigestCertificate, ClearPending, WriteIdentity, WriteReceipt, WriteManifest,
       VerifyRecord, CommitVerify, CheckRecords, ListPending, CopyFile, Publish,
       ReadIndex, WriteIndex, IOError, Die, told
<1>4. CASE UNCHANGED vars \/ RewriteManifest \/ \E c \in Rewrites : RewriteCertificate(c)
  BY <1>2, <1>4 DEF vars, told, RewriteManifest, RewriteCertificate
<1> QED
  BY <1>1, <1>2, <1>3, <1>4 DEF Next, StoredRecords

(***************************************************************************)
(* An id that verify_certification_record finds verified names a record of  *)
(* a candidate that Lean accepts, issued on a check of that candidate's own *)
(* certificate, also when the directory was rewritten during the replay.    *)
(* The function compares the record with itself, its candidate and a fresh  *)
(* replay, never with the id asked for: that the record is the id's is what *)
(* RecordsMatchDigest adds.                                                 *)
(***************************************************************************)
THEOREM VerificationIsExact == Spec => []VerifiedIsExact
<1>1. Init => VerifiedIsExact
  BY DEF Init, VerifiedIsExact
<1>2. RecordsMatchDigest /\ VerifiedIsExact /\ [Next]_vars => VerifiedIsExact'
  BY VerifiedStep
<1> QED
  BY <1>1, <1>2, RecordsAreWhole, PTL DEF Spec

=============================================================================
