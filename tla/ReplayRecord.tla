----------------------------- MODULE ReplayRecord -----------------------------
(***************************************************************************)
(* The Certification Records of the kernel replay: run_kernel_replay        *)
(* (adapters/common/kernel_replay.py) reads a candidate bundle, has Lean    *)
(* check it, and writes a record in a pending directory; the handler of     *)
(* kernel_replay (agent/api/service.py) commits the record to the           *)
(* certification side of the store (agent/api/bundle_store.py) and answers; *)
(* verify_certification_record (agent/api/receipt.py) reads a stored one.   *)
(*                                                                          *)
(* Replays run in threads and processes of their own.  They read the        *)
(* candidate from a directory which compute_evidence may be rewriting, and  *)
(* replays of one declaration share one pending directory; neither is       *)
(* under the lock that ReplayLock models, which protects the Lean step.     *)
(*                                                                          *)
(* What is abstracted: a candidate bundle is its certificate, and its       *)
(* digest is the candidate itself; the bytes of a record's file are the     *)
(* values they were written from; a proof digest is the certificate that    *)
(* the checked module was generated from.  Of a record's body, the theorem  *)
(* identity stands for the files written from memory before the receipt.    *)
(* The environment lock does not change, every candidate bundle is in the   *)
(* store, a file is written and a directory removed in one step.            *)
(***************************************************************************)
EXTENDS Naturals, FiniteSets

CONSTANTS
  Replayers,    \* handlers and command-line runs that replay the bundle
  Bases,        \* declaration names that callers may ask for
  Callings,     \* which of them each replayer may be called with
  Candidates,   \* candidate bundles
  Sound,        \* those whose generated module Lean accepts
  Rewrites,     \* what compute_evidence writes to the directory meanwhile
  MaxFaults,    \* bound: I/O errors and deaths
  None          \* no such file, or no value

ASSUME ReplayAssumption ==
  /\ Callings \subseteq [Replayers -> Bases]
  /\ Sound \subseteq Candidates
  /\ Rewrites \subseteq Candidates
  /\ MaxFaults \in Nat

Identity == [name : Bases, candidate : Candidates, checked : Candidates]

(***************************************************************************)
(* A certification digest binds the receipt, with the digest of the         *)
(* certificate as the replay found it, and the theorem identity as it is    *)
(* read back from disk.                                                     *)
(***************************************************************************)
RecordDigest ==
  [name : Bases, candidate : Candidates, checked : Candidates,
   content : Candidates, identity : Identity]

Manifest == [digest : RecordDigest, identity : Identity, receipt : RecordDigest]

RecordFiles == {"identity", "receipt", "manifest"}
EmptyDir    == [f \in RecordFiles |-> None]
RecordDirectory ==
  [identity : Identity \cup {None}, receipt : RecordDigest \cup {None},
   manifest : Manifest \cup {None}]

ASSUME NoneAssumption ==
  None \notin Candidates \cup Identity \cup RecordDigest \cup Manifest

Declarations == Bases \X Candidates     \* _candidate_declaration

VARIABLES
  base,       \* base[p]: the declaration name that replayer p is called with
  bundle,     \* the directory that is replayed: certificate and manifest
  pending,    \* pending[decl]: files of _pending/<decl>
  store,      \* store[d]: files of the record cert_sha256_<d>, if stored
  listed,     \* the certification index of the request
  pc,         \* next step of each replayer
  got,        \* what a replayer has read of the candidate
  held,       \* the digest of the record a replayer wrote
  key,        \* the digest it commits under
  left,       \* files still to be copied to its temporary directory
  tmp,        \* the temporary directory
  seen,       \* the certification index as it read it
  answers,    \* digests that answers of kernel_replay have named
  verified,   \* digests that verify_certification_record returned as verified
  faults      \* I/O errors and deaths so far

disk == <<bundle, pending, store, listed>>
mine == <<got, held, key, left, tmp, seen>>
told == <<answers, verified>>
vars == <<base, disk, pc, mine, told, faults>>

Nothing == [candidate |-> None, checked |-> None, content |-> None]

Init ==
  /\ base \in Callings
  /\ bundle \in {[certificate |-> c, manifest |-> c] : c \in Candidates}
  /\ pending = [d \in Declarations |-> EmptyDir]
  /\ store = [d \in {} |-> EmptyDir]
  /\ listed = {}
  /\ pc = [p \in Replayers |-> "idle"]
  /\ got = [p \in Replayers |-> Nothing]
  /\ held = [p \in Replayers |-> None]
  /\ key = [p \in Replayers |-> None]
  /\ left = [p \in Replayers |-> {}]
  /\ tmp = [p \in Replayers |-> EmptyDir]
  /\ seen = [p \in Replayers |-> {}]
  /\ answers = {}
  /\ verified = {}
  /\ faults = 0

(* The certification side of the store, with dir under the digest d.        *)
Put(d, dir) ==
  [e \in DOMAIN store \cup {d} |-> IF e = d THEN dir ELSE store[e]]

Exists(dir) == \E f \in RecordFiles : dir[f] # None

(* Mutant of PendingOf: the directory is named as the caller named the      *)
(* declaration, without the digest of the candidate.                        *)
PendingOfName(p) == <<base[p], CHOOSE c \in Candidates : TRUE>>

(* The pending directory is that of the declaration.                        *)
PendingOf(p) == <<base[p], got[p].candidate>>

(* verify_bundle_offline of a certification directory: all files are there  *)
(* and have the digests of the manifest.                                    *)
VerifiesRecord(dir) ==
  /\ dir.manifest # None
  /\ dir.identity = dir.manifest.identity
  /\ dir.receipt = dir.manifest.receipt

Goto(p, from, to) ==
  /\ pc[p] = from
  /\ pc' = [pc EXCEPT ![p] = to]

(* The replay is over, and with it what the replayer held in memory.        *)
Ends(p) ==
  /\ pc' = [pc EXCEPT ![p] = "idle"]
  /\ got' = [got EXCEPT ![p] = Nothing]
  /\ held' = [held EXCEPT ![p] = None]
  /\ key' = [key EXCEPT ![p] = None]
  /\ left' = [left EXCEPT ![p] = {}]
  /\ tmp' = [tmp EXCEPT ![p] = EmptyDir]
  /\ seen' = [seen EXCEPT ![p] = {}]

(* op_kernel_replay after a commit that raised: the exception is dropped,   *)
(* and the answer names the record that run_kernel_replay wrote.            *)
AnswersAnyway(p) ==
  /\ answers' = answers \cup {held[p]}
  /\ Ends(p)

-----------------------------------------------------------------------------
(* compute_evidence writes another certificate to the directory ...         *)
RewriteCertificate(c) ==
  /\ c \in Rewrites
  /\ bundle' = [bundle EXCEPT !.certificate = c]
  /\ UNCHANGED <<base, pending, store, listed, pc, mine, told, faults>>

(* ... and then the manifest of what it finds there.                        *)
RewriteManifest ==
  /\ Rewrites # {}
  /\ bundle' = [bundle EXCEPT !.manifest = bundle.certificate]
  /\ UNCHANGED <<base, pending, store, listed, pc, mine, told, faults>>

(* run_kernel_replay: a directory that does not verify is refused.          *)
VerifyBundle(p) ==
  /\ bundle.certificate = bundle.manifest
  /\ Goto(p, "idle", "certificate")
  /\ UNCHANGED <<base, disk, mine, told, faults>>

(* load_role_json of the certificate, from which the module is generated.   *)
LoadCertificate(p) ==
  /\ Goto(p, "certificate", "manifest")
  /\ got' = [got EXCEPT ![p].checked = bundle.certificate]
  /\ UNCHANGED <<base, disk, held, key, left, tmp, seen, told, faults>>

(* The manifest is read again, for the digest that names the candidate.     *)
LoadManifest(p) ==
  /\ Goto(p, "manifest", "lean")
  /\ got' = [got EXCEPT ![p].candidate = bundle.manifest]
  /\ UNCHANGED <<base, disk, held, key, left, tmp, seen, told, faults>>

(* _compile_and_inspect: Lean accepts the generated module, or the replay   *)
(* is rejected; it may also be rejected for lack of time or of Lean.        *)
Compile(p) ==
  /\ pc[p] = "lean"
  /\ \/ /\ got[p].checked \in Sound
        /\ pc' = [pc EXCEPT ![p] = "digest"]
        /\ UNCHANGED mine
     \/ Ends(p)
  /\ UNCHANGED <<base, disk, told, faults>>

(* Mutant of DigestCertificate: the receipt has no certificate digest.      *)
DigestSkipped(p) ==
  /\ Goto(p, "digest", "clear")
  /\ UNCHANGED <<base, disk, mine, told, faults>>

(* certificateContentDigest: the file is read once more.                    *)
DigestCertificate(p) ==
  /\ Goto(p, "digest", "clear")
  /\ got' = [got EXCEPT ![p].content = bundle.certificate]
  /\ UNCHANGED <<base, disk, held, key, left, tmp, seen, told, faults>>

(* shutil.rmtree of a pending directory that is there.                      *)
ClearPending(p) ==
  /\ Goto(p, "clear", "identity")
  /\ pending' = [pending EXCEPT ![PendingOf(p)] = EmptyDir]
  /\ UNCHANGED <<base, bundle, store, listed, mine, told, faults>>

(* write_certification_record: the files written from memory.               *)
WriteIdentity(p) ==
  /\ Goto(p, "identity", "receipt")
  /\ pending' = [pending EXCEPT ![PendingOf(p)].identity =
                   [name |-> base[p], candidate |-> got[p].candidate,
                    checked |-> got[p].checked]]
  /\ UNCHANGED <<base, bundle, store, listed, mine, told, faults>>

(* write_certification_record: the certification digest, over the theorem   *)
(* identity as it is on disk, and the receipt with it.  A file that is gone *)
(* raises: the pending directory is removed and the replay rejected.        *)
WriteReceipt(p) ==
  LET onDisk == pending[PendingOf(p)].identity
      digest == [name |-> base[p], candidate |-> got[p].candidate,
                 checked |-> got[p].checked, content |-> got[p].content,
                 identity |-> onDisk]
  IN
  /\ pc[p] = "receipt"
  /\ \/ /\ onDisk # None
        /\ pending' = [pending EXCEPT ![PendingOf(p)].receipt = digest]
        /\ held' = [held EXCEPT ![p] = digest]
        /\ pc' = [pc EXCEPT ![p] = "entries"]
        /\ UNCHANGED <<got, key, left, tmp, seen>>
     \/ /\ onDisk = None
        /\ pending' = [pending EXCEPT ![PendingOf(p)] = EmptyDir]
        /\ Ends(p)
  /\ UNCHANGED <<base, bundle, store, listed, told, faults>>

(* write_certification_record: the manifest, with the digests of the files  *)
(* as they are on disk.                                                     *)
WriteManifest(p) ==
  LET dir == pending[PendingOf(p)] IN
  /\ pc[p] = "entries"
  /\ \/ /\ dir.identity # None /\ dir.receipt # None
        /\ pending' = [pending EXCEPT ![PendingOf(p)].manifest =
                         [digest |-> held[p], identity |-> dir.identity,
                          receipt |-> dir.receipt]]
        /\ pc' = [pc EXCEPT ![p] = "verify"]
        /\ UNCHANGED mine
     \/ /\ dir.identity = None \/ dir.receipt = None
        /\ pending' = [pending EXCEPT ![PendingOf(p)] = EmptyDir]
        /\ Ends(p)
  /\ UNCHANGED <<base, bundle, store, listed, told, faults>>

(* run_kernel_replay verifies the record; one that fails is removed.        *)
VerifyRecord(p) ==
  /\ pc[p] = "verify"
  /\ \/ /\ VerifiesRecord(pending[PendingOf(p)])
        /\ pc' = [pc EXCEPT ![p] = "commit"]
        /\ UNCHANGED <<pending, mine>>
     \/ /\ ~VerifiesRecord(pending[PendingOf(p)])
        /\ pending' = [pending EXCEPT ![PendingOf(p)] = EmptyDir]
        /\ Ends(p)
  /\ UNCHANGED <<base, bundle, store, listed, told, faults>>

(* commit_content_addressed verifies it again; a directory that is gone is  *)
(* not committed.                                                           *)
CommitVerify(p) ==
  /\ pc[p] = "commit"
  /\ \/ /\ VerifiesRecord(pending[PendingOf(p)])
        /\ pc' = [pc EXCEPT ![p] = "exists"]
        /\ UNCHANGED <<mine, answers>>
     \/ /\ ~VerifiesRecord(pending[PendingOf(p)])
        /\ AnswersAnyway(p)
  /\ UNCHANGED <<base, disk, verified, faults>>

(* Mutant of CheckRecords: the index is updated before the record is there. *)
CheckRecordsListsFirst(p) ==
  LET dir == pending[PendingOf(p)] IN
  /\ Goto(p, "exists", "list")
  /\ dir.manifest # None
  /\ dir.manifest.digest \notin DOMAIN store
  /\ listed' = listed \cup {dir.manifest.digest}
  /\ key' = [key EXCEPT ![p] = dir.manifest.digest]
  /\ UNCHANGED <<base, bundle, pending, store, got, held, left, tmp, seen, told, faults>>

(* commit_content_addressed: the digest comes from the manifest on disk; an *)
(* identical record that is stored goes on to the index, a different one is *)
(* a ContentAddressCollision.                                               *)
CheckRecords(p) ==
  LET dir      == pending[PendingOf(p)]
      d        == dir.manifest.digest
      IsStored == d \in DOMAIN store
  IN
  /\ pc[p] = "exists"
  /\ \/ /\ dir.manifest # None
        /\ IsStored => store[d] = dir
        /\ key' = [key EXCEPT ![p] = d]
        /\ pc' = [pc EXCEPT ![p] = IF IsStored THEN "index" ELSE "list"]
        /\ UNCHANGED <<got, held, left, tmp, seen, answers>>
     \/ /\ dir.manifest # None => IsStored /\ store[d] # dir
        /\ AnswersAnyway(p)
  /\ UNCHANGED <<base, disk, verified, faults>>

(* shutil.copytree lists the directory; if it is gone, it raises.           *)
ListPending(p) ==
  LET dir == pending[PendingOf(p)] IN
  /\ pc[p] = "list"
  /\ \/ /\ Exists(dir)
        /\ left' = [left EXCEPT ![p] = {f \in RecordFiles : dir[f] # None}]
        /\ pc' = [pc EXCEPT ![p] = "copy"]
        /\ UNCHANGED <<got, held, key, tmp, seen, answers>>
     \/ /\ ~Exists(dir)
        /\ AnswersAnyway(p)
  /\ UNCHANGED <<base, disk, verified, faults>>

(* Mutant of CopyFile: the files are copied straight to the store path.     *)
CopyFileInPlace(p) ==
  LET dir == pending[PendingOf(p)] IN
  /\ pc[p] = "copy"
  /\ \E f \in left[p] :
       /\ store' = Put(key[p], [tmp[p] EXCEPT ![f] = dir[f]])
       /\ tmp' = [tmp EXCEPT ![p][f] = dir[f]]
       /\ left' = [left EXCEPT ![p] = @ \ {f}]
  /\ UNCHANGED <<base, bundle, pending, listed, pc, got, held, key, seen, told, faults>>

(* shutil.copytree copies one of them; if it is gone, it raises in the end. *)
CopyFile(p) ==
  LET dir == pending[PendingOf(p)] IN
  /\ pc[p] = "copy"
  /\ \E f \in left[p] :
       \/ /\ dir[f] # None
          /\ tmp' = [tmp EXCEPT ![p][f] = dir[f]]
          /\ left' = [left EXCEPT ![p] = @ \ {f}]
          /\ UNCHANGED <<pc, got, held, key, seen, answers>>
       \/ /\ dir[f] = None
          /\ AnswersAnyway(p)
  /\ UNCHANGED <<base, disk, verified, faults>>

(* os.replace of the copy, which raises when the record is there.           *)
Publish(p) ==
  /\ pc[p] = "copy"
  /\ left[p] = {}
  /\ \/ /\ key[p] \notin DOMAIN store
        /\ store' = Put(key[p], tmp[p])
        /\ tmp' = [tmp EXCEPT ![p] = EmptyDir]
        /\ pc' = [pc EXCEPT ![p] = "index"]
        /\ UNCHANGED <<got, held, key, left, seen, answers>>
     \/ /\ key[p] \in DOMAIN store
        /\ AnswersAnyway(p)
        /\ UNCHANGED store
  /\ UNCHANGED <<base, bundle, pending, listed, verified, faults>>

(* _append_certification_index: read ...                                    *)
ReadIndex(p) ==
  /\ Goto(p, "index", "append")
  /\ seen' = [seen EXCEPT ![p] = listed]
  /\ UNCHANGED <<base, disk, got, held, key, left, tmp, told, faults>>

(* ... and replaced, and the answer names the stored record.                *)
WriteIndex(p) ==
  /\ pc[p] = "append"
  /\ listed' = seen[p] \cup {key[p]}
  /\ answers' = answers \cup {key[p]}
  /\ Ends(p)
  /\ UNCHANGED <<base, bundle, pending, store, verified, faults>>

Replaying   == {"certificate", "manifest", "lean", "digest", "clear"}
Writing     == {"identity", "receipt", "entries", "verify"}
Committing  == {"commit", "exists", "list", "copy", "index", "append"}

(* An I/O error: while the record is written its directory is removed and   *)
(* the replay rejected, while it is committed the error is dropped.         *)
IOError(p) ==
  /\ faults < MaxFaults
  /\ faults' = faults + 1
  /\ \/ /\ pc[p] \in Replaying
        /\ Ends(p)
        /\ UNCHANGED <<pending, answers>>
     \/ /\ pc[p] \in Writing
        /\ pending' = [pending EXCEPT ![PendingOf(p)] = EmptyDir]
        /\ Ends(p)
        /\ UNCHANGED answers
     \/ /\ pc[p] \in Committing
        /\ AnswersAnyway(p)
        /\ UNCHANGED pending
  /\ UNCHANGED <<base, bundle, store, listed, verified>>

(* The replayer's process dies: its files stay where they are.              *)
Die(p) ==
  /\ faults < MaxFaults
  /\ faults' = faults + 1
  /\ pc[p] # "idle"
  /\ Ends(p)
  /\ UNCHANGED <<base, disk, told>>

(* Mutant of VerifyCertificationRecord: a coherent record is trusted about  *)
(* what was checked, without a replay of its candidate.                     *)
VerifyTrusting(d) ==
  LET dir == store[d] IN
  /\ VerifiesRecord(dir)
  /\ dir.receipt = dir.manifest.digest
  /\ dir.receipt.checked = dir.identity.checked
  /\ dir.receipt.identity = dir.identity
  /\ dir.receipt.candidate = dir.identity.candidate
  /\ dir.receipt.content = dir.receipt.candidate
  /\ verified' = verified \cup {d}
  /\ UNCHANGED <<base, disk, pc, mine, answers, faults>>

(* A stored record verifies: the record is complete and coherent, its       *)
(* certificate is that of the stored candidate, and a fresh replay of the   *)
(* candidate is accepted with the proof digest that the record has.         *)
VerifyCertificationRecord(d) ==
  LET dir == store[d] IN
  /\ VerifiesRecord(dir)
  /\ dir.receipt = dir.manifest.digest
  /\ dir.receipt.checked = dir.identity.checked
  /\ dir.receipt.identity = dir.identity
  /\ dir.receipt.candidate = dir.identity.candidate
  /\ dir.receipt.content = dir.receipt.candidate
  /\ dir.receipt.candidate \in Sound
  /\ dir.identity.checked = dir.receipt.candidate
  /\ verified' = verified \cup {d}
  /\ UNCHANGED <<base, disk, pc, mine, answers, faults>>

Step(p) ==
  \/ VerifyBundle(p) \/ LoadCertificate(p) \/ LoadManifest(p) \/ Compile(p)
  \/ DigestCertificate(p) \/ ClearPending(p) \/ WriteIdentity(p)
  \/ WriteReceipt(p) \/ WriteManifest(p) \/ VerifyRecord(p)
  \/ CommitVerify(p) \/ CheckRecords(p) \/ ListPending(p) \/ CopyFile(p)
  \/ Publish(p) \/ ReadIndex(p) \/ WriteIndex(p)
  \/ IOError(p) \/ Die(p)

Next ==
  \/ \E c \in Rewrites : RewriteCertificate(c)
  \/ RewriteManifest
  \/ \E p \in Replayers : Step(p)
  \/ \E d \in DOMAIN store : VerifyCertificationRecord(d)

Spec == Init /\ [][Next]_vars

-----------------------------------------------------------------------------
Maybe(S) == S \cup {None}

StoredRecords == DOMAIN store

(* Every variable stays within the values the code can give it.             *)
TypeOK ==
  /\ base \in [Replayers -> Bases]
  /\ bundle \in [certificate : Candidates, manifest : Candidates]
  /\ pending \in [Declarations -> RecordDirectory]
  /\ StoredRecords \subseteq RecordDigest
  /\ store \in [StoredRecords -> RecordDirectory]
  /\ listed \subseteq RecordDigest
  /\ pc \in [Replayers -> {"idle"} \cup Replaying \cup Writing \cup Committing]
  /\ got \in [Replayers -> [candidate : Maybe(Candidates),
                            checked : Maybe(Candidates),
                            content : Maybe(Candidates)]]
  /\ held \in [Replayers -> Maybe(RecordDigest)]
  /\ key \in [Replayers -> Maybe(RecordDigest)]
  /\ left \in [Replayers -> SUBSET RecordFiles]
  /\ tmp \in [Replayers -> RecordDirectory]
  /\ seen \in [Replayers -> SUBSET RecordDigest]
  /\ answers \subseteq RecordDigest
  /\ verified \subseteq RecordDigest
  /\ faults \in 0..MaxFaults

RecordOf(d) ==    \* the directory whose certification digest is d
  [identity |-> d.identity, receipt |-> d,
   manifest |-> [digest |-> d, identity |-> d.identity, receipt |-> d]]

(* No two replays ask for the same declaration name, so that each has       *)
(* pending directories of its own.                                          *)
DistinctNames == \A p, q \in Replayers : p # q => base[p] # base[q]

(* What a certification id names is what is stored under it: no record of   *)
(* a replay with pending directories of its own is stored in part, or put   *)
(* together from two, though replays fail and die and leave their pending   *)
(* directories behind (bundle_store.py: "Content addressing keys by bundle  *)
(* digest").                                                                *)
RecordsMatchDigest ==
  DistinctNames => \A d \in StoredRecords : store[d] = RecordOf(d)

(* Where replays do share a pending directory a stored record may be put    *)
(* together from two, and where the bundle is rewritten it may be about a   *)
(* certificate that its candidate does not have (ExactBinding).  But all of *)
(* it, each file and what the digest was taken of, is about one and the     *)
(* same declaration of one candidate, and each certificate it says was      *)
(* checked is one that Lean has accepted.  So is what an answer names.      *)
OnlyAcceptedIsRecorded ==
  LET About(r, d) == r.name = d.name /\ r.candidate = d.candidate /\ r.checked \in Sound
  IN /\ \A d \in StoredRecords \cup answers : About(d, d) /\ About(d.identity, d)
     /\ \A d \in StoredRecords :
          \A r \in {store[d].identity, store[d].receipt} \ {None} : About(r, d)

(* A certification is listed only when its record is stored: for no error,  *)
(* death or rival commit does the index of _append_certification_index name *)
(* a record that the store does not have.                                   *)
ListedAreStored == listed \subseteq StoredRecords

(* An id that verify_certification_record finds verified names a record of  *)
(* a candidate that Lean accepts, issued on a check of that candidate's     *)
(* own certificate: also when the directory was rewritten during the replay *)
(* and the record that was issued says otherwise.  It needs replays with    *)
(* pending directories of their own: the record that is found is not        *)
(* compared with the id that was asked for.                                 *)
VerifiedIsExact ==
  DistinctNames =>
    \A d \in verified :
      d.candidate \in Sound /\ d.checked = d.candidate /\ d.content = d.candidate

(* A record is stored only if the exact candidate that it names was checked *)
(* and accepted (docs/adr/0005-exact-candidate-binding.md).  A rewrite of   *)
(* the bundle during a replay breaks it.                                    *)
ExactBinding ==
  \A d \in StoredRecords : d.checked = d.candidate /\ d.candidate \in Sound

=============================================================================
