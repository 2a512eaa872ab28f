----------------------------- MODULE BundleStore -----------------------------
(***************************************************************************)
(* The compute_evidence handlers of the Agent API and the content-          *)
(* addressed bundle store they commit to.                                   *)
(*                                                                          *)
(* The server (agent/api/server.py) runs every request in a thread of its   *)
(* own, and the store (agent/api/bundle_store.py) takes no lock: the        *)
(* handlers meet only in the file system.  Each action below is one         *)
(* file-system effect of a handler; between two of them any other handler   *)
(* may run, the handler may hit an I/O error, or the server may crash.      *)
(*                                                                          *)
(* What is abstracted: the bytes of a file are the request or the evidence  *)
(* they were written from, so equal bytes are equal values; a digest is the *)
(* manifest binding payload it is the hash of (no collisions of SHA-256);   *)
(* temporary directories carry random names, so each belongs to its thread. *)
(* Requests refused before anything is written (schema, backend, registry,  *)
(* adapter errors) change no state and are left out.                        *)
(***************************************************************************)
EXTENDS Naturals, Sequences, FiniteSets

CONSTANTS
  Threads,      \* request handlers of the server
  Requests,     \* mathematical requests (their requestDigest)
  Evidence,     \* what one adapter computation returns for a request
  RequestOf,    \* the request each evidence answers
  OpaqueDirs,   \* agent/store/bundles/<id>, or a legacy path: writable by name
  Roles,        \* the role files of a Candidate Bundle, in the order written
  Calls,        \* Calls[t]: the [target, evidence] calls clients make of t
  None          \* no such file, or no value

ASSUME RolesAssumption ==
  /\ Roles \in Seq(STRING)
  /\ Len(Roles) >= 1
  /\ \A i \in 1..Len(Roles) : Roles[i] # "manifest"
  /\ {"request", "certificate"} \subseteq {Roles[i] : i \in 1..Len(Roles)}

ASSUME EvidenceAssumption == RequestOf \in [Evidence -> Requests]

RoleSet == {Roles[i] : i \in 1..Len(Roles)}
Files   == RoleSet \cup {"manifest"}

(***************************************************************************)
(* Bytes of the role file written for evidence e: request.cjson depends     *)
(* only on the request, the other role files on the evidence.               *)
(***************************************************************************)
RoleBytes(role, e) == IF role = "request" THEN RequestOf[e] ELSE e

(***************************************************************************)
(* manifest_binding_payload: the request digest held by the handler and the *)
(* digests of the role files found on disk.  bundleDigest is its hash, so   *)
(* the payload stands for the digest.                                       *)
(***************************************************************************)
Digest ==
  [request : Requests,
   files : {g \in [RoleSet -> Requests \cup Evidence] :
              \A role \in RoleSet :
                g[role] \in {RoleBytes(role, e) : e \in Evidence}}]

DigestOf(e) ==
  [request |-> RequestOf[e], files |-> [role \in RoleSet |-> RoleBytes(role, e)]]

FileBytes(f) ==
  IF f = "manifest" THEN Digest ELSE {RoleBytes(f, e) : e \in Evidence}

Directory ==    \* role files and manifest, each of them possibly not there
  {dir \in [Files -> Requests \cup Evidence \cup Digest \cup {None}] :
     \A f \in Files : dir[f] \in FileBytes(f) \cup {None}}

Locations == OpaqueDirs \cup Digest     \* where a bundle directory can be

ASSUME LocationsAssumption ==
  /\ OpaqueDirs \cap Digest = {}
  /\ None \notin Requests \cup Evidence \cup Digest

Call == [target : Locations, evidence : Evidence]

ASSUME CallsAssumption == Calls \in [Threads -> SUBSET Call]

VARIABLES
  fs,       \* fs[l][f]: bytes of file f of the bundle directory at l
  index,    \* index[r]: bundle digests listed under request r
  pc,       \* next step of each handler
  call,     \* the call a handler serves
  pos,      \* position in Roles of the next role file to write
  held,     \* the manifest (digest) a handler holds in memory
  left,     \* files still to be copied to the handler's temporary directory
  tmp,      \* the handler's temporary directory
  seen,     \* the request index as the handler read it
  acked     \* [evidence, digest] of the answers that named a stored bundle

fsVars  == <<fs, index>>
vars    == <<fs, index, pc, call, pos, held, left, tmp, seen, acked>>

EmptyDir    == [f \in Files |-> None]
Exists(dir) == \E f \in Files : dir[f] # None

Content(d) ==   \* the directory whose bundleDigest is d
  [f \in Files |-> IF f = "manifest" THEN d ELSE d.files[f]]

(***************************************************************************)
(* verify_bundle_offline(dir, strict): the manifest is there, every listed  *)
(* file has the listed digest, and request, certificate and manifest agree  *)
(* on the request digest.                                                   *)
(***************************************************************************)
Verifies(dir) ==
  /\ dir["manifest"] \in Digest
  /\ \A role \in RoleSet : dir[role] = dir["manifest"].files[role]
  /\ dir["request"] = dir["manifest"].request
  /\ RequestOf[dir["certificate"]] = dir["request"]

Init ==
  /\ fs = [l \in Locations |-> EmptyDir]
  /\ index = [r \in Requests |-> {}]
  /\ pc = [t \in Threads |-> "idle"]
  /\ call = [t \in Threads |-> None]
  /\ pos = [t \in Threads |-> 1]
  /\ held = [t \in Threads |-> None]
  /\ left = [t \in Threads |-> {}]
  /\ tmp = [t \in Threads |-> EmptyDir]
  /\ seen = [t \in Threads |-> {}]
  /\ acked = {}

Goto(t, from, to) ==
  /\ pc[t] = from
  /\ pc' = [pc EXCEPT ![t] = to]

(***************************************************************************)
(* The handler is over: what it held in memory is gone, and so is its       *)
(* temporary directory (renamed, or removed by the except clause).          *)
(***************************************************************************)
Ends(t) ==
  /\ pc' = [pc EXCEPT ![t] = "idle"]
  /\ call' = [call EXCEPT ![t] = None]
  /\ pos' = [pos EXCEPT ![t] = 1]
  /\ held' = [held EXCEPT ![t] = None]
  /\ left' = [left EXCEPT ![t] = {}]
  /\ tmp' = [tmp EXCEPT ![t] = EmptyDir]
  /\ seen' = [seen EXCEPT ![t] = {}]

-----------------------------------------------------------------------------
(***************************************************************************)
(* op_compute_evidence: the write target is resolved and the adapter has    *)
(* computed c.evidence.                                                     *)
(***************************************************************************)
ComputeEvidence(t, c) ==
  /\ c \in Calls[t]
  /\ Goto(t, "idle", "write")
  /\ call' = [call EXCEPT ![t] = c]
  /\ pos' = [pos EXCEPT ![t] = 1]
  /\ UNCHANGED <<fsVars, held, left, tmp, seen, acked>>

(* Mutant of WriteRole: the loop runs past the last role.                   *)
WriteRolePastEnd(t) ==
  /\ pc[t] = "write"
  /\ fs' = [fs EXCEPT ![call[t].target][Roles[pos[t]]] =
                        RoleBytes(Roles[pos[t]], call[t].evidence)]
  /\ IF pos[t] > Len(Roles)
       THEN pc' = [pc EXCEPT ![t] = "manifest"] /\ UNCHANGED pos
       ELSE pos' = [pos EXCEPT ![t] = @ + 1] /\ UNCHANGED pc
  /\ UNCHANGED <<index, call, held, left, tmp, seen, acked>>

(* write_candidate_bundle, one role file: written in place in the target.   *)
WriteRole(t) ==
  LET role == Roles[pos[t]] IN
  /\ pc[t] = "write"
  /\ fs' = [fs EXCEPT ![call[t].target][role] =
                        RoleBytes(role, call[t].evidence)]
  /\ IF pos[t] = Len(Roles)
       THEN pc' = [pc EXCEPT ![t] = "manifest"] /\ UNCHANGED pos
       ELSE pos' = [pos EXCEPT ![t] = @ + 1] /\ UNCHANGED pc
  /\ UNCHANGED <<index, call, held, left, tmp, seen, acked>>

(* Mutant of WriteManifest: the handler keeps the manifest that the         *)
(* directory had from an earlier call.                                      *)
WriteManifestStale(t) ==
  LET dir == fs[call[t].target]
      m   == [request |-> RequestOf[call[t].evidence],
              files |-> [role \in RoleSet |-> dir[role]]]
  IN
  /\ Goto(t, "manifest", "verify")
  /\ fs' = [fs EXCEPT ![call[t].target]["manifest"] = m]
  /\ held' = [held EXCEPT ![t] =
                IF dir["manifest"] = None THEN m ELSE dir["manifest"]]
  /\ UNCHANGED <<index, call, pos, left, tmp, seen, acked>>

(* write_candidate_bundle, the manifest: file_digest reads the role files   *)
(* back from disk; requestDigest comes from the request in memory.          *)
WriteManifest(t) ==
  LET dir == fs[call[t].target]
      m   == [request |-> RequestOf[call[t].evidence],
              files |-> [role \in RoleSet |-> dir[role]]]
  IN
  /\ Goto(t, "manifest", "verify")
  /\ fs' = [fs EXCEPT ![call[t].target]["manifest"] = m]
  /\ held' = [held EXCEPT ![t] = m]
  /\ UNCHANGED <<index, call, pos, left, tmp, seen, acked>>

(* commit_content_addressed, verify: a bundle that does not verify raises.  *)
VerifySource(t) ==
  /\ pc[t] = "verify"
  /\ IF Verifies(fs[call[t].target])
       THEN /\ pc' = [pc EXCEPT ![t] = "exists"]
            /\ UNCHANGED <<call, pos, held, left, tmp, seen>>
       ELSE Ends(t)
  /\ UNCHANGED <<fsVars, acked>>

(* Mutant of CheckStore: an identical entry is answered without the index.  *)
CheckStoreUnlisted(t) ==
  LET entry == fs[held[t]] IN
  /\ pc[t] = "exists"
  /\ \/ /\ ~Exists(entry)
        /\ pc' = [pc EXCEPT ![t] = "copy"]
        /\ left' = [left EXCEPT ![t] = Files]
        /\ UNCHANGED <<call, pos, held, tmp, seen, acked>>
     \/ /\ Exists(entry)
        /\ acked' = acked \cup {[evidence |-> call[t].evidence, digest |-> held[t]]}
        /\ Ends(t)
  /\ UNCHANGED fsVars

(* Mutant of CheckStore: the index is updated before the entry is there.    *)
CheckStoreListsFirst(t) ==
  /\ pc[t] = "exists"
  /\ ~Exists(fs[held[t]])
  /\ index' = [index EXCEPT ![held[t].request] = @ \cup {held[t]}]
  /\ pc' = [pc EXCEPT ![t] = "copy"]
  /\ left' = [left EXCEPT ![t] = Files]
  /\ UNCHANGED <<fs, call, pos, held, tmp, seen, acked>>

(* commit_content_addressed: if store_path.exists().  An identical entry    *)
(* goes on to the index, a different one is a ContentAddressCollision.      *)
CheckStore(t) ==
  LET entry == fs[held[t]] IN
  /\ pc[t] = "exists"
  /\ \/ /\ ~Exists(entry)
        /\ pc' = [pc EXCEPT ![t] = "copy"]
        /\ left' = [left EXCEPT ![t] = Files]
        /\ UNCHANGED <<call, pos, held, tmp, seen>>
     \/ /\ Exists(entry)
        /\ entry = fs[call[t].target]
        /\ pc' = [pc EXCEPT ![t] = "index"]
        /\ UNCHANGED <<call, pos, held, left, tmp, seen>>
     \/ /\ Exists(entry)
        /\ entry # fs[call[t].target]
        /\ Ends(t)
  /\ UNCHANGED <<fsVars, acked>>

(* Mutant of CopyFile: the files are copied straight to the store path.     *)
CopyFileInPlace(t) ==
  /\ pc[t] = "copy"
  /\ \E f \in left[t] :
       /\ fs' = [fs EXCEPT ![held[t]][f] = fs[call[t].target][f]]
       /\ left' = [left EXCEPT ![t] = @ \ {f}]
  /\ UNCHANGED <<index, tmp, pc, call, pos, held, seen, acked>>

(* shutil.copytree, one file, in the order the directory lists them.        *)
CopyFile(t) ==
  /\ pc[t] = "copy"
  /\ \E f \in left[t] :
       /\ tmp' = [tmp EXCEPT ![t][f] = fs[call[t].target][f]]
       /\ left' = [left EXCEPT ![t] = @ \ {f}]
  /\ UNCHANGED <<fsVars, pc, call, pos, held, seen, acked>>

(* os.replace(tmp, store_path): it replaces nothing but an empty directory; *)
(* on a directory with files it raises, and the copy is removed.            *)
Publish(t) ==
  /\ pc[t] = "copy"
  /\ left[t] = {}
  /\ IF Exists(fs[held[t]])
       THEN /\ Ends(t)
            /\ UNCHANGED fs
       ELSE /\ fs' = [fs EXCEPT ![held[t]] = tmp[t]]
            /\ tmp' = [tmp EXCEPT ![t] = EmptyDir]
            /\ pc' = [pc EXCEPT ![t] = "index"]
            /\ UNCHANGED <<call, pos, held, left, seen>>
  /\ UNCHANGED <<index, acked>>

(* _append_request_index: read_request_index.                               *)
ReadIndex(t) ==
  /\ Goto(t, "index", "append")
  /\ seen' = [seen EXCEPT ![t] = index[held[t].request]]
  /\ UNCHANGED <<fsVars, call, pos, held, left, tmp, acked>>

(* _append_request_index: atomic_write_text of what was read and the digest.*)
(* The handler then answers with the opaque id of the stored bundle.        *)
WriteIndex(t) ==
  /\ pc[t] = "append"
  /\ index' = [index EXCEPT ![held[t].request] = seen[t] \cup {held[t]}]
  /\ acked' = acked \cup {[evidence |-> call[t].evidence, digest |-> held[t]]}
  /\ Ends(t)
  /\ UNCHANGED fs

(* An OSError at any step (disk full, permissions): the handler ends where  *)
(* it is and answers 400; what it wrote so far stays.                       *)
IOError(t) ==
  /\ pc[t] # "idle"
  /\ Ends(t)
  /\ UNCHANGED <<fsVars, acked>>

(* The server process dies: all handlers with it, the file system remains.  *)
Crash ==
  /\ \E t \in Threads : pc[t] # "idle"
  /\ pc' = [t \in Threads |-> "idle"]
  /\ call' = [t \in Threads |-> None]
  /\ pos' = [t \in Threads |-> 1]
  /\ held' = [t \in Threads |-> None]
  /\ left' = [t \in Threads |-> {}]
  /\ tmp' = [t \in Threads |-> EmptyDir]
  /\ seen' = [t \in Threads |-> {}]
  /\ UNCHANGED <<fsVars, acked>>

Step(t) ==
  \/ \E c \in Calls[t] : ComputeEvidence(t, c)
  \/ WriteRole(t) \/ WriteManifest(t) \/ VerifySource(t) \/ CheckStore(t)
  \/ CopyFile(t) \/ Publish(t) \/ ReadIndex(t) \/ WriteIndex(t)
  \/ IOError(t)

Next == Crash \/ \E t \in Threads : Step(t)

Spec == Init /\ [][Next]_vars

-----------------------------------------------------------------------------
Steps    == {"idle", "write", "manifest", "verify", "exists", "copy", "index",
             "append"}

(* Every variable stays within the values the code can give it.             *)
TypeOK ==
  /\ fs \in [Locations -> Directory]
  /\ index \in [Requests -> SUBSET Digest]
  /\ pc \in [Threads -> Steps]
  /\ call \in [Threads -> Call \cup {None}]
  /\ pos \in [Threads -> 1..Len(Roles)]
  /\ held \in [Threads -> Digest \cup {None}]
  /\ left \in [Threads -> SUBSET Files]
  /\ tmp \in [Threads -> Directory]
  /\ seen \in [Threads -> SUBSET Digest]
  /\ acked \in SUBSET [evidence : Evidence, digest : Digest]

StoredDigests == {d \in Digest : Exists(fs[d])}

(* What a content-addressed id names is what is stored under it: an entry   *)
(* is never visible half copied, never holds a mixture of two handlers'     *)
(* files, and never holds another bundle than the one its digest is of      *)
(* (bundle_store.py: "Content addressing keys by bundle digest").           *)
EntriesMatchDigest ==
  \A d \in StoredDigests : fs[d] = Content(d)

(* An entry that exists is never changed or removed, whatever handlers run, *)
(* fail or crash (PROJECT_SPEC.md 8.8: "an immutable, content-addressed     *)
(* artifact").                                                              *)
EntriesImmutable ==
  [][\A d \in Digest : Exists(fs[d]) => fs'[d] = fs[d]]_fs

(* The bundle an answer of compute_evidence names is stored, and is the     *)
(* evidence which that very call computed, though other handlers compute    *)
(* for the same request at the same time.                                   *)
AnswersNameOwnEvidence ==
  \A a \in acked : a.digest = DigestOf(a.evidence) /\ a.digest \in StoredDigests

(* A digest listed under a request is stored and belongs to the request:    *)
(* the rename comes before the index update, so that a crash between them   *)
(* leaves a bundle unlisted, never a listing without a bundle.              *)
IndexListsStored ==
  \A r \in Requests : \A d \in index[r] : d \in StoredDigests /\ d.request = r

(* A request is contended when two threads may be asked for its evidence.   *)
Contended(r) ==
  \E t, u \in Threads :
    /\ t # u
    /\ \E c \in Calls[t] : RequestOf[c.evidence] = r
    /\ \E c \in Calls[u] : RequestOf[c.evidence] = r

(* Once an answer has named a bundle, the request index lists it, also when *)
(* the entry was published by a handler that crashed before its index       *)
(* update and the call was made again; for requests of one thread.          *)
AnswersListed ==
  \A a \in acked : ~Contended(a.digest.request) => a.digest \in index[a.digest.request]

(* The concurrent store implements the atomic one.                          *)
Atomic == INSTANCE AtomicStore WITH
  Digests   <- Digest,
  Keys      <- Requests,
  KeyOf     <- [d \in Digest |-> d.request],
  ContentOf <- [d \in Digest |-> Content(d)],
  Nothing   <- EmptyDir,
  entries   <- [d \in Digest |-> fs[d]],
  listed    <- index,
  named     <- {a.digest : a \in acked}

(* Every behaviour of the handlers is one of the atomic store: writes to    *)
(* source directories, copying and reading the index are not visible, the   *)
(* rename puts the entry and the index update answers.                      *)
ImplementsAtomicStore == Atomic!ASpec

=============================================================================
