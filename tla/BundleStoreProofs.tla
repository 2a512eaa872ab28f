-------------------------- MODULE BundleStoreProofs --------------------------
(***************************************************************************)
(* Theorems about BundleStore for every set of threads, requests, evidence, *)
(* directories and calls, checked by TLAPS.                                 *)
(***************************************************************************)
EXTENDS BundleStore, TLAPS

After == {"verify", "exists", "copy", "index", "append"}

(***************************************************************************)
(* What a handler relies on at each step, whatever the others do: its call, *)
(* the digest it holds, and that files written once are never gone.         *)
(***************************************************************************)
HandlerAt(t) ==
  /\ pc[t] # "idle" => call[t] \in Calls[t]
  /\ pc[t] \in After => held[t] \in Digest
  /\ pc[t] = "write" =>
       \A i \in 1..(pos[t] - 1) : fs[call[t].target][Roles[i]] # None
  /\ pc[t] \in After \cup {"manifest"} =>
       \A role \in RoleSet : fs[call[t].target][role] # None

HandlerInv == \A t \in Threads : HandlerAt(t)

TypeInv == TypeOK /\ HandlerInv

-----------------------------------------------------------------------------
(* The names and bytes the actions put together are of the right kind.      *)
LEMMA RolesAreFiles ==
  /\ \A i \in 1..Len(Roles) : Roles[i] \in RoleSet
  /\ RoleSet \subseteq Files
  /\ "manifest" \in Files
  /\ "manifest" \notin RoleSet
  /\ "request" \in RoleSet
  /\ "certificate" \in RoleSet
  /\ Len(Roles) \in Nat /\ Len(Roles) >= 1
BY RolesAssumption DEF RoleSet, Files

(* A file that was written is there: None is none of the bytes.             *)
LEMMA NoneIsNoByte ==
  /\ None \notin Digest
  /\ \A f \in Files : None \notin FileBytes(f)
  /\ \A role \in RoleSet, e \in Evidence :
       /\ RoleBytes(role, e) \in FileBytes(role)
       /\ RoleBytes(role, e) \in Requests \cup Evidence
       /\ RoleBytes(role, e) # None
<1>1. \A role, e : e \in Evidence => RoleBytes(role, e) \in Requests \cup Evidence
  BY EvidenceAssumption DEF RoleBytes
<1>2. \A role \in RoleSet, e \in Evidence : RoleBytes(role, e) \in FileBytes(role)
  BY RolesAreFiles DEF FileBytes
<1> QED
  BY <1>1, <1>2, LocationsAssumption DEF FileBytes

(* A directory without files is a directory.                                *)
LEMMA EmptyDirIsDirectory == EmptyDir \in Directory
BY DEF EmptyDir, Directory

(* Writing one file of a directory changes that file only.                  *)
LEMMA WriteFile ==
  ASSUME NEW dir \in Directory, NEW f \in Files, NEW b \in FileBytes(f) \cup {None}
  PROVE  /\ [dir EXCEPT ![f] = b] \in Directory
         /\ [dir EXCEPT ![f] = b][f] = b
         /\ \A g \in Files \ {f} : [dir EXCEPT ![f] = b][g] = dir[g]
<1>1. b \in Requests \cup Evidence \cup Digest \cup {None}
  BY EvidenceAssumption DEF FileBytes, RoleBytes
<1> QED
  BY <1>1 DEF Directory

(* The digests of role files that are all there make a manifest.            *)
LEMMA ManifestIsDigest ==
  ASSUME NEW dir \in Directory, NEW r \in Requests,
         \A role \in RoleSet : dir[role] # None
  PROVE  [request |-> r, files |-> [role \in RoleSet |-> dir[role]]] \in Digest
<1>1. \A role \in RoleSet : dir[role] \in {RoleBytes(role, e) : e \in Evidence}
  BY RolesAreFiles DEF Directory, FileBytes
<1>2. \A role \in RoleSet : dir[role] \in Requests \cup Evidence
  BY <1>1, EvidenceAssumption DEF RoleBytes
<1> QED
  BY <1>1, <1>2 DEF Digest

(* The parts of a client's call.                                            *)
LEMMA CallTyped ==
  ASSUME NEW t \in Threads, NEW c \in Calls[t]
  PROVE  /\ c \in Call
         /\ c.target \in Locations
         /\ c.evidence \in Evidence
         /\ RequestOf[c.evidence] \in Requests
BY CallsAssumption, EvidenceAssumption DEF Call

(* The step puts bytes b in file f of the directory at l, and nothing else. *)
FilePut(l, f, b) ==
  /\ l \in Locations /\ f \in Files /\ b \in FileBytes(f) /\ b # None
  /\ fs' \in [Locations -> Directory]
  /\ fs'[l][f] = b
  /\ \A k \in Locations, g \in Files :
       (k # l \/ g # f) => fs'[k][g] = fs[k][g]

(* Writing one file in one directory, as the actions state it.              *)
LEMMA FsExcept ==
  ASSUME TypeOK, NEW l \in Locations, NEW f \in Files, NEW b \in FileBytes(f),
         fs' = [fs EXCEPT ![l][f] = b]
  PROVE  FilePut(l, f, b)
<1>1. fs[l] \in Directory
  BY DEF TypeOK
<1> DEFINE dir == [fs[l] EXCEPT ![f] = b]
<1>2. /\ dir \in Directory
      /\ dir[f] = b
      /\ \A g \in Files \ {f} : dir[g] = fs[l][g]
  BY <1>1, WriteFile
<1>3. fs' = [fs EXCEPT ![l] = dir]
  OBVIOUS
<1> HIDE DEF dir
<1>4. /\ fs' \in [Locations -> Directory]
      /\ fs'[l] = dir
      /\ \A k \in Locations \ {l} : fs'[k] = fs[k]
  BY <1>2, <1>3 DEF TypeOK
<1>5. b # None
  BY NoneIsNoByte
<1> QED
  BY <1>2, <1>4, <1>5 DEF FilePut

(* The role file step: which file, and where.                               *)
LEMMA WriteRoleFacts ==
  ASSUME TypeInv, NEW t \in Threads, WriteRole(t)
  PROVE  /\ Roles[pos[t]] \in RoleSet
         /\ FilePut(call[t].target, Roles[pos[t]],
                    RoleBytes(Roles[pos[t]], call[t].evidence))
<1> DEFINE l    == call[t].target
           role == Roles[pos[t]]
           b    == RoleBytes(role, call[t].evidence)
<1>1. /\ call[t] \in Calls[t]
      /\ pos[t] \in 1..Len(Roles)
  BY DEF WriteRole, TypeInv, TypeOK, HandlerInv, HandlerAt
<1>2. /\ l \in Locations
      /\ role \in RoleSet
      /\ role \in Files
      /\ b \in FileBytes(role)
  BY <1>1, CallTyped, RolesAreFiles, NoneIsNoByte
<1>3. fs' = [fs EXCEPT ![l][role] = b]
  BY DEF WriteRole
<1> HIDE DEF l, role, b
<1>4. FilePut(l, role, b)
  BY <1>2, <1>3, FsExcept DEF TypeInv
<1> QED
  BY <1>2, <1>4 DEF l, role, b

(* ... and the manifest step: the digests it reads back are all there.      *)
LEMMA WriteManifestFacts ==
  ASSUME TypeInv, NEW t \in Threads, WriteManifest(t)
  PROVE  /\ held'[t] = [request |-> RequestOf[call[t].evidence],
                        files |-> [role \in RoleSet |-> fs[call[t].target][role]]]
         /\ held'[t] \in Digest
         /\ FilePut(call[t].target, "manifest", held'[t])
<1> DEFINE l == call[t].target
           m == [request |-> RequestOf[call[t].evidence],
                 files |-> [role \in RoleSet |-> fs[l][role]]]
<1>1. /\ call[t] \in Calls[t]
      /\ \A role \in RoleSet : fs[l][role] # None
  BY DEF WriteManifest, Goto, TypeInv, HandlerInv, HandlerAt, After
<1>2. /\ l \in Locations
      /\ fs[l] \in Directory
      /\ RequestOf[call[t].evidence] \in Requests
  BY <1>1, CallTyped DEF TypeInv, TypeOK
<1>3. m \in Digest
  BY <1>1, <1>2, ManifestIsDigest
<1>4. m \in FileBytes("manifest")
  BY <1>3 DEF FileBytes
<1>5. /\ fs' = [fs EXCEPT ![l]["manifest"] = m]
      /\ held'[t] = m
  BY DEF WriteManifest, TypeInv, TypeOK
<1>6. "manifest" \in Files
  BY RolesAreFiles
<1> HIDE DEF l, m
<1>7. FilePut(l, "manifest", m)
  BY <1>2, <1>4, <1>5, <1>6, FsExcept DEF TypeInv
<1> QED
  BY <1>3, <1>5, <1>7 DEF l, m

(* A file that is there is never gone: the rename replaces nothing but a    *)
(* directory without files.                                                 *)
LEMMA FilesStay ==
  ASSUME TypeInv, [Next]_vars
  PROVE  \A l \in Locations, f \in Files : fs[l][f] # None => fs'[l][f] # None
<1> SUFFICES ASSUME NEW l \in Locations, NEW f \in Files, fs[l][f] # None
             PROVE  fs'[l][f] # None
  OBVIOUS
<1>1. CASE UNCHANGED fs
  BY <1>1
<1>2. ASSUME NEW t \in Threads, WriteRole(t)
      PROVE  fs'[l][f] # None
  BY <1>2, WriteRoleFacts DEF FilePut
<1>3. ASSUME NEW t \in Threads, WriteManifest(t)
      PROVE  fs'[l][f] # None
  BY <1>3, WriteManifestFacts DEF FilePut
<1>4. ASSUME NEW t \in Threads, Publish(t), ~Exists(fs[held[t]])
      PROVE  fs'[l][f] # None
  <2>1. l # held[t]
    BY <1>4 DEF Exists
  <2> QED
    BY <1>4, <2>1 DEF Publish, TypeInv, TypeOK
<1> QED
  BY <1>1, <1>2, <1>3, <1>4
  DEF Next, Step, vars, fsVars, Crash, ComputeEvidence, VerifySource, CheckStore,
      CopyFile, Publish, ReadIndex, WriteIndex, IOError

(* A handler that ends, or dies with the server, holds nothing.             *)
LEMMA EndsTyped ==
  ASSUME TypeInv, NEW t \in Threads, Ends(t), UNCHANGED <<fs, index>>,
         acked' \in SUBSET [evidence : Evidence, digest : Digest]
  PROVE  TypeInv'
<1>1. TypeOK'
  BY EmptyDirIsDirectory, RolesAreFiles DEF TypeInv, TypeOK, Ends, Steps
<1>2. HandlerInv'
  BY DEF TypeInv, TypeOK, HandlerInv, HandlerAt, Ends, After
<1> QED
  BY <1>1, <1>2 DEF TypeInv

(* A handler that does not move keeps what it relies on.                    *)
LEMMA OtherHandler ==
  ASSUME TypeInv, [Next]_vars, NEW u \in Threads,
         pc'[u] = pc[u], call'[u] = call[u], pos'[u] = pos[u], held'[u] = held[u]
  PROVE  HandlerAt(u)'
<1>1. \A l \in Locations, f \in Files : fs[l][f] # None => fs'[l][f] # None
  BY FilesStay
<1>2. HandlerAt(u)
  BY DEF TypeInv, HandlerInv
<1>3. pc[u] # "idle" => call[u].target \in Locations
  BY <1>2, CallTyped DEF HandlerAt
<1>4. \A i \in 1..(pos[u] - 1) : Roles[i] \in Files
  <2>1. pos[u] \in 1..Len(Roles)
    BY DEF TypeInv, TypeOK
  <2> QED
    BY <2>1, RolesAreFiles
<1>5. pc[u] = "write" =>
        \A i \in 1..(pos[u] - 1) : fs'[call[u].target][Roles[i]] # None
  BY <1>1, <1>2, <1>3, <1>4 DEF HandlerAt
<1>6. pc[u] \in After \cup {"manifest"} =>
        \A role \in RoleSet : fs'[call[u].target][role] # None
  BY <1>1, <1>2, <1>3, RolesAreFiles DEF HandlerAt, After
<1> QED
  BY <1>2, <1>5, <1>6 DEF HandlerAt

(* Each step preserves the types and what every handler relies on.          *)
LEMMA TypeInvStep == TypeInv /\ [Next]_vars => TypeInv'
<1> SUFFICES ASSUME TypeInv, [Next]_vars
             PROVE  TypeInv'
  OBVIOUS
<1> USE DEF After
<1>0. CASE UNCHANGED vars
  BY <1>0 DEF vars, TypeInv, TypeOK, HandlerInv, HandlerAt
<1>1. ASSUME NEW t \in Threads, NEW c \in Calls[t], ComputeEvidence(t, c)
      PROVE  TypeInv'
  <2>0. c \in Call
    BY CallTyped
  <2>1. TypeOK'
    BY <1>1, <2>0, RolesAreFiles
    DEF ComputeEvidence, Goto, fsVars, TypeInv, TypeOK, Steps
  <2>2. HandlerInv'
    BY <1>1 DEF ComputeEvidence, Goto, fsVars, TypeInv, TypeOK, HandlerInv, HandlerAt
  <2> QED
    BY <2>1, <2>2 DEF TypeInv
<1>2. ASSUME NEW t \in Threads, WriteRole(t)
      PROVE  TypeInv'
  <2> DEFINE role == Roles[pos[t]]
             b    == RoleBytes(role, call[t].evidence)
  <2>1. FilePut(call[t].target, role, b)
    BY <1>2, WriteRoleFacts
  <2>2. /\ pc[t] = "write"
        /\ pos[t] \in 1..Len(Roles)
        /\ UNCHANGED <<index, call, held, left, tmp, seen, acked>>
    BY <1>2 DEF WriteRole, TypeInv, TypeOK
  <2>3. \A i \in 1..pos[t] : fs'[call[t].target][Roles[i]] # None
    <3> SUFFICES ASSUME NEW i \in 1..pos[t]
                 PROVE  fs'[call[t].target][Roles[i]] # None
      OBVIOUS
    <3>1. Roles[i] \in Files
      BY <2>2, RolesAreFiles
    <3>2. i # pos[t] => fs[call[t].target][Roles[i]] # None
      <4>1. HandlerAt(t)
        BY DEF TypeInv, HandlerInv
      <4>2. i # pos[t] => i \in 1..(pos[t] - 1)
        BY <2>2
      <4> QED
        BY <2>2, <4>1, <4>2 DEF HandlerAt
    <3> QED
      BY <2>1, <3>1, <3>2 DEF FilePut
  <2>4. HandlerAt(t) /\ call'[t] \in Calls[t]
    BY <2>2 DEF TypeInv, HandlerInv, HandlerAt
  <2>5. CASE pos[t] = Len(Roles)
    <3>1. pc' = [pc EXCEPT ![t] = "manifest"] /\ pos' = pos
      BY <1>2, <2>5 DEF WriteRole
    <3>2. TypeOK'
      BY <2>1, <2>2, <3>1 DEF FilePut, TypeInv, TypeOK, Steps
    <3>3. \A r \in RoleSet : fs'[call'[t].target][r] # None
      BY <2>2, <2>3, <2>5 DEF RoleSet
    <3>4. pc'[t] = "manifest"
      BY <3>1 DEF TypeInv, TypeOK
    <3>5. HandlerAt(t)'
      BY <2>4, <3>3, <3>4 DEF HandlerAt
    <3>6. \A u \in Threads \ {t} : HandlerAt(u)'
      BY <2>2, <3>1, OtherHandler DEF TypeInv, TypeOK
    <3> QED
      BY <3>2, <3>5, <3>6 DEF TypeInv, HandlerInv
  <2>6. CASE pos[t] # Len(Roles)
    <3>1. pos' = [pos EXCEPT ![t] = pos[t] + 1] /\ pc' = pc
      BY <1>2, <2>6 DEF WriteRole
    <3>2. pos[t] + 1 \in 1..Len(Roles) /\ (pos[t] + 1) - 1 = pos[t]
      BY <2>2, <2>6, RolesAreFiles
    <3>3. TypeOK'
      BY <2>1, <2>2, <3>1, <3>2 DEF FilePut, TypeInv, TypeOK
    <3>4. pc'[t] = "write" /\ pos'[t] - 1 = pos[t]
      BY <2>2, <3>1, <3>2 DEF TypeInv, TypeOK
    <3>5. HandlerAt(t)'
      BY <2>2, <2>3, <2>4, <3>4 DEF HandlerAt
    <3>6. \A u \in Threads \ {t} : HandlerAt(u)'
      BY <2>2, <3>1, OtherHandler DEF TypeInv, TypeOK
    <3> QED
      BY <3>3, <3>5, <3>6 DEF TypeInv, HandlerInv
  <2> QED
    BY <2>5, <2>6
<1>3. ASSUME NEW t \in Threads, WriteManifest(t)
      PROVE  TypeInv'
  <2>1. /\ held'[t] \in Digest
        /\ FilePut(call[t].target, "manifest", held'[t])
    BY <1>3, WriteManifestFacts
  <2>2. /\ pc[t] = "manifest"
        /\ pc' = [pc EXCEPT ![t] = "verify"]
        /\ UNCHANGED <<index, call, pos, left, tmp, seen, acked>>
        /\ held' = [held EXCEPT ![t] = held'[t]]
    BY <1>3 DEF WriteManifest, Goto, TypeInv, TypeOK
  <2>3. TypeOK'
    BY <2>1, <2>2 DEF FilePut, TypeInv, TypeOK, Steps
  <2>4. HandlerAt(t)
    BY DEF TypeInv, HandlerInv
  <2>5. \A role \in RoleSet : fs'[call'[t].target][role] # None
    BY <2>1, <2>2, <2>4, RolesAreFiles DEF FilePut, HandlerAt
  <2>6. pc'[t] = "verify"
    BY <2>2 DEF TypeInv, TypeOK
  <2>7. HandlerAt(t)'
    BY <2>1, <2>2, <2>4, <2>5, <2>6 DEF HandlerAt
  <2>8. \A u \in Threads \ {t} : HandlerAt(u)'
    <3> SUFFICES ASSUME NEW u \in Threads, u # t
                 PROVE  HandlerAt(u)'
      OBVIOUS
    <3>1. held'[u] = held[u] /\ pc'[u] = pc[u]
      BY <2>2 DEF TypeInv, TypeOK
    <3> QED
      BY <2>2, <3>1, OtherHandler
  <2> QED
    BY <2>3, <2>7, <2>8 DEF TypeInv, HandlerInv
<1>4. ASSUME NEW t \in Threads, VerifySource(t)
      PROVE  TypeInv'
  <2>1. CASE Verifies(fs[call[t].target])
    BY <1>4, <2>1 DEF VerifySource, fsVars, TypeInv, TypeOK, Steps, HandlerInv, HandlerAt
  <2>2. CASE ~Verifies(fs[call[t].target])
    BY <1>4, <2>2, EndsTyped DEF VerifySource, fsVars, TypeInv, TypeOK
  <2> QED
    BY <2>1, <2>2
<1>5. ASSUME NEW t \in Threads, CheckStore(t)
      PROVE  TypeInv'
  <2>1. CASE Ends(t)
    BY <1>5, <2>1, EndsTyped DEF CheckStore, fsVars, TypeInv, TypeOK
  <2>2. CASE ~Ends(t)
    <3>1. /\ pc[t] = "exists"
          /\ \/ pc' = [pc EXCEPT ![t] = "copy"] /\ left' = [left EXCEPT ![t] = Files]
             \/ pc' = [pc EXCEPT ![t] = "index"] /\ left' = left
          /\ UNCHANGED <<fs, index, call, pos, held, tmp, seen, acked>>
      BY <1>5, <2>2 DEF CheckStore, fsVars
    <3>2. TypeOK'
      BY <3>1 DEF TypeInv, TypeOK, Steps
    <3>3. HandlerInv'
      BY <3>1 DEF TypeInv, TypeOK, HandlerInv, HandlerAt
    <3> QED
      BY <3>2, <3>3 DEF TypeInv
  <2> QED
    BY <2>1, <2>2
<1>6. ASSUME NEW t \in Threads, CopyFile(t)
      PROVE  TypeInv'
  <2>1. PICK f \in left[t] :
          /\ tmp' = [tmp EXCEPT ![t][f] = fs[call[t].target][f]]
          /\ left' = [left EXCEPT ![t] = @ \ {f}]
    BY <1>6 DEF CopyFile
  <2>2. /\ pc[t] = "copy"
        /\ UNCHANGED <<fs, index, pc, call, pos, held, seen, acked>>
    BY <1>6 DEF CopyFile, fsVars
  <2> DEFINE l == call[t].target
  <2>3. l \in Locations
    BY <2>2, CallTyped DEF TypeInv, HandlerInv, HandlerAt
  <2>4. /\ f \in Files
        /\ fs[l] \in Directory
        /\ fs[l][f] \in FileBytes(f) \cup {None}
        /\ tmp[t] \in Directory
    BY <2>3 DEF TypeInv, TypeOK, Directory
  <2>5. [tmp[t] EXCEPT ![f] = fs[l][f]] \in Directory
    BY <2>4, WriteFile
  <2>6. tmp' = [tmp EXCEPT ![t] = [tmp[t] EXCEPT ![f] = fs[l][f]]]
    BY <2>1
  <2> HIDE DEF l
  <2>7. tmp' \in [Threads -> Directory]
    BY <2>5, <2>6 DEF TypeInv, TypeOK
  <2>8. left' \in [Threads -> SUBSET Files]
    BY <2>1 DEF TypeInv, TypeOK
  <2>9. TypeOK'
    BY <2>2, <2>7, <2>8 DEF TypeInv, TypeOK
  <2>10. HandlerInv'
    BY <2>2 DEF TypeInv, HandlerInv, HandlerAt
  <2> QED
    BY <2>9, <2>10 DEF TypeInv
<1>7. ASSUME NEW t \in Threads, Publish(t)
      PROVE  TypeInv'
  <2>1. CASE Exists(fs[held[t]])
    BY <1>7, <2>1, EndsTyped DEF Publish, TypeInv, TypeOK
  <2>2. CASE ~Exists(fs[held[t]])
    <3>1. /\ pc[t] = "copy"
          /\ fs' = [fs EXCEPT ![held[t]] = tmp[t]]
          /\ tmp' = [tmp EXCEPT ![t] = EmptyDir]
          /\ pc' = [pc EXCEPT ![t] = "index"]
          /\ UNCHANGED <<call, pos, held, left, seen, index, acked>>
      BY <1>7, <2>2 DEF Publish
    <3>2. TypeOK'
      BY <3>1, EmptyDirIsDirectory DEF TypeInv, TypeOK, Steps
    <3>3. HandlerAt(t)
      BY DEF TypeInv, HandlerInv
    <3>4. \A l \in Locations, f \in Files : fs[l][f] # None => fs'[l][f] # None
      BY FilesStay
    <3>5. \A role \in RoleSet : fs'[call[t].target][role] # None
      BY <3>1, <3>3, <3>4, CallTyped, RolesAreFiles DEF HandlerAt
    <3>6. pc'[t] = "index"
      BY <3>1 DEF TypeInv, TypeOK
    <3>7. HandlerAt(t)'
      BY <3>1, <3>3, <3>5, <3>6 DEF HandlerAt
    <3>8. \A u \in Threads \ {t} : HandlerAt(u)'
      BY <3>1, OtherHandler DEF TypeInv, TypeOK
    <3> QED
      BY <3>2, <3>7, <3>8 DEF TypeInv, HandlerInv
  <2> QED
    BY <2>1, <2>2
<1>8. ASSUME NEW t \in Threads, ReadIndex(t)
      PROVE  TypeInv'
  <2>1. held[t].request \in Requests
    BY <1>8 DEF ReadIndex, Goto, TypeInv, HandlerInv, HandlerAt, Digest
  <2>2. TypeOK'
    BY <1>8, <2>1 DEF ReadIndex, Goto, fsVars, TypeInv, TypeOK, Steps
  <2>3. HandlerInv'
    BY <1>8 DEF ReadIndex, Goto, fsVars, TypeInv, TypeOK, HandlerInv, HandlerAt
  <2> QED
    BY <2>2, <2>3 DEF TypeInv
<1>9. ASSUME NEW t \in Threads, WriteIndex(t)
      PROVE  TypeInv'
  <2>1. /\ held[t] \in Digest
        /\ held[t].request \in Requests
        /\ call[t].evidence \in Evidence
    BY <1>9, CallTyped DEF WriteIndex, TypeInv, HandlerInv, HandlerAt, Digest
  <2>2. /\ pc' \in [Threads -> Steps]
        /\ call' \in [Threads -> Call \cup {None}]
        /\ pos' \in [Threads -> 1..Len(Roles)]
        /\ held' \in [Threads -> Digest \cup {None}]
        /\ left' \in [Threads -> SUBSET Files]
        /\ tmp' \in [Threads -> Directory]
        /\ seen' \in [Threads -> SUBSET Digest]
    BY <1>9, EmptyDirIsDirectory, RolesAreFiles
    DEF WriteIndex, Ends, TypeInv, TypeOK, Steps
  <2>3. index' \in [Requests -> SUBSET Digest]
    BY <1>9, <2>1 DEF WriteIndex, TypeInv, TypeOK
  <2>4. acked' \in SUBSET [evidence : Evidence, digest : Digest]
    BY <1>9, <2>1 DEF WriteIndex, TypeInv, TypeOK
  <2>5. fs' \in [Locations -> Directory]
    BY <1>9 DEF WriteIndex, TypeInv, TypeOK
  <2>6. HandlerInv'
    BY <1>9 DEF WriteIndex, Ends, TypeInv, TypeOK, HandlerInv, HandlerAt
  <2> QED
    BY <2>2, <2>3, <2>4, <2>5, <2>6 DEF TypeInv, TypeOK
<1>10. ASSUME NEW t \in Threads, IOError(t)
       PROVE  TypeInv'
  BY <1>10, EndsTyped DEF IOError, fsVars, TypeInv, TypeOK
<1>11. CASE Crash
  <2>1. TypeOK'
    BY <1>11, EmptyDirIsDirectory, RolesAreFiles
    DEF Crash, fsVars, TypeInv, TypeOK, Steps
  <2>2. HandlerInv'
    BY <1>11 DEF Crash, HandlerInv, HandlerAt
  <2> QED
    BY <2>1, <2>2 DEF TypeInv
<1> QED
  BY <1>0, <1>1, <1>2, <1>3, <1>4, <1>5, <1>6, <1>7, <1>8, <1>9, <1>10, <1>11
  DEF Next, Step

(* The types and the reliances hold when the server starts ...              *)
LEMMA TypeInvInit == Init => TypeInv
<1> SUFFICES ASSUME Init PROVE TypeInv
  OBVIOUS
<1>1. TypeOK
  BY EmptyDirIsDirectory, RolesAreFiles DEF Init, TypeOK, Steps
<1>2. HandlerInv
  BY DEF Init, HandlerInv, HandlerAt, After
<1> QED
  BY <1>1, <1>2 DEF TypeInv

(* ... and so they hold in every state.                                     *)
LEMMA TypeInvAlways == Spec => []TypeInv
BY TypeInvInit, TypeInvStep, PTL DEF Spec

(***************************************************************************)
(* Every variable keeps its type: above all, what a handler reads back from *)
(* its target directory for the manifest is there, and is a digest, however *)
(* the handlers interleave, fail and crash.                                 *)
(***************************************************************************)
THEOREM TypeCorrect == Spec => []TypeOK
<1>1. TypeInv => TypeOK
  BY DEF TypeInv
<1> QED
  BY <1>1, TypeInvAlways, PTL

-----------------------------------------------------------------------------
(***************************************************************************)
(* The request index.  What follows holds whatever calls the clients make,  *)
(* also when handlers share directories.                                    *)
(***************************************************************************)
(***************************************************************************)
(* What makes the listing of a handler's digest right when it comes to it.  *)
(***************************************************************************)
ListableAt(t) ==
  /\ pc[t] \in After => fs[call[t].target]["manifest"] # None
  /\ pc[t] = "copy" => \A f \in Files \ left[t] : tmp[t][f] # None
  /\ pc[t] \in {"index", "append"} => Exists(fs[held[t]])
  /\ pc[t] = "append" =>
       \A d \in seen[t] : d \in StoredDigests /\ d.request = held[t].request

AnswersStored == \A a \in acked : a.digest \in StoredDigests

IndexInv ==
  /\ TypeInv
  /\ \A t \in Threads : ListableAt(t)
  /\ IndexListsStored
  /\ AnswersStored

-----------------------------------------------------------------------------
(* What is stored stays stored.                                             *)
LEMMA StoredStay ==
  ASSUME TypeInv, [Next]_vars
  PROVE  \A d \in Digest : Exists(fs[d]) => Exists(fs'[d])
<1>1. \A l \in Locations, f \in Files : fs[l][f] # None => fs'[l][f] # None
  BY FilesStay
<1> QED
  BY <1>1 DEF Exists, Locations

(* What a handler relies on, with the kinds of what it names.               *)
LEMMA HandlerHas ==
  ASSUME TypeInv, NEW t \in Threads
  PROVE  /\ pc[t] # "idle" => call[t].target \in Locations
         /\ pc[t] \in After => held[t] \in Digest /\ held[t].request \in Requests
         /\ pc[t] \in After \cup {"manifest"} =>
              \A role \in RoleSet : fs[call[t].target][role] # None
<1>1. HandlerAt(t)
  BY DEF TypeInv, HandlerInv
<1> QED
  BY <1>1, CallTyped DEF HandlerAt, Digest

(* The part of the invariant that a step which neither lists nor answers    *)
(* keeps.                                                                   *)
LEMMA ListingStays ==
  ASSUME TypeInv, [Next]_vars, IndexListsStored, AnswersStored,
         UNCHANGED <<index, acked>>
  PROVE  IndexListsStored' /\ AnswersStored'
BY StoredStay DEF IndexListsStored, AnswersStored, StoredDigests, TypeInv, TypeOK

(* A handler that does not move keeps what it needs for its listing.        *)
LEMMA OtherListable ==
  ASSUME IndexInv, [Next]_vars, NEW u \in Threads,
         pc'[u] = pc[u], call'[u] = call[u], held'[u] = held[u],
         left'[u] = left[u], tmp'[u] = tmp[u], seen'[u] = seen[u]
  PROVE  ListableAt(u)'
<1>1. ListableAt(u) /\ TypeInv
  BY DEF IndexInv
<1>2. /\ \A d \in Digest : Exists(fs[d]) => Exists(fs'[d])
      /\ \A l \in Locations, f \in Files : fs[l][f] # None => fs'[l][f] # None
  BY <1>1, StoredStay, FilesStay
<1>3. pc[u] \in After => fs'[call[u].target]["manifest"] # None
  BY <1>1, <1>2, HandlerHas, RolesAreFiles DEF ListableAt, After
<1>4. pc[u] \in {"index", "append"} => Exists(fs'[held[u]])
  BY <1>1, <1>2, HandlerHas DEF ListableAt, After
<1>5. pc[u] = "append" =>
        \A d \in seen[u] : d \in StoredDigests' /\ d.request = held[u].request
  BY <1>1, <1>2 DEF ListableAt, StoredDigests
<1> QED
  BY <1>1, <1>3, <1>4, <1>5 DEF ListableAt

(* Each step preserves that what is or will be listed is stored.            *)
LEMMA IndexInvStep == IndexInv /\ [Next]_vars => IndexInv'
<1> SUFFICES ASSUME IndexInv, [Next]_vars
             PROVE  IndexInv'
  OBVIOUS
<1>1. TypeInv /\ TypeInv'
  BY TypeInvStep DEF IndexInv
<1>2. \A t \in Threads : ListableAt(t)
  BY DEF IndexInv
<1>3. \A u \in Threads : pc'[u] = "idle" => ListableAt(u)'
  BY DEF ListableAt, After
<1>4. IndexListsStored /\ AnswersStored
  BY DEF IndexInv
<1>5. UNCHANGED <<index, acked>> => IndexListsStored' /\ AnswersStored'
  BY <1>1, <1>4, ListingStays
<1>6. \A t \in Threads : Ends(t) =>
        /\ pc'[t] = "idle"
        /\ \A u \in Threads \ {t} : ListableAt(u)'
  BY <1>1, OtherListable DEF Ends, TypeInv, TypeOK
<1>7. \A t \in Threads : Ends(t) => \A u \in Threads : ListableAt(u)'
  BY <1>3, <1>6
<1>10. CASE UNCHANGED vars
  BY <1>1, <1>5, <1>10, OtherListable DEF vars, IndexInv
<1>11. ASSUME NEW t \in Threads, NEW c \in Calls[t], ComputeEvidence(t, c)
       PROVE  IndexInv'
  <2>1. ListableAt(t)'
    BY <1>1, <1>11 DEF ComputeEvidence, Goto, ListableAt, After, TypeInv, TypeOK
  <2>2. \A u \in Threads \ {t} : ListableAt(u)'
    BY <1>1, <1>11, OtherListable DEF ComputeEvidence, Goto, fsVars, TypeInv, TypeOK
  <2> QED
    BY <1>1, <1>5, <1>11, <2>1, <2>2 DEF ComputeEvidence, fsVars, IndexInv
<1>12. ASSUME NEW t \in Threads, WriteRole(t)
       PROVE  IndexInv'
  <2>1. ListableAt(t)'
    BY <1>1, <1>12 DEF WriteRole, ListableAt, After, TypeInv, TypeOK
  <2>2. \A u \in Threads \ {t} : ListableAt(u)'
    BY <1>1, <1>12, OtherListable DEF WriteRole, TypeInv, TypeOK
  <2> QED
    BY <1>1, <1>5, <1>12, <2>1, <2>2 DEF WriteRole, IndexInv
<1>13. ASSUME NEW t \in Threads, WriteManifest(t)
       PROVE  IndexInv'
  <2>1. fs'[call[t].target]["manifest"] # None
    BY <1>1, <1>13, WriteManifestFacts DEF FilePut
  <2>2. ListableAt(t)'
    BY <1>1, <1>13, <2>1 DEF WriteManifest, Goto, ListableAt, After, TypeInv, TypeOK
  <2>3. \A u \in Threads \ {t} : ListableAt(u)'
    BY <1>1, <1>13, OtherListable DEF WriteManifest, Goto, TypeInv, TypeOK
  <2> QED
    BY <1>1, <1>5, <1>13, <2>2, <2>3 DEF WriteManifest, IndexInv
<1>14. ASSUME NEW t \in Threads, VerifySource(t)
       PROVE  IndexInv'
  <2>1. CASE Ends(t)
    BY <1>1, <1>5, <1>7, <1>14, <2>1 DEF VerifySource, fsVars, IndexInv
  <2>2. CASE ~Ends(t)
    <3>1. ListableAt(t)'
      BY <1>1, <1>2, <1>14, <2>2
      DEF VerifySource, fsVars, ListableAt, After, TypeInv, TypeOK
    <3>2. \A u \in Threads \ {t} : ListableAt(u)'
      BY <1>1, <1>14, <2>2, OtherListable DEF VerifySource, TypeInv, TypeOK
    <3> QED
      BY <1>1, <1>5, <1>14, <3>1, <3>2 DEF VerifySource, fsVars, IndexInv
  <2> QED
    BY <2>1, <2>2
<1>15. ASSUME NEW t \in Threads, CheckStore(t)
       PROVE  IndexInv'
  <2>1. CASE Ends(t)
    BY <1>1, <1>5, <1>7, <1>15, <2>1 DEF CheckStore, fsVars, IndexInv
  <2>2. CASE ~Ends(t)
    <3>1. /\ pc[t] = "exists"
          /\ \/ pc' = [pc EXCEPT ![t] = "copy"] /\ left' = [left EXCEPT ![t] = Files]
             \/ /\ pc' = [pc EXCEPT ![t] = "index"] /\ left' = left
                /\ Exists(fs[held[t]])
          /\ UNCHANGED <<fs, index, call, pos, held, tmp, seen, acked>>
      BY <1>15, <2>2 DEF CheckStore, fsVars
    <3>2. ListableAt(t)'
      BY <1>1, <1>2, <3>1 DEF ListableAt, After, TypeInv, TypeOK
    <3>3. \A u \in Threads \ {t} : ListableAt(u)'
      BY <1>1, <3>1, OtherListable DEF TypeInv, TypeOK
    <3> QED
      BY <1>1, <1>5, <3>1, <3>2, <3>3 DEF IndexInv
  <2> QED
    BY <2>1, <2>2
<1>16. ASSUME NEW t \in Threads, CopyFile(t)
       PROVE  IndexInv'
  <2>1. PICK f \in left[t] :
          /\ tmp' = [tmp EXCEPT ![t][f] = fs[call[t].target][f]]
          /\ left' = [left EXCEPT ![t] = @ \ {f}]
    BY <1>16 DEF CopyFile
  <2>2. /\ pc[t] = "copy"
        /\ UNCHANGED <<fs, index, pc, call, pos, held, seen, acked>>
    BY <1>16 DEF CopyFile, fsVars
  <2>3. f \in Files
    BY DEF IndexInv, TypeInv, TypeOK
  <2>4. fs[call[t].target][f] # None
    BY <1>1, <1>2, <2>2, <2>3, HandlerHas DEF ListableAt, After, Files
  <2>5. \A g \in Files \ left'[t] : tmp'[t][g] # None
    BY <1>1, <1>2, <2>1, <2>2, <2>3, <2>4
    DEF ListableAt, TypeInv, TypeOK, Directory
  <2>6. ListableAt(t)'
    BY <1>2, <2>2, <2>5 DEF ListableAt, After
  <2>7. \A u \in Threads \ {t} : ListableAt(u)'
    BY <1>1, <2>1, <2>2, OtherListable DEF TypeInv, TypeOK
  <2> QED
    BY <1>1, <1>5, <2>2, <2>6, <2>7 DEF IndexInv
<1>17. ASSUME NEW t \in Threads, Publish(t)
       PROVE  IndexInv'
  <2>1. CASE Exists(fs[held[t]])
    BY <1>1, <1>5, <1>7, <1>17, <2>1 DEF Publish, IndexInv
  <2>2. CASE ~Exists(fs[held[t]])
    <3>1. /\ pc[t] = "copy" /\ left[t] = {}
          /\ fs' = [fs EXCEPT ![held[t]] = tmp[t]]
          /\ tmp' = [tmp EXCEPT ![t] = EmptyDir]
          /\ pc' = [pc EXCEPT ![t] = "index"]
          /\ UNCHANGED <<call, pos, held, left, seen, index, acked>>
      BY <1>17, <2>2 DEF Publish
    <3>2. held[t] \in Locations
      BY <1>1, <3>1, HandlerHas DEF After, Locations
    <3>3. fs'[held[t]] = tmp[t]
      BY <1>1, <3>1, <3>2 DEF TypeInv, TypeOK
    <3>4. Exists(fs'[held[t]])
      BY <1>2, <3>1, <3>3, RolesAreFiles DEF ListableAt, Exists
    <3>5. fs'[call[t].target]["manifest"] # None
      BY <1>1, <1>2, <3>1, FilesStay, HandlerHas, RolesAreFiles
      DEF ListableAt, After
    <3>6. ListableAt(t)'
      BY <1>1, <3>1, <3>4, <3>5 DEF ListableAt, TypeInv, TypeOK
    <3>7. \A u \in Threads \ {t} : ListableAt(u)'
      BY <1>1, <3>1, OtherListable DEF TypeInv, TypeOK
    <3> QED
      BY <1>1, <1>5, <3>1, <3>6, <3>7 DEF IndexInv
  <2> QED
    BY <2>1, <2>2
<1>18. ASSUME NEW t \in Threads, ReadIndex(t)
       PROVE  IndexInv'
  <2>1. /\ pc[t] = "index"
        /\ pc' = [pc EXCEPT ![t] = "append"]
        /\ seen' = [seen EXCEPT ![t] = index[held[t].request]]
        /\ UNCHANGED <<fs, index, call, pos, held, left, tmp, acked>>
    BY <1>18 DEF ReadIndex, Goto, fsVars
  <2>2. held[t].request \in Requests
    BY <1>1, <2>1, HandlerHas DEF After
  <2>3. \A d \in index[held[t].request] :
          d \in StoredDigests /\ d.request = held[t].request
    BY <1>4, <2>2 DEF IndexListsStored
  <2>4. seen'[t] = index[held[t].request]
    BY <1>1, <2>1 DEF TypeInv, TypeOK
  <2>5. ListableAt(t)'
    BY <1>1, <1>2, <2>1, <2>3, <2>4
    DEF ListableAt, After, StoredDigests, TypeInv, TypeOK
  <2>6. \A u \in Threads \ {t} : ListableAt(u)'
    BY <1>1, <2>1, OtherListable DEF TypeInv, TypeOK
  <2> QED
    BY <1>1, <1>5, <2>1, <2>5, <2>6 DEF IndexInv
<1>19. ASSUME NEW t \in Threads, WriteIndex(t)
       PROVE  IndexInv'
  <2>1. /\ pc[t] = "append"
        /\ index' = [index EXCEPT ![held[t].request] = seen[t] \cup {held[t]}]
        /\ acked' = acked \cup {[evidence |-> call[t].evidence, digest |-> held[t]]}
        /\ Ends(t) /\ UNCHANGED fs
    BY <1>19 DEF WriteIndex
  <2>2. /\ held[t] \in StoredDigests
        /\ \A d \in seen[t] : d \in StoredDigests /\ d.request = held[t].request
    BY <1>1, <1>2, <2>1, HandlerHas DEF ListableAt, After, StoredDigests
  <2>3. StoredDigests' = StoredDigests
    BY <2>1 DEF StoredDigests
  <2>4. IndexListsStored'
    BY <1>1, <1>4, <2>1, <2>2, <2>3 DEF IndexListsStored, TypeInv, TypeOK
  <2>5. AnswersStored'
    BY <1>4, <2>1, <2>2, <2>3 DEF AnswersStored
  <2> QED
    BY <1>1, <1>7, <2>1, <2>4, <2>5 DEF IndexInv
<1>20. ASSUME NEW t \in Threads, IOError(t)
       PROVE  IndexInv'
  BY <1>1, <1>5, <1>7, <1>20 DEF IOError, fsVars, IndexInv
<1>21. CASE Crash
  BY <1>1, <1>3, <1>5, <1>21 DEF Crash, fsVars, IndexInv
<1> QED
  BY <1>10, <1>11, <1>12, <1>13, <1>14, <1>15, <1>16, <1>17, <1>18, <1>19,
     <1>20, <1>21
  DEF Next, Step

(* Nothing is listed or answered when the server starts.                    *)
LEMMA IndexInvInit == Init => IndexInv
BY TypeInvInit
DEF Init, IndexInv, ListableAt, After, IndexListsStored, AnswersStored

(***************************************************************************)
(* The request index never lists a bundle that is not stored, or that       *)
(* belongs to another request: for any calls, failures and crashes, although*)
(* no lock guards the read-modify-write of the index.                       *)
(***************************************************************************)
THEOREM IndexSound == Spec => []IndexListsStored
<1>1. IndexInv => IndexListsStored
  BY DEF IndexInv
<1> QED
  BY <1>1, IndexInvInit, IndexInvStep, PTL DEF Spec

-----------------------------------------------------------------------------
(***************************************************************************)
(* Why the index of an uncontended request misses no answer: the handler    *)
(* that lists a digest has read the index as it still is.                   *)
(***************************************************************************)
ReadAt(t) ==
  /\ pc[t] \in After => held[t].request = RequestOf[call[t].evidence]
  /\ (pc[t] = "append" /\ ~Contended(held[t].request)) =>
       index[held[t].request] \subseteq seen[t]

AnswersInv ==
  /\ TypeInv
  /\ \A t \in Threads : ReadAt(t)
  /\ AnswersListed

(* Two handlers never list under one request that is not contended.         *)
LEMMA UncontendedAlone ==
  ASSUME AnswersInv, NEW t \in Threads, NEW u \in Threads, t # u,
         pc[t] \in After, pc[u] \in After, held[t].request = held[u].request
  PROVE  Contended(held[t].request)
<1>1. /\ call[t] \in Calls[t] /\ call[u] \in Calls[u]
      /\ held[t].request = RequestOf[call[t].evidence]
      /\ held[u].request = RequestOf[call[u].evidence]
  BY DEF AnswersInv, ReadAt, TypeInv, HandlerInv, HandlerAt, After
<1> QED
  BY <1>1 DEF Contended

(* Each step preserves that uncontended answers are listed.                 *)
LEMMA AnswersInvStep == AnswersInv /\ [Next]_vars => AnswersInv'
<1> SUFFICES ASSUME AnswersInv, [Next]_vars
             PROVE  AnswersInv'
  OBVIOUS
<1>1. TypeInv /\ TypeInv'
  BY TypeInvStep DEF AnswersInv
<1>2. \A t \in Threads : ReadAt(t)
  BY DEF AnswersInv
<1>3. CASE UNCHANGED vars
  BY <1>1, <1>2, <1>3 DEF vars, AnswersInv, ReadAt, AnswersListed, Contended
<1>4. CASE Crash
  BY <1>1, <1>4
  DEF Crash, fsVars, AnswersInv, ReadAt, After, AnswersListed, Contended
<1>5. ASSUME NEW t \in Threads, UNCHANGED <<index, acked>>,
             \A u \in Threads \ {t} :
               pc'[u] = pc[u] /\ call'[u] = call[u]
               /\ held'[u] = held[u] /\ seen'[u] = seen[u],
             ReadAt(t)'
      PROVE  AnswersInv'
  <2>1. \A u \in Threads \ {t} : ReadAt(u)'
    BY <1>2, <1>5 DEF ReadAt, Contended
  <2>2. AnswersListed'
    BY <1>5 DEF AnswersInv, AnswersListed, Contended
  <2> QED
    BY <1>1, <1>5, <2>1, <2>2 DEF AnswersInv
<1>6. \A t \in Threads : Ends(t) =>
        /\ ReadAt(t)'
        /\ \A u \in Threads \ {t} :
             pc'[u] = pc[u] /\ call'[u] = call[u]
             /\ held'[u] = held[u] /\ seen'[u] = seen[u]
  BY <1>1 DEF Ends, ReadAt, After, TypeInv, TypeOK
<1>7. ASSUME NEW t \in Threads, Ends(t), UNCHANGED <<index, acked>>
      PROVE  AnswersInv'
  BY <1>5, <1>6, <1>7
<1>8. ASSUME NEW t \in Threads, NEW c \in Calls[t], ComputeEvidence(t, c)
      PROVE  AnswersInv'
  <2>1. ReadAt(t)'
    BY <1>1, <1>8 DEF ComputeEvidence, Goto, ReadAt, After, TypeInv, TypeOK
  <2> QED
    BY <1>1, <1>5, <1>8, <2>1 DEF ComputeEvidence, Goto, fsVars, TypeInv, TypeOK
<1>9. ASSUME NEW t \in Threads, WriteRole(t)
      PROVE  AnswersInv'
  <2>1. /\ pc[t] = "write"
        /\ \/ pc' = [pc EXCEPT ![t] = "manifest"]
           \/ pc' = pc
        /\ UNCHANGED <<call, held, seen, index, acked>>
    BY <1>9 DEF WriteRole
  <2>2. ReadAt(t)'
    BY <1>1, <2>1 DEF ReadAt, After, TypeInv, TypeOK
  <2>3. \A u \in Threads \ {t} :
          pc'[u] = pc[u] /\ call'[u] = call[u]
          /\ held'[u] = held[u] /\ seen'[u] = seen[u]
    BY <1>1, <2>1 DEF TypeInv, TypeOK
  <2>4. UNCHANGED <<index, acked>>
    BY <2>1
  <2> QED
    BY <1>5, <2>2, <2>3, <2>4
<1>10. ASSUME NEW t \in Threads, WriteManifest(t)
       PROVE  AnswersInv'
  <2> DEFINE g == [role \in RoleSet |-> fs[call[t].target][role]]
  <2>0. held'[t] = [request |-> RequestOf[call[t].evidence], files |-> g]
    BY <1>1, <1>10, WriteManifestFacts
  <2> HIDE DEF g
  <2>1. held'[t].request = RequestOf[call[t].evidence]
    BY <2>0
  <2>2. ReadAt(t)'
    BY <1>1, <1>10, <2>1 DEF WriteManifest, Goto, ReadAt, After, TypeInv, TypeOK
  <2> QED
    BY <1>1, <1>5, <1>10, <2>2 DEF WriteManifest, Goto, TypeInv, TypeOK
<1>11. ASSUME NEW t \in Threads, VerifySource(t)
       PROVE  AnswersInv'
  <2>1. CASE Ends(t)
    BY <1>7, <1>11, <2>1 DEF VerifySource, fsVars
  <2>2. CASE ~Ends(t)
    <3>1. ReadAt(t)'
      BY <1>1, <1>2, <1>11, <2>2 DEF VerifySource, ReadAt, After, TypeInv, TypeOK
    <3> QED
      BY <1>1, <1>5, <1>11, <2>2, <3>1 DEF VerifySource, fsVars, TypeInv, TypeOK
  <2> QED
    BY <2>1, <2>2
<1>12. ASSUME NEW t \in Threads, CheckStore(t)
       PROVE  AnswersInv'
  <2>1. CASE Ends(t)
    BY <1>7, <1>12, <2>1 DEF CheckStore, fsVars
  <2>2. CASE ~Ends(t)
    <3>1. /\ pc[t] = "exists"
          /\ \/ pc' = [pc EXCEPT ![t] = "copy"]
             \/ pc' = [pc EXCEPT ![t] = "index"]
          /\ UNCHANGED <<fs, index, call, held, seen, acked>>
      BY <1>12, <2>2 DEF CheckStore, fsVars
    <3>2. ReadAt(t)'
      BY <1>1, <1>2, <3>1 DEF ReadAt, After, TypeInv, TypeOK
    <3> QED
      BY <1>1, <1>5, <3>1, <3>2 DEF TypeInv, TypeOK
  <2> QED
    BY <2>1, <2>2
<1>13. ASSUME NEW t \in Threads, CopyFile(t)
       PROVE  AnswersInv'
  <2>1. UNCHANGED <<index, acked, pc, call, held, seen>>
    BY <1>13 DEF CopyFile, fsVars
  <2>2. ReadAt(t)'
    BY <1>2, <2>1 DEF ReadAt, Contended
  <2> QED
    BY <1>5, <2>1, <2>2
<1>14. ASSUME NEW t \in Threads, Publish(t)
       PROVE  AnswersInv'
  <2>1. CASE Exists(fs[held[t]])
    BY <1>7, <1>14, <2>1 DEF Publish
  <2>2. CASE ~Exists(fs[held[t]])
    <3>1. /\ pc[t] = "copy"
          /\ pc' = [pc EXCEPT ![t] = "index"]
          /\ UNCHANGED <<call, held, seen, index, acked>>
      BY <1>14, <2>2 DEF Publish
    <3>2. ReadAt(t)'
      BY <1>1, <1>2, <3>1 DEF ReadAt, After, TypeInv, TypeOK
    <3> QED
      BY <1>1, <1>5, <3>1, <3>2 DEF TypeInv, TypeOK
  <2> QED
    BY <2>1, <2>2
<1>15. ASSUME NEW t \in Threads, ReadIndex(t)
       PROVE  AnswersInv'
  <2>1. /\ pc[t] = "index"
        /\ pc' = [pc EXCEPT ![t] = "append"]
        /\ seen' = [seen EXCEPT ![t] = index[held[t].request]]
        /\ UNCHANGED <<index, call, held, acked>>
    BY <1>15 DEF ReadIndex, Goto, fsVars
  <2>2. seen'[t] = index[held[t].request]
    BY <1>1, <2>1 DEF TypeInv, TypeOK
  <2>3. ReadAt(t)'
    BY <1>2, <2>1, <2>2 DEF ReadAt, After, Contended
  <2> QED
    BY <1>1, <1>5, <2>1, <2>3 DEF TypeInv, TypeOK
<1>16. ASSUME NEW t \in Threads, WriteIndex(t)
       PROVE  AnswersInv'
  <2> DEFINE r == held[t].request
  <2>1. /\ pc[t] = "append"
        /\ index' = [index EXCEPT ![r] = seen[t] \cup {held[t]}]
        /\ acked' = acked \cup {[evidence |-> call[t].evidence, digest |-> held[t]]}
        /\ Ends(t)
    BY <1>16 DEF WriteIndex
  <2>2. held[t] \in Digest /\ r \in Requests
    BY <1>1, <2>1, HandlerHas DEF After
  <2>3. /\ index'[r] = seen[t] \cup {held[t]}
        /\ \A q \in Requests \ {r} : index'[q] = index[q]
    BY <1>1, <2>1, <2>2 DEF TypeInv, TypeOK
  <2>4. ~Contended(r) => index[r] \subseteq seen[t]
    BY <1>2, <2>1 DEF ReadAt
  <2>5. \A a \in acked' : ~Contended(a.digest.request) =>
                            a.digest \in index'[a.digest.request]
    <3> SUFFICES ASSUME NEW a \in acked', ~Contended(a.digest.request)
                 PROVE  a.digest \in index'[a.digest.request]
      OBVIOUS
    <3>1. CASE a \in acked
      <4>1. a.digest.request \in Requests
        BY <1>1, <3>1 DEF TypeInv, TypeOK, Digest
      <4>2. a.digest \in index[a.digest.request]
        BY <3>1 DEF AnswersInv, AnswersListed
      <4> HIDE DEF r
      <4> QED
        BY <2>3, <2>4, <4>1, <4>2
    <3>2. CASE a.digest = held[t]
      BY <2>3, <3>2
    <3> QED
      BY <2>1, <3>1, <3>2
  <2>6. AnswersListed'
    BY <2>5 DEF AnswersListed, Contended
  <2>7. \A u \in Threads \ {t} : ReadAt(u)'
    <3> SUFFICES ASSUME NEW u \in Threads \ {t}
                 PROVE  ReadAt(u)'
      OBVIOUS
    <3>1. /\ pc'[u] = pc[u] /\ call'[u] = call[u]
          /\ held'[u] = held[u] /\ seen'[u] = seen[u]
      BY <1>6, <2>1
    <3>2. (pc[u] = "append" /\ ~Contended(held[u].request)) =>
            held[u].request \in Requests /\ held[u].request # r
      BY <1>1, <2>1, HandlerHas, UncontendedAlone DEF After
    <3>3. (pc[u] = "append" /\ ~Contended(held[u].request)) =>
            index'[held[u].request] \subseteq seen[u]
      BY <1>2, <2>3, <3>2 DEF ReadAt
    <3> QED
      BY <1>2, <3>1, <3>3 DEF ReadAt, Contended
  <2> QED
    BY <1>1, <1>6, <2>1, <2>6, <2>7 DEF AnswersInv
<1>17. ASSUME NEW t \in Threads, IOError(t)
       PROVE  AnswersInv'
  BY <1>7, <1>17 DEF IOError, fsVars
<1> QED
  BY <1>3, <1>4, <1>8, <1>9, <1>10, <1>11, <1>12, <1>13, <1>14, <1>15, <1>16, <1>17
  DEF Next, Step

(* No answer was given when the server starts.                              *)
LEMMA AnswersInvInit == Init => AnswersInv
BY TypeInvInit DEF Init, AnswersInv, ReadAt, After, AnswersListed

(***************************************************************************)
(* An answer's bundle is in the index of its request, and stays there, for  *)
(* every request that one thread at a time is asked for, through failures,  *)
(* crashes and calls made again.                                            *)
(***************************************************************************)
THEOREM AnswersAreListed == Spec => []AnswersListed
<1>1. AnswersInv => AnswersListed
  BY DEF AnswersInv
<1> QED
  BY <1>1, AnswersInvInit, AnswersInvStep, PTL DEF Spec

-----------------------------------------------------------------------------
(* The entries of the store, under the two assumptions on the calls that    *)
(* the code does not enforce and that the runs show to be necessary: no     *)
(* call names a content id as its target, and no two handlers have the same *)
(* target directory.                                                        *)

OpaqueTargets ==
  \A t \in Threads : \A c \in Calls[t] : c.target \in OpaqueDirs

ExclusiveTargets ==
  \A t, u \in Threads :
    t # u => \A c \in Calls[t], e \in Calls[u] : c.target # e.target

(* Where a step writes: the caller's opaque directory, or an entry that is  *)
(* not there.                                                               *)
LEMMA OpaqueIsNoDigest ==
  ASSUME OpaqueTargets, TypeInv, NEW t \in Threads, pc[t] # "idle"
  PROVE  /\ call[t].target \in OpaqueDirs
         /\ call[t].target \in Locations
         /\ call[t].target \notin Digest
<1>1. call[t] \in Calls[t]
  BY DEF TypeInv, HandlerInv, HandlerAt
<1> QED
  BY <1>1, LocationsAssumption DEF OpaqueTargets, Locations

(* Directories with the same files are the same.                            *)
LEMMA DirectoriesEqual ==
  ASSUME NEW a \in Directory, NEW b \in Directory, \A f \in Files : a[f] = b[f]
  PROVE  a = b
BY DEF Directory

(* Writing in one directory leaves every other as it is.                    *)
LEMMA PutElsewhere ==
  ASSUME TypeInv, NEW l \in Locations, NEW f, NEW b, FilePut(l, f, b)
  PROVE  \A k \in Locations : k # l => fs'[k] = fs[k]
<1> SUFFICES ASSUME NEW k \in Locations, k # l
             PROVE  fs'[k] = fs[k]
  OBVIOUS
<1>1. fs[k] \in Directory /\ fs'[k] \in Directory
  BY DEF FilePut, TypeInv, TypeOK
<1>2. \A g \in Files : fs'[k][g] = fs[k][g]
  BY DEF FilePut
<1> QED
  BY <1>1, <1>2, DirectoriesEqual

(* A handler writes role files and manifest in its target only.             *)
LEMMA WritesInTarget ==
  ASSUME TypeInv, NEW t \in Threads, WriteRole(t) \/ WriteManifest(t)
  PROVE  \A l \in Locations : l # call[t].target => fs'[l] = fs[l]
<1>1. call[t].target \in Locations
  BY HandlerHas DEF WriteRole, WriteManifest, Goto
<1>2. CASE WriteRole(t)
  BY <1>1, <1>2, WriteRoleFacts, PutElsewhere
<1>3. CASE WriteManifest(t)
  BY <1>1, <1>3, WriteManifestFacts, PutElsewhere
<1> QED
  BY <1>2, <1>3

(* Every step leaves the entries alone, but for a rename onto a free name.  *)
LEMMA EntriesStay ==
  ASSUME OpaqueTargets, TypeInv, [Next]_vars
  PROVE  \/ \A d \in Digest : fs'[d] = fs[d]
         \/ \E t \in Threads :
              /\ Publish(t) /\ ~Exists(fs[held[t]])
              /\ held[t] \in Digest
              /\ fs' = [fs EXCEPT ![held[t]] = tmp[t]]
<1>1. CASE UNCHANGED fs
  BY <1>1
<1>2. ASSUME NEW t \in Threads, WriteRole(t) \/ WriteManifest(t)
      PROVE  \A d \in Digest : fs'[d] = fs[d]
  <2>1. pc[t] # "idle"
    BY <1>2 DEF WriteRole, WriteManifest, Goto
  <2> QED
    BY <1>2, <2>1, WritesInTarget, OpaqueIsNoDigest DEF Locations
<1>3. ASSUME NEW t \in Threads, Publish(t), ~Exists(fs[held[t]])
      PROVE  held[t] \in Digest /\ fs' = [fs EXCEPT ![held[t]] = tmp[t]]
  BY <1>3, HandlerHas DEF Publish, After
<1> QED
  BY <1>1, <1>2, <1>3
  DEF Next, Step, vars, fsVars, Crash, ComputeEvidence, VerifySource, CheckStore,
      CopyFile, Publish, ReadIndex, WriteIndex, IOError

(***************************************************************************)
(* If no call names a content id as its target, a stored bundle is never    *)
(* changed or removed, even if handlers share directories, fail or crash.   *)
(***************************************************************************)
THEOREM StoredBundlesImmutable ==
  ASSUME OpaqueTargets
  PROVE  Spec => EntriesImmutable
<1>1. TypeInv /\ [Next]_vars =>
        [\A d \in Digest : Exists(fs[d]) => fs'[d] = fs[d]]_fs
  <2> SUFFICES ASSUME TypeInv, [Next]_vars, NEW d \in Digest, Exists(fs[d])
               PROVE  fs'[d] = fs[d]
    OBVIOUS
  <2>1. ASSUME NEW t \in Threads, ~Exists(fs[held[t]]), held[t] \in Digest,
               fs' = [fs EXCEPT ![held[t]] = tmp[t]]
        PROVE  fs'[d] = fs[d]
    BY <2>1 DEF TypeInv, TypeOK, Locations
  <2> QED
    BY <2>1, EntriesStay
<1> QED
  BY <1>1, TypeInvAlways, PTL DEF Spec, EntriesImmutable

-----------------------------------------------------------------------------
(***************************************************************************)
(* What a handler has in its own directory, in memory and in its copy: its  *)
(* own evidence, since nobody else writes there.                            *)
(***************************************************************************)
OwnAt(t) ==
  /\ pc[t] = "write" =>
       \A i \in 1..(pos[t] - 1) :
         fs[call[t].target][Roles[i]] = RoleBytes(Roles[i], call[t].evidence)
  /\ pc[t] = "manifest" =>
       \A role \in RoleSet :
         fs[call[t].target][role] = RoleBytes(role, call[t].evidence)
  /\ pc[t] \in After =>
       /\ held[t] = DigestOf(call[t].evidence)
       /\ \A f \in Files : fs[call[t].target][f] = Content(held[t])[f]
  /\ pc[t] = "copy" =>
       \A f \in Files \ left[t] : tmp[t][f] = Content(held[t])[f]

AnswersOwn == \A a \in acked : a.digest = DigestOf(a.evidence)

EntriesInv ==
  /\ IndexInv
  /\ \A t \in Threads : OwnAt(t)
  /\ EntriesMatchDigest
  /\ AnswersOwn

(* The digest of evidence is a digest.                                      *)
LEMMA DigestOfTyped ==
  ASSUME NEW e \in Evidence
  PROVE  DigestOf(e) \in Digest
<1>1. RequestOf[e] \in Requests
  BY EvidenceAssumption
<1>2. \A role \in RoleSet :
        /\ RoleBytes(role, e) \in Requests \cup Evidence
        /\ RoleBytes(role, e) \in {RoleBytes(role, x) : x \in Evidence}
  BY NoneIsNoByte
<1> DEFINE g == [role \in RoleSet |-> RoleBytes(role, e)]
<1>3. /\ g \in [RoleSet -> Requests \cup Evidence]
      /\ \A role \in RoleSet : g[role] \in {RoleBytes(role, x) : x \in Evidence}
  BY <1>2
<1> HIDE DEF g
<1>4. [request |-> RequestOf[e], files |-> g] \in Digest
  BY <1>1, <1>3 DEF Digest
<1> QED
  BY <1>4 DEF g, DigestOf

(* The bundle that a digest names, and its files.                           *)
LEMMA ContentIsDirectory ==
  ASSUME NEW d \in Digest
  PROVE  /\ Content(d) \in Directory
         /\ Content(d)["manifest"] = d
         /\ \A role \in RoleSet : Content(d)[role] = d.files[role]
         /\ \A f \in Files : Content(d)[f] # None
<1>1. /\ d.files \in [RoleSet -> Requests \cup Evidence]
      /\ \A role \in RoleSet :
           d.files[role] \in {RoleBytes(role, e) : e \in Evidence}
  BY DEF Digest
<1>2. /\ Content(d)["manifest"] = d
      /\ \A role \in RoleSet : Content(d)[role] = d.files[role]
  BY RolesAreFiles DEF Content
<1>3. \A f \in Files : Content(d)[f] \in FileBytes(f)
  BY <1>1, <1>2 DEF Files, FileBytes
<1>4. \A f \in Files : Content(d)[f] \in Requests \cup Evidence \cup Digest
  BY <1>1, <1>2 DEF Files
<1>5. Content(d) \in [Files -> Requests \cup Evidence \cup Digest \cup {None}]
  BY <1>4 DEF Content
<1> QED
  BY <1>2, <1>3, <1>5, NoneIsNoByte DEF Directory

(* The bundle that the digest of evidence names has its role files.         *)
LEMMA ContentOfOwn ==
  ASSUME NEW e \in Evidence
  PROVE  \A role \in RoleSet : Content(DigestOf(e))[role] = RoleBytes(role, e)
<1>1. \A role \in RoleSet : DigestOf(e).files[role] = RoleBytes(role, e)
  BY DEF DigestOf
<1> QED
  BY <1>1, DigestOfTyped, ContentIsDirectory

(* The directory of a handler is written by no step of another.             *)
LEMMA TargetUntouched ==
  ASSUME OpaqueTargets, ExclusiveTargets, TypeInv, [Next]_vars,
         NEW u \in Threads, pc[u] # "idle",
         ~WriteRole(u), ~WriteManifest(u)
  PROVE  fs'[call[u].target] = fs[call[u].target]
<1> DEFINE l == call[u].target
<1>1. /\ l \in Locations /\ l \notin Digest
      /\ call[u] \in Calls[u]
  BY OpaqueIsNoDigest DEF TypeInv, HandlerInv, HandlerAt
<1>2. CASE UNCHANGED fs
  BY <1>2
<1>3. ASSUME NEW t \in Threads, WriteRole(t) \/ WriteManifest(t)
      PROVE  fs'[l] = fs[l]
  <2>1. call[t] \in Calls[t]
    BY <1>3 DEF WriteRole, WriteManifest, Goto, TypeInv, HandlerInv, HandlerAt
  <2>2. t # u
    BY <1>3
  <2>3. call[t].target # l
    BY <1>1, <2>1, <2>2 DEF ExclusiveTargets
  <2> QED
    BY <1>1, <1>3, <2>3, WritesInTarget
<1>4. ASSUME NEW t \in Threads, Publish(t), ~Exists(fs[held[t]])
      PROVE  fs'[l] = fs[l]
  <2>1. held[t] \in Digest /\ fs' = [fs EXCEPT ![held[t]] = tmp[t]]
    BY <1>4, HandlerHas DEF Publish, After
  <2> QED
    BY <1>1, <2>1 DEF TypeInv, TypeOK
<1> QED
  BY <1>2, <1>3, <1>4
  DEF Next, Step, vars, fsVars, Crash, ComputeEvidence, VerifySource, CheckStore,
      CopyFile, Publish, ReadIndex, WriteIndex, IOError

(* A handler that does not move keeps what it owns.                         *)
LEMMA OtherOwn ==
  ASSUME OpaqueTargets, ExclusiveTargets, EntriesInv, [Next]_vars,
         NEW u \in Threads,
         pc'[u] = pc[u], call'[u] = call[u], pos'[u] = pos[u], held'[u] = held[u],
         left'[u] = left[u], tmp'[u] = tmp[u]
  PROVE  OwnAt(u)'
<1>0. ~WriteRole(u) /\ ~WriteManifest(u)
  <2>1. ~WriteManifest(u)
    BY DEF WriteManifest, Goto, EntriesInv, IndexInv, TypeInv, TypeOK
  <2>2. ASSUME WriteRole(u)
        PROVE  FALSE
    <3>1. pos[u] + 1 # pos[u]
      BY DEF EntriesInv, IndexInv, TypeInv, TypeOK
    <3>2. CASE pos[u] = Len(Roles)
      BY <2>2, <3>2 DEF WriteRole, EntriesInv, IndexInv, TypeInv, TypeOK
    <3>3. CASE pos[u] # Len(Roles)
      BY <2>2, <3>1, <3>3 DEF WriteRole, EntriesInv, IndexInv, TypeInv, TypeOK
    <3> QED
      BY <3>2, <3>3
  <2> QED
    BY <2>1, <2>2
<1>1. pc[u] # "idle" => fs'[call[u].target] = fs[call[u].target]
  BY <1>0, TargetUntouched DEF EntriesInv, IndexInv
<1>2. OwnAt(u)
  BY DEF EntriesInv
<1> QED
  BY <1>1, <1>2 DEF OwnAt, After

(* Each step preserves that entries and copies are what digests name.       *)
LEMMA EntriesInvStep ==
  ASSUME OpaqueTargets, ExclusiveTargets
  PROVE  EntriesInv /\ [Next]_vars => EntriesInv'
<1> SUFFICES ASSUME EntriesInv, [Next]_vars
             PROVE  EntriesInv'
  OBVIOUS
<1>1. IndexInv /\ IndexInv' /\ TypeInv
  BY IndexInvStep DEF EntriesInv, IndexInv
<1>2. \A t \in Threads : OwnAt(t)
  BY DEF EntriesInv
<1>3. \A u \in Threads : pc'[u] = "idle" => OwnAt(u)'
  BY DEF OwnAt, After
<1>4. EntriesMatchDigest /\ AnswersOwn
  BY DEF EntriesInv
<1>5. (\A d \in Digest : fs'[d] = fs[d]) => EntriesMatchDigest'
  BY <1>4 DEF EntriesMatchDigest, StoredDigests
<1>6. \A t \in Threads : pc[t] # "idle" => call[t].evidence \in Evidence
  BY <1>1, CallTyped DEF TypeInv, HandlerInv, HandlerAt
<1>7. \A t \in Threads : Ends(t) => \A u \in Threads : OwnAt(u)'
  <2>1. ASSUME NEW t \in Threads, Ends(t), NEW u \in Threads
        PROVE  OwnAt(u)'
    <3>1. CASE u = t
      BY <1>1, <1>3, <2>1, <3>1 DEF Ends, TypeInv, TypeOK
    <3>2. CASE u # t
      BY <1>1, <2>1, <3>2, OtherOwn DEF Ends, TypeInv, TypeOK
    <3> QED
      BY <3>1, <3>2
  <2> QED
    BY <2>1
<1>10. ASSUME NEW t \in Threads, Ends(t), UNCHANGED <<fs, acked>>
       PROVE  EntriesInv'
  BY <1>1, <1>4, <1>5, <1>7, <1>10 DEF EntriesInv, AnswersOwn
<1>11. ASSUME NEW t \in Threads, OwnAt(t)', UNCHANGED acked,
              \A d \in Digest : fs'[d] = fs[d],
              \A u \in Threads \ {t} :
                /\ pc'[u] = pc[u] /\ call'[u] = call[u] /\ pos'[u] = pos[u]
                /\ held'[u] = held[u] /\ left'[u] = left[u] /\ tmp'[u] = tmp[u]
       PROVE  EntriesInv'
  <2>1. \A u \in Threads \ {t} : OwnAt(u)'
    BY <1>11, OtherOwn
  <2> QED
    BY <1>1, <1>4, <1>5, <1>11, <2>1 DEF EntriesInv, AnswersOwn
<1>12. CASE UNCHANGED vars
  BY <1>1, <1>2, <1>4, <1>5, <1>12 DEF vars, EntriesInv, AnswersOwn, OwnAt
<1>13. CASE Crash
  BY <1>1, <1>3, <1>4, <1>5, <1>13 DEF Crash, fsVars, EntriesInv, AnswersOwn
<1>14. ASSUME NEW t \in Threads, NEW c \in Calls[t], ComputeEvidence(t, c)
       PROVE  EntriesInv'
  <2>1. pc'[t] = "write" /\ pos'[t] = 1
    BY <1>1, <1>14 DEF ComputeEvidence, Goto, TypeInv, TypeOK
  <2>2. OwnAt(t)'
    BY <2>1 DEF OwnAt, After
  <2> QED
    BY <1>1, <1>11, <1>14, <2>2 DEF ComputeEvidence, Goto, fsVars, TypeInv, TypeOK
<1>15. ASSUME NEW t \in Threads, WriteRole(t)
       PROVE  EntriesInv'
  <2> DEFINE e == call[t].evidence
             l == call[t].target
  <2>1. /\ pc[t] = "write"
        /\ pos[t] \in 1..Len(Roles)
        /\ UNCHANGED <<index, call, held, left, tmp, seen, acked>>
    BY <1>1, <1>15 DEF WriteRole, TypeInv, TypeOK
  <2>2. FilePut(l, Roles[pos[t]], RoleBytes(Roles[pos[t]], e))
    BY <1>1, <1>15, WriteRoleFacts
  <2>3. \A i \in 1..pos[t] : fs'[l][Roles[i]] = RoleBytes(Roles[i], e)
    <3> SUFFICES ASSUME NEW i \in 1..pos[t]
                 PROVE  fs'[l][Roles[i]] = RoleBytes(Roles[i], e)
      OBVIOUS
    <3>1. Roles[i] \in Files
      BY <2>1, RolesAreFiles
    <3>2. i # pos[t] => fs[l][Roles[i]] = RoleBytes(Roles[i], e)
      <4>1. i # pos[t] => i \in 1..(pos[t] - 1)
        BY <2>1
      <4> QED
        BY <1>2, <2>1, <4>1 DEF OwnAt
    <3> QED
      BY <2>2, <3>1, <3>2 DEF FilePut
  <2>4. \A d \in Digest : fs'[d] = fs[d]
    BY <1>1, <1>15, <2>1, WritesInTarget, OpaqueIsNoDigest DEF Locations
  <2>5. UNCHANGED acked
    BY <2>1
  <2>6. CASE pos[t] = Len(Roles)
    <3>1. pc' = [pc EXCEPT ![t] = "manifest"] /\ pos' = pos
      BY <1>15, <2>6 DEF WriteRole
    <3>2. pc'[t] = "manifest"
      BY <1>1, <3>1 DEF TypeInv, TypeOK
    <3>3. \A r \in RoleSet : fs'[call'[t].target][r] = RoleBytes(r, call'[t].evidence)
      BY <2>1, <2>3, <2>6 DEF RoleSet
    <3>4. OwnAt(t)'
      BY <3>2, <3>3 DEF OwnAt, After
    <3>5. \A u \in Threads \ {t} :
            /\ pc'[u] = pc[u] /\ call'[u] = call[u] /\ pos'[u] = pos[u]
            /\ held'[u] = held[u] /\ left'[u] = left[u] /\ tmp'[u] = tmp[u]
      BY <1>1, <2>1, <3>1 DEF TypeInv, TypeOK
    <3> QED
      BY <1>11, <2>4, <2>5, <3>4, <3>5
  <2>7. CASE pos[t] # Len(Roles)
    <3>1. pos' = [pos EXCEPT ![t] = pos[t] + 1] /\ pc' = pc
      BY <1>15, <2>7 DEF WriteRole
    <3>2. pc'[t] = "write" /\ pos'[t] - 1 = pos[t]
      BY <1>1, <2>1, <3>1 DEF TypeInv, TypeOK
    <3>3. \A i \in 1..(pos'[t] - 1) :
            fs'[call'[t].target][Roles[i]] = RoleBytes(Roles[i], call'[t].evidence)
      BY <2>1, <2>3, <3>2
    <3>4. OwnAt(t)'
      BY <3>2, <3>3 DEF OwnAt, After
    <3>5. \A u \in Threads \ {t} :
            /\ pc'[u] = pc[u] /\ call'[u] = call[u] /\ pos'[u] = pos[u]
            /\ held'[u] = held[u] /\ left'[u] = left[u] /\ tmp'[u] = tmp[u]
      BY <1>1, <2>1, <3>1 DEF TypeInv, TypeOK
    <3> QED
      BY <1>11, <2>4, <2>5, <3>4, <3>5
  <2> QED
    BY <2>6, <2>7
<1>16. ASSUME NEW t \in Threads, WriteManifest(t)
       PROVE  EntriesInv'
  <2> DEFINE e == call[t].evidence
             l == call[t].target
             g == [role \in RoleSet |-> fs[l][role]]
  <2>1. /\ pc[t] = "manifest"
        /\ pc' = [pc EXCEPT ![t] = "verify"]
        /\ UNCHANGED <<index, call, pos, left, tmp, seen, acked>>
        /\ \A u \in Threads \ {t} : held'[u] = held[u]
    BY <1>1, <1>16 DEF WriteManifest, Goto, TypeInv, TypeOK
  <2>2. /\ held'[t] = [request |-> RequestOf[e], files |-> g]
        /\ FilePut(l, "manifest", held'[t])
    BY <1>1, <1>16, WriteManifestFacts
  <2>3. \A role \in RoleSet : fs[l][role] = RoleBytes(role, e)
    BY <1>2, <2>1 DEF OwnAt
  <2>4. g = [role \in RoleSet |-> RoleBytes(role, e)]
    BY <2>3
  <2> HIDE DEF g
  <2>5. held'[t] = DigestOf(e)
    BY <2>2, <2>4 DEF DigestOf
  <2>6. e \in Evidence
    BY <1>6, <2>1
  <2>7. \A f \in Files : fs'[l][f] = Content(held'[t])[f]
    <3>1. \A role \in RoleSet : fs'[l][role] = RoleBytes(role, e)
      BY <2>2, <2>3, RolesAreFiles DEF FilePut
    <3>2. \A role \in RoleSet : Content(held'[t])[role] = RoleBytes(role, e)
      BY <2>5, <2>6, ContentOfOwn
    <3>3. fs'[l]["manifest"] = Content(held'[t])["manifest"]
      BY <2>2, <2>5, <2>6, DigestOfTyped, ContentIsDirectory DEF FilePut
    <3> QED
      BY <3>1, <3>2, <3>3 DEF Files
  <2>8. pc'[t] = "verify"
    BY <1>1, <2>1 DEF TypeInv, TypeOK
  <2>9. OwnAt(t)'
    BY <2>1, <2>5, <2>7, <2>8 DEF OwnAt
  <2>10. \A d \in Digest : fs'[d] = fs[d]
    BY <1>1, <1>16, <2>1, WritesInTarget, OpaqueIsNoDigest DEF Locations
  <2>11. \A u \in Threads \ {t} :
           /\ pc'[u] = pc[u] /\ call'[u] = call[u] /\ pos'[u] = pos[u]
           /\ held'[u] = held[u] /\ left'[u] = left[u] /\ tmp'[u] = tmp[u]
    BY <1>1, <2>1 DEF TypeInv, TypeOK
  <2>12. UNCHANGED acked
    BY <2>1
  <2> QED
    BY <1>11, <2>9, <2>10, <2>11, <2>12
<1>17. ASSUME NEW t \in Threads, VerifySource(t)
       PROVE  EntriesInv'
  <2>1. CASE Ends(t)
    BY <1>10, <1>17, <2>1 DEF VerifySource, fsVars
  <2>2. CASE ~Ends(t)
    <3>1. /\ pc[t] = "verify" /\ pc' = [pc EXCEPT ![t] = "exists"]
          /\ UNCHANGED <<fs, call, pos, held, left, tmp, acked>>
      BY <1>17, <2>2 DEF VerifySource, fsVars
    <3>2. OwnAt(t)'
      BY <1>1, <1>2, <3>1 DEF OwnAt, After, TypeInv, TypeOK
    <3> QED
      BY <1>1, <1>11, <3>1, <3>2 DEF TypeInv, TypeOK
  <2> QED
    BY <2>1, <2>2
<1>18. ASSUME NEW t \in Threads, CheckStore(t)
       PROVE  EntriesInv'
  <2>1. CASE Ends(t)
    BY <1>10, <1>18, <2>1 DEF CheckStore, fsVars
  <2>2. CASE ~Ends(t)
    <3>1. /\ pc[t] = "exists"
          /\ \/ pc' = [pc EXCEPT ![t] = "copy"] /\ left' = [left EXCEPT ![t] = Files]
             \/ pc' = [pc EXCEPT ![t] = "index"] /\ left' = left
          /\ UNCHANGED <<fs, call, pos, held, tmp, acked>>
      BY <1>18, <2>2 DEF CheckStore, fsVars
    <3>2. OwnAt(t)'
      BY <1>1, <1>2, <3>1 DEF OwnAt, After, TypeInv, TypeOK
    <3>3. \A u \in Threads \ {t} :
            /\ pc'[u] = pc[u] /\ call'[u] = call[u] /\ pos'[u] = pos[u]
            /\ held'[u] = held[u] /\ left'[u] = left[u] /\ tmp'[u] = tmp[u]
      BY <1>1, <3>1 DEF TypeInv, TypeOK
    <3>4. UNCHANGED <<fs, acked>>
      BY <3>1
    <3> QED
      BY <1>11, <3>2, <3>3, <3>4
  <2> QED
    BY <2>1, <2>2
<1>19. ASSUME NEW t \in Threads, CopyFile(t)
       PROVE  EntriesInv'
  <2>1. PICK f \in left[t] :
          /\ tmp' = [tmp EXCEPT ![t][f] = fs[call[t].target][f]]
          /\ left' = [left EXCEPT ![t] = @ \ {f}]
    BY <1>19 DEF CopyFile
  <2>2. /\ pc[t] = "copy"
        /\ UNCHANGED <<fs, pc, call, pos, held, acked>>
    BY <1>19 DEF CopyFile, fsVars
  <2>3. f \in Files
    BY <1>1 DEF TypeInv, TypeOK
  <2>4. fs[call[t].target][f] = Content(held[t])[f]
    BY <1>2, <2>2, <2>3 DEF OwnAt, After
  <2>5. \A h \in Files \ left'[t] : tmp'[t][h] = Content(held[t])[h]
    BY <1>1, <1>2, <2>1, <2>2, <2>3, <2>4 DEF OwnAt, TypeInv, TypeOK, Directory
  <2>6. OwnAt(t)'
    BY <1>2, <2>2, <2>5 DEF OwnAt, After
  <2>7. \A u \in Threads \ {t} :
          /\ pc'[u] = pc[u] /\ call'[u] = call[u] /\ pos'[u] = pos[u]
          /\ held'[u] = held[u] /\ left'[u] = left[u] /\ tmp'[u] = tmp[u]
    BY <1>1, <2>1, <2>2 DEF TypeInv, TypeOK
  <2> QED
    BY <1>11, <2>2, <2>6, <2>7
<1>20. ASSUME NEW t \in Threads, Publish(t)
       PROVE  EntriesInv'
  <2>1. CASE Exists(fs[held[t]])
    BY <1>10, <1>20, <2>1 DEF Publish
  <2>2. CASE ~Exists(fs[held[t]])
    <3>1. /\ pc[t] = "copy" /\ left[t] = {}
          /\ fs' = [fs EXCEPT ![held[t]] = tmp[t]]
          /\ tmp' = [tmp EXCEPT ![t] = EmptyDir]
          /\ pc' = [pc EXCEPT ![t] = "index"]
          /\ UNCHANGED <<call, pos, held, left, seen, index, acked>>
      BY <1>20, <2>2 DEF Publish
    <3>2. held[t] \in Digest
      BY <1>1, <3>1, HandlerHas DEF After
    <3>3. tmp[t] = Content(held[t])
      <4>1. \A f \in Files : tmp[t][f] = Content(held[t])[f]
        BY <1>2, <3>1 DEF OwnAt
      <4>2. tmp[t] \in Directory
        BY <1>1 DEF TypeInv, TypeOK
      <4> QED
        BY <3>2, <4>1, <4>2, ContentIsDirectory, DirectoriesEqual
    <3>4. EntriesMatchDigest'
      BY <1>1, <1>4, <3>1, <3>2, <3>3
      DEF EntriesMatchDigest, StoredDigests, TypeInv, TypeOK, Locations
    <3>5. fs'[call[t].target] = fs[call[t].target]
      <4>1. pc[t] # "idle" /\ ~WriteRole(t) /\ ~WriteManifest(t)
        BY <3>1 DEF WriteRole, WriteManifest, Goto
      <4> QED
        BY <1>1, <4>1, TargetUntouched
    <3>6. pc'[t] = "index"
      BY <1>1, <3>1 DEF TypeInv, TypeOK
    <3>7. OwnAt(t)'
      BY <1>2, <3>1, <3>5, <3>6 DEF OwnAt, After
    <3>8. \A u \in Threads \ {t} :
            /\ pc'[u] = pc[u] /\ call'[u] = call[u] /\ pos'[u] = pos[u]
            /\ held'[u] = held[u] /\ left'[u] = left[u] /\ tmp'[u] = tmp[u]
      BY <1>1, <3>1 DEF TypeInv, TypeOK
    <3>9. \A u \in Threads \ {t} : OwnAt(u)'
      BY <3>8, OtherOwn
    <3> QED
      BY <1>1, <1>4, <3>1, <3>4, <3>7, <3>9 DEF EntriesInv, AnswersOwn
  <2> QED
    BY <2>1, <2>2
<1>21. ASSUME NEW t \in Threads, ReadIndex(t)
       PROVE  EntriesInv'
  <2>1. /\ pc[t] = "index" /\ pc' = [pc EXCEPT ![t] = "append"]
        /\ UNCHANGED <<fs, call, pos, held, left, tmp, acked>>
    BY <1>21 DEF ReadIndex, Goto, fsVars
  <2>2. OwnAt(t)'
    BY <1>1, <1>2, <2>1 DEF OwnAt, After, TypeInv, TypeOK
  <2> QED
    BY <1>1, <1>11, <2>1, <2>2 DEF TypeInv, TypeOK
<1>22. ASSUME NEW t \in Threads, WriteIndex(t)
       PROVE  EntriesInv'
  <2>1. /\ pc[t] = "append"
        /\ acked' = acked \cup {[evidence |-> call[t].evidence, digest |-> held[t]]}
        /\ Ends(t) /\ UNCHANGED fs
    BY <1>22 DEF WriteIndex
  <2>2. held[t] = DigestOf(call[t].evidence)
    BY <1>2, <2>1 DEF OwnAt, After
  <2>3. AnswersOwn'
    BY <1>4, <2>1, <2>2 DEF AnswersOwn
  <2> QED
    BY <1>1, <1>5, <1>7, <2>1, <2>3 DEF EntriesInv
<1>23. ASSUME NEW t \in Threads, IOError(t)
       PROVE  EntriesInv'
  BY <1>10, <1>23 DEF IOError, fsVars
<1> QED
  BY <1>12, <1>13, <1>14, <1>15, <1>16, <1>17, <1>18, <1>19, <1>20, <1>21,
     <1>22, <1>23
  DEF Next, Step

(* Nothing is stored when the server starts.                                *)
LEMMA EntriesInvInit == Init => EntriesInv
<1> SUFFICES ASSUME Init PROVE EntriesInv
  OBVIOUS
<1>1. IndexInv
  BY IndexInvInit
<1>2. \A t \in Threads : OwnAt(t)
  BY DEF Init, OwnAt, After
<1>3. EntriesMatchDigest
  BY DEF Init, EntriesMatchDigest, StoredDigests, Exists, EmptyDir, Locations
<1>4. AnswersOwn
  BY DEF Init, AnswersOwn
<1> QED
  BY <1>1, <1>2, <1>3, <1>4 DEF EntriesInv

(* With opaque directories of their own, so in every state.                 *)
LEMMA EntriesInvAlways ==
  ASSUME OpaqueTargets, ExclusiveTargets
  PROVE  Spec => []EntriesInv
<1>1. EntriesInv /\ [Next]_vars => EntriesInv'
  BY EntriesInvStep
<1> QED
  BY <1>1, EntriesInvInit, PTL DEF Spec

(***************************************************************************)
(* If the handlers' directories are opaque and their own, what is stored    *)
(* under a content id is exactly the bundle with that digest, complete, at  *)
(* every moment: no crash or failure leaves a torn or a mixed entry.        *)
(***************************************************************************)
THEOREM EntriesAreComplete ==
  ASSUME OpaqueTargets, ExclusiveTargets
  PROVE  Spec => []EntriesMatchDigest
<1>1. EntriesInv => EntriesMatchDigest
  BY DEF EntriesInv
<1> QED
  BY <1>1, EntriesInvAlways, PTL

(***************************************************************************)
(* Under the same assumptions every answer of compute_evidence names a      *)
(* stored bundle that is the evidence the call itself computed.             *)
(***************************************************************************)
THEOREM AnswersAreOwn ==
  ASSUME OpaqueTargets, ExclusiveTargets
  PROVE  Spec => []AnswersNameOwnEvidence
<1>1. EntriesInv => AnswersNameOwnEvidence
  BY DEF EntriesInv, IndexInv, AnswersStored, AnswersOwn, AnswersNameOwnEvidence
<1> QED
  BY <1>1, EntriesInvAlways, PTL

-----------------------------------------------------------------------------
(***************************************************************************)
(* The refinement: Publish that finds the name free is Put, WriteIndex is   *)
(* Answer, and every other step of the handlers is a stutter.               *)
(***************************************************************************)
Entries == [d \in Digest |-> fs[d]]
Named   == {a.digest : a \in acked}

(* Steps that change neither entries nor index nor answers stutter.         *)
LEMMA AtomicStutter ==
  ASSUME \A d \in Digest : fs'[d] = fs[d], UNCHANGED <<index, acked>>
  PROVE  UNCHANGED Atomic!avars
<1>1. Entries' = Entries
  BY DEF Entries
<1>2. Named' = Named
  BY DEF Named
<1> QED
  BY <1>1, <1>2 DEF Atomic!avars, Entries, Named

(* The rename onto a free name puts the complete bundle, atomically.        *)
LEMMA AtomicPut ==
  ASSUME EntriesInv, NEW t \in Threads, Publish(t), ~Exists(fs[held[t]])
  PROVE  Atomic!ANext
<1>0. TypeInv /\ OwnAt(t)
  BY DEF EntriesInv, IndexInv
<1>1. PICK d \in Digest : d = held[t]
  BY <1>0, HandlerHas DEF Publish, After
<1>2. /\ pc[t] = "copy" /\ held[t] = d
      /\ fs' = [fs EXCEPT ![d] = tmp[t]]
      /\ UNCHANGED <<index, acked, left, held>>
      /\ left[t] = {}
  BY <1>1 DEF Publish
<1>3. d \in Digest /\ d \in Locations
  BY DEF Locations
<1>4. Entries[d] = EmptyDir
  <2>1. \A f \in Files : fs[d][f] = EmptyDir[f]
    BY <1>1 DEF Exists, EmptyDir
  <2>2. fs[d] \in Directory
    BY <1>0, <1>3 DEF TypeInv, TypeOK
  <2>3. fs[d] = EmptyDir
    BY <2>1, <2>2, EmptyDirIsDirectory, DirectoriesEqual
  <2> QED
    BY <1>3, <2>3 DEF Entries
<1>5. tmp[t] = Content(d)
  <2>1. \A f \in Files : tmp[t][f] = Content(d)[f]
    BY <1>2, <1>0 DEF OwnAt
  <2>2. tmp[t] \in Directory
    BY <1>0 DEF TypeInv, TypeOK
  <2> QED
    BY <1>3, <2>1, <2>2, ContentIsDirectory, DirectoriesEqual
<1>6. Entries' = [Entries EXCEPT ![d] = Content(d)]
  BY <1>2, <1>0, <1>3, <1>5 DEF Entries, TypeInv, TypeOK, Locations
<1>7. [x \in Digest |-> Content(x)][d] = Content(d)
  BY <1>3
<1>8. Named' = Named
  BY <1>2 DEF Named
<1>9. Atomic!Put(d)
  BY <1>2, <1>4, <1>6, <1>7, <1>8 DEF Atomic!Put, Entries, Named
<1> QED
  BY <1>3, <1>9 DEF Atomic!ANext

(* The index update answers: it lists some of what is stored.               *)
LEMMA AtomicAnswer ==
  ASSUME EntriesInv, NEW t \in Threads, WriteIndex(t)
  PROVE  Atomic!ANext
<1>0. TypeInv /\ ListableAt(t)
  BY DEF EntriesInv, IndexInv
<1>1. PICK d \in Digest : d = held[t]
  BY <1>0, HandlerHas DEF WriteIndex, After
<1> DEFINE r == d.request
<1>2. /\ pc[t] = "append" /\ held[t] = d
      /\ index' = [index EXCEPT ![r] = seen[t] \cup {d}]
      /\ acked' = acked \cup {[evidence |-> call[t].evidence, digest |-> d]}
      /\ UNCHANGED fs
  BY <1>1 DEF WriteIndex
<1>3. d \in Digest /\ r \in Requests
  BY <1>1 DEF Digest
<1>4. \A x \in Digest : Exists(fs[x]) => fs[x] # EmptyDir
  BY DEF Exists, EmptyDir
<1>5. /\ d \in Atomic!Stored
      /\ \A x \in seen[t] : x \in Atomic!Stored /\ x.request = r
  BY <1>2, <1>0, <1>3, <1>4 DEF ListableAt, StoredDigests, Atomic!Stored
<1> DEFINE K == [x \in Digest |-> x.request]
<1>6. /\ K[d] = r
      /\ \A x \in seen[t] : K[x] = r
  BY <1>3, <1>5 DEF Atomic!Stored
<1>7. seen[t] \in SUBSET {x \in Atomic!Stored : K[x] = K[d]}
  BY <1>5, <1>6
<1>8. index' = [index EXCEPT ![K[d]] = seen[t] \cup {d}]
  BY <1>2, <1>6
<1>9. Named' = Named \cup {d}
  <2> DEFINE a == [evidence |-> call[t].evidence, digest |-> d]
  <2>1. a.digest = d
    OBVIOUS
  <2>2. acked' = acked \cup {a}
    BY <1>2
  <2> HIDE DEF a
  <2> QED
    BY <2>1, <2>2 DEF Named
<1>10. Entries' = Entries
  BY <1>2 DEF Entries
<1> HIDE DEF r
<1>11. Atomic!Answer(d)
  BY <1>5, <1>7, <1>8, <1>9, <1>10 DEF Atomic!Answer, Entries, Named
<1> QED
  BY <1>3, <1>11 DEF Atomic!ANext

(* Every step of the handlers is a step of the atomic store.                *)
LEMMA AtomicStep ==
  ASSUME OpaqueTargets, ExclusiveTargets
  PROVE  EntriesInv /\ [Next]_vars => [Atomic!ANext]_(Atomic!avars)
<1> SUFFICES ASSUME EntriesInv, [Next]_vars
             PROVE  [Atomic!ANext]_(Atomic!avars)
  OBVIOUS
<1>1. TypeInv /\ EntriesInv'
  BY EntriesInvStep DEF EntriesInv, IndexInv
<1>2. ASSUME NEW t \in Threads, WriteIndex(t)
      PROVE  Atomic!ANext
  BY <1>2, AtomicAnswer
<1>3. ASSUME NEW t \in Threads, Publish(t), ~Exists(fs[held[t]])
      PROVE  Atomic!ANext
  BY <1>3, AtomicPut
<1>4. CASE /\ \A t \in Threads : ~WriteIndex(t)
           /\ \A t \in Threads : Publish(t) => Exists(fs[held[t]])
  <2>1. \A d \in Digest : fs'[d] = fs[d]
    BY <1>1, <1>4, EntriesStay
  <2>2. UNCHANGED <<index, acked>>
    BY <1>4
    DEF Next, Step, vars, fsVars, Crash, ComputeEvidence, WriteRole, WriteManifest,
        VerifySource, CheckStore, CopyFile, Publish, ReadIndex, IOError
  <2> QED
    BY <2>1, <2>2, AtomicStutter
<1> QED
  BY <1>2, <1>3, <1>4

(* The empty store is the empty atomic store.                               *)
LEMMA AtomicInit == Init => Atomic!AInit
<1> SUFFICES ASSUME Init PROVE Atomic!AInit
  OBVIOUS
<1>1. Entries = [d \in Digest |-> EmptyDir]
  BY DEF Init, Entries, Locations
<1>2. Named = {}
  BY DEF Init, Named
<1> QED
  BY <1>1, <1>2 DEF Init, Atomic!AInit, Entries, Named

(***************************************************************************)
(* The store of concurrent handlers implements the atomic store: readers of *)
(* the entries, the index and the answers cannot tell that commits are made *)
(* of many file-system steps, interleaved, failing and cut off by crashes.  *)
(***************************************************************************)
THEOREM StoreIsAtomic ==
  ASSUME OpaqueTargets, ExclusiveTargets
  PROVE  Spec => ImplementsAtomicStore
<1>1. EntriesInv /\ [Next]_vars => [Atomic!ANext]_(Atomic!avars)
  BY AtomicStep
<1> QED
  BY <1>1, AtomicInit, EntriesInvAlways, PTL
  DEF Spec, ImplementsAtomicStore, Atomic!ASpec

=============================================================================
