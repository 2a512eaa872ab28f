--------------------------- MODULE ReplayLockProofs ---------------------------
(***************************************************************************)
(* Theorems about ReplayLock for any limits with 3 * StepLimit <= StaleAge: *)
(* of any number of processes as long as none has died, and of two of which *)
(* any may die.  With a process that dies and two that wait, mutual         *)
(* exclusion is lost: both may find its lock stale before one of them takes *)
(* it away.                                                                 *)
(***************************************************************************)
EXTENDS ReplayLock, TLAPS

Locks == [owner : Procs, age : 0..(StaleAge + 1)]

(***************************************************************************)
(* Who is in the section owns the lock file, and the file is no older than  *)
(* the limits of the Lean processes that have run since it was created.     *)
(***************************************************************************)
HolderAt(p) ==
  /\ pc[p] \in Section => lock \in Locks /\ lock.owner = p
  /\ pc[p] = "write" => lock.age = 0
  /\ pc[p] = "build" => lock.age <= used[p]
  /\ pc[p] = "compile" => lock.age <= StepLimit + used[p]
  /\ pc[p] = "inspect" => lock.age <= 2 * StepLimit + used[p]
  /\ pc[p] \in {"cleanup", "release"} => lock.age <= 3 * StepLimit

(* Everybody is alive, nobody is about to take a lock away, and the lock    *)
(* file is that of a process in the section.                                *)
HeldInv ==
  /\ crashes = 0
  /\ \A p \in Procs : pc[p] \notin {"steal", "dead"}
  /\ lock # NoFile => lock \in Locks /\ pc[lock.owner] \in Section
  /\ \A p \in Procs : HolderAt(p)

(* The files that the holder works on are there.                            *)
FilesAt(p) ==
  /\ pc[p] \in Lean => source
  /\ pc[p] = "inspect" => olean

(* Before the first death the lock works for everybody; afterwards it may   *)
(* fail, but of two processes the other one is then alone.                  *)
AtMostTwo == \A p, q, r \in Procs : p = q \/ q = r \/ p = r
Sheltered == crashes = 0 \/ AtMostTwo

LockInv ==
  /\ TypeOK
  /\ crashes = 0 => HeldInv
  /\ crashes # 0 => \E d \in Procs : pc[d] = "dead"
  /\ Sheltered => RejectionsAreGenuine /\ \A p \in Procs : FilesAt(p)

-----------------------------------------------------------------------------
(* The types hold at the start ...                                          *)
LEMMA TypeInit == Init => TypeOK
<1> SUFFICES ASSUME Init PROVE TypeOK
  OBVIOUS
<1>1. 0 \in 0..WaitLimit /\ 0 \in 0..StepLimit /\ 0 \in 0..MaxCrashes
  BY LimitsAssumption
<1>2. source \in BOOLEAN /\ olean \in BOOLEAN /\ provable \in BOOLEAN
  BY DEF Init
<1> QED
  BY <1>1, <1>2 DEF Init, TypeOK, Verdicts

(* ... and each step keeps them.                                            *)
LEMMA TypeStep == TypeOK /\ [Next]_vars => TypeOK'
<1> SUFFICES ASSUME TypeOK, [Next]_vars
             PROVE  TypeOK'
  OBVIOUS
<1> USE LimitsAssumption, NoFileAssumption DEF TypeOK, Section, Lean, Waiting, Verdicts
<1>1. CASE UNCHANGED vars
  BY <1>1 DEF vars
<1>2. CASE Tick
  <2>1. lock' \in {NoFile} \cup [owner : Procs, age : 0..(StaleAge + 1)]
    BY <1>2 DEF Tick
  <2>2. waited' \in [Procs -> 0..WaitLimit]
    BY <1>2 DEF Tick
  <2>3. used' \in [Procs -> 0..StepLimit]
    BY <1>2 DEF Tick
  <2> QED
    BY <1>2, <2>1, <2>2, <2>3 DEF Tick, files
<1>3. ASSUME NEW p \in Procs, Enter(p)
      PROVE  TypeOK'
  BY <1>3 DEF Enter, Goto, files
<1>4. ASSUME NEW p \in Procs, CreateLock(p)
      PROVE  TypeOK'
  BY <1>4 DEF CreateLock, files
<1>5. ASSUME NEW p \in Procs, StatLock(p)
      PROVE  TypeOK'
  BY <1>5 DEF StatLock, files
<1>6. ASSUME NEW p \in Procs, StealLock(p)
      PROVE  TypeOK'
  BY <1>6 DEF StealLock, Goto, files
<1>7. ASSUME NEW p \in Procs, WriteSource(p)
      PROVE  TypeOK'
  <2>1. source' \in BOOLEAN
    BY <1>7 DEF WriteSource
  <2>2. pc' \in [Procs -> {"idle", "ended", "dead"} \cup Waiting \cup Section]
    BY <1>7 DEF WriteSource
  <2>3. verdict' \in [Procs -> Verdicts]
    BY <1>7 DEF WriteSource
  <2>4. used' \in [Procs -> 0..StepLimit]
    <3>1. 0 \in 0..StepLimit
      OBVIOUS
    <3> HIDE DEF TypeOK, Section, Lean, Waiting, Verdicts
    <3>2. used \in [Procs -> 0..StepLimit]
      BY DEF TypeOK
    <3> QED
      BY <1>7, <3>1, <3>2 DEF WriteSource
  <2>5. UNCHANGED <<lock, olean, provable, waited, crashes>>
    BY <1>7 DEF WriteSource
  <2> QED
    BY <2>1, <2>2, <2>3, <2>4, <2>5
<1>8. ASSUME NEW p \in Procs, Build(p)
      PROVE  TypeOK'
  <2>1. pc' \in [Procs -> {"idle", "ended", "dead"} \cup Waiting \cup Section]
    BY <1>8 DEF Build, Fail
  <2>2. used' \in [Procs -> 0..StepLimit]
    BY <1>8 DEF Build
  <2>3. verdict' \in [Procs -> Verdicts]
    BY <1>8 DEF Build, Fail
  <2> QED
    BY <1>8, <2>1, <2>2, <2>3 DEF Build, files
<1>9. ASSUME NEW p \in Procs, Compile(p)
      PROVE  TypeOK'
  <2>1. pc' \in [Procs -> {"idle", "ended", "dead"} \cup Waiting \cup Section]
    BY <1>9 DEF Compile, Fail
  <2>2. used' \in [Procs -> 0..StepLimit]
    BY <1>9 DEF Compile
  <2>3. verdict' \in [Procs -> Verdicts]
    BY <1>9 DEF Compile, Fail
  <2>4. olean' \in BOOLEAN
    BY <1>9 DEF Compile
  <2> QED
    BY <1>9, <2>1, <2>2, <2>3, <2>4 DEF Compile
<1>10. ASSUME NEW p \in Procs, KillLean(p) \/ LeanFails(p)
       PROVE  TypeOK'
  BY <1>10 DEF KillLean, LeanFails, Fail, files
<1>11. ASSUME NEW p \in Procs, Cleanup(p)
       PROVE  TypeOK'
  BY <1>11 DEF Cleanup, Goto
<1>12. ASSUME NEW p \in Procs, Release(p)
       PROVE  TypeOK'
  BY <1>12 DEF Release, Goto, files
<1>13. ASSUME NEW p \in Procs, Die(p)
       PROVE  TypeOK'
  BY <1>13 DEF Die, files
<1>14. ASSUME NEW p \in Procs, Inspect(p)
       PROVE  TypeOK'
  <2>1. verdict' \in [Procs -> Verdicts]
    BY <1>14 DEF Inspect, Fail
  <2>2. pc' \in [Procs -> {"idle", "ended", "dead"} \cup Waiting \cup Section]
    BY <1>14 DEF Inspect, Fail
  <2>3. UNCHANGED <<lock, source, olean, provable, waited, used, crashes>>
    BY <1>14 DEF Inspect, files
  <2> QED
    BY <2>1, <2>2, <2>3
<1> QED
  BY <1>1, <1>2, <1>3, <1>4, <1>5, <1>6, <1>7, <1>8, <1>9, <1>10, <1>11,
     <1>12, <1>13, <1>14
  DEF Next, Step

(* One owner, so one holder; and of two processes one, if the other died.   *)
LEMMA HolderAlone ==
  ASSUME HeldInv, NEW p \in Procs, NEW r \in Procs, pc[p] \in Section, pc[r] \in Section
  PROVE  p = r
BY DEF HeldInv, HolderAt

LEMMA ShelteredAlone ==
  ASSUME LockInv, Sheltered,
         NEW p \in Procs, NEW r \in Procs, pc[p] \in Section, pc[r] \in Section
  PROVE  p = r
<1>1. CASE crashes = 0
  BY <1>1, HolderAlone DEF LockInv
<1>2. CASE crashes # 0
  <2>1. PICK d \in Procs : pc[d] = "dead"
    BY <1>2 DEF LockInv
  <2>2. d # p /\ d # r
    BY <2>1 DEF Section, Lean
  <2> QED
    BY <1>2, <2>2 DEF Sheltered, AtMostTwo
<1> QED
  BY <1>1, <1>2

(* So the sections exclude each other.                                      *)
LEMMA ShelteredExcludes == LockInv /\ Sheltered => MutualExclusion
BY ShelteredAlone DEF MutualExclusion

(* Each step preserves who holds the lock, and how old it may be.           *)
LEMMA HeldStep ==
  ASSUME TypeOK, TypeOK', HeldInv, [Next]_vars, crashes' = 0
  PROVE  HeldInv'
<1> USE LimitsAssumption, NoFileAssumption DEF Section, Lean, Locks
<1>1. CASE UNCHANGED vars
  BY <1>1 DEF vars, HeldInv, HolderAt
<1>2. CASE Tick
  BY <1>2 DEF Tick, HeldInv, HolderAt, TypeOK, files
<1>3. ASSUME NEW p \in Procs, Enter(p)
      PROVE  HeldInv'
  BY <1>3 DEF Enter, Goto, HeldInv, HolderAt, TypeOK
<1>4. ASSUME NEW p \in Procs, CreateLock(p)
      PROVE  HeldInv'
  BY <1>4 DEF CreateLock, HeldInv, HolderAt, TypeOK
<1>5. ASSUME NEW p \in Procs, StatLock(p)
      PROVE  HeldInv'
  BY <1>5 DEF StatLock, HeldInv, HolderAt, TypeOK
<1>6. ASSUME NEW p \in Procs, StealLock(p) \/ Die(p)
      PROVE  HeldInv'
  BY <1>6 DEF StealLock, Die, Goto, HeldInv
<1>7. ASSUME NEW p \in Procs, WriteSource(p)
      PROVE  HeldInv'
  <2>1. CASE pc' = [pc EXCEPT ![p] = "build"] /\ used' = [used EXCEPT ![p] = 0]
    BY <1>7, <2>1 DEF WriteSource, HeldInv, HolderAt, TypeOK
  <2>2. CASE pc' = [pc EXCEPT ![p] = "release"] /\ used' = used
    BY <1>7, <2>2 DEF WriteSource, HeldInv, HolderAt, TypeOK
  <2> QED
    BY <1>7, <2>1, <2>2 DEF WriteSource
<1>8. ASSUME NEW p \in Procs, Build(p)
      PROVE  HeldInv'
  BY <1>8 DEF Build, Fail, HeldInv, HolderAt, TypeOK
<1>9. ASSUME NEW p \in Procs, Compile(p)
      PROVE  HeldInv'
  BY <1>9 DEF Compile, Fail, HeldInv, HolderAt, TypeOK
<1>10. ASSUME NEW p \in Procs, Inspect(p) \/ KillLean(p) \/ LeanFails(p)
       PROVE  HeldInv'
  BY <1>10 DEF Inspect, KillLean, LeanFails, Fail, HeldInv, HolderAt, TypeOK
<1>11. ASSUME NEW p \in Procs, Cleanup(p)
       PROVE  HeldInv'
  BY <1>11 DEF Cleanup, Goto, HeldInv, HolderAt, TypeOK
<1>12. ASSUME NEW p \in Procs, Release(p)
       PROVE  HeldInv'
  BY <1>12, HolderAlone DEF Release, Goto, HeldInv, HolderAt, TypeOK
<1> QED
  BY <1>1, <1>2, <1>3, <1>4, <1>5, <1>6, <1>7, <1>8, <1>9, <1>10, <1>11, <1>12
  DEF Next, Step

(* The files of the holder are removed by nobody else.                      *)
LEMMA FilesStep ==
  ASSUME LockInv, Sheltered, [Next]_vars, NEW p \in Procs
  PROVE  FilesAt(p)'
<1> USE DEF Section, Lean
<1>0. TypeOK /\ FilesAt(p)
  BY DEF LockInv
<1>1. CASE UNCHANGED vars \/ Tick
  BY <1>0, <1>1 DEF vars, Tick, files, FilesAt
<1>2. ASSUME NEW r \in Procs,
             Enter(r) \/ CreateLock(r) \/ StatLock(r) \/ StealLock(r) \/ Die(r)
      PROVE  FilesAt(p)'
  BY <1>0, <1>2
  DEF Enter, CreateLock, StatLock, StealLock, Die, Goto, files, FilesAt, TypeOK
<1>3. ASSUME NEW r \in Procs, WriteSource(r)
      PROVE  FilesAt(p)'
  BY <1>0, <1>3 DEF WriteSource, FilesAt, TypeOK
<1>4. ASSUME NEW r \in Procs, Build(r)
      PROVE  FilesAt(p)'
  BY <1>0, <1>4 DEF Build, Fail, files, FilesAt, TypeOK
<1>5. ASSUME NEW r \in Procs, Compile(r)
      PROVE  FilesAt(p)'
  BY <1>0, <1>5 DEF Compile, Fail, FilesAt, TypeOK
<1>6. ASSUME NEW r \in Procs, Inspect(r) \/ KillLean(r) \/ LeanFails(r) \/ Release(r)
      PROVE  FilesAt(p)'
  BY <1>0, <1>6 DEF Inspect, KillLean, LeanFails, Release, Fail, Goto, files, FilesAt, TypeOK
<1>7. ASSUME NEW r \in Procs, Cleanup(r)
      PROVE  FilesAt(p)'
  <2>1. pc[p] \in Section => p = r
    BY <1>7, ShelteredAlone DEF Cleanup, Goto
  <2> QED
    BY <1>0, <1>7, <2>1 DEF Cleanup, Goto, FilesAt, TypeOK
<1> QED
  BY <1>1, <1>2, <1>3, <1>4, <1>5, <1>6, <1>7 DEF Next, Step

(* A replay is rejected by a step of Lean that found its files.             *)
LEMMA RejectStep ==
  ASSUME TypeOK, [Next]_vars, \A p \in Procs : FilesAt(p), RejectionsAreGenuine
  PROVE  RejectionsAreGenuine'
<1>1. CASE UNCHANGED vars \/ Tick
  BY <1>1 DEF vars, Tick, files, RejectionsAreGenuine
<1>2. ASSUME NEW r \in Procs,
             Enter(r) \/ CreateLock(r) \/ StatLock(r) \/ StealLock(r) \/ Die(r)
      PROVE  RejectionsAreGenuine'
  BY <1>2
  DEF Enter, CreateLock, StatLock, StealLock, Die, files, RejectionsAreGenuine, TypeOK
<1>3. ASSUME NEW r \in Procs, Cleanup(r) \/ Release(r)
      PROVE  RejectionsAreGenuine'
  BY <1>3 DEF Cleanup, Release, files, RejectionsAreGenuine
<1>4. ASSUME NEW r \in Procs, WriteSource(r) \/ Build(r) \/ KillLean(r) \/ LeanFails(r)
      PROVE  RejectionsAreGenuine'
  BY <1>4
  DEF WriteSource, Build, KillLean, LeanFails, Fail, files, RejectionsAreGenuine,
      TypeOK
<1>5. ASSUME NEW r \in Procs, Compile(r)
      PROVE  RejectionsAreGenuine'
  <2>1. source /\ UNCHANGED provable
    BY <1>5 DEF Compile, FilesAt, Lean
  <2>2. provable => UNCHANGED verdict
    BY <1>5, <2>1 DEF Compile
  <2> QED
    BY <2>1, <2>2 DEF RejectionsAreGenuine
<1>6. ASSUME NEW r \in Procs, Inspect(r)
      PROVE  RejectionsAreGenuine'
  <2>1. olean /\ UNCHANGED provable
    BY <1>6 DEF Inspect, FilesAt, files
  <2>2. provable => verdict' = [verdict EXCEPT ![r] = "accepted"]
    BY <1>6, <2>1 DEF Inspect, Fail
  <2> QED
    BY <2>1, <2>2 DEF RejectionsAreGenuine, TypeOK
<1> QED
  BY <1>1, <1>2, <1>3, <1>4, <1>5, <1>6 DEF Next, Step

(* Each step preserves the invariant ...                                    *)
LEMMA LockInvStep == LockInv /\ [Next]_vars => LockInv'
<1> SUFFICES ASSUME LockInv, [Next]_vars
             PROVE  LockInv'
  OBVIOUS
<1>1. TypeOK /\ TypeOK'
  BY TypeStep DEF LockInv
<1>2. crashes' = crashes \/ \E p \in Procs : Die(p)
  BY DEF Next, Step, vars, Tick, Enter, CreateLock, StatLock, StealLock, WriteSource, Build,
         Compile, Inspect, KillLean, LeanFails, Cleanup, Release
<1>3. crashes \in Nat /\ (crashes' = crashes \/ crashes' = crashes + 1)
  BY <1>1, <1>2, LimitsAssumption DEF TypeOK, Die
<1>4. crashes' = 0 => HeldInv'
  <2> SUFFICES ASSUME crashes' = 0 PROVE HeldInv'
    OBVIOUS
  <2>1. HeldInv
    BY <1>3 DEF LockInv
  <2> QED
    BY <1>1, <2>1, HeldStep
<1>5. crashes' # 0 => \E d \in Procs : pc'[d] = "dead"
  <2>1. ASSUME NEW p \in Procs, Die(p) PROVE pc'[p] = "dead"
    BY <1>1, <2>1 DEF Die, TypeOK
  <2>2. ASSUME NEW d \in Procs, pc[d] = "dead", crashes' = crashes PROVE pc'[d] = "dead"
    BY <1>1, <2>2 DEF Next, Step, vars, Tick, Enter, CreateLock, StatLock, StealLock, WriteSource,
         Build, Compile, Inspect, KillLean, LeanFails, Cleanup, Release, Goto, Fail, Die, TypeOK, Lean,
         Waiting, Section
  <2> QED
    BY <1>2, <2>1, <2>2 DEF LockInv
<1>6. Sheltered' => Sheltered
  BY <1>3 DEF Sheltered
<1>7. Sheltered' => \A p \in Procs : FilesAt(p)'
  BY <1>6, FilesStep
<1>8. Sheltered' => RejectionsAreGenuine'
  BY <1>1, <1>6, RejectStep DEF LockInv
<1> QED
  BY <1>1, <1>4, <1>5, <1>7, <1>8 DEF LockInv

(* ... which holds when no replay has begun ...                             *)
LEMMA LockInvInit == Init => LockInv
<1> SUFFICES ASSUME Init PROVE LockInv
  OBVIOUS
<1>1. TypeOK /\ crashes = 0
  BY TypeInit DEF Init
<1>2. HeldInv
  BY DEF Init, HeldInv, HolderAt, Section, Lean
<1>3. RejectionsAreGenuine /\ \A p \in Procs : FilesAt(p)
  BY DEF Init, RejectionsAreGenuine, FilesAt, Lean
<1> QED
  BY <1>1, <1>2, <1>3 DEF LockInv

(* ... and therefore in every state.                                        *)
LEMMA LockInvAlways == Spec => []LockInv
BY LockInvInit, LockInvStep, PTL DEF Spec

(***************************************************************************)
(* Every variable keeps its type, processes dying or not: above all, no Lean*)
(* process outlives StepLimit.                                              *)
(***************************************************************************)
THEOREM LockTypeCorrect == Spec => []TypeOK
BY TypeInit, TypeStep, PTL DEF Spec

(***************************************************************************)
(* Until a process dies, any number of replays of one module write, compile *)
(* and remove it one at a time: three Lean processes within their limits    *)
(* never make a lock look stale.                                            *)
(***************************************************************************)
THEOREM ReplaysExclude == Spec => [](crashes = 0 => MutualExclusion)
<1>1. LockInv => (crashes = 0 => MutualExclusion)
  BY ShelteredExcludes DEF Sheltered
<1> QED
  BY <1>1, LockInvAlways, PTL

(***************************************************************************)
(* Until a process dies, a replay ends as kernel_rejected only when Lean    *)
(* refuses the module: no replay takes away the files of another.           *)
(***************************************************************************)
THEOREM RejectionsGenuine == Spec => [](crashes = 0 => RejectionsAreGenuine)
<1>1. LockInv => (crashes = 0 => RejectionsAreGenuine)
  BY DEF LockInv, Sheltered
<1> QED
  BY <1>1, LockInvAlways, PTL

(***************************************************************************)
(* Two replays exclude each other also when one of them dies with the lock: *)
(* the other takes it away only when it is stale, and is then alone with    *)
(* what the dead one has left.                                              *)
(***************************************************************************)
THEOREM TwoReplaysExclude == ASSUME AtMostTwo PROVE Spec => []MutualExclusion
<1>1. LockInv => MutualExclusion
  BY ShelteredExcludes DEF Sheltered
<1> QED
  BY <1>1, LockInvAlways, PTL

(***************************************************************************)
(* Of two replays, one is rejected only when Lean refuses the module,       *)
(* although it may find the source or the olean of one that died.           *)
(***************************************************************************)
THEOREM TwoReplaysAreGenuine == ASSUME AtMostTwo PROVE Spec => []RejectionsAreGenuine
<1>1. LockInv => RejectionsAreGenuine
  BY DEF LockInv, Sheltered
<1> QED
  BY <1>1, LockInvAlways, PTL

-----------------------------------------------------------------------------
(* The refinement: a replay that has left the section has decided, and has  *)
(* accepted only what Lean accepts.                                         *)
Decided(p) ==
  /\ pc[p] \in {"cleanup", "release", "ended"} => verdict[p] # "none"
  /\ verdict[p] = "accepted" => provable

OutcomeInv == LockInv /\ \A p \in Procs : Decided(p)

LEMMA DecidedStep ==
  ASSUME TypeOK, [Next]_vars, \A p \in Procs : Decided(p), NEW p \in Procs
  PROVE  Decided(p)'
<1> USE DEF Decided
<1>0. Decided(p)
  OBVIOUS
<1>1. CASE UNCHANGED vars \/ Tick
  BY <1>0, <1>1 DEF vars, Tick, files
<1>2. ASSUME NEW r \in Procs, Enter(r) \/ CreateLock(r) \/ StealLock(r) \/ Die(r)
      PROVE  Decided(p)'
  BY <1>0, <1>2 DEF Enter, CreateLock, StealLock, Die, Goto, files, TypeOK
<1>3. ASSUME NEW r \in Procs, StatLock(r)
      PROVE  Decided(p)'
  BY <1>0, <1>3 DEF StatLock, files, TypeOK
<1>4. ASSUME NEW r \in Procs, WriteSource(r)
      PROVE  Decided(p)'
  BY <1>0, <1>4 DEF WriteSource, TypeOK
<1>5. ASSUME NEW r \in Procs, Build(r) \/ KillLean(r) \/ LeanFails(r)
      PROVE  Decided(p)'
  BY <1>0, <1>5 DEF Build, KillLean, LeanFails, Fail, files, TypeOK
<1>6. ASSUME NEW r \in Procs, Compile(r)
      PROVE  Decided(p)'
  BY <1>0, <1>6 DEF Compile, Fail, TypeOK
<1>7. ASSUME NEW r \in Procs, Inspect(r)
      PROVE  Decided(p)'
  BY <1>0, <1>7 DEF Inspect, Fail, files, TypeOK
<1>8. ASSUME NEW r \in Procs, Cleanup(r) \/ Release(r)
      PROVE  Decided(p)'
  BY <1>0, <1>8 DEF Cleanup, Release, Goto, files, TypeOK
<1> QED
  BY <1>1, <1>2, <1>3, <1>4, <1>5, <1>6, <1>7, <1>8 DEF Next, Step

LEMMA OutcomeInvAlways == Spec => []OutcomeInv
<1>1. Init => OutcomeInv
  BY LockInvInit DEF Init, OutcomeInv, Decided
<1>2. OutcomeInv /\ [Next]_vars => OutcomeInv'
  <2> SUFFICES ASSUME OutcomeInv, [Next]_vars PROVE OutcomeInv'
    OBVIOUS
  <2>1. LockInv'
    BY LockInvStep DEF OutcomeInv
  <2>2. \A p \in Procs : Decided(p)'
    BY DecidedStep DEF OutcomeInv, LockInv
  <2> QED
    BY <2>1, <2>2 DEF OutcomeInv
<1> QED
  BY <1>1, <1>2, PTL DEF Spec

Answers == [p \in Procs |-> IF pc[p] = "ended" THEN verdict[p] ELSE "pending"]

(* The end of one replay is its answer; nothing else answers.               *)
LEMMA OutcomeStep ==
  ASSUME OutcomeInv, RejectionsAreGenuine, [Next]_vars
  PROVE  [Outcome!LNext]_(Outcome!lvars)
<1>1. TypeOK /\ provable' = provable
  <2>1. TypeOK
    BY DEF OutcomeInv, LockInv
  <2>2. provable' = provable
    BY DEF Next, Step, vars, files, Tick, Enter, CreateLock, StatLock, StealLock, WriteSource,
           Build, Compile, Inspect, KillLean, LeanFails, Cleanup, Release, Die
  <2> QED
    BY <2>1, <2>2
<1>2. ASSUME NEW p \in Procs, pc[p] # "ended",
             pc' = [pc EXCEPT ![p] = "ended"],
             \A q \in Procs : q # p => verdict'[q] = verdict[q],
             verdict'[p] \in {"unavailable", "limit", "error",
                              IF provable THEN "accepted" ELSE "rejected"}
      PROVE  Outcome!LNext
  <2>1. Answers' = [Answers EXCEPT ![p] = verdict'[p]]
    <3>1. ASSUME NEW q \in Procs PROVE Answers'[q] = [Answers EXCEPT ![p] = verdict'[p]][q]
      BY <1>1, <1>2 DEF Answers, TypeOK
    <3> QED
      BY <3>1 DEF Answers
  <2>2. Answers[p] = "pending"
    BY <1>2 DEF Answers
  <2>3. Outcome!Decide(p)
    BY <1>1, <1>2, <2>1, <2>2
    DEF Outcome!Decide, Outcome!Decision, Outcome!NoDecision, Answers
  <2> QED
    BY <2>3 DEF Outcome!LNext
<1>3. ASSUME \A p \in Procs : /\ pc'[p] = "ended" <=> pc[p] = "ended"
                              /\ pc[p] = "ended" => verdict'[p] = verdict[p]
      PROVE  UNCHANGED Outcome!lvars
  <2>1. Answers' = Answers
    BY <1>3 DEF Answers
  <2> QED
    BY <1>1, <2>1 DEF Outcome!lvars, Answers
<1>4. CASE UNCHANGED vars \/ Tick
  BY <1>3, <1>4 DEF vars, Tick, files
<1>5. ASSUME NEW r \in Procs, StatLock(r), pc'[r] = "ended"
      PROVE  Outcome!LNext
  BY <1>1, <1>2, <1>5 DEF StatLock, TypeOK
<1>6. ASSUME NEW r \in Procs, Release(r)
      PROVE  Outcome!LNext
  <2>1. verdict[r] \in {"unavailable", "limit", "error",
                        IF provable THEN "accepted" ELSE "rejected"}
    BY <1>1, <1>6 DEF OutcomeInv, Decided, Release, Goto, RejectionsAreGenuine, TypeOK, Verdicts
  <2> QED
    BY <1>2, <1>6, <2>1 DEF Release, Goto
<1>7. ASSUME NEW r \in Procs, StatLock(r), pc'[r] # "ended"
      PROVE  UNCHANGED Outcome!lvars
  BY <1>1, <1>3, <1>7 DEF StatLock, TypeOK
<1>8. ASSUME NEW r \in Procs,
             Enter(r) \/ CreateLock(r) \/ StealLock(r) \/ Cleanup(r)
      PROVE  UNCHANGED Outcome!lvars
  BY <1>1, <1>3, <1>8 DEF Enter, CreateLock, StealLock, Cleanup, Goto, TypeOK
<1>9. ASSUME NEW r \in Procs,
             WriteSource(r) \/ Build(r) \/ Compile(r) \/ Inspect(r) \/ KillLean(r) \/ LeanFails(r)
      PROVE  UNCHANGED Outcome!lvars
  <2>1. /\ pc[r] # "ended" /\ pc'[r] # "ended"
        /\ \A q \in Procs : q # r => pc'[q] = pc[q] /\ verdict'[q] = verdict[q]
    BY <1>1, <1>9 DEF WriteSource, Build, Compile, Inspect, KillLean, LeanFails, Fail, TypeOK, Lean
  <2> QED
    BY <1>3, <2>1
<1>10. ASSUME NEW r \in Procs, Die(r)
       PROVE  UNCHANGED Outcome!lvars
  BY <1>1, <1>3, <1>10 DEF Die, TypeOK, Waiting, Section, Lean
<1> QED
  BY <1>4, <1>5, <1>6, <1>7, <1>8, <1>9, <1>10 DEF Next, Step

(***************************************************************************)
(* With the lock, the replays of one module are as good as one step each:   *)
(* every one that ends answers once, with what Lean says of the module or   *)
(* with no decision.  For any number of replays as long as none dies, and   *)
(* for two of which any may die.  It is why ReplayRecord, where the Lean    *)
(* step is one action, need not know the lock.                              *)
(***************************************************************************)
THEOREM ReplayIsOneStep ==
  ASSUME MaxCrashes = 0 \/ AtMostTwo
  PROVE  Spec => ImplementsLeanStep
<1>1. LockInv => RejectionsAreGenuine
  <2>1. LockInv => Sheltered
    BY DEF LockInv, TypeOK, Sheltered
  <2> QED
    BY <2>1 DEF LockInv
<1>2. Init => Outcome!LInit
  BY DEF Init, Outcome!LInit
<1>3. OutcomeInv /\ [Next]_vars => [Outcome!LNext]_(Outcome!lvars)
  BY <1>1, OutcomeStep DEF OutcomeInv
<1> QED
  BY <1>2, <1>3, OutcomeInvAlways, PTL DEF Spec, ImplementsLeanStep, Outcome!LSpec

=============================================================================
