------------------------------ MODULE ReplayLock ------------------------------
(***************************************************************************)
(* The file lock of the kernel replay (adapters/common/kernel_replay.py,    *)
(* _module_lock) and the section it protects (_compile_and_inspect): one    *)
(* generated Lean module is written, compiled and inspected, and removed.   *)
(* Server threads, other servers and CLI runs replay the same candidate     *)
(* bundle under the same module name; each is a process here.               *)
(*                                                                          *)
(* The module is for one module name: locks of different names share        *)
(* nothing.  Time passes in units, by Tick; a lock file's age is the time   *)
(* since it was created, for nothing touches it later.  The Python steps    *)
(* between two Lean processes take no time; a process that runs Lean is     *)
(* killed at StepLimit.  The code's values are StepLimit = 600 s,           *)
(* StaleAge = max(1800, 2 * 600) s and WaitLimit = 600 s.                   *)
(***************************************************************************)
EXTENDS Naturals

CONSTANTS
  Procs,       \* processes that replay the bundle
  StepLimit,   \* limit of one Lean process (_run_process)
  StaleAge,    \* a lock older than this may be taken away
  WaitLimit,   \* time after which a waiter gives up
  MaxCrashes,  \* bound: processes that die
  NoFile       \* the lock file does not exist

ASSUME LimitsAssumption ==
  /\ StepLimit \in Nat /\ StaleAge \in Nat /\ WaitLimit \in Nat
  /\ MaxCrashes \in Nat
  /\ 3 * StepLimit <= StaleAge

ASSUME NoFileAssumption == NoFile \notin [owner : Procs, age : Nat]

VARIABLES
  lock,      \* NoFile, or the process that created the lock file and its age
  source,    \* the generated .lean file exists
  olean,     \* the compiled module exists
  provable,  \* Lean accepts the generated module and its declaration
  pc,        \* next step of each process
  waited,    \* time a process has been waiting for the lock
  used,      \* time the running Lean process has taken
  verdict,   \* how a replay ended
  crashes    \* processes that died so far

vars == <<lock, source, olean, provable, pc, waited, used, verdict, crashes>>

Init ==
  /\ lock = NoFile
  /\ source = FALSE
  /\ olean = FALSE
  /\ provable \in BOOLEAN
  /\ pc = [p \in Procs |-> "idle"]
  /\ waited = [p \in Procs |-> 0]
  /\ used = [p \in Procs |-> 0]
  /\ verdict = [p \in Procs |-> "none"]
  /\ crashes = 0

Lean    == {"build", "compile", "inspect"}
Section == {"write", "cleanup", "release"} \cup Lean
Waiting == {"create", "stat", "steal"}

Goto(p, from, to) ==
  /\ pc[p] = from
  /\ pc' = [pc EXCEPT ![p] = to]

Fail(p, why) ==
  /\ pc' = [pc EXCEPT ![p] = "cleanup"]
  /\ verdict' = [verdict EXCEPT ![p] = why]

files == <<source, olean, provable>>

-----------------------------------------------------------------------------
(* run_kernel_replay reaches _module_lock.                                  *)
Enter(p) ==
  /\ Goto(p, "idle", "create")
  /\ UNCHANGED <<lock, files, waited, used, verdict, crashes>>

(* Mutant of CreateLock: the file is opened without O_EXCL.                 *)
CreateLockShared(p) ==
  /\ Goto(p, "create", "write")
  /\ lock' = [owner |-> p, age |-> 0]
  /\ UNCHANGED <<files, waited, used, verdict, crashes>>

(* os.open(lock_path, O_CREAT | O_EXCL).                                    *)
CreateLock(p) ==
  /\ pc[p] = "create"
  /\ \/ /\ lock = NoFile
        /\ lock' = [owner |-> p, age |-> 0]
        /\ pc' = [pc EXCEPT ![p] = "write"]
     \/ /\ lock # NoFile
        /\ pc' = [pc EXCEPT ![p] = "stat"]
        /\ UNCHANGED lock
  /\ UNCHANGED <<files, waited, used, verdict, crashes>>

(* Mutant of StatLock: a lock is stale as soon as the waiter's limit.       *)
StatLockEager(p) ==
  /\ pc[p] = "stat"
  /\ pc' = [pc EXCEPT ![p] =
              IF lock # NoFile /\ lock.age >= WaitLimit THEN "steal" ELSE "create"]
  /\ UNCHANGED <<lock, files, waited, used, verdict, crashes>>

(* lock_path.stat(): a lock that is gone is tried again at once, a stale    *)
(* one is taken away; on any other the deadline is checked, and the next    *)
(* try is 0.05 s later.                                                     *)
StatLock(p) ==
  /\ pc[p] = "stat"
  /\ \/ /\ lock = NoFile
        /\ pc' = [pc EXCEPT ![p] = "create"]
        /\ UNCHANGED verdict
     \/ /\ lock # NoFile
        /\ lock.age > StaleAge
        /\ pc' = [pc EXCEPT ![p] = "steal"]
        /\ UNCHANGED verdict
     \/ /\ lock # NoFile
        /\ lock.age <= StaleAge
        /\ waited[p] >= WaitLimit
        /\ pc' = [pc EXCEPT ![p] = "ended"]
        /\ verdict' = [verdict EXCEPT ![p] = "limit"]
     \/ /\ lock # NoFile
        /\ lock.age <= StaleAge
        /\ waited[p] < WaitLimit
        /\ pc' = [pc EXCEPT ![p] = "create"]
        /\ UNCHANGED verdict
  /\ UNCHANGED <<lock, files, waited, used, crashes>>

(* Mutant of StealLock: the stale file cannot be unlinked, and is tried     *)
(* again.                                                                   *)
StealLockFails(p) ==
  /\ Goto(p, "steal", "create")
  /\ UNCHANGED <<lock, files, waited, used, verdict, crashes>>

(* lock_path.unlink(missing_ok=True) of the lock found stale: whatever file *)
(* has that name by now.                                                    *)
StealLock(p) ==
  /\ Goto(p, "steal", "create")
  /\ lock' = NoFile
  /\ UNCHANGED <<files, waited, used, verdict, crashes>>

(* source_path.write_text comes before the inner try: when it raises, the   *)
(* replay leaves the section without Cleanup.                               *)
WriteSource(p) ==
  /\ pc[p] = "write"
  /\ \/ /\ source' = TRUE
        /\ pc' = [pc EXCEPT ![p] = "build"]
        /\ used' = [used EXCEPT ![p] = 0]
        /\ UNCHANGED verdict
     \/ /\ source' \in {source, TRUE}
        /\ pc' = [pc EXCEPT ![p] = "release"]
        /\ verdict' = [verdict EXCEPT ![p] = "error"]
        /\ UNCHANGED used
  /\ UNCHANGED <<lock, olean, provable, waited, crashes>>

(* lake build of the checkers, which may fail (replay_dependency_missing).  *)
Build(p) ==
  /\ pc[p] = "build"
  /\ \/ /\ pc' = [pc EXCEPT ![p] = "compile"]
        /\ used' = [used EXCEPT ![p] = 0]
        /\ UNCHANGED verdict
     \/ /\ Fail(p, "unavailable")
        /\ UNCHANGED used
  /\ UNCHANGED <<lock, files, waited, crashes>>

(* lake env lean -o olean source: without the source it fails, and with one *)
(* that is not sound it may; the replay ends as kernel_rejected.  Any exit  *)
(* status but zero counts, that of a killed or an exhausted process too: it *)
(* is part of what "provable" means that Lean comes to an end by itself.    *)
Compile(p) ==
  /\ pc[p] = "compile"
  /\ \/ /\ source
        /\ olean' = TRUE
        /\ pc' = [pc EXCEPT ![p] = "inspect"]
        /\ used' = [used EXCEPT ![p] = 0]
        /\ UNCHANGED verdict
     \/ /\ ~(source /\ provable)
        /\ Fail(p, "rejected")
        /\ UNCHANGED <<olean, used>>
  /\ UNCHANGED <<lock, source, provable, waited, crashes>>

(* lake exe mathevidence-declaration-identity: it loads the olean and must  *)
(* report the declaration.                                                  *)
Inspect(p) ==
  /\ pc[p] = "inspect"
  /\ Fail(p, IF olean /\ provable THEN "accepted" ELSE "rejected")
  /\ UNCHANGED <<lock, files, waited, used, crashes>>

(* run_bounded kills the Lean process, resource_limit_exceeded; the waits   *)
(* after the kill may themselves time out, with a plain exception.          *)
KillLean(p) ==
  /\ pc[p] \in Lean
  /\ used[p] = StepLimit
  /\ \E why \in {"limit", "error"} : Fail(p, why)
  /\ UNCHANGED <<lock, files, waited, used, crashes>>

(* run_bounded cannot start the Lean process, or its output is too long.    *)
LeanFails(p) ==
  /\ pc[p] \in Lean
  /\ \E why \in {"unavailable", "limit"} : Fail(p, why)
  /\ UNCHANGED <<lock, files, waited, used, crashes>>

(* The inner finally: source and olean are unlinked.                        *)
Cleanup(p) ==
  /\ Goto(p, "cleanup", "release")
  /\ source' = FALSE
  /\ olean' = FALSE
  /\ UNCHANGED <<lock, provable, waited, used, verdict, crashes>>

(* The finally of _module_lock: lock_path.unlink(missing_ok=True).          *)
Release(p) ==
  /\ Goto(p, "release", "ended")
  /\ lock' = NoFile
  /\ UNCHANGED <<files, waited, used, verdict, crashes>>

(* A process dies (SIGKILL, power), or cannot write its number to the lock  *)
(* file it has created: no finally runs, its files stay.                    *)
Die(p) ==
  /\ crashes < MaxCrashes
  /\ pc[p] \in Waiting \cup Section
  /\ pc' = [pc EXCEPT ![p] = "dead"]
  /\ crashes' = crashes + 1
  /\ UNCHANGED <<lock, files, waited, used, verdict>>

(* Mutant of Tick: Lean processes run without a limit.                      *)
TickUnlimited ==
  /\ \A p \in Procs : pc[p] \notin Section \ Lean
  /\ lock' = IF lock = NoFile \/ lock.age > StaleAge
               THEN lock ELSE [lock EXCEPT !.age = @ + 1]
  /\ waited' = [p \in Procs |->
                  IF pc[p] \in Waiting /\ waited[p] < WaitLimit
                    THEN waited[p] + 1 ELSE waited[p]]
  /\ used' = [p \in Procs |-> IF pc[p] \in Lean THEN used[p] + 1 ELSE used[p]]
  /\ UNCHANGED <<files, pc, verdict, crashes>>

(* Time passes; the counters stop at the values that are compared with.     *)
Tick ==
  /\ \A p \in Procs :
       /\ pc[p] \notin Section \ Lean
       /\ pc[p] \in Lean => used[p] < StepLimit
  /\ lock' = IF lock = NoFile \/ lock.age > StaleAge
               THEN lock ELSE [lock EXCEPT !.age = @ + 1]
  /\ waited' = [p \in Procs |->
                  IF pc[p] \in Waiting /\ waited[p] < WaitLimit
                    THEN waited[p] + 1 ELSE waited[p]]
  /\ used' = [p \in Procs |-> IF pc[p] \in Lean THEN used[p] + 1 ELSE used[p]]
  /\ UNCHANGED <<files, pc, verdict, crashes>>

Step(p) ==
  \/ CreateLock(p) \/ StatLock(p) \/ StealLock(p)
  \/ WriteSource(p) \/ Build(p) \/ Compile(p) \/ Inspect(p)
  \/ KillLean(p) \/ LeanFails(p) \/ Cleanup(p) \/ Release(p)

Next ==
  \/ Tick
  \/ \E p \in Procs : Enter(p) \/ Step(p) \/ Die(p)

(* Live processes run, Lean processes end or are killed, and time passes;   *)
(* that a replay is asked for, or that a process dies, is not assumed.      *)
Fairness == WF_vars(Tick) /\ \A p \in Procs : WF_vars(Step(p))

Spec == Init /\ [][Next]_vars /\ Fairness

-----------------------------------------------------------------------------
Verdicts == {"none", "unavailable", "accepted", "rejected", "limit", "error"}

(* Every variable stays within the values the code can give it.             *)
TypeOK ==
  /\ lock \in {NoFile} \cup [owner : Procs, age : 0..(StaleAge + 1)]
  /\ source \in BOOLEAN /\ olean \in BOOLEAN /\ provable \in BOOLEAN
  /\ pc \in [Procs -> {"idle", "ended", "dead"} \cup Waiting \cup Section]
  /\ waited \in [Procs -> 0..WaitLimit]
  /\ used \in [Procs -> 0..StepLimit]
  /\ verdict \in [Procs -> Verdicts]
  /\ crashes \in 0..MaxCrashes

(* At most one process writes, compiles, inspects or removes the generated  *)
(* module (_module_lock: "Cross-process lock for one deterministic          *)
(* generated replay module").                                               *)
MutualExclusion ==
  \A p, r \in Procs : (pc[p] \in Section /\ pc[r] \in Section) => p = r

(* A replay ends as kernel_rejected only when Lean refuses the module, never*)
(* because another replay removed the files it was working on.              *)
RejectionsAreGenuine ==
  \A p \in Procs : verdict[p] = "rejected" => ~provable

(* The lock, the files and the Lean processes together are one step: its    *)
(* outcome is Lean's, or none, and is not changed by what the others do or  *)
(* leave behind.  A process that died never answers.                        *)
Outcome == INSTANCE LeanStep WITH
  Replays <- Procs,
  sound <- provable,
  answers <- [p \in Procs |-> IF pc[p] = "ended" THEN verdict[p] ELSE "pending"]

(* ReplayRecord relies on it: there, _compile_and_inspect is an action.     *)
ImplementsLeanStep == Outcome!LSpec

(* Nobody waits or works forever, also behind the lock of a process that    *)
(* died: a replay that has begun ends, with a verdict, or dies.             *)
ReplaysEnd ==
  \A p \in Procs : (pc[p] = "create") ~> (pc[p] \in {"ended", "dead"})

=============================================================================
