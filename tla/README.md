# Formal model of MathEvidence

MathEvidence lets untrusted computer algebra systems compute mathematical
evidence, stores the evidence as content-addressed bundles, and has Lean's
kernel replay it. Its parts are called by agents through an HTTP API whose
handlers run concurrently and share one directory tree. This project models the
parts whose correctness depends on what runs at the same time, on what fails
half way, and on what a caller may conclude from an answer: the bundle store
with the handlers that write to it, the lock and the record of the kernel
replay, the RPC to the adapters, the offline exact bundles, and the trust
surface on which records, conjectures, condition lattices and plans meet. TLC
checks small instances, and TLAPS proves the main results for every value of the
constants.

All line numbers refer to the source tree beside this directory; `PROJECT.json`
maps every definition to the lines it models.

## 1. Inventory

| Component | State it keeps | Operations | Interacts with |
|---|---|---|---|
| Bundle store (`agent/api/bundle_store.py`) | `agent/store/bundles/<id>`: entries `sha256_<hex>`, directories named by callers, legacy stems; index files per request and per candidate | resolve a write target, write, verify, commit, append to the request index, look up, commit a Certification Record | called by every handler; file system only, no lock |
| Agent API (`agent/api/server.py`, `service.py`, `operations.py`) | none in memory but the store handle; one thread per HTTP request | compute, open, inspect, verify, replay, hypothesis, plan, conjecture | all others |
| Candidate Bundle (`adapters/common/bundle.py`) | a directory of role files and a manifest with their digests | write, verify (strict closure, binding payload) | store, replay |
| Kernel replay (`adapters/common/kernel_replay.py`) | lock files, a generated `.lean` module and its `.olean`, a pending Certification Record | verify a bundle, generate a module, compile and inspect it under a lock, write the record | bundle, bounded processes, store |
| Bounded process (`adapters/common/bounded_process.py`) | a child process group, its output | run with a time limit, kill | replay, adapters |
| Adapter RPC (`rpc_client.py`, `protocol.py`, `framing.py`, `discovery.py`) | one child server, its pipes, request ids | handshake, call, cancel, shut down, fall back to computing in-process | adapters |
| Adapters (SymPy, Sage, Mathematica) | a backend process per computation | compute evidence | untrusted oracle |
| Receipts and certification (`agent/api/receipt.py`, `receipt_crypto.py`) | records on disk, a development key made on first use | issue, sign, check against candidate, registry and environment | replay, assurance policy |
| Assurance policy (`assurance_policy.py`, `registry_query.py`) | the registry files | accept an entry, decide what it permits | API, replay, receipts |
| Exact replay and offline bundles (`exact_replay/`) | a bundle directory, the lock of the workspace | build, tamper with, replay in two modes | bounded processes |
| Conjecture, hypothesis, trace to plan (`agent/...`) | values passed by the caller | episode transitions, campaigns, condition lattices, plans | records, mirrors |
| Graph family (`agent/conjecture/finite_graph.py`) | a file of graphs | load, invariants, a calibrated batch | campaigns |
| Lean library, foundry, scripts, studio, registry | static data, batch outputs | - | - |

What is hard about it:

* **Interleaving.** `ThreadingHTTPServer` runs handlers concurrently, several
  servers and command-line runs may share one checkout, and the store takes no
  lock. Between two file operations of a handler anything may happen.
* **Failure half way.** Role files are written in place, the directory is
  verified, copied and renamed, and only then listed. Each of these may fail or
  be the last thing the server does.
* **Time.** The replay lock is a file; a lock older than 1800 s is taken away
  by whoever finds it, in two steps (`stat`, `unlink`), while its owner may or
  may not be dead. Lean processes are killed at 600 s.
* **Partial failure.** The commit of a Certification Record may fail silently;
  a kill of a process group may itself time out; an adapter server may die or
  print noise between two messages.
* **Trust over time.** A record is verified when it is used. What it made of an
  episode or a plan stays, while the registry is edited and the environment
  moves on; and a status passes through a manifest, a receipt, an answer and a
  label, each with its own idea of "verified".

What makes each component correct: an entry of the store is the bundle that its
digest names and never changes; an answer names a stored bundle of the caller's
own evidence; the index lists only what is stored, and lists what was answered;
replays of one module exclude each other, are rejected only because Lean
refuses the module, and end; a stored record is the one its id names, issued on
a check of the candidate it names, and only such a record is answered as
verified; what is issued verifies, as long as registry and environment stay,
and no longer; an RPC answer fits its request, and the call ends; an offline
bundle is accepted only as one build left it, and in both modes alike; a
conjecture is falsified or proved, a set certified and a plan step advanced only
with a record that verified (or, for a proof, with a source proof that the
caller declares validated); what the mirrors compute is what it is called.

`PROJECT.json` lists under `hazards` the places where these can go wrong, with
the properties that would notice.

## 2. Plan

Done:

1. `AtomicStore`, `BundleStore`: compute handlers and the store, with the proof
   that the store implements the atomic one.
2. `ReplayLock`: the lock of the kernel replay, and its exclusion proof.
3. `ReplayRecord`: the Certification Record around the lock, from the bundle
   directory to `verify_certification_record`.
4. `Adapters`, `AdapterRpc`: the adapters and the call to one of them.
5. `ExactPlugins`, `BoundedProcess`, `OfflineBundle`: offline exact bundles and
   the Lean processes that check them.
6. `Certification`, `AgentAnswers`, `Conjecture`, `ConditionLattice`,
   `ProofPlan`, composed in `AgentTrust`.
7. `FiniteGraph`: the graphs that campaigns run on.

8. `ReplayRecordProofs`: types, the index and what is recorded for any replayers,
   whole records and exact verification when no two replay one declaration.
9. `AdapterRpcProofs`: types, fitting evidence, refused flaws and no orphaned
   backend for any jobs.
10. `OfflineBundleProofs`: types, acceptance, soundness, agreement of the modes
    and tampering for any cases.
11. `AgentTrustProofs`: types, labels, plans, campaigns and lattices, so that all
    the invariants of the agent run are theorems.
12. `FiniteGraphProofs`: types, and that an id names its graph; `ReplayLockProofs`
    with processes that die.
13. `InvariantsAreRight` for every graph, in parts: the edge count (a double
    count over the vertices), the components and the colouring (what the search
    reaches), the order of the degrees, the triangles, and what is recorded as the
    diameter (its distances).
14. `LeanStep`, what the lock and its section amount to, and the proof that
    `ReplayLock` implements it.

The abstract specifications are those of the two places where many steps are to
look like one: `AtomicStore` and `LeanStep`. What would come next is the
arithmetic of the Python mirrors, which is left to Lean here (section 6).

## 3. Modules

| Module | Models or holds |
|---|---|
| `AtomicStore` | what the store promises: entries appear in one step, complete, and stay; answers name stored bundles; the index lists stored bundles only |
| `BundleStore` | the compute handlers and the store, one action per file-system effect; the refinement mapping `Atomic` |
| `MCBundleStore` | instances: who may be asked for what, and where it is written |
| `BundleStoreProofs` | `TypeOK` as an invariant, with `HandlerInv`, what a busy handler holds; the index; the entries, the answers and the refinement |
| `LeanStep` | what the replay of a module promises: one answer for each replayer, which is Lean's decision or none |
| `ReplayLock`, `MCReplayLock` | the lock file and the section it protects, for the replays of one module; the refinement mapping `Outcome` |
| `ReplayLockProofs` | exclusion, genuine rejections and the refinement |
| `ReplayRecord`, `MCReplayRecord` | the record that a replay writes, its commit, and its verification when it is opened |
| `ReplayRecordProofs` | types, the index, what may be recorded, whole records, exact verification |
| `Adapters` | for each backend and capability, the checks that a request passes, in order, and the code of each failure |
| `AdapterRpc`, `MCAdapterRpc` | `discover()` with its server, pipes, threads and fallback |
| `AdapterRpcProofs` | types, what answers are about, and why nothing is orphaned |
| `BoundedProcess` | `run_bounded`, with a process that the command started; its own specification and the part that `OfflineBundle` uses |
| `ExactPlugins` | what each of the six generators refuses, and what its source depends on |
| `OfflineBundle`, `MCOfflineBundle` | builds, edits and both replay modes of one bundle directory |
| `OfflineBundleProofs` | types, what is accepted and proved, agreement of the modes, edits |
| `Certification` | registry entries, records, and when they are issued and verify: operators of their inputs |
| `AgentAnswers` | what every operation answers about trust, and Studio's label |
| `Conjecture`, `ConditionLattice`, `ProofPlan` | episodes and campaigns, lattices, plans: operators of their inputs |
| `AgentTrust`, `MCAgentTrust` | a client of all these while registry and environment change |
| `AgentTrustProofs` | records, registry, what the marks of an artifact go back to, labels, plans, campaigns and lattices |
| `FiniteGraph`, `MCFiniteGraph` | Graph6, loading an atlas, invariants |
| `FiniteGraphProofs` | types, that Graph6 is read back as it is written, and what the recorded invariants are of the graph |
| `LoopInduction` | lemmas for loops that are recursive functions; shared by `AgentTrustProofs` and `FiniteGraphProofs` |

### BundleStore

A handler of `compute_evidence` that has its evidence goes through

    write* -> manifest -> verify -> exists -> copy* -> (rename) -> index -> append

| Step | Code | Action |
|---|---|---|
| adapter has answered, target resolved | `service.py:291` | `ComputeEvidence` |
| one role file, in place | `bundle.py:324` | `WriteRole` |
| manifest, from the files read back | `bundle.py:338` | `WriteManifest` |
| verification of the source directory | `bundle_store.py:361` | `VerifySource` |
| an entry is there: same, different, none | `bundle_store.py:390` | `CheckStore` |
| one file to the temporary directory | `bundle_store.py:404` | `CopyFile` |
| `os.replace` of the directory | `bundle_store.py:406` | `Publish` |
| index read, index replaced and answer | `bundle_store.py:277-298` | `ReadIndex`, `WriteIndex` |
| an exception anywhere, a crash anywhere | `server.py:146` | `IOError`, `Crash` |

State: `fs` maps every place where a bundle directory can be (`OpaqueDirs`, the
directories callers name, and one place per digest, the entries) to its files;
`index` is the request index; the rest is what each handler holds in memory, and
`acked` remembers the answers.

Abstractions:

* The bytes of a file are the request or evidence it was written from. The
  role `request` depends on the request only, the other roles on the evidence.
* A digest is the manifest binding payload that it hashes: no collisions.
  The set of digests therefore contains every mixture of role files, so a
  mixed directory has a digest of its own.
* Verification, the computation of a manifest, the comparison with an existing
  entry, and the writing of a single role file are one step each. Each reads
  or writes one directory, which in every run is its handler's own. Handlers
  that share one can mix their files, see "Departures".
* Temporary directories have random names, so they belong to their handler.
  One left behind by a crash is never read and is dropped from the model.
* The existing entry is compared with `fs` of the source, as the code does; the
  cleanup of legacy directory names is left out.
* Requests refused before anything is written change no state.

### ReplayLock

A replay goes through

    create <-> stat -> steal -> create;  write -> build -> compile -> inspect
        -> cleanup -> release -> ended

`CreateLock` is `os.open(O_CREAT|O_EXCL)`, `StatLock` the three outcomes of the
age and deadline test, `StealLock` the `unlink` of a stale lock, which removes
whatever file has that name by then. `WriteSource`, `Build`, `Compile` and
`Inspect` are the section, `KillLean` the time limit of a Lean process,
`LeanFails` one that cannot be started, `Cleanup` and `Release` the two `finally` clauses, and `Die` a process that dies
with its files and its lock left behind. `Tick` lets time pass. The counters
stop at the values the code compares with.

Abstractions: Python steps between two Lean processes take no time, and a Lean
process is gone when its limit is reached (the code's grace period for the kill
is 2 s). The assumption `3 * StepLimit <= StaleAge` is the code's `1800 = 3 *
600` and leaves no slack for those seconds, see the hazards. Whether the module is provable, that is, whether Lean accepts it and
reports its declaration, is a constant of the behaviour, chosen initially;
whether the checkers build is chosen each time. The code takes every exit status
but zero of a Lean process for a rejection (`kernel_replay.py:518`, `:543`), that of
one that ran out of memory or was killed from outside too; such an end counts
here as part of what Lean says of the module. The verdict `error` stands for
the failures of the file system and of starting a process, which are no
statement about the module.

`LeanStep` is the same without lock, files and time: `Decide` gives a replay its
answer, Lean's decision or none. `ReplayRecord` has the Lean step as one action,
`Compile`, and that `ReplayLock` implements `LeanStep` justifies it. Where it does not
(three processes, one dead), a replay may be rejected because of another, which
`Compile` allows as well; it is never accepted because of another (`Decided`).

### ReplayRecord

A replay and its commit go through

    idle -> certificate -> manifest -> lean -> digest -> clear
         -> identity -> receipt -> entries -> verify
         -> commit -> exists -> list -> copy* -> (rename) -> index -> append

| Step | Code | Action |
|---|---|---|
| the directory verifies | `kernel_replay.py:581` | `VerifyBundle` |
| certificate, manifest: two reads | `kernel_replay.py:589`, `:613` | `LoadCertificate`, `LoadManifest` |
| Lean accepts or refuses | `kernel_replay.py:675` | `Compile` |
| certificate again, for its digest | `kernel_replay.py:781` | `DigestCertificate` |
| the pending directory is removed, written, verified | `kernel_replay.py:826-850` | `ClearPending` to `VerifyRecord` |
| the commit; its exceptions are dropped | `service.py:880-889`, `bundle_store.py:361-416` | `CommitVerify` to `WriteIndex`, `AnswersAnyway` |
| `compute_evidence` rewrites the directory | `bundle.py:324-366` | `RewriteCertificate`, `RewriteManifest` |
| the verification of a record, with its fresh replay | `receipt.py:437-639` | `VerifyCertificationRecord` |

State: `bundle` is the directory that is replayed, `pending` maps declarations
to the files of their pending directory, `store` and `listed` are the
certification side of the store, `got` is what a replayer has read of the
candidate. `base` is the declaration name that each replayer is called with;
`Callings` says which combinations there are. `answers` and `verified` remember
answers.

Abstractions:

* A candidate bundle is its certificate, and its digest is the candidate: the
  manifest names the candidate that was on disk when it was written.
* A record consists of the theorem identity (for the four files that are
  written from memory before the receipt), the receipt (which is its digest)
  and the manifest. A proof digest is the certificate that the module was
  generated from; the certification digest binds what the replay read.
* The certificate is digested twice for one receipt (`kernel_replay.py:781` and
  `:812`); the model reads it once. Removing a directory is one step, writing a
  file is one step.
* The environment lock is current, every candidate is in the store, and the
  fresh replay of the verification has a directory of its own, so it is
  accepted exactly when Lean accepts the stored candidate. All candidates have
  the same request, so there is one certification index.
* The capability supports exact replay; a replay that policy refuses writes
  nothing. What policy decides is in `Certification`.

### AdapterRpc

`Call` has the steps of `discover()`: it spawns the server, closes it, falls back
and finishes. `Step(t)` is what thread `t` does on the pipes: the caller sends
`initialize`, `checkSupport` and `compute` and reads until an answer has its id;
the canceller sends `cancel` and reads as well; both terminate and wait. `Serve`
is the server, which takes a line, computes and answers; `Die` and `Noise` are
its faults. `Adapters`
gives the result: a handler is a sequence of checks, a request is the set of
checks that it fails, and the first of them decides the code. A Mathematica
derivative or antiderivative gets a candidate, domain conditions if it has none,
and a new digest before it is validated (`adapter.py:1079-1092`): `Generates` says
where, and the flaw `unfilled` is the part of the schema that this mends. So a
request that the schema refuses as it was sent is answered there, bound to
another request than the caller holds.

Abstractions: a line is written and read in one step; the computation itself is
one step between `Serve` and the answer, with a backend process meanwhile for
Sage and Mathematica; which failures an environment has is chosen for each
handler call, at most one beyond those of the request.

### OfflineBundle

`Build(c)` writes the five artifacts in the order of the code, reads their
hashes back and writes the manifest; `Crash(c)` ends it anywhere, also in the
middle of a file;
`Tamper(t)` is one of the edits of `mutate_bundle_for_tamper`. `Replay` is the
next check of the replay in the present mode: manifest, hashes, files one by
one, candidate, regeneration or artifact, lock, and the Lean steps, each of
which is a `run_bounded` of `BoundedProcess`. A file is the candidate it was
written for with the edits made since.

### Certification, AgentAnswers and AgentTrust

`Certification` states as operators which records are issued (`Issues`,
`Issued`) and verify (`Verified`), from a registry entry, a record and a lock.
The comparisons inside a record that only a record put together from parts can fail are
one field, `flaws`. `AgentTrust` has the entry, the lock, one record, one
reconstruction and one artifact as state. Its actions are the operations, and
`EditRegistry`, `AdvanceLock` and `FindRecord` for what happens around them.
The history `everVerified` collects the records that verified when they were
used. `Conjecture`, `ConditionLattice` and `ProofPlan` translate the functions
of their Python modules; the folds and searches in them are the code's loops.

Abstractions: a predicate is the sequence of its values on the assignments in
the order of their enumeration; a condition is its expression up to the equality that the
code tests; a trace is the kind that it claims for itself and the set of words of its
raw kind that classification looks for. A list of conditions counts as the set of its members, but for the loop of
`build_condition_lattice` that tries one after the other.

`new_episode` has a parameter for the first state (`conjecture/__init__.py:66`).
None of its callers, in the program or in the tests, gives it, and `NewEpisode` leaves it
out: a Python caller could name a settled state there without any record, and
`CertifiedWasVerified` would not hold of that episode. It does not say either
that a record is about the conjecture it settles, because the code does not
compare the two.

`AgentTrust` names what it assumes of its inputs. Two of the assumptions are
about callers: entries are known to the registry, and no caller of
`plan_from_traces` writes a verified gate into a reconstruction itself, which a
dictionary would let it do. The others say what the inputs are: a record found
elsewhere has the fields of a record (`ForeignAssumption`), no node of a trace is
called `target`, because its id is the trace's behind `n_` (`TracesAssumption`),
predicates are sequences of truth values and conditions are sequences
(`PredicatesAssumption`, `ConditionsAssumption`).

### FiniteGraph

`SkipLine`, `LoadLine` and `EndLoad` are the loop of `load_atlas`,
`RecordInstance` that of `instance_records`. Graph6 is modelled by characters
less 63 and by bits, and a graph by the bits of its edge slots, numbered row by
row as `GraphInstance.adj` does. That a file consists of such lines is
`AtlasAssumption`; `BadByte` stands for any character outside Graph6. The
properties compare the invariants with
definitions that neither search, add up nor sort: `Describes` says what each
invariant of a record is (edges as pairs, triangles as three vertices joined
pairwise, components as smallest closed sets, two sides that share every edge,
and degrees that occur as often as in the graph). As the diameter it says what
is recorded: `Eccentricity` of the first vertex, by walks instead of distances.
That this is not the diameter is the run `graph_diameter`.

Abstractions: the queue of the breadth-first search is modelled by its rounds,
which give the same distances; the second search, for the colours, by the parity
of the distances of the first; `density`, a float made of `n` and the edge
count, is left out.

## 4. Runs

| Run | Instance | Checks |
|---|---|---|
| `store_commit` | 2 handlers with a directory each; one is asked for two requests, of one of them for two regenerations, the other for the same evidence as the first; I/O errors, crashes, calls made again | `TypeOK`, `EntriesMatchDigest`, `AnswersNameOwnEvidence`, `AnswersListed`, `IndexListsStored`, `EntriesImmutable`, refinement of `AtomicStore` |
| `replay_lock` | 2 processes, one of which may die anywhere | `TypeOK`, `MutualExclusion`, refinement of `LeanStep`, `ReplaysEnd` |
| `record` | 2 replays of a directory that is rewritten, for one declaration or for one each; one error or death | `TypeOK`, `RecordsMatchDigest`, `VerifiedIsExact`, `OnlyAcceptedIsRecorded`, `ListedAreStored` |
| `rpc` | every kind of request to every backend, sound, refused or to be completed, live or fixture, with and without a canceller; one death and one line of noise | `TypeOK`, `EvidenceFits`, `FlawedIsRefused`, `NoOrphanBackend`, `DiscoverEnds` |
| `exact` | one or two builds for six capabilities, with every flaw, every claim, every edit, crashes, a lock that moves on, Lean off, asked or required | `TypeOK`, `AcceptedIsOneBuild`, `TamperNeverAccepted`, `ModesAgree`, `ProvedIsSound`, `FailureIsLeans`, `ReplayEnds` |
| `agent` | four entries of a capability, two candidates that can be issued and one that cannot, forged and legacy records, small inputs for every artifact | `TypeOK`, `CertifiedWasVerified`, `IssuedVerifies`, `StaleNeverVerifies`, `EligibleReplays`, `LabelIsEarned`, `LatticeIsReduced`, `PlanIsHonest`, `CampaignIsHonest` |
| `graphs` | every graph with at most five vertices; every atlas of three lines out of eleven that repeat, respell or spoil one | `TypeOK`, `IdsNameTheirGraph`, `InvariantsAreRight` |
| `record_binding` | 1 replay of a directory that is rewritten | violates `ExactBinding` |
| `bounded_orphan` | one `run_bounded` with a helper process | violates `TimeoutLeavesNothing` |
| `open_certification` | as `agent` | violates `VerifiedIsAnswered` |
| `graph_diameter` | the four three-vertex lines of the committed atlas | violates `DiametersAreRight` |
| `graph_atlas` | the 34 five-vertex lines of the committed atlas | violates `AtlasCollapsed` |

Bounds, and why they suffice for what the runs are about:

* Two handlers: every race of the store is between one that reads and one that
  writes the same path. Two roles, `request` and `certificate`, are the two
  that verification relates; the other five are treated as `certificate` is,
  and two files with the manifest are enough for a directory to be mixed. The
  theorems have any number of both.
* Handlers serve any number of calls, and errors and crashes are not counted:
  only the evidence that can be asked for is bounded.
* One unit of time in `ReplayLock` is 600 s. `StaleAge = 3` and `WaitLimit = 1`
  are the code's ratios. The death of one process is enough for a stale lock,
  and three processes for the race behind it.
* `ReplayRecord` has two candidates, one that Lean accepts and one that it
  refuses, so that a record can name the wrong one. `MaxFaults` counts errors
  and deaths over the whole behaviour: one leaves a partial directory behind,
  which the other replay or the next one finds. The directory is rewritten to the
  refused candidate only, and may start as either. The replays have one
  declaration name or one each (`OwnOrSame`). With one, they can mix a pending
  directory while it is copied, and the mixture can be a coherent record with a
  digest other than the id it is stored under; the verification compares the
  record's files with each other, not with that id. `RecordsMatchDigest` and
  `VerifiedIsExact` therefore ask for `DistinctNames`. `OnlyAcceptedIsRecorded`
  and `ListedAreStored` hold of both.
* `AdapterRpc`: one call, two threads, each fault once. A call has no memory of
  an earlier one, since every call has a server of its own.
* `OfflineBundle`: two builds are what it takes to mix a directory. They write
  for one request with two certificates, of which Lean accepts one, or for two
  spellings of one certificate. Builds overlap with the replay or with each
  other, not with both at once. Both modes are replayed once.
* `AgentTrust`: two versions of a lock and two of an entry, each of which may
  change between any two calls. A client drops its artifact before it makes
  another, as no operation reads two. Predicates have at most three assignments,
  of which a search tries two, so that an unlucky search happens.
* `FiniteGraph`: up to four vertices, the two ways of numbering edge slots load
  the same set of graphs; five is the first number that tells them apart.

Deadlock is checked where a system must always be able to take another step:
the store, the records, the agent, and the offline bundle, which stutters
once it has ended. The lock, the call, the single process and the loading of an
atlas really end, and their runs do not check it.

**Fairness.** `ReplayLock` assumes weak fairness of `Tick` and of the steps of
each process: live processes run, Lean processes end or are killed by
`run_bounded`, and time passes. It does not assume that a replay is ever asked
for, or that anybody dies. A waiter may in principle find the lock alternately
gone and taken; it still sees every lock age or go away, and with finitely many
replays it ends.

`AdapterRpc` assumes weak fairness of the call, of each thread and of the
server: they are processes that run, and a backend ends at its own time limit. No
read of the pipe has a time limit, so that without the server's fairness a call
would not end. A canceller can swallow the answer that the caller waits for
(`rpc_client.py:134`), therefore `DiscoverEnds` speaks of calls without one.

`OfflineBundle` assumes weak fairness of the replay, whose waits for a process
are bounded by time, and of the builds. It assumes nothing of Lean: `ReplayEnds`
holds although Lean and what it starts may run forever.

The other specifications have only safety properties and no fairness: an error
may end any operation.

### Findings

* `record_binding`: `run_kernel_replay` reads the certificate and the manifest
  of a directory that may be rewritten in between, and does not compare them. A
  record is stored for a candidate that Lean has not checked. The fresh replay
  of its verification refuses it (`VerifiedIsExact`).
* `bounded_orphan`: `_kill_process_group` does nothing when the command has
  ended by itself, although a process that it started still holds the pipe on
  which the read timed out. That process stays.
* `open_certification`: the success path of `op_open_certification` reads
  `verification.preview_accepted`, which the class of the result does not have.
  The server makes HTTP 400 of the exception: no record is ever answered as
  verified. It also means that `LabelIsEarned` says little about the label
  `Certified` today: no answer reaches it. The property is kept for the day it does.
* `graph_diameter`: `compute_invariants` takes for the diameter the largest
  distance in its one search of a connected graph, from the first vertex. The
  atlas line `Bo`, a path numbered from its middle, gets 1 instead of 2. What is
  recorded is at least half the diameter and no more than it
  (`RecordedDiametersAreNear`).
* `graph_atlas`: the atlas is read row by row and was written column by column.
  From five vertices on, other graphs are loaded than those written, some of
  them isomorphic to each other.

### Departures

Seen while modelling, in line with no statement that a run could refute, or
outside the instances of the runs:

* The request index is read, extended and replaced without a lock
  (`bundle_store.py:289`): of two concurrent regenerations of one request, one
  may be missing from it. `AnswersListed` is about requests of one thread.
* Two concurrent commits of equal bytes may both find no entry; the second
  rename then meets a directory and raises.
* A `bundleId` of the form `sha256_<hex>` is the entry itself, into which the
  handler then writes; and two calls with one `bundleId` may mix their files
  between verification and copy. The theorems about entries name both as
  assumptions.
* With one dead holder and two waiters, both may find its lock stale; the
  second then removes the lock of the first.
* `cancel_and_kill` reads the pipe before it kills, and the server reads its
  next line only when the computation is over (`protocol.py:152`): a cancel
  comes when there is nothing left to cancel.
* An answer over the output limit ends the server (`protocol.py:297`); an
  in-process fallback does not use the server's fixture default
  (`discovery.py:118`, `:175`).
* `certify_refutation_from_record` and `certify_sufficient_set` compare a record
  with neither the episode nor the set that it is to certify.
* Of the offline replay, only `AdapterError` is caught (`offline_bundle.py:735`),
  and the manifest's own hash file is written and never read.
* Duplicates are recognised by the text of a line, so that a header or
  other padding loads a graph twice.
* A live Mathematica derivative that lacks a candidate or domain conditions is
  answered although its schema asks for both (`adapter.py:1079-1092`);
  `compute_evidence` writes no bundle of it, because the certificate is not of
  the request it holds.
* The comment at `receipt.py:592` calls the verification independent of
  `crEligible`; the fresh replay asks for it.

## 5. Proofs

For all values of the constants, under the named assumptions of the modules
(roles are distinct from the manifest and include the two that are compared;
targets and digests are disjoint; `3 * StepLimit <= StaleAge`; a case of an
offline bundle has a build, and its edits are those of `mutate_bundle_for_tamper`;
jobs, candidates and the lines of an atlas are of their types; for the agent, see
section 3). The second
column names what a theorem assumes beyond these:

| Theorem | Assumes | Shows |
|---|---|---|
| `TypeCorrect` | - | `[]TypeOK` of the store |
| `IndexSound` | - | `[]IndexListsStored` for any calls, contended or not |
| `AnswersAreListed` | - | `[]AnswersListed` |
| `StoredBundlesImmutable` | `OpaqueTargets` | `EntriesImmutable` |
| `EntriesAreComplete` | `OpaqueTargets`, `ExclusiveTargets` | `[]EntriesMatchDigest` |
| `AnswersAreOwn` | the same | `[]AnswersNameOwnEvidence` |
| `StoreIsAtomic` | the same | the store implements `AtomicStore` |
| `LockTypeCorrect` | - | `[]TypeOK` of the lock |
| `ReplaysExclude` | - | `MutualExclusion` of any number of processes, until one dies |
| `RejectionsGenuine` | - | `RejectionsAreGenuine`, until one dies |
| `TwoReplaysExclude` | `AtMostTwo` | `[]MutualExclusion`, whoever dies |
| `TwoReplaysAreGenuine` | `AtMostTwo` | `[]RejectionsAreGenuine`, whoever dies |
| `ReplayIsOneStep` | `AtMostTwo`, or that none dies | the lock and its section implement `LeanStep` |
| `RecordTypes` | - | `[]TypeOK` of the records |
| `RecordsAreImmutable` | - | a stored record never changes or goes away |
| `ListingIsBacked` | - | `[]ListedAreStored` |
| `RecordsWereAccepted` | - | `[]OnlyAcceptedIsRecorded`, also when pending directories are shared and the directory is rewritten |
| `RecordsAreWhole` | - | `[]RecordsMatchDigest`, which asks for `DistinctNames` |
| `VerificationIsExact` | - | `[]VerifiedIsExact`, which asks for it too, also when the directory is rewritten |
| `RpcTypes` | - | `[]TypeOK` of the call |
| `AnswersFit` | - | `[]EvidenceFits` |
| `FlawsAreRefused` | - | `[]FlawedIsRefused` |
| `BackendsEnd` | - | `[]NoOrphanBackend`, with one line of noise at most |
| `BundleTypes` | - | `[]TypeOK` of the offline bundle |
| `AcceptanceIsOfOneBuild` | - | `[]AcceptedIsOneBuild` |
| `ProofsAreSound` | - | `[]ProvedIsSound` |
| `FailuresAreLeans` | - | `FailureIsLeans`, of every step |
| `BothModesAgree` | - | `[]ModesAgree` |
| `TampersAreRefused` | - | `[]TamperNeverAccepted` |
| `IssuedAreVerified` | - | `[]IssuedVerifies` |
| `StaleRecordsDie` | - | `[]StaleNeverVerifies`, for any record |
| `EligibleEntriesReplay` | `EntriesAssumption` | `[]EligibleReplays` through all edits |
| `MarksAreBacked` | `CallersAssumption` | `[]CertifiedWasVerified` |
| `TrustTypes` | `ForeignAssumption` | `[]TypeOK` of the agent |
| `LabelsAreEarned` | - | `[]LabelIsEarned` |
| `PlansAreHonest` | `TracesAssumption` | `[]PlanIsHonest` |
| `CampaignsAreHonest` | `PredicatesAssumption` | `[]CampaignIsHonest` |
| `LatticesAreReduced` | `ConditionsAssumption` | `[]LatticeIsReduced` |
| `GraphTypes` | `AtlasAssumption` | `[]TypeOK` of the atlas |
| `IdsAreOfTheirGraph` | the same | `[]IdsNameTheirGraph` |
| `RecordsAreReproducible` | the same | what is recorded under an id is computed of the graph that the id decodes to |
| `RecordedInvariantsAreRight` | the same | `[]InvariantsAreRight` |
| `RecordedDiametersAreNear` | the same | what is recorded as the diameter is at least half of it and no more than it |

`OpaqueTargets` says that no call targets a content id, `ExclusiveTargets` that
two threads are never given the same target. They are what the code would have
to enforce: without them the results fail, see "Departures". `IndexSound` needs
neither. `DistinctNames` says of a behaviour that no two of its replays ask for
one declaration. The code does not enforce it, and it is needed: two replays of
one declaration can mix the pending directory that they share. `ExactBinding` is no theorem:
the run `record_binding` shows what a rewrite does to it. What is left of it
whoever shares or rewrites is `OnlyAcceptedIsRecorded`.

The arguments:

* **Types** (`TypeInv`): `TypeOK` is not inductive, because a handler's next
  role or digest is read from what it holds; `HandlerInv` says at which steps
  it holds one, and that while it writes, the files before its position exist.
* **Index** (`IndexInv`): a digest may be listed only when it is stored, so a
  handler that has read the index must have read stored digests only, and the
  one it will add must be stored from the rename on (`ListableAt`). Entries do
  not disappear, which needs no assumption: a handler can overwrite an entry's
  files, but never removes one.
* **Listing** (`AnswersInv`): for an uncontended request, what a handler read
  contains everything already answered (`ReadAt`), because nobody else writes
  that index file.
* **Entries** (`EntriesInv`): with exclusive targets, between the first role
  file and the end the target holds what its handler wrote (`OwnAt`): the roles
  so far at `write`, all of them at `manifest`, the whole bundle from `verify`
  on; the copy agrees with it on the files already copied. So the rename
  publishes `Content(d)` at `d`.
* **Refinement**: `Publish` on a free name is `Put`, `WriteIndex` is `Answer`,
  every other step leaves entries, index and answers alone.
* **Lock** (`LockInv`): the lock file belongs to the process in its section
  (`HeldInv`), and its age is at most the number of Lean processes so far times
  `StepLimit`, plus the time of the running one (`HolderAt`). Three of them
  never exceed `StaleAge`, so no waiter takes the lock away. The files in the
  section are the holder's (`FilesAt`), hence no rejection but Lean's. All this
  holds until a process dies (`crashes = 0`); of two processes the other is then
  alone, which is all that exclusion needs of it (`ShelteredAlone`).
* **Lean step** (`OutcomeInv`): the mapping shows the verdict of a replay only
  when it has ended. A replay that leaves the section has decided, accepts only
  what Lean accepts (`Decided`) and rejects only what Lean refuses (`LockInv`),
  and no step of another changes its verdict; so `Release`, or `StatLock` at the
  deadline, is `Decide`, and every other step is a stutter (`OutcomeStep`).

* **Records**: `IssuedAreVerified` goes through the checks of
  `verify_certification_record` one by one and finds each among those of
  `run_kernel_replay` or in what it writes; it needs no invariant, only that
  both look at the same entry and lock. `EligibleEntriesReplay` rests on
  `Accepted`: every edit of the registry passes `validate_assurance_policy`.
* **Marks** (`BackedInv`): for each kind of artifact, what its marks say is
  stated relative to a set `E` of records (`Backed`, `LatticeBacked`,
  `PlanBacked`), is preserved by every operation that is given a record of `E`
  (`Vouched`) and survives as `E` grows. A reconstruction is used after it was
  fetched, when its record may no longer verify: that a verified gate means
  that some record has verified is the part of the invariant about `recon`.

* **Replayed records**: `ListingIsBacked` needs of what a replay has read from
  the index, and of what it will add, that it is stored (`IndexInv`), and that
  records stay. For `RecordsWereAccepted`, a replay names a
  certificate as checked only after Lean has accepted the one it read, and it
  writes only to pending directories of its own declaration and candidate; so
  whatever is read back there, whoever wrote it, is about that declaration and
  about an accepted certificate, and stays so on its way to the store
  (`AcceptedInv`). For `RecordsAreWhole`, the
  pending directory of a replay holds at each step just the files that it has
  written (`MatchAt`), so that the copy is, file by file, what the digest was
  taken of. Then a record that verifies is the record of its id, and what the
  verification checks of it is what the property says.
* **Call** (`AnswerInv`): while a thread waits for an id, that id belongs to a
  request of the method it is calling, so the answer to a computation is one of
  a handler (`WaitsFor`); and a result that reads `ok` can only come from a
  handler that found no flaw but those it mends (`Evident`, `Allowed`). That holds also when two threads read
  the same pipe, as each takes only the line with its id.
* **Backend** (`QuietInv`): a backend runs only while the server computes, and
  the server reads nothing until it has answered. The caller goes on to close
  the server when its call is answered (`OneAtATime`), or when it has read
  noise. Then something may still run, but no second line of noise ends the wait
  for the answer to `shutdown`, and once that has come nothing runs (`Over`). The
  bound of one line of noise is part of the model; with two, the property fails.
* **Offline bundle** (`HeldInv`): what a replay has loaded satisfies the checks
  that it has passed, whatever has become of the files since; the checks together
  leave only one build, since the manifest holds the hashes of all the others and
  is written of files that one build has read back (`WrittenInv`). `Verdict` is
  the outcome of the first check that fails in a directory that stays: each mode
  knows at each step that the checks so far hold of the directory
  (`KnownAt`), therefore both end with it. Each edit leaves a mark that a check
  sees and that no other edit removes (`TamperInv`).
* **Labels** (`ModestInv`): every answer an operation makes is `Modest`, by
  cases over the operations; `ArtifactSteps` says which step makes which kind of
  artifact, and is what the other theorems on artifacts rest on.
* **Plans**: `Acyclic` peels the nodes without remaining dependencies, as many
  times as there are nodes. In a plan of two traces every node but the target
  has no dependency, so two rounds leave nothing, also when the two have one id
  (`PlanIsAcyclic`).
* **Campaigns**: the search returns the least index with a counterexample, or
  none at all up to its limit (`SearchFinds`); the five states of an episode are
  disjoint, so the five counts add up to the episodes (`CountsAddUp`).
* **Lattices**: the loop keeps the working set sufficient, keeps its ids and the
  redundant ones complementary, and an id that was tried and stayed can never be
  missed again, because fewer conditions never suffice where more do not
  (`SufficiencyGrows`, `TryDeleteReduces`). `Rounds` is the induction over the
  rounds.

The library's induction theorems take an operator as a parameter, which the
provers here cannot instantiate. The two loops of the hypothesis engine and the
search of a campaign, and the searches, sums and walks of the graphs, are
therefore reasoned about with sets (`LoopInduction`): if some round were
bad there would be a first bad one (`LeastExists`, from the well-foundedness of
the naturals), and it has a good one before it (`Rounds`). That a recursive
function of the number of rounds exists at all is proved the same way
(`LoopRuns`).

* **Graphs**: the six bits of a character come out as they went in
  (`CharBits`), the k-th slot is bit `(k - 1) % 6 + 1` of character
  `(k - 1) \div 6 + 1` in both directions (`PlacesOfBits`), and what was read is
  a graph with a bit for every slot (`WhatIsReadIsAGraph`). So the text that an
  instance is filed under decodes to the instance (`GraphIsReadBack`, `LoadInv`).
* **Searches**: after `d` rounds a search has met what is within `d` steps, and
  whoever was met in round `d` has a neighbour that was met in round `d - 1`
  (`MeetLevel`, `SearchLevels`). If the last of `n` rounds met somebody, each
  round before it did, and there would be more than `n` vertices
  (`NothingIsFarther`); so a search ends with a closed set (`SearchEnds`) without
  a closed part (`SearchIsComponent`). Two components that share a vertex are
  equal, and the searches meet every vertex once, therefore they are as many as
  the components (`SearchesCover`, `ComponentsAreCounted`).
* **Colours**: neighbours are met in one search, so distances of different parity
  give them different sides (`ColouredIsTwoSided`); conversely, on its way from
  the start a search changes sides with every step (`TwoSidedIsColoured`).
* **Diameter**: a walk of at most `k` edges leads to every vertex at distance
  `k` and to none farther (`SearchMeasures`), walks compose (`WalksCompose`), and
  so any two vertices are connected through the start by twice its eccentricity,
  while the start and the vertex farthest from it need all of it
  (`DiameterIsBounded`). The first search starts at the first vertex
  (`FirstSearch`), and what it is farthest from is its eccentricity
  (`DiameterIsEccentricity`).
* **Degrees**: the neighbours of the first `k` vertices, as ordered pairs, are as
  many as the sum of their degrees (`ArcsOfNext`), and turning a pair round is a
  bijection between those that go up and those that go down, each of which are
  the edges (`ArcsAreTwicePerEdge`). The `k`-th of the sorted degrees reaches a
  value just when `k` vertices do (`DescendingReaches`), from which order and
  multiplicity follow (`DescendingDescends`, `DescendingKeeps`).

Only model-checked: liveness (`ReplaysEnd`, `DiscoverEnds`, `ReplayEnds`), which
is out of the prover's reach; and the findings, which are
violations. All other properties of the runs are theorems. `MutualExclusion` and
`ImplementsLeanStep` are false of three
processes of which one dies, so the theorems stop where they hold.

## 6. What is not modelled

* The answers' wording, schemas and rendering; legacy bundle versions; moving
  bundles of the older layout into the store; capture of training episodes.
* The mathematics: adapters are oracles, and Lean accepts or refuses a module.
  Their correctness is proved by Lean on every replay. The Python mirrors are
  modelled by what they accept, their arithmetic is not: it is sequential, has
  no state, and Lean repeats it.
* Of `pipeline.render`, the refusal of a source with a path token or a carriage
  return, which depends on the text of the source only. Of an exact bundle, the
  optional `certification-receipt.cjson`, one more hashed file whose content no
  replay looks at, and the hash file beside the manifest, which nothing reads.
* Output caps and the environment allowlist of `run_bounded`, and the making of
  the development signing keys.
* Foundry pipelines, scripts, studio and registry data: batch programs and
  static data, with no state that another process changes. Two exceptions,
  `offline_exact_replay.py` and `epistemic_contract.py`, are modelled.
* Files edited by hand or by tools other than these programs, beyond the edits
  of `mutate_bundle_for_tamper`, and the durability of writes after a power
  failure (a rename is taken to be durable).
