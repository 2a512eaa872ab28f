----------------------------- MODULE AdapterRpc -----------------------------
(***************************************************************************
 One call of discover(): an adapter server is spawned, asked over two pipes to
 initialize, to check support and to compute, and shut down; if that fails the
 same backend is called in the process itself.  The server reads one line at a
 time and handles it before it reads the next.  For Sage and Mathematica it
 runs a backend process meanwhile.  A second thread may cancel the call, which
 shares the client, its pipes and its counter of ids with the first.
 ***************************************************************************)
EXTENDS Adapters

CONSTANTS Jobs,         \* records: backend, kind, flaws, mode, exe, bundle
          Cancelling,   \* subset of BOOLEAN: may a canceller take part
          Faults        \* what may go wrong, once each

ASSUME RpcAssumption ==
    /\ \A j \in Jobs : /\ j.backend \in Backends /\ j.kind \in Kinds
                       /\ j.flaws \subseteq Flaws /\ j.exe \in BOOLEAN
                       /\ j.mode \in {"unset", "fixture", "live"}
                       /\ j.bundle \in BOOLEAN
    /\ Cancelling \subseteq BOOLEAN
    /\ Faults \subseteq {"noise", "death"}

VARIABLES
    job,       \* the request and its environment
    cancels,   \* does a second thread call cancel_and_kill
    pc,        \* per thread: its step, or the method that it calls
    want,      \* per thread: the id whose answer it reads for, or 0
    nextId,    \* RpcClient._next_id
    inbox,     \* stdin of the server: [id, method]
    outbox,    \* its stdout: [id, about, res]; id 0 is noise
    server,    \* [state, ready, msg, signal]
    backend,   \* the process that the server runs
    got,       \* the answer to the computation, as the caller has it
    outcome,   \* what discover() returns or raises
    faults     \* the faults that have happened

client == <<pc, want, nextId, got, outcome>>
pipes == <<inbox, outbox>>
vars == <<job, cancels, client, pipes, server, backend, faults>>

Threads == {"caller", "canceller"}
Calls == {"initialize", "checkSupport", "compute"}

Error(code) == [code |-> code, kind |-> "none", digest |-> "none"]
Ok == Error("ok")
Nothing == Error("none")
Silent == [id |-> 0, method |-> "none"]
Dead == server.state = "dead"

\* The outcomes of handler h for job j, under any one failure of its environment.
Attempts(j, h, live) ==
    {HandlerResult(j.backend, h, j.kind,
                   j.flaws \cup (IF live THEN {} ELSE {"live"}) \cup e) :
        e \in {{}, {"differs"}} \cup
              {{c} : c \in ToSet(Handlers[j.backend][h])
                           \ (Flaws \cup {"live"})}}

\* The adapter runs in fixture mode unless the caller's environment says other;
\* a computation in the caller's own process has the mode of its environment.
ServerLive(j) ==
    LET mode == IF j.mode = "unset" /\ j.backend # "sympy" THEN "fixture"
                ELSE j.mode
    IN  Live(j.backend, mode, j.exe)
ServerResults ==
    [j \in Jobs |-> Attempts(j, Dispatched(j.backend, j.kind), ServerLive(j))]
DirectResults ==
    [j \in Jobs |->
        LET h == DirectDispatched(j.backend, j.kind)
        IN  IF h = "refused" THEN {Error("backend_unsupported")}
            ELSE Attempts(j, h, Live(j.backend, j.mode, j.exe))]

Init ==
    /\ job \in Jobs
    /\ cancels \in Cancelling
    /\ pc = [t \in Threads |-> "start"]
    /\ want = [t \in Threads |-> 0]
    /\ nextId = 1
    /\ inbox = <<>> /\ outbox = <<>>
    /\ server = [state |-> "none", ready |-> FALSE, msg |-> Silent,
                 signal |-> "none"]
    /\ backend = "none"
    /\ got = Nothing
    /\ outcome = Nothing
    /\ faults = {}

----------------------------------------------------------------------------
Goto(t, step) == pc' = [pc EXCEPT ![t] = step]

Return(res) == Goto("caller", "ended") /\ outcome' = res

\* The digest of the request is verified, then the adapter is spawned; it may
\* fail to start.
Discover ==
    /\ pc["caller"] = "start"
    /\ \/ /\ "digest" \in job.flaws
          /\ Return(Error("exception"))
          /\ UNCHANGED <<server, got>>
       \/ /\ "digest" \notin job.flaws
          /\ Goto("caller", "initialize")
          /\ server' = [server EXCEPT !.state = "idle"]
          /\ UNCHANGED <<got, outcome>>
       \/ /\ "digest" \notin job.flaws
          /\ Goto("caller", "fallback")
          /\ got' = Error("backend_unavailable")
          /\ UNCHANGED <<server, outcome>>
    /\ UNCHANGED <<job, cancels, want, nextId, pipes, backend, faults>>

\* What a thread does with the result of its call, good or bad.
Deliver(t, res) ==
    LET next == CASE pc[t] \in {"shutdown", "cancel"} -> "terminate"
                  [] pc[t] = "initialize" /\ res.code = "ok" -> "checkSupport"
                  [] pc[t] = "checkSupport" /\ res.code = "ok" -> "compute"
                  [] OTHER -> "close"
    IN  /\ want' = [want EXCEPT ![t] = 0]
        /\ Goto(t, next)
        /\ got' = IF next = "close" THEN res ELSE got

\* A bug: the counter of ids is not moved.
SendSameId(t) ==
    /\ pc[t] \in Calls \cup {"shutdown", "cancel"}
    /\ want[t] = 0
    /\ UNCHANGED nextId
    /\ \/ /\ Dead
          /\ Deliver(t, Error("backend_unavailable"))
          /\ UNCHANGED inbox
       \/ /\ ~Dead
          /\ want' = [want EXCEPT ![t] = nextId]
          /\ inbox' = Append(inbox, [id |-> nextId, method |-> pc[t]])
          /\ UNCHANGED <<pc, got>>
    /\ UNCHANGED <<job, cancels, outcome, outbox, server, backend, faults>>
\* A request is written to the pipe.
Send(t) ==
    /\ pc[t] \in Calls \cup {"shutdown", "cancel"}
    /\ want[t] = 0
    /\ nextId' = nextId + 1
    /\ \/ /\ Dead
          /\ Deliver(t, Error("backend_unavailable"))
          /\ UNCHANGED inbox
       \/ /\ ~Dead
          /\ want' = [want EXCEPT ![t] = nextId]
          /\ inbox' = Append(inbox, [id |-> nextId, method |-> pc[t]])
          /\ UNCHANGED <<pc, got>>
    /\ UNCHANGED <<job, cancels, outcome, outbox, server, backend, faults>>

\* A bug: the first line that arrives is taken for the answer.
ReceiveAny(t) ==
    /\ want[t] # 0
    /\ outbox # <<>>
    /\ outbox' = Tail(outbox)
    /\ Deliver(t, Head(outbox).res)
    /\ UNCHANGED <<job, cancels, nextId, outcome, inbox, server, backend,
                   faults>>
\* A thread reads a line: noise, an answer to another request, or its own.
Receive(t) ==
    /\ want[t] # 0
    /\ outbox # <<>>
    /\ outbox' = Tail(outbox)
    /\ \/ /\ Head(outbox).id = 0
          /\ Deliver(t, Error("malformed_evidence"))
       \/ /\ Head(outbox).id \notin {0, want[t]}
          /\ UNCHANGED <<pc, want, got>>
       \/ /\ Head(outbox).id = want[t]
          /\ Deliver(t, Head(outbox).res)
    /\ UNCHANGED <<job, cancels, nextId, outcome, inbox, server, backend,
                   faults>>

\* A bug: an empty line is not told from the end of the pipe.
ReadEndWaits(t) ==
    /\ want[t] # 0
    /\ outbox = <<>> /\ Dead
    /\ UNCHANGED vars
\* The pipe is empty and closed.
ReadEnd(t) ==
    /\ want[t] # 0
    /\ outbox = <<>> /\ Dead
    /\ Deliver(t, Error("backend_unavailable"))
    /\ UNCHANGED <<job, cancels, nextId, outcome, pipes, server, backend,
                   faults>>

----------------------------------------------------------------------------
\* A bug: close() terminates the server without asking.
CloseAtOnce ==
    /\ pc["caller"] = "close"
    /\ Goto("caller", IF Dead THEN "wait" ELSE "terminate")
    /\ UNCHANGED <<job, cancels, want, nextId, got, outcome, pipes, server,
                   backend, faults>>
\* close(), on every way out of the with statement: the server is asked to shut
\* down, terminated, waited for, and killed after five seconds.
Close ==
    /\ pc["caller"] = "close"
    /\ Goto("caller", IF Dead THEN "wait" ELSE "shutdown")
    /\ UNCHANGED <<job, cancels, want, nextId, got, outcome, pipes, server,
                   backend, faults>>

\* cancel_and_kill(), called by another thread while the call is in progress.
Cancel ==
    /\ cancels
    /\ pc["canceller"] = "start"
    /\ server.state # "none" /\ pc["caller"] \notin {"fallback", "ended"}
    /\ Goto("canceller", IF Dead THEN "ended" ELSE "cancel")
    /\ UNCHANGED <<job, cancels, want, nextId, got, outcome, pipes, server,
                   backend, faults>>

Terminate(t) ==
    /\ pc[t] = "terminate"
    /\ server' = [server EXCEPT !.signal = "term"]
    /\ Goto(t, "wait")
    /\ UNCHANGED <<job, cancels, want, nextId, got, outcome, pipes, backend,
                   faults>>

Wait(t) ==
    /\ pc[t] = "wait"
    /\ server' = [server EXCEPT !.signal = IF Dead THEN @ ELSE "kill"]
    /\ Goto(t, IF t = "canceller" THEN "ended"
               ELSE IF got.code = "ok" THEN "finish" ELSE "fallback")
    /\ UNCHANGED <<job, cancels, want, nextId, got, outcome, pipes, backend,
                   faults>>

\* The server fails: discovery computes in its own process, with the mode of its
\* own environment.  An exception other than an AdapterError ends the call.
Fallback ==
    /\ pc["caller"] = "fallback"
    /\ \E r \in DirectResults[job] :
          \/ r.code # "ok" /\ Return(r) /\ UNCHANGED got
          \/ r.code = "ok" /\ Goto("caller", "finish") /\ got' = r
                           /\ UNCHANGED outcome
    /\ UNCHANGED <<job, cancels, want, nextId, pipes, server, backend, faults>>

\* The bundle is written with the request as it was sent and verified, which
\* refuses a certificate with another digest.
Finish ==
    /\ pc["caller"] = "finish"
    /\ Return(IF job.bundle /\ got.digest # "request"
                THEN Error("exception") ELSE got)
    /\ UNCHANGED <<job, cancels, want, nextId, got, pipes, server, backend,
                   faults>>

----------------------------------------------------------------------------
Answer(m, res) ==
    outbox' = Append(outbox, [id |-> m.id, about |-> m.id, res |-> res])

\* A method that needs no computation, or a computation that is refused before
\* initialize.  `cancel` finds no active request, ever.
Handle ==
    /\ server.state = "idle" /\ inbox # <<>>
    /\ inbox' = Tail(inbox)
    /\ LET m == Head(inbox) IN
       /\ m.method # "compute" \/ ~server.ready
       /\ server' =
            [server EXCEPT !.ready = @ \/ m.method = "initialize",
                           !.state = IF m.method = "shutdown" THEN "leaving"
                                     ELSE @]
       /\ Answer(m, IF m.method \in {"shutdown", "cancel", "initialize"} THEN Ok
                    ELSE IF ~server.ready THEN Error("schema_version_unsupported")
                    ELSE IF Supported(job.backend, job.kind, job.flaws, ServerLive(job))
                    THEN Ok ELSE Error("unsupported_expression"))
    /\ UNCHANGED <<job, cancels, client, backend, faults>>

\* compute: nothing is read from stdin until it is answered.
BeginCompute ==
    /\ server.state = "idle" /\ inbox # <<>>
    /\ Head(inbox).method = "compute" /\ server.ready
    /\ inbox' = Tail(inbox)
    /\ server' = [server EXCEPT !.state = "busy", !.msg = Head(inbox)]
    /\ backend' = IF job.backend # "sympy" /\ ServerLive(job) THEN "running"
                  ELSE backend
    /\ UNCHANGED <<job, cancels, client, outbox, faults>>

\* The backend ends, or is killed at its time limit, and the answer is written.
\* Raw exceptions become backend_crash.
EndCompute ==
    /\ server.state = "busy"
    /\ backend' = "none"
    /\ server' = [server EXCEPT !.state = "idle"]
    /\ \E r \in ServerResults[job] :
          Answer(server.msg, IF r.code = "exception" THEN Error("backend_crash")
                             ELSE r)
    /\ UNCHANGED <<job, cancels, client, inbox, faults>>

\* The server is gone: it leaves its loop, obeys a signal, or dies by itself, for
\* instance because an answer is too large to be written.  A backend that it
\* was waiting for is not told.
Gone == /\ server' = [server EXCEPT !.state = "dead"]
        /\ backend' = IF backend = "running" THEN "orphan" ELSE backend
        /\ UNCHANGED <<job, cancels, client, pipes>>

Exit == server.state = "leaving" /\ Gone /\ UNCHANGED faults
ObeySignal == /\ server.state \notin {"none", "dead"}
              /\ server.signal # "none"
              /\ Gone /\ UNCHANGED faults
Die == /\ server.state \in {"idle", "busy"}
       /\ "death" \in Faults \ faults
       /\ faults' = faults \cup {"death"}
       /\ Gone

\* A library of the adapter prints a line that is no message.
Noise ==
    /\ server.state \in {"idle", "busy"}
    /\ "noise" \in Faults \ faults
    /\ faults' = faults \cup {"noise"}
    /\ outbox' = Append(outbox, [id |-> 0, about |-> 0, res |-> Nothing])
    /\ UNCHANGED <<job, cancels, client, inbox, server, backend>>

Ended == /\ pc["caller"] = "ended"
         /\ pc["canceller"] \in {"start", "ended"}
         /\ UNCHANGED vars

Step(t) == Send(t) \/ Receive(t) \/ ReadEnd(t) \/ Terminate(t) \/ Wait(t)
Call == Discover \/ Close \/ Fallback \/ Finish
Serve == Handle \/ BeginCompute \/ EndCompute \/ Exit \/ ObeySignal

Next == \/ Call \/ Cancel \/ Serve \/ Die \/ Noise \/ Ended
        \/ \E t \in Threads : Step(t)

\* Threads run, and every computation of an adapter ends: SymPy's by itself,
\* the others at the time limit of their backend process.  Nothing makes the
\* server die, print noise, or anybody cancel.
Fairness == /\ WF_vars(Call) /\ WF_vars(Serve)
            /\ \A t \in Threads : WF_vars(Step(t))

Spec == Init /\ [][Next]_vars /\ Fairness

----------------------------------------------------------------------------
Results == [code : {"ok", "none", "exception", "malformed_evidence",
                    "request_digest_mismatch", "resource_limit_exceeded",
                    "unsupported_expression", "certificate_rejected",
                    "backend_unsupported", "backend_unavailable",
                    "backend_timeout", "backend_crash",
                    "schema_version_unsupported"},
            kind : Kinds \cup {"none"}, digest : {"none", "request", "rebound"}]

\* The type of every variable; a message in a pipe has an id that was given out.
TypeOK ==
    /\ pc \in [Threads -> {"start", "close", "terminate", "wait", "fallback",
                           "finish", "ended", "shutdown", "cancel"} \cup Calls]
    /\ nextId \in Nat \ {0}
    /\ want \in [Threads -> 0..(nextId - 1)]
    /\ \A i \in DOMAIN inbox : inbox[i].id \in 1..(nextId - 1)
    /\ \A i \in DOMAIN outbox : /\ outbox[i].id \in 0..(nextId - 1)
                                /\ outbox[i].res \in Results
    /\ server.state \in {"none", "idle", "busy", "leaving", "dead"}
    /\ backend \in {"none", "running", "orphan"}
    /\ got \in Results /\ outcome \in Results
    /\ faults \subseteq Faults

\* What discover() answers is evidence of the capability that was asked for, by
\* whichever path it was computed and whatever other thread reads the same pipe;
\* if a bundle is written, it is bound to the request as sent.
EvidenceFits ==
    outcome.code = "ok" => /\ outcome.kind = job.kind
                           /\ job.bundle => outcome.digest = "request"

\* A request whose digest is wrong is never answered, and one that its
\* capability's schema refuses is answered in one case: live Mathematica was
\* asked to differentiate or integrate, the schema misses nothing but what the
\* handler fills in, the evidence is bound to the request as it was filled, and
\* no bundle is written of it.
FlawedIsRefused ==
    outcome.code = "ok" =>
        /\ "digest" \notin job.flaws
        /\ job.kind \notin {"ideal", "analytic"} =>
             /\ "schema" \notin job.flaws
             /\ "unfilled" \in job.flaws => /\ Generates(job.backend, job.kind)
                                           /\ outcome.digest = "rebound"
                                           /\ ~job.bundle

\* Unless the server dies by itself or somebody cancels, no backend process is
\* left behind without the server that limits its time: close() waits for the
\* answer to `shutdown`, and by then nothing runs.  This needs the bound of one
\* line of noise: a second one would be taken for the answer to `shutdown`, while
\* the server may still compute.
NoOrphanBackend ==
    backend = "orphan" => "death" \in faults \/ cancels

\* Without a canceller a call ends, although no read of the pipe has a time
\* limit, and the server is then dead or dies.
DiscoverEnds ==
    ~cancels ~> pc["caller"] = "ended" /\ server.state \in {"none", "dead"}
=============================================================================
