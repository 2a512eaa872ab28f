--------------------------- MODULE AdapterRpcProofs ---------------------------
(***************************************************************************)
(* Theorems about one call of discover() as AdapterRpc models it, for any   *)
(* jobs, with and without a canceller, and for any faults of the model: the *)
(* server may die at any time and print one line that is no message.        *)
(***************************************************************************)
EXTENDS AdapterRpc, SequenceTheorems, WellFoundedInduction, TLAPS

-----------------------------------------------------------------------------
(* A set of numbers that is not empty has a least element.                  *)
LEMMA MinOfNaturals ==
  ASSUME NEW S, S \subseteq Nat, S # {}
  PROVE  Min(S) \in S
<1> DEFINE Less == {ss \in Nat \X Nat : ss[1] < ss[2]}
<1>1. IsWellFoundedOn(Less, Nat)
  BY NatLessThanWellFounded DEF OpToRel
<1>2. \E x \in S : \A y \in S : ~ (<<y, x>> \in Less)
  <2> HIDE DEF Less
  <2> QED
    BY <1>1, WFMin
<1>3. PICK x \in S : \A y \in S : ~ (<<y, x>> \in Less)
  BY <1>2
<1>4. ASSUME NEW y \in S PROVE x =< y
  <2>1. <<y, x>> \in Nat \X Nat /\ <<y, x>>[1] = y /\ <<y, x>>[2] = x
    OBVIOUS
  <2>2. ~ (y < x)
    BY <1>3, <2>1
  <2> QED
    BY <2>2
<1> QED
  BY <1>4 DEF Min

(***************************************************************************)
(* The checks of a handler.                                                 *)
(***************************************************************************)
Checks ==
  {"schema", "fields", "json", "payload", "value", "certificate", "digest", "expired",
   "overtime", "size", "large", "output", "vars", "ir", "encode", "tag", "reported",
   "operation", "live", "spawn", "witness", "late", "exit", "singular", "absent",
   "unsolvable"}

Codes ==
  {"exception", "malformed_evidence", "request_digest_mismatch",
   "resource_limit_exceeded", "unsupported_expression", "certificate_rejected",
   "backend_unsupported", "backend_unavailable", "backend_timeout", "backend_crash"}

LEMMA CodeType ==
  ASSUME NEW b, NEW h, NEW check \in Checks
  PROVE  Code(b, h, check) \in Codes
BY DEF Code, Checks, Codes

(* A sequence of checks with a certain one.                                 *)
Has(s, check) == \E i \in DOMAIN s : s[i] = check

LEMMA ConcatHas ==
  ASSUME NEW s \in Seq(Checks), NEW t \in Seq(Checks), NEW check
  PROVE  /\ s \o t \in Seq(Checks)
         /\ Has(s, check) => Has(s \o t, check)
         /\ Has(t, check) => Has(s \o t, check)
<1>1. /\ s \o t \in Seq(Checks)
      /\ DOMAIN (s \o t) = 1..(Len(s) + Len(t))
      /\ \A i \in 1..Len(s) : (s \o t)[i] = s[i]
      /\ \A i \in 1..Len(t) : (s \o t)[Len(s) + i] = t[i]
  BY ConcatProperties, LenProperties
<1>2. DOMAIN s = 1..Len(s) /\ DOMAIN t = 1..Len(t) /\ Len(s) \in Nat /\ Len(t) \in Nat
  BY LenProperties
<1>3. ASSUME NEW i \in 1..Len(t) PROVE Len(s) + i \in 1..(Len(s) + Len(t))
  BY <1>2
<1> QED
  BY <1>1, <1>2, <1>3 DEF Has

LEMMA RunsAreChecks ==
  /\ RunWolfram \in Seq(Checks)
  /\ WolframIr \in Seq(Checks)
  /\ WolframCertificate \in Seq(Checks)
  /\ WolframLinear \in Seq(Checks)
  /\ RunSage \in Seq(Checks)
  /\ SageLinearCertificate \in Seq(Checks)
  /\ SympyParse \in Seq(Checks)
  /\ SympyEncode \in Seq(Checks)
<1>1. /\ <<"expired", "late", "spawn", "overtime", "exit", "output">> \in Seq(Checks)
      /\ WolframJson \in Seq(Checks) /\ <<"reported">> \in Seq(Checks)
      /\ WolframIr \in Seq(Checks) /\ <<"large", "payload">> \in Seq(Checks)
  BY DEF Checks, WolframJson, WolframIr
<1> QED
  BY <1>1, ConcatHas
     DEF RunWolfram, WolframCertificate, WolframLinear, RunSage,
         SageLinearCertificate, SympyParse, SympyEncode, Checks

(* Every handler is a sequence of checks, and those for the capabilities    *)
(* with a request schema check it.                                          *)
LEMMA SympyChecks ==
  /\ \A s \in {SympyRational, SympyLinear, SympyCounterexample, SympyCalculus} :
       s \in Seq(Checks) /\ Has(s, "schema")
  /\ SympyByMirror \in Seq(Checks)
<1>1. SympyRational \in Seq(Checks) /\ Has(SympyRational, "schema")
  <2> DEFINE s == <<"schema", "digest", "expired", "size", "vars">>
  <2>1. /\ s \in Seq(Checks) /\ Has(s, "schema")
        /\ <<"overtime">> \in Seq(Checks) /\ <<"certificate", "output">> \in Seq(Checks)
    BY DEF Checks, Has
  <2>2. /\ s \o SympyParse \in Seq(Checks)
        /\ Has(s \o SympyParse, "schema")
    BY <2>1, RunsAreChecks, ConcatHas
  <2>3. /\ s \o SympyParse \o <<"overtime">> \in Seq(Checks)
        /\ Has(s \o SympyParse \o <<"overtime">>, "schema")
    BY <2>1, <2>2, ConcatHas
  <2>4. /\ s \o SympyParse \o <<"overtime">> \o SympyEncode \in Seq(Checks)
        /\ Has(s \o SympyParse \o <<"overtime">> \o SympyEncode, "schema")
    BY <2>3, RunsAreChecks, ConcatHas
  <2> QED
    BY <2>1, <2>4, ConcatHas DEF SympyRational
<1>2. SympyLinear \in Seq(Checks) /\ Has(SympyLinear, "schema")
  BY DEF SympyLinear, Checks, Has
<1>3. SympyCounterexample \in Seq(Checks) /\ Has(SympyCounterexample, "schema")
  BY DEF SympyCounterexample, Checks, Has
<1>4. SympyCalculus \in Seq(Checks) /\ Has(SympyCalculus, "schema")
  <2> DEFINE s == <<"schema", "digest", "expired", "operation", "fields", "size">>
  <2>1. s \in Seq(Checks) /\ Has(s, "schema") /\ <<"certificate">> \in Seq(Checks)
    BY DEF Checks, Has
  <2>2. s \o SympyParse \in Seq(Checks) /\ Has(s \o SympyParse, "schema")
    BY <2>1, RunsAreChecks, ConcatHas
  <2>3. /\ s \o SympyParse \o SympyEncode \in Seq(Checks)
        /\ Has(s \o SympyParse \o SympyEncode, "schema")
    BY <2>2, RunsAreChecks, ConcatHas
  <2> QED
    BY <2>1, <2>3, ConcatHas DEF SympyCalculus
<1>5. SympyByMirror \in Seq(Checks)
  BY DEF SympyByMirror, Checks
<1> QED
  BY <1>1, <1>2, <1>3, <1>4, <1>5

LEMMA SageChecks ==
  /\ \A s \in {SageRational, SageLinear, SageCounterexample} :
       s \in Seq(Checks) /\ Has(s, "schema")
  /\ GatedSearch \in Seq(Checks) /\ Has(GatedSearch, "schema")
  /\ GatedIdeal \in Seq(Checks)
<1>1. SageRational \in Seq(Checks) /\ Has(SageRational, "schema")
  <2> DEFINE s == <<"schema", "digest", "size", "ir", "live">>
  <2>1. /\ s \in Seq(Checks) /\ Has(s, "schema")
        /\ <<"payload", "certificate">> \in Seq(Checks)
    BY DEF Checks, Has
  <2>2. s \o RunSage \in Seq(Checks) /\ Has(s \o RunSage, "schema")
    BY <2>1, RunsAreChecks, ConcatHas
  <2> QED
    BY <2>1, <2>2, ConcatHas DEF SageRational
<1>2. SageLinear \in Seq(Checks) /\ Has(SageLinear, "schema")
  <2> DEFINE s == <<"schema", "digest", "live">>
  <2>1. /\ s \in Seq(Checks) /\ Has(s, "schema")
        /\ <<"reported">> \in Seq(Checks) /\ <<"certificate">> \in Seq(Checks)
    BY DEF Checks, Has
  <2>2. s \o RunSage \in Seq(Checks) /\ Has(s \o RunSage, "schema")
    BY <2>1, RunsAreChecks, ConcatHas
  <2>3. /\ s \o RunSage \o <<"reported">> \in Seq(Checks)
        /\ Has(s \o RunSage \o <<"reported">>, "schema")
    BY <2>1, <2>2, ConcatHas
  <2>4. /\ s \o RunSage \o <<"reported">> \o SageLinearCertificate \in Seq(Checks)
        /\ Has(s \o RunSage \o <<"reported">> \o SageLinearCertificate, "schema")
    BY <2>3, RunsAreChecks, ConcatHas
  <2> QED
    BY <2>1, <2>4, ConcatHas DEF SageLinear
<1>3. GatedSearch \in Seq(Checks) /\ Has(GatedSearch, "schema")
  BY DEF GatedSearch, Checks, Has
<1>4. GatedIdeal \in Seq(Checks)
  BY DEF GatedIdeal, Checks
<1> QED
  BY <1>1, <1>2, <1>3, <1>4 DEF SageCounterexample

LEMMA MathematicaChecks ==
  \A s \in {MathematicaRational, MathematicaLinear, MathematicaGenerate,
            MathematicaEcho} :
     s \in Seq(Checks) /\ Has(s, "schema")
<1>1. MathematicaRational \in Seq(Checks) /\ Has(MathematicaRational, "schema")
  <2> DEFINE s == <<"schema", "digest", "vars", "size", "ir", "live">>
  <2>1. /\ s \in Seq(Checks) /\ Has(s, "schema")
        /\ <<"certificate", "output">> \in Seq(Checks)
    BY DEF Checks, Has
  <2>2. s \o RunWolfram \in Seq(Checks) /\ Has(s \o RunWolfram, "schema")
    BY <2>1, RunsAreChecks, ConcatHas
  <2>3. /\ s \o RunWolfram \o WolframCertificate \in Seq(Checks)
        /\ Has(s \o RunWolfram \o WolframCertificate, "schema")
    BY <2>2, RunsAreChecks, ConcatHas
  <2> QED
    BY <2>1, <2>3, ConcatHas DEF MathematicaRational
<1>2. MathematicaLinear \in Seq(Checks) /\ Has(MathematicaLinear, "schema")
  <2> DEFINE s == <<"schema", "digest", "live", "operation">>
  <2>1. /\ s \in Seq(Checks) /\ Has(s, "schema")
        /\ <<"certificate", "output">> \in Seq(Checks)
    BY DEF Checks, Has
  <2>2. s \o RunWolfram \in Seq(Checks) /\ Has(s \o RunWolfram, "schema")
    BY <2>1, RunsAreChecks, ConcatHas
  <2>3. /\ s \o RunWolfram \o WolframLinear \in Seq(Checks)
        /\ Has(s \o RunWolfram \o WolframLinear, "schema")
    BY <2>2, RunsAreChecks, ConcatHas
  <2> QED
    BY <2>1, <2>3, ConcatHas DEF MathematicaLinear
<1>3. MathematicaGenerate \in Seq(Checks) /\ Has(MathematicaGenerate, "schema")
  <2> DEFINE s == <<"live", "ir">>
             t == <<"large", "schema", "fields", "size", "certificate", "output">>
  <2>1. s \in Seq(Checks) /\ t \in Seq(Checks)
    BY DEF Checks
  <2>2. Has(t, "schema")
    <3>1. t[2] = "schema" /\ 2 \in DOMAIN t
      OBVIOUS
    <3> QED
      BY <3>1 DEF Has
  <2>3. s \o RunWolfram \in Seq(Checks)
    BY <2>1, RunsAreChecks, ConcatHas
  <2>4. s \o RunWolfram \o WolframIr \in Seq(Checks)
    BY <2>3, RunsAreChecks, ConcatHas
  <2> HIDE DEF s, t
  <2>5. /\ s \o RunWolfram \o WolframIr \o t \in Seq(Checks)
        /\ Has(s \o RunWolfram \o WolframIr \o t, "schema")
    BY <2>1, <2>2, <2>4, ConcatHas
  <2> QED
    BY <2>5 DEF MathematicaGenerate, s, t
<1>4. MathematicaEcho \in Seq(Checks) /\ Has(MathematicaEcho, "schema")
  <2>1. MathematicaEcho \in Seq(Checks)
    BY DEF MathematicaEcho, Checks
  <2>2. MathematicaEcho[2] = "schema" /\ 2 \in DOMAIN MathematicaEcho
    BY DEF MathematicaEcho
  <2> QED
    BY <2>1, <2>2 DEF Has
<1> QED
  BY <1>1, <1>2, <1>3, <1>4

LEMMA HandlerChecks ==
  ASSUME NEW b \in Backends, NEW h \in DOMAIN Handlers[b]
  PROVE  /\ Handlers[b][h] \in Seq(Checks)
         /\ h \notin {"ideal", "analytic"} => Has(Handlers[b][h], "schema")
<1>1. CASE b = "sympy"
  BY <1>1, SympyChecks DEF Handlers, SympyHandlers
<1>2. CASE b = "sage"
  BY <1>2, SageChecks DEF Handlers, SageHandlers
<1>3. CASE b = "mathematica"
  BY <1>3, SageChecks, MathematicaChecks DEF Handlers, MathematicaHandlers
<1> QED
  BY <1>1, <1>2, <1>3 DEF Backends

-----------------------------------------------------------------------------
(***************************************************************************)
(* What a handler answers: a result of the protocol, and evidence only of   *)
(* the capability that was asked for, for a request that its schema allows  *)
(* or one that the handler filled in and bound anew.                        *)
(***************************************************************************)
HasSchema(kind) == kind \notin {"ideal", "analytic"}

Allowed(b, kind, bad, r) ==
  /\ "schema" \notin bad
  /\ "unfilled" \in bad => Generates(b, kind) /\ r.digest = "rebound"

Evident(j, r) ==
  r.code = "ok" => /\ r.kind = j.kind
                   /\ HasSchema(j.kind) => Allowed(j.backend, j.kind, j.flaws, r)

LEMMA ErrorType ==
  ASSUME NEW code \in Codes \cup {"ok", "none", "schema_version_unsupported"}
  PROVE  Error(code) \in Results /\ Error(code).code = code
BY DEF Error, Results, Codes

LEMMA HandlerResultFits ==
  ASSUME NEW b \in Backends, NEW h \in DOMAIN Handlers[b], NEW kind \in Kinds,
         h \in {kind, "rational"}, NEW bad
  PROVE  LET r == HandlerResult(b, h, kind, bad) IN
         /\ r \in Results
         /\ r.code = "ok" => /\ r.kind = kind
                             /\ HasSchema(kind) => Allowed(b, kind, bad, r)
<1> DEFINE s     == Handlers[b][h]
           all   == IF h # kind \/ ("unfilled" \in bad /\ ~Generates(b, h))
                      THEN bad \cup {"schema"} ELSE bad
           fails == {i \in DOMAIN s : s[i] \in all}
           r     == HandlerResult(b, h, kind, bad)
<1>1. s \in Seq(Checks) /\ DOMAIN s \subseteq Nat
  BY HandlerChecks, LenProperties
<1>2. CASE fails # {}
  <2>1. Min(fails) \in fails
    BY <1>1, <1>2, MinOfNaturals
  <2>2. s[Min(fails)] \in Checks
    BY <1>1, <2>1, ElementOfSeq, LenProperties
  <2>3. Code(b, h, s[Min(fails)]) \in Codes
    BY <2>2, CodeType
  <2>4. r = [code |-> Code(b, h, s[Min(fails)]), kind |-> "none", digest |-> "none"]
    BY <1>2 DEF HandlerResult
  <2>5. r = Error(Code(b, h, s[Min(fails)]))
    BY <2>4 DEF Error
  <2>6. r \in Results /\ r.code \in Codes
    BY <2>3, <2>5, ErrorType
  <2> QED
    BY <2>6 DEF Codes
<1>3. CASE fails = {}
  <2>1. r = [code |-> "ok", kind |-> kind,
             digest |-> IF Generates(b, h) /\ bad \cap {"differs", "unfilled"} # {}
                          THEN "rebound" ELSE "request"]
    BY <1>3 DEF HandlerResult
  <2>2. r \in Results /\ r.kind = kind
    BY <2>1 DEF Results
  <2>3. ASSUME HasSchema(kind) PROVE Allowed(b, kind, bad, r)
    <3>1. Has(s, "schema")
      BY <2>3, HandlerChecks DEF HasSchema
    <3>2. "schema" \notin all
      BY <1>3, <3>1 DEF Has
    <3>3. /\ h = kind /\ "schema" \notin bad
          /\ "unfilled" \in bad => Generates(b, h)
      BY <3>2
    <3>4. "unfilled" \in bad => r.digest = "rebound"
      BY <2>1, <3>3
    <3> HIDE DEF r
    <3> QED
      BY <3>3, <3>4 DEF Allowed
  <2> QED
    BY <2>2, <2>3
<1> QED
  BY <1>2, <1>3

LEMMA AttemptsFit ==
  ASSUME NEW j \in Jobs, NEW h \in DOMAIN Handlers[j.backend],
         h \in {j.kind, "rational"}, NEW live, NEW r \in Attempts(j, h, live)
  PROVE  r \in Results /\ Evident(j, r)
<1>1. j.backend \in Backends /\ j.kind \in Kinds
  BY RpcAssumption
<1>2. PICK e : r = HandlerResult(j.backend, h, j.kind,
                                j.flaws \cup (IF live THEN {} ELSE {"live"}) \cup e)
  BY DEF Attempts
<1> DEFINE bad == j.flaws \cup (IF live THEN {} ELSE {"live"}) \cup e
<1>3. /\ r \in Results
      /\ r.code = "ok" => /\ r.kind = j.kind
                          /\ HasSchema(j.kind) => Allowed(j.backend, j.kind, bad, r)
  BY <1>1, <1>2, HandlerResultFits
<1> QED
  BY <1>3 DEF Evident, Allowed

LEMMA ResultsFit ==
  ASSUME NEW j \in Jobs, NEW r \in ServerResults[j] \cup DirectResults[j]
  PROVE  r \in Results /\ Evident(j, r)
<1>1. j.backend \in Backends /\ j.kind \in Kinds
  BY RpcAssumption
<1>2. CASE r \in ServerResults[j]
  <2> DEFINE h == Dispatched(j.backend, j.kind)
  <2>1. h \in DOMAIN Handlers[j.backend] /\ h \in {j.kind, "rational"}
    BY <1>1 DEF Dispatched, Backends, Handlers, SympyHandlers, SageHandlers,
                MathematicaHandlers
  <2>2. r \in Attempts(j, h, ServerLive(j))
    BY <1>2 DEF ServerResults
  <2> QED
    BY <2>1, <2>2, AttemptsFit
<1>3. CASE r \in DirectResults[j]
  <2> DEFINE h == DirectDispatched(j.backend, j.kind)
  <2>1. CASE h = "refused"
    <3>1. r = Error("backend_unsupported")
      BY <1>3, <2>1 DEF DirectResults
    <3> QED
      BY <3>1, ErrorType DEF Codes, Evident
  <2>2. CASE h # "refused"
    <3>1. h \in {j.kind, "rational"}
      BY <1>1, <2>2 DEF DirectDispatched, Kinds
    <3>2. h \in DOMAIN Handlers[j.backend]
      <4>1. CASE j.backend = "sage"
        BY <2>2, <4>1 DEF DirectDispatched, Handlers, SageHandlers
      <4>2. CASE j.backend = "sympy"
        BY <1>1, <3>1, <4>2 DEF Kinds, Handlers, SympyHandlers
      <4>3. CASE j.backend = "mathematica"
        BY <1>1, <4>3 DEF DirectDispatched, Kinds, Handlers, MathematicaHandlers
      <4> QED
        BY <1>1, <4>1, <4>2, <4>3 DEF Backends
    <3>3. r \in Attempts(j, h, Live(j.backend, j.mode, j.exe))
      BY <1>3, <2>2 DEF DirectResults
    <3> QED
      BY <3>1, <3>2, <3>3, AttemptsFit
  <2> QED
    BY <2>1, <2>2
<1> QED
  BY <1>2, <1>3

-----------------------------------------------------------------------------
(***************************************************************************)
(* The inductive invariant behind types and answers.                        *)
(***************************************************************************)
Methods == Calls \cup {"shutdown", "cancel"}
Places  == {"start", "close", "terminate", "wait", "fallback", "finish", "ended"}
             \cup Methods

Request == [id : Nat \ {0}, method : Methods]
Reply   == [id : Nat, about : Nat, res : Results]

(* The fields of the server's record; `ready` is read as a condition only.  *)
ServerType ==
  /\ server = [state |-> server.state, ready |-> server.ready, msg |-> server.msg,
               signal |-> server.signal]
  /\ server.state \in {"none", "idle", "busy", "leaving", "dead"}
  /\ server.signal \in {"none", "term", "kill"}
  /\ server.state = "busy" => server.msg \in Request /\ server.msg.id < nextId

ClientType ==
  /\ pc \in [Threads -> Places]
  /\ nextId \in Nat \ {0}
  /\ want \in [Threads -> Nat]
  /\ \A t \in Threads : /\ want[t] < nextId
                        /\ want[t] # 0 => pc[t] \in Methods
  /\ pc["canceller"] \in {"start", "cancel", "terminate", "wait", "ended"}
  /\ got \in Results

PipesType ==
  /\ inbox \in Seq(Request)
  /\ \A i \in DOMAIN inbox : inbox[i].id < nextId
  /\ outbox \in Seq(Reply)
  /\ \A i \in DOMAIN outbox : outbox[i].id < nextId

TypeInv ==
  /\ job \in Jobs /\ cancels \in BOOLEAN
  /\ ClientType /\ PipesType /\ ServerType
  /\ backend \in {"none", "running", "orphan"}
  /\ outcome \in Results
  /\ faults \subseteq Faults

(* What is in the pipes.                                                    *)
LEMMA LinesType ==
  ASSUME TypeInv
  PROVE  /\ \A i \in DOMAIN inbox : inbox[i] \in Request /\ inbox[i].id \in Nat \ {0}
         /\ \A i \in DOMAIN outbox : outbox[i] \in Reply /\ outbox[i].id \in Nat
<1>1. /\ \A i \in DOMAIN inbox : inbox[i] \in Request
      /\ \A i \in DOMAIN outbox : outbox[i] \in Reply
  BY ElementOfSeq, LenProperties DEF TypeInv, PipesType
<1> QED
  BY <1>1 DEF Request, Reply

LEMMA TypeInvImpliesTypeOK == TypeInv => TypeOK
<1> SUFFICES ASSUME TypeInv PROVE TypeOK
  OBVIOUS
<1>1. nextId \in Nat \ {0} /\ want \in [Threads -> 0..(nextId - 1)]
  <2>1. \A n \in Nat : n < nextId => n \in 0..(nextId - 1)
    BY DEF TypeInv, ClientType
  <2> QED
    BY <2>1 DEF TypeInv, ClientType
<1>2. \A i \in DOMAIN inbox : inbox[i].id \in 1..(nextId - 1)
  BY LinesType DEF TypeInv, PipesType, ClientType
<1>3. \A i \in DOMAIN outbox : /\ outbox[i].id \in 0..(nextId - 1)
                              /\ outbox[i].res \in Results
  BY LinesType DEF TypeInv, PipesType, ClientType, Reply
<1> QED
  BY <1>1, <1>2, <1>3
     DEF TypeInv, TypeOK, ClientType, ServerType, Places, Methods

-----------------------------------------------------------------------------
(* A line is taken from a pipe, or put into it.                             *)
LEMMA TailKeeps ==
  ASSUME NEW S, NEW s \in Seq(S), s # <<>>
  PROVE  /\ Head(s) \in S /\ Head(s) = s[1] /\ 1 \in DOMAIN s
         /\ Tail(s) \in Seq(S)
         /\ \A i \in DOMAIN Tail(s) : i + 1 \in DOMAIN s /\ Tail(s)[i] = s[i + 1]
<1>1. Len(s) \in Nat \ {0} /\ DOMAIN s = 1..Len(s)
  BY EmptySeq, LenProperties
<1>2. /\ Head(s) \in S /\ Tail(s) \in Seq(S) /\ Len(Tail(s)) = Len(s) - 1
      /\ \A i \in 1..Len(Tail(s)) : Tail(s)[i] = s[i + 1]
  BY HeadTailProperties
<1>3. DOMAIN Tail(s) = 1..Len(Tail(s))
  BY <1>2, LenProperties
<1> QED
  BY <1>1, <1>2, <1>3

LEMMA AppendKeeps ==
  ASSUME NEW S, NEW s \in Seq(S), NEW e \in S
  PROVE  /\ Append(s, e) \in Seq(S)
         /\ \A i \in DOMAIN Append(s, e) :
              \/ i \in DOMAIN s /\ Append(s, e)[i] = s[i]
              \/ Append(s, e)[i] = e
<1>1. /\ Append(s, e) \in Seq(S) /\ Len(Append(s, e)) = Len(s) + 1
      /\ \A i \in 1..Len(s) : Append(s, e)[i] = s[i]
      /\ Append(s, e)[Len(s) + 1] = e
  BY AppendProperties
<1>2. /\ Len(s) \in Nat /\ DOMAIN s = 1..Len(s)
      /\ DOMAIN Append(s, e) = 1..Len(Append(s, e))
  BY <1>1, LenProperties
<1> QED
  BY <1>1, <1>2

LEMMA TypeInit == Init => TypeInv
<1> SUFFICES ASSUME Init PROVE TypeInv
  OBVIOUS
<1>1. ClientType
  BY ErrorType DEF Init, ClientType, Places, Nothing, Threads
<1>2. PipesType
  BY EmptySeq DEF Init, PipesType
<1>3. ServerType
  BY DEF Init, ServerType
<1> QED
  BY <1>1, <1>2, <1>3, ErrorType, RpcAssumption DEF Init, TypeInv, Nothing

(* A thread that was told the result of its call.                           *)
LEMMA DeliverType ==
  ASSUME TypeInv, NEW t \in Threads, NEW res \in Results, pc[t] \in Methods,
         Deliver(t, res), nextId' \in {nextId, nextId + 1}
  PROVE  ClientType'
<1>1. want' = [want EXCEPT ![t] = 0]
  BY DEF Deliver
<1>2. /\ pc'[t] \in {"terminate", "checkSupport", "compute", "close"}
      /\ pc' = [pc EXCEPT ![t] = pc'[t]]
      /\ pc[t] = "cancel" => pc'[t] = "terminate"
      /\ got' \in {got, res}
  BY DEF Deliver, Goto, TypeInv, ClientType
<1>3. pc[t] \in Methods /\ t = "canceller" => pc[t] = "cancel"
  BY DEF TypeInv, ClientType, Methods, Calls
<1>4. pc' \in [Threads -> Places]
  BY <1>2 DEF TypeInv, ClientType, Places, Methods, Calls
<1>5. pc'["canceller"] \in {"start", "cancel", "terminate", "wait", "ended"}
  BY <1>2, <1>3 DEF TypeInv, ClientType, Threads
<1>6. nextId' \in Nat \ {0} /\ nextId =< nextId'
  BY DEF TypeInv, ClientType
<1>7. /\ want' \in [Threads -> Nat]
      /\ \A u \in Threads : want'[u] < nextId' /\ (want'[u] # 0 => pc'[u] \in Methods)
  BY <1>1, <1>2, <1>6 DEF TypeInv, ClientType
<1> QED
  BY <1>2, <1>4, <1>5, <1>6, <1>7 DEF TypeInv, ClientType

(* The server's fields keep their types while it and the counter stay.      *)
LEMMA ServerStays ==
  ASSUME TypeInv, UNCHANGED server, nextId' \in {nextId, nextId + 1}
  PROVE  ServerType'
<1>1. \A n \in Nat : n < nextId => n < nextId'
  BY DEF TypeInv, ClientType
<1> QED
  BY <1>1 DEF TypeInv, ServerType, Request

LEMMA PipesStay ==
  ASSUME TypeInv, UNCHANGED pipes, nextId' \in {nextId, nextId + 1}
  PROVE  PipesType'
<1>1. \A n \in Nat : n < nextId => n < nextId'
  BY DEF TypeInv, ClientType
<1> QED
  BY <1>1, LinesType DEF TypeInv, PipesType, pipes

(* A thread moves to a place where it does not wait for an answer.          *)
LEMMA GotoType ==
  ASSUME TypeInv, NEW t \in Threads, NEW to \in Places, Goto(t, to),
         t = "canceller" => to \in {"start", "cancel", "terminate", "wait", "ended"},
         pc[t] \notin Methods, UNCHANGED <<want, nextId>>, got' \in Results
  PROVE  ClientType'
<1>1. /\ pc' = [pc EXCEPT ![t] = to] /\ pc' \in [Threads -> Places]
      /\ want[t] = 0
  BY DEF Goto, TypeInv, ClientType
<1>2. pc'["canceller"] \in {"start", "cancel", "terminate", "wait", "ended"}
  BY <1>1 DEF TypeInv, ClientType, Threads
<1> QED
  BY <1>1, <1>2 DEF TypeInv, ClientType

LEMMA CallType ==
  ASSUME TypeInv, Call \/ Cancel
  PROVE  TypeInv'
<1> USE DEF pipes
<1>1. CASE Discover
  <2>1. ClientType'
    <3>1. /\ \E to \in {"ended", "initialize", "fallback"} : Goto("caller", to)
          /\ pc["caller"] = "start" /\ got' \in {got, Error("backend_unavailable")}
          /\ UNCHANGED <<want, nextId>>
      BY <1>1 DEF Discover, Return
    <3> QED
      BY <3>1, GotoType, ErrorType
         DEF TypeInv, ClientType, Places, Methods, Calls, Codes, Threads
  <2>2. ServerType'
    BY <1>1 DEF Discover, TypeInv, ServerType
  <2>3. outcome' \in Results
    BY <1>1, ErrorType DEF Discover, Return, TypeInv, Codes
  <2> QED
    BY <1>1, <2>1, <2>2, <2>3, PipesStay DEF Discover, TypeInv
<1>2. CASE Close
  <2>1. ClientType'
    BY <1>2, GotoType DEF Close, TypeInv, ClientType, Places, Methods, Calls, Threads
  <2> QED
    BY <1>2, <2>1, PipesStay, ServerStays DEF Close, TypeInv
<1>3. CASE Fallback
  <2>1. PICK r \in DirectResults[job] :
          \/ r.code # "ok" /\ Return(r) /\ UNCHANGED got
          \/ r.code = "ok" /\ Goto("caller", "finish") /\ got' = r /\ UNCHANGED outcome
    BY <1>3 DEF Fallback
  <2>2. r \in Results
    BY ResultsFit DEF TypeInv
  <2>3. got' \in Results /\ outcome' \in Results
    BY <2>1, <2>2 DEF Return, TypeInv, ClientType
  <2>4. ClientType'
    BY <1>3, <2>1, <2>3, GotoType
       DEF Fallback, Return, Places, Methods, Calls, Threads
  <2> QED
    BY <1>3, <2>3, <2>4, PipesStay, ServerStays DEF Fallback, TypeInv
<1>4. CASE Finish
  <2>1. outcome' \in Results
    BY <1>4, ErrorType DEF Finish, Return, TypeInv, ClientType, Codes
  <2>2. ClientType'
    BY <1>4, GotoType
       DEF Finish, Return, TypeInv, ClientType, Places, Methods, Calls, Threads
  <2> QED
    BY <1>4, <2>1, <2>2, PipesStay, ServerStays DEF Finish, TypeInv
<1>5. CASE Cancel
  <2>1. ClientType'
    BY <1>5, GotoType DEF Cancel, TypeInv, ClientType, Places, Methods, Calls, Threads
  <2> QED
    BY <1>5, <2>1, PipesStay, ServerStays DEF Cancel, TypeInv
<1> QED
  BY <1>1, <1>2, <1>3, <1>4, <1>5 DEF Call

LEMMA ThreadType ==
  ASSUME TypeInv, NEW t \in Threads, Step(t)
  PROVE  TypeInv'
<1>1. CASE Send(t)
  <2>1. /\ nextId' = nextId + 1 /\ pc[t] \in Methods
        /\ UNCHANGED <<job, cancels, outcome, outbox, server, backend, faults>>
    BY <1>1 DEF Send, Methods
  <2>2. CASE Dead /\ Deliver(t, Error("backend_unavailable")) /\ UNCHANGED inbox
    BY <2>1, <2>2, DeliverType, ErrorType, PipesStay, ServerStays
       DEF TypeInv, Codes, pipes
  <2>3. CASE /\ ~Dead
             /\ want' = [want EXCEPT ![t] = nextId]
             /\ inbox' = Append(inbox, [id |-> nextId, method |-> pc[t]])
             /\ UNCHANGED <<pc, got>>
    <3>1. [id |-> nextId, method |-> pc[t]] \in Request
      BY <2>1 DEF Request, TypeInv, ClientType
    <3>2. ClientType'
      BY <2>1, <2>3 DEF TypeInv, ClientType
    <3>3. /\ inbox' \in Seq(Request)
          /\ \A i \in DOMAIN inbox' :
               \/ i \in DOMAIN inbox /\ inbox'[i] = inbox[i]
               \/ inbox'[i] = [id |-> nextId, method |-> pc[t]]
      <4>1. inbox \in Seq(Request)
        BY DEF TypeInv, PipesType
      <4> QED
        BY <2>3, <3>1, <4>1, AppendKeeps
    <3>4. \A i \in DOMAIN inbox' : inbox'[i].id < nextId'
      BY <2>1, <3>3, LinesType DEF TypeInv, PipesType, ClientType
    <3>5. PipesType'
      BY <2>1, <3>3, <3>4, LinesType DEF TypeInv, PipesType, ClientType
    <3> QED
      BY <2>1, <3>2, <3>5, ServerStays DEF TypeInv
  <2> QED
    BY <1>1, <2>2, <2>3 DEF Send
<1>2. CASE Receive(t)
  <2>1. /\ pc[t] \in Methods /\ outbox # <<>> /\ outbox' = Tail(outbox)
        /\ UNCHANGED <<job, cancels, nextId, outcome, inbox, server, backend, faults>>
    BY <1>2 DEF Receive, TypeInv, ClientType
  <2>2. outbox \in Seq(Reply)
    BY DEF TypeInv, PipesType
  <2>3. Head(outbox) \in Reply
    BY <2>1, <2>2, TailKeeps
  <2>4. Head(outbox).res \in Results
    BY <2>3 DEF Reply
  <2>5. PipesType'
    BY <2>1, <2>2, TailKeeps DEF TypeInv, PipesType
  <2>6. ClientType'
    BY <1>2, <2>1, <2>4, DeliverType, ErrorType
       DEF Receive, TypeInv, ClientType, Codes
  <2> QED
    BY <2>1, <2>5, <2>6, ServerStays DEF TypeInv
<1>3. CASE ReadEnd(t)
  <2>1. pc[t] \in Methods
    BY <1>3 DEF ReadEnd, TypeInv, ClientType
  <2> QED
    BY <1>3, <2>1, DeliverType, ErrorType, PipesStay, ServerStays
       DEF ReadEnd, TypeInv, Codes
<1>4. CASE Terminate(t)
  <2>1. ClientType'
    BY <1>4, GotoType DEF Terminate, TypeInv, ClientType, Places, Methods, Calls
  <2>2. ServerType'
    BY <1>4 DEF Terminate, TypeInv, ServerType
  <2> QED
    BY <1>4, <2>1, <2>2, PipesStay DEF Terminate, TypeInv
<1>5. CASE Wait(t)
  <2>1. ClientType'
    BY <1>5, GotoType DEF Wait, TypeInv, ClientType, Places, Methods, Calls
  <2>2. ServerType'
    BY <1>5 DEF Wait, TypeInv, ServerType
  <2> QED
    BY <1>5, <2>1, <2>2, PipesStay DEF Wait, TypeInv
<1> QED
  BY <1>1, <1>2, <1>3, <1>4, <1>5 DEF Step

(* A line of the server goes into its output.                               *)
LEMMA OutputType ==
  ASSUME TypeInv, NEW line \in Reply, line.id < nextId,
         outbox' = Append(outbox, line), UNCHANGED nextId,
         \/ inbox' = inbox
         \/ inbox # <<>> /\ inbox' = Tail(inbox)
  PROVE  PipesType'
<1>1. inbox \in Seq(Request) /\ outbox \in Seq(Reply)
  BY DEF TypeInv, PipesType
<1>2. outbox' \in Seq(Reply) /\ \A i \in DOMAIN outbox' : outbox'[i].id < nextId
  BY <1>1, AppendKeeps DEF TypeInv, PipesType
<1>3. inbox' \in Seq(Request) /\ \A i \in DOMAIN inbox' : inbox'[i].id < nextId
  <2>1. CASE inbox' = inbox
    BY <2>1 DEF TypeInv, PipesType
  <2>2. CASE inbox # <<>> /\ inbox' = Tail(inbox)
    BY <1>1, <2>2, TailKeeps DEF TypeInv, PipesType
  <2> QED
    BY <2>1, <2>2
<1> QED
  BY <1>2, <1>3 DEF PipesType

LEMMA ServeType ==
  ASSUME TypeInv, Serve \/ Die \/ Noise
  PROVE  TypeInv'
<1>1. ASSUME Gone, UNCHANGED outcome, faults' \subseteq Faults
      PROVE  TypeInv'
  <2>1. ServerType'
    BY <1>1 DEF Gone, client, TypeInv, ServerType
  <2>2. ClientType'
    BY <1>1 DEF Gone, client, TypeInv, ClientType
  <2>3. PipesType' /\ backend' \in {"none", "running", "orphan"}
    BY <1>1, PipesStay DEF Gone, client, TypeInv
  <2> QED
    BY <1>1, <2>1, <2>2, <2>3 DEF Gone, TypeInv
<1>2. CASE Handle
  <2> DEFINE m == Head(inbox)
  <2>1. /\ inbox # <<>> /\ inbox' = Tail(inbox)
        /\ UNCHANGED <<job, cancels, client, backend, faults>>
        /\ server.state = "idle"
    BY <1>2 DEF Handle
  <2>2. m \in Request /\ m.id \in Nat \ {0} /\ m.id < nextId
    <3>1. inbox \in Seq(Request) /\ \A i \in DOMAIN inbox : inbox[i].id < nextId
      BY DEF TypeInv, PipesType
    <3>2. m \in Request /\ m = inbox[1] /\ 1 \in DOMAIN inbox
      BY <2>1, <3>1, TailKeeps
    <3> QED
      BY <3>1, <3>2 DEF Request
  <2>3. PICK res \in Results : Answer(m, res)
    BY <1>2, ErrorType DEF Handle, Ok, Codes
  <2>4. [id |-> m.id, about |-> m.id, res |-> res] \in Reply
    BY <2>2 DEF Reply
  <2>5. PipesType'
    BY <2>1, <2>2, <2>3, <2>4, OutputType DEF Answer, client
  <2>6. ServerType'
    BY <1>2, <2>1 DEF Handle, client, TypeInv, ServerType
  <2> QED
    BY <2>1, <2>5, <2>6 DEF client, TypeInv, ClientType
<1>3. CASE BeginCompute
  <2>1. inbox \in Seq(Request) /\ inbox # <<>> /\ inbox' = Tail(inbox)
    BY <1>3 DEF BeginCompute, TypeInv, PipesType
  <2>2. Head(inbox) \in Request /\ Head(inbox).id < nextId
    BY <2>1, TailKeeps DEF TypeInv, PipesType
  <2>3. PipesType'
    BY <1>3, <2>1, TailKeeps DEF BeginCompute, client, TypeInv, PipesType
  <2>4. ServerType'
    BY <1>3, <2>2 DEF BeginCompute, client, TypeInv, ServerType
  <2> QED
    BY <1>3, <2>3, <2>4 DEF BeginCompute, client, TypeInv, ClientType
<1>4. CASE EndCompute
  <2>1. server.msg \in Request /\ server.msg.id < nextId /\ server.msg.id \in Nat
    BY <1>4 DEF EndCompute, TypeInv, ServerType, Request
  <2>2. PICK res \in Results : Answer(server.msg, res)
    BY <1>4, ErrorType, ResultsFit DEF EndCompute, TypeInv, Codes
  <2>3. [id |-> server.msg.id, about |-> server.msg.id, res |-> res] \in Reply
    BY <2>1 DEF Reply
  <2>4. PipesType'
    BY <1>4, <2>1, <2>2, <2>3, OutputType DEF EndCompute, Answer, client
  <2>5. ServerType'
    BY <1>4 DEF EndCompute, client, TypeInv, ServerType
  <2> QED
    BY <1>4, <2>4, <2>5 DEF EndCompute, client, TypeInv, ClientType
<1>5. CASE Exit \/ ObeySignal
  BY <1>1, <1>5 DEF Exit, ObeySignal, Gone, client, TypeInv
<1>6. CASE Die
  BY <1>1, <1>6 DEF Die, Gone, client, TypeInv
<1>7. CASE Noise
  <2>1. [id |-> 0, about |-> 0, res |-> Nothing] \in Reply
    BY ErrorType DEF Reply, Nothing
  <2>2. PipesType'
    BY <1>7, <2>1, OutputType DEF Noise, client, TypeInv, ClientType
  <2> QED
    BY <1>7, <2>2, ServerStays DEF Noise, client, TypeInv, ClientType
<1> QED
  BY <1>2, <1>3, <1>4, <1>5, <1>6, <1>7 DEF Serve

LEMMA TypeStep == TypeInv /\ [Next]_vars => TypeInv'
<1> SUFFICES ASSUME TypeInv, [Next]_vars
             PROVE  TypeInv'
  OBVIOUS
<1>1. CASE UNCHANGED vars
  BY <1>1 DEF vars, client, pipes, TypeInv, ClientType, PipesType, ServerType
<1> QED
  BY <1>1, CallType, ThreadType, ServeType DEF Next, Ended

LEMMA TypeInvariant == Spec => []TypeInv
BY TypeInit, TypeStep, PTL DEF Spec

(***************************************************************************)
(* Every variable keeps its type, and every line in a pipe has an id that   *)
(* was given out: what the client and the server exchange is never outside  *)
(* the protocol, whatever fails and whoever cancels.                        *)
(***************************************************************************)
THEOREM RpcTypes == Spec => []TypeOK
BY TypeInvariant, TypeInvImpliesTypeOK, PTL

-----------------------------------------------------------------------------
(***************************************************************************)
(* What the answers are about.  While a thread waits for the answer with an *)
(* id, the request with that id has the method the thread is calling; so an *)
(* answer to a computation comes from a handler, and not from another       *)
(* method whose answer reads "ok" as well.                                  *)
(***************************************************************************)
WaitsFor(t) ==
  want[t] # 0 =>
    /\ \A i \in DOMAIN inbox : inbox[i].id = want[t] => inbox[i].method = pc[t]
    /\ server.state = "busy" /\ server.msg.id = want[t] => pc[t] = "compute"
    /\ \A i \in DOMAIN outbox :
         outbox[i].id = want[t] /\ pc[t] = "compute" => Evident(job, outbox[i].res)

AnswerInv ==
  /\ \A t \in Threads : WaitsFor(t)
  /\ Evident(job, got) /\ Evident(job, outcome)
  /\ pc["caller"] \notin {"start", "ended"} => "digest" \notin job.flaws
  /\ outcome.code = "ok" => /\ "digest" \notin job.flaws
                            /\ job.bundle => outcome.digest = "request"

LEMMA AnswerInit == Init => AnswerInv
BY DEF Init, AnswerInv, WaitsFor, Evident, Nothing, Error, Threads

(* A thread that waits for nothing moves.                                   *)
LEMMA AnswerGoto ==
  ASSUME TypeInv, AnswerInv, NEW t \in Threads, NEW to, Goto(t, to), want[t] = 0,
         UNCHANGED <<job, want, inbox, outbox>>,
         UNCHANGED <<server.state, server.msg>>
  PROVE  \A u \in Threads : WaitsFor(u)'
<1> SUFFICES ASSUME NEW u \in Threads PROVE WaitsFor(u)'
  OBVIOUS
<1>1. want[u] # 0 => pc'[u] = pc[u]
  BY DEF Goto, TypeInv, ClientType
<1> QED
  BY <1>1 DEF AnswerInv, WaitsFor

LEMMA AnswerCall ==
  ASSUME TypeInv, AnswerInv, Call \/ Cancel
  PROVE  AnswerInv'
<1>1. \A t \in Threads : pc[t] \notin Methods => want[t] = 0
  BY DEF TypeInv, ClientType
<1> USE DEF pipes, Threads, Methods, Calls
<1>2. CASE Discover
  <2>1. \A t \in Threads : WaitsFor(t)'
    <3>1. /\ want["caller"] = 0 /\ \E to : Goto("caller", to)
          /\ UNCHANGED <<job, want, inbox, outbox>>
          /\ \/ UNCHANGED server
             \/ server' = [server EXCEPT !.state = "idle"]
      BY <1>1, <1>2 DEF Discover, Return
    <3>2. \A t \in Threads : want'[t] # 0 => pc'[t] = pc[t] /\ want[t] # 0
      BY <3>1 DEF Goto, TypeInv, ClientType
    <3>3. server'.state # "busy" \/ UNCHANGED server
      BY <3>1 DEF TypeInv, ServerType
    <3> QED
      BY <3>1, <3>2, <3>3 DEF AnswerInv, WaitsFor
  <2>2. Evident(job, got)' /\ Evident(job, outcome)' /\ UNCHANGED job
    BY <1>2 DEF Discover, Return, AnswerInv, Evident, Error
  <2>3. outcome'.code = "ok" => outcome' = outcome
    BY <1>2 DEF Discover, Return, Error
  <2>4. pc'["caller"] \notin {"start", "ended"} => "digest" \notin job.flaws
    BY <1>2 DEF Discover, Return, Goto, TypeInv, ClientType
  <2> QED
    BY <2>1, <2>2, <2>3, <2>4 DEF AnswerInv
<1>3. CASE Close
  <2>1. \A t \in Threads : WaitsFor(t)'
    BY <1>1, <1>3, AnswerGoto DEF Close
  <2> QED
    BY <1>3, <2>1 DEF Close, Goto, AnswerInv, Evident, TypeInv, ClientType
<1>4. CASE Fallback
  <2>1. PICK r \in DirectResults[job] :
          \/ r.code # "ok" /\ Return(r) /\ UNCHANGED got
          \/ r.code = "ok" /\ Goto("caller", "finish") /\ got' = r /\ UNCHANGED outcome
    BY <1>4 DEF Fallback
  <2>2. Evident(job, r)
    BY ResultsFit DEF TypeInv
  <2>3. \A t \in Threads : WaitsFor(t)'
    BY <1>1, <1>4, <2>1, AnswerGoto DEF Fallback, Return
  <2>4. Evident(job, got)' /\ Evident(job, outcome)' /\ UNCHANGED job
    BY <1>4, <2>1, <2>2 DEF Fallback, Return, AnswerInv, Evident
  <2>5. "digest" \notin job.flaws
    BY <1>4 DEF Fallback, AnswerInv
  <2>6. outcome'.code = "ok" => outcome' = outcome
    BY <2>1 DEF Return
  <2> QED
    BY <2>3, <2>4, <2>5, <2>6 DEF AnswerInv
<1>5. CASE Finish
  <2>1. \A t \in Threads : WaitsFor(t)'
    BY <1>1, <1>5, AnswerGoto DEF Finish, Return
  <2>2. "digest" \notin job.flaws /\ UNCHANGED <<job, got>>
    BY <1>5 DEF Finish, AnswerInv
  <2>3. \/ outcome' = Error("exception")
        \/ outcome' = got /\ (job.bundle => got.digest = "request")
    BY <1>5 DEF Finish, Return
  <2>4. Evident(job, got)' /\ Evident(job, outcome)'
    BY <2>2, <2>3 DEF AnswerInv, Evident, Error
  <2>5. outcome'.code = "ok" => (job.bundle => outcome'.digest = "request")
    BY <2>3 DEF Error
  <2> QED
    BY <2>1, <2>2, <2>4, <2>5 DEF AnswerInv
<1>6. CASE Cancel
  <2>1. \A t \in Threads : WaitsFor(t)'
    BY <1>1, <1>6, AnswerGoto DEF Cancel
  <2>2. pc'["caller"] = pc["caller"]
    BY <1>6 DEF Cancel, Goto, TypeInv, ClientType
  <2> QED
    BY <1>6, <2>1, <2>2 DEF Cancel, AnswerInv, Evident
<1> QED
  BY <1>2, <1>3, <1>4, <1>5, <1>6 DEF Call

(* A thread is told the result of its call.                                 *)
LEMMA AnswerDeliver ==
  ASSUME TypeInv, AnswerInv, NEW t \in Threads, NEW res \in Results,
         pc[t] \in Methods, Deliver(t, res),
         pc[t] = "compute" => Evident(job, res),
         UNCHANGED <<job, outcome, inbox, server>>,
         \/ outbox' = outbox
         \/ outbox # <<>> /\ outbox' = Tail(outbox)
  PROVE  AnswerInv'
<1>1. want' = [want EXCEPT ![t] = 0]
  BY DEF Deliver
<1>2. /\ pc' = [pc EXCEPT ![t] = pc'[t]]
      /\ \/ got' = got
         \/ got' = res /\ (res.code = "ok" => pc[t] = "compute")
  <2>1. pc' = [pc EXCEPT ![t] = pc'[t]] /\ got' \in {got, res}
    BY DEF Deliver, Goto, TypeInv, ClientType
  <2>2. CASE pc[t] = "compute"
    BY <2>1, <2>2
  <2>3. CASE pc[t] \in {"shutdown", "cancel"}
    BY <2>1, <2>3 DEF Deliver
  <2>4. CASE pc[t] \in {"initialize", "checkSupport"} /\ res.code = "ok"
    BY <2>1, <2>4 DEF Deliver
  <2>5. CASE pc[t] \in {"initialize", "checkSupport"} /\ res.code # "ok"
    BY <2>1, <2>5
  <2> QED
    BY <2>2, <2>3, <2>4, <2>5 DEF Methods, Calls
<1>3. Evident(job, got)'
  BY <1>2 DEF AnswerInv, Evident
<1>4. \A i \in DOMAIN outbox' : \E k \in DOMAIN outbox : outbox'[i] = outbox[k]
  <2>1. outbox \in Seq(Reply)
    BY DEF TypeInv, PipesType
  <2> QED
    BY <2>1, TailKeeps
<1>5. \A u \in Threads : WaitsFor(u)'
  <2>1. ASSUME NEW u \in Threads, want'[u] # 0
        PROVE  want'[u] = want[u] /\ pc'[u] = pc[u]
    BY <1>1, <1>2, <2>1 DEF TypeInv, ClientType
  <2>2. ASSUME NEW u \in Threads, want'[u] # 0, NEW i \in DOMAIN outbox',
               outbox'[i].id = want[u], pc[u] = "compute"
        PROVE  Evident(job, outbox'[i].res)
    BY <1>4, <2>1, <2>2 DEF AnswerInv, WaitsFor
  <2> QED
    BY <2>1, <2>2 DEF AnswerInv, WaitsFor
<1>6. /\ pc'["caller"] \notin {"start", "ended"} => "digest" \notin job.flaws
      /\ Evident(job, outcome)'
      /\ outcome'.code = "ok" => /\ "digest" \notin job.flaws
                                 /\ job.bundle => outcome'.digest = "request"
  <2>1. pc["caller"] \in Methods \/ pc'["caller"] = pc["caller"]
    BY <1>2 DEF TypeInv, ClientType, Threads
  <2>2. pc'["caller"] \notin {"start", "ended"} => "digest" \notin job.flaws
    BY <2>1 DEF AnswerInv, Methods, Calls
  <2> QED
    BY <2>2 DEF AnswerInv, Evident
<1> QED
  BY <1>3, <1>5, <1>6 DEF AnswerInv

LEMMA AnswerThread ==
  ASSUME TypeInv, AnswerInv, NEW t \in Threads, Step(t)
  PROVE  AnswerInv'
<1> USE DEF pipes
<1>1. \A u \in Threads : pc[u] \notin Methods => want[u] = 0
  BY DEF TypeInv, ClientType
<1>2. CASE Send(t)
  <2>1. /\ pc[t] \in Methods
        /\ UNCHANGED <<job, cancels, outcome, outbox, server, backend, faults>>
    BY <1>2 DEF Send, Methods
  <2>2. CASE Dead /\ Deliver(t, Error("backend_unavailable")) /\ UNCHANGED inbox
    BY <2>1, <2>2, AnswerDeliver, ErrorType DEF Codes, Evident
  <2>3. CASE /\ ~Dead
             /\ want' = [want EXCEPT ![t] = nextId]
             /\ inbox' = Append(inbox, [id |-> nextId, method |-> pc[t]])
             /\ UNCHANGED <<pc, got>>
    <3> DEFINE new == [id |-> nextId, method |-> pc[t]]
    <3>1. new \in Request /\ new.id = nextId /\ new.method = pc[t]
      BY <2>1 DEF Request, TypeInv, ClientType
    <3>2. \A i \in DOMAIN inbox' : \/ i \in DOMAIN inbox /\ inbox'[i] = inbox[i]
                                   \/ inbox'[i] = new
      <4>1. inbox \in Seq(Request)
        BY DEF TypeInv, PipesType
      <4> HIDE DEF new
      <4> QED
        BY <2>3, <3>1, <4>1, AppendKeeps DEF new
    <3> HIDE DEF new
    <3>3. WaitsFor(t)'
      <4>1. want'[t] = nextId /\ pc'[t] = pc[t]
        BY <2>3 DEF TypeInv, ClientType
      <4>2. \A i \in DOMAIN inbox : inbox[i].id # nextId
        BY LinesType DEF TypeInv, PipesType, ClientType
      <4>3. \A i \in DOMAIN outbox : outbox[i].id # nextId
        BY LinesType DEF TypeInv, PipesType, ClientType
      <4>4. server.state = "busy" => server.msg.id # nextId
        BY DEF TypeInv, ServerType, ClientType, Request
      <4> QED
        BY <2>1, <3>1, <3>2, <4>1, <4>2, <4>3, <4>4 DEF WaitsFor
    <3>4. ASSUME NEW u \in Threads, u # t PROVE WaitsFor(u)'
      <4>1. want'[u] = want[u] /\ pc'[u] = pc[u] /\ want[u] # nextId
        BY <2>3, <3>4 DEF TypeInv, ClientType
      <4>2. \A i \in DOMAIN inbox' : inbox'[i].id = want[u] =>
                                        i \in DOMAIN inbox /\ inbox'[i] = inbox[i]
        BY <3>1, <3>2, <4>1
      <4> QED
        BY <2>1, <4>1, <4>2 DEF AnswerInv, WaitsFor
    <3> QED
      BY <2>1, <2>3, <3>3, <3>4 DEF AnswerInv, Evident
  <2> QED
    BY <1>2, <2>2, <2>3 DEF Send
<1>3. CASE Receive(t)
  <2>1. /\ pc[t] \in Methods /\ outbox # <<>> /\ outbox' = Tail(outbox) /\ want[t] # 0
        /\ UNCHANGED <<job, cancels, nextId, outcome, inbox, server, backend, faults>>
    BY <1>3 DEF Receive, TypeInv, ClientType
  <2>2. /\ outbox \in Seq(Reply)
        /\ Head(outbox) \in Reply /\ Head(outbox) = outbox[1] /\ 1 \in DOMAIN outbox
    BY <2>1, TailKeeps DEF TypeInv, PipesType
  <2>3. CASE Deliver(t, Error("malformed_evidence"))
    BY <2>1, <2>3, AnswerDeliver, ErrorType DEF Codes, Evident
  <2>4. CASE Head(outbox).id = want[t] /\ Deliver(t, Head(outbox).res)
    <3>1. Head(outbox).res \in Results
      BY <2>2 DEF Reply
    <3>2. pc[t] = "compute" => Evident(job, Head(outbox).res)
      BY <2>1, <2>2, <2>4 DEF AnswerInv, WaitsFor
    <3> QED
      BY <2>1, <2>4, <3>1, <3>2, AnswerDeliver
  <2>5. CASE UNCHANGED <<pc, want, got>>
    <3>1. \A i \in DOMAIN outbox' : \E k \in DOMAIN outbox : outbox'[i] = outbox[k]
      BY <2>1, <2>2, TailKeeps
    <3>2. ASSUME NEW u \in Threads PROVE WaitsFor(u)'
      BY <2>1, <2>5, <3>1 DEF AnswerInv, WaitsFor
    <3> QED
      BY <2>1, <2>5, <3>2 DEF AnswerInv, Evident
  <2> QED
    BY <1>3, <2>3, <2>4, <2>5 DEF Receive
<1>4. CASE ReadEnd(t)
  <2>1. /\ pc[t] \in Methods /\ Deliver(t, Error("backend_unavailable"))
        /\ UNCHANGED <<job, outcome, inbox, outbox, server>>
    BY <1>4 DEF ReadEnd, TypeInv, ClientType
  <2> QED
    BY <2>1, AnswerDeliver, ErrorType DEF Codes, Evident
<1>5. CASE Terminate(t) \/ Wait(t)
  <2>1. /\ UNCHANGED <<job, want, inbox, outbox, got, outcome>>
        /\ UNCHANGED <<server.state, server.msg>>
        /\ pc[t] \in {"terminate", "wait"} /\ \E to : Goto(t, to)
    BY <1>5 DEF Terminate, Wait, TypeInv, ServerType
  <2>2. \A u \in Threads : WaitsFor(u)'
    BY <1>1, <2>1, AnswerGoto DEF Methods, Calls
  <2>3. pc["caller"] = pc'["caller"] \/ pc["caller"] \in {"terminate", "wait"}
    BY <2>1 DEF Goto, TypeInv, ClientType, Threads
  <2> QED
    BY <2>1, <2>2, <2>3 DEF AnswerInv, Evident
<1> QED
  BY <1>2, <1>3, <1>4, <1>5 DEF Step

(* The server writes a line that is no evidence of a computation, or        *)
(* evidence that fits.                                                      *)
LEMMA AnswerOutput ==
  ASSUME TypeInv, AnswerInv, NEW line \in Reply, outbox' = Append(outbox, line),
         \A u \in Threads : /\ want[u] # 0 /\ line.id = want[u] /\ pc[u] = "compute"
                            => Evident(job, line.res),
         UNCHANGED <<job, client>>,
         \/ inbox' = inbox
         \/ inbox # <<>> /\ inbox' = Tail(inbox),
         \/ server'.state # "busy"
         \/ UNCHANGED server
  PROVE  AnswerInv'
<1>1. \A i \in DOMAIN outbox' : \/ i \in DOMAIN outbox /\ outbox'[i] = outbox[i]
                                \/ outbox'[i] = line
  BY AppendKeeps DEF TypeInv, PipesType
<1>2. \A i \in DOMAIN inbox' : \E k \in DOMAIN inbox : inbox'[i] = inbox[k]
  <2>1. inbox \in Seq(Request)
    BY DEF TypeInv, PipesType
  <2>2. CASE inbox # <<>> /\ inbox' = Tail(inbox)
    BY <2>1, <2>2, TailKeeps
  <2>3. CASE inbox' = inbox
    BY <2>3
  <2> QED
    BY <2>2, <2>3
<1>3. ASSUME NEW u \in Threads, want[u] # 0 PROVE WaitsFor(u)'
  <2>1. \A i \in DOMAIN inbox' : inbox'[i].id = want[u] => inbox'[i].method = pc[u]
    BY <1>2, <1>3 DEF AnswerInv, WaitsFor
  <2>2. server'.state = "busy" /\ server'.msg.id = want[u] => pc[u] = "compute"
    BY <1>3 DEF AnswerInv, WaitsFor
  <2>3. \A i \in DOMAIN outbox' :
          outbox'[i].id = want[u] /\ pc[u] = "compute" => Evident(job, outbox'[i].res)
    BY <1>1, <1>3 DEF AnswerInv, WaitsFor
  <2> QED
    BY <2>1, <2>2, <2>3 DEF client, WaitsFor, Evident
<1>4. \A u \in Threads : WaitsFor(u)'
  BY <1>3 DEF client, WaitsFor
<1> QED
  BY <1>4 DEF client, AnswerInv, Evident

LEMMA AnswerServe ==
  ASSUME TypeInv, AnswerInv, Serve \/ Die \/ Noise
  PROVE  AnswerInv'
<1>1. CASE Handle
  <2> DEFINE m == Head(inbox)
  <2>1. /\ inbox # <<>> /\ inbox' = Tail(inbox)
        /\ UNCHANGED <<job, cancels, client, backend, faults>>
        /\ server'.state # "busy"
    BY <1>1 DEF Handle, TypeInv, ServerType
  <2>2. m \in Request /\ m = inbox[1] /\ 1 \in DOMAIN inbox
    BY <2>1, TailKeeps DEF TypeInv, PipesType
  <2>3. PICK res \in Results : Answer(m, res) /\ (m.method = "compute" => res.code # "ok")
    BY <1>1, ErrorType DEF Handle, Ok, Codes
  <2> DEFINE line == [id |-> m.id, about |-> m.id, res |-> res]
  <2>4. line \in Reply /\ line.id = m.id /\ line.res = res
    BY <2>2 DEF Reply, Request
  <2>5. ASSUME NEW u \in Threads, want[u] # 0, line.id = want[u], pc[u] = "compute"
        PROVE  Evident(job, line.res)
    <3>1. m.method = "compute"
      BY <2>2, <2>4, <2>5 DEF AnswerInv, WaitsFor
    <3> QED
      BY <2>3, <2>4, <3>1 DEF Evident
  <2>6. outbox' = Append(outbox, line)
    BY <2>3 DEF Answer
  <2> HIDE DEF line, m
  <2> QED
    BY <2>1, <2>4, <2>5, <2>6, AnswerOutput
<1>2. CASE BeginCompute
  <2>1. /\ inbox # <<>> /\ inbox' = Tail(inbox) /\ Head(inbox).method = "compute"
        /\ server'.msg = Head(inbox)
        /\ UNCHANGED <<job, outbox, client>>
    BY <1>2 DEF BeginCompute, TypeInv, ServerType
  <2>2. Head(inbox) = inbox[1] /\ 1 \in DOMAIN inbox
    BY <2>1, TailKeeps DEF TypeInv, PipesType
  <2>3. \A i \in DOMAIN inbox' : \E k \in DOMAIN inbox : inbox'[i] = inbox[k]
    BY <2>1, TailKeeps DEF TypeInv, PipesType
  <2>4. ASSUME NEW u \in Threads PROVE WaitsFor(u)'
    BY <2>1, <2>2, <2>3 DEF client, AnswerInv, WaitsFor, Evident
  <2> QED
    BY <2>1, <2>4 DEF client, AnswerInv, Evident
<1>3. CASE EndCompute
  <2>1. server.msg \in Request /\ server'.state # "busy"
    BY <1>3 DEF EndCompute, TypeInv, ServerType
  <2>2. PICK res \in Results : Answer(server.msg, res) /\ Evident(job, res)
    BY <1>3, ErrorType, ResultsFit DEF EndCompute, TypeInv, Codes, Evident
  <2> DEFINE line == [id |-> server.msg.id, about |-> server.msg.id, res |-> res]
  <2>3. line \in Reply /\ line.res = res
    BY <2>1 DEF Reply, Request
  <2>4. outbox' = Append(outbox, line) /\ UNCHANGED <<job, client, inbox>>
    BY <1>3, <2>2 DEF Answer, EndCompute
  <2> HIDE DEF line
  <2> QED
    BY <2>1, <2>2, <2>3, <2>4, AnswerOutput
<1>4. CASE Exit \/ ObeySignal \/ Die
  <2>1. server'.state = "dead" /\ UNCHANGED <<job, client, inbox, outbox>>
    BY <1>4 DEF Exit, ObeySignal, Die, Gone, pipes, TypeInv, ServerType
  <2> QED
    BY <2>1 DEF client, AnswerInv, WaitsFor, Evident
<1>5. CASE Noise
  <2> DEFINE line == [id |-> 0, about |-> 0, res |-> Nothing]
  <2>1. line \in Reply /\ line.id = 0
    BY ErrorType DEF Reply, Nothing
  <2>2. outbox' = Append(outbox, line) /\ UNCHANGED <<job, client, inbox, server>>
    BY <1>5 DEF Noise
  <2> HIDE DEF line
  <2> QED
    BY <2>1, <2>2, AnswerOutput
<1> QED
  BY <1>1, <1>2, <1>3, <1>4, <1>5 DEF Serve

LEMMA AnswerStep == TypeInv /\ AnswerInv /\ [Next]_vars => AnswerInv'
<1> SUFFICES ASSUME TypeInv, AnswerInv, [Next]_vars
             PROVE  AnswerInv'
  OBVIOUS
<1>1. CASE UNCHANGED vars
  BY <1>1 DEF vars, client, pipes, AnswerInv, WaitsFor, Evident
<1> QED
  BY <1>1, AnswerCall, AnswerThread, AnswerServe DEF Next, Ended

LEMMA AnswerInvariant == Spec => []AnswerInv
BY TypeInvariant, AnswerInit, AnswerStep, PTL DEF Spec

(***************************************************************************)
(* What discover() answers is evidence of the capability that was asked     *)
(* for, and a bundle is bound to the request as it was sent: for any job,   *)
(* with a thread that cancels on the same pipes, and whatever fails.        *)
(***************************************************************************)
THEOREM AnswersFit == Spec => []EvidenceFits
<1>1. AnswerInv => EvidenceFits
  BY DEF AnswerInv, Evident, EvidenceFits
<1> QED
  BY <1>1, AnswerInvariant, PTL

(***************************************************************************)
(* No request that its digest refuses is answered, by the server or in the  *)
(* caller's own process: the fallback of discover() does not let through    *)
(* what the handler has refused.  Of the requests that their capability's   *)
(* schema refuses only those are answered that Mathematica's handler        *)
(* completes before it validates them, and no bundle is written of one.     *)
(***************************************************************************)
THEOREM FlawsAreRefused == Spec => []FlawedIsRefused
<1>1. AnswerInv => FlawedIsRefused
  <2> SUFFICES ASSUME AnswerInv, outcome.code = "ok"
               PROVE  /\ "digest" \notin job.flaws
                      /\ HasSchema(job.kind) =>
                           Allowed(job.backend, job.kind, job.flaws, outcome) /\ ("unfilled" \in job.flaws => ~job.bundle)
    BY DEF FlawedIsRefused, Allowed, HasSchema
  <2>1. Evident(job, outcome) /\ "digest" \notin job.flaws
        /\ (job.bundle => outcome.digest = "request")
    BY DEF AnswerInv
  <2>2. HasSchema(job.kind) => Allowed(job.backend, job.kind, job.flaws, outcome)
    BY <2>1 DEF Evident
  <2> QED
    BY <2>1, <2>2 DEF Allowed
<1> QED
  BY <1>1, AnswerInvariant, PTL

-----------------------------------------------------------------------------
(***************************************************************************)
(* Why close() leaves no backend behind.  A backend runs only while the     *)
(* server computes, and the server reads nothing until it has answered.  So *)
(* once a computation is answered, or `shutdown` is, nothing runs; and the  *)
(* caller goes on only when its call is answered, when the server is dead,  *)
(* or when it reads noise.  After noise the server may still compute, but   *)
(* then no second line of noise ends the wait for `shutdown`.               *)
(***************************************************************************)
Over ==
  /\ server.state # "busy"
  /\ \/ server.state \in {"leaving", "dead"}
     \/ \A i \in DOMAIN inbox : inbox[i].method # "compute"

HasNoise == \E i \in DOMAIN outbox : outbox[i].id = 0

Answered == /\ want["caller"] # 0
            /\ \E i \in DOMAIN outbox : outbox[i].id = want["caller"]

Unspawned == pc["caller"] = "start" => server.state = "none"

PipesInv ==
  /\ HasNoise => "noise" \in faults
  /\ \A i, k \in DOMAIN outbox : outbox[i].id = 0 /\ outbox[k].id = 0 => i = k
  /\ backend = "running" => server.state = "busy"
  /\ Unspawned

Parting == {"wait", "fallback", "finish", "ended"}

(* At most one request is out, and the server is done once it is answered.  *)
OneAtATime ==
  /\ Len(inbox) =< 1
  /\ server.state = "busy" => inbox = <<>>
  /\ want["caller"] = 0 \/ Answered => inbox = <<>> /\ server.state # "busy"

Quiet ==
  /\ backend # "orphan"
  /\ pc["canceller"] = "start" /\ want["canceller"] = 0 /\ pc["caller"] # "cancel"
  /\ server.signal # "none" => pc["caller"] \in Parting
  /\ pc["caller"] = "start" => inbox = <<>>
  /\ pc["caller"] \in Calls => OneAtATime
  /\ pc["caller"] \in {"close", "shutdown"} /\ ("noise" \notin faults \/ HasNoise)
       => Over
  /\ pc["caller"] = "shutdown" /\ Answered => server.state \in {"leaving", "dead"}
  /\ pc["caller"] \in Parting \cup {"terminate"} => Over

QuietInv == PipesInv /\ (~cancels /\ "death" \notin faults => Quiet)

LEMMA QuietInit == Init => QuietInv
<1> SUFFICES ASSUME Init PROVE QuietInv
  OBVIOUS
<1>1. DOMAIN outbox = {} /\ DOMAIN inbox = {}
  BY DEF Init
<1> QED
  BY <1>1 DEF Init, QuietInv, PipesInv, Unspawned, HasNoise, Answered, Quiet, Parting,
              Calls, Threads

LEMMA UnspawnedStep == TypeInv /\ Unspawned /\ [Next]_vars => Unspawned'
<1> SUFFICES ASSUME TypeInv, Unspawned, [Next]_vars PROVE Unspawned'
  OBVIOUS
<1>1. CASE UNCHANGED vars
  BY <1>1 DEF vars, client, Unspawned
<1>2. CASE Call \/ Cancel
  <2>1. CASE Call
    <3>1. \E to : to # "start" /\ Goto("caller", to)
      BY <2>1 DEF Call, Discover, Close, Fallback, Finish, Return
    <3> QED
      BY <3>1 DEF Goto, TypeInv, ClientType, Threads, Unspawned
  <2>2. CASE Cancel
    <3>1. UNCHANGED server /\ \E to : Goto("canceller", to)
      BY <2>2 DEF Cancel
    <3> QED
      BY <3>1 DEF Goto, TypeInv, ClientType, Threads, Unspawned
  <2> QED
    BY <1>2, <2>1, <2>2
<1>3. ASSUME NEW t \in Threads, Step(t) PROVE Unspawned'
  <2>1. server'.state = server.state
    BY <1>3 DEF Step, Send, Receive, ReadEnd, Terminate, Wait, TypeInv, ServerType
  <2>2. pc' = pc \/ \E to : to # "start" /\ Goto(t, to)
    BY <1>3 DEF Step, Send, Receive, ReadEnd, Terminate, Wait, Deliver
  <2> QED
    BY <2>1, <2>2 DEF Goto, TypeInv, ClientType, Threads, Unspawned
<1>4. CASE Serve \/ Die \/ Noise
  <2>1. server.state # "none" /\ UNCHANGED client
    <3>1. CASE Handle \/ BeginCompute \/ EndCompute
      <4>1. server.state \in {"idle", "busy"}
        BY <3>1 DEF Handle, BeginCompute, EndCompute
      <4>2. UNCHANGED client
        BY <3>1 DEF Handle, BeginCompute, EndCompute
      <4> QED
        BY <4>1, <4>2
    <3>2. CASE Exit \/ ObeySignal
      BY <3>2 DEF Exit, ObeySignal, Gone
    <3>3. CASE Die \/ Noise
      BY <3>3 DEF Die, Noise, Gone
    <3> QED
      BY <1>4, <3>1, <3>2, <3>3 DEF Serve
  <2> QED
    BY <2>1 DEF client, Unspawned
<1> QED
  BY <1>1, <1>2, <1>3, <1>4 DEF Next, Ended

(* Only Noise writes a line with the id 0, and only once.                   *)
LEMMA PipesStep == TypeInv /\ PipesInv /\ [Next]_vars => PipesInv'
<1> SUFFICES ASSUME TypeInv, PipesInv, [Next]_vars PROVE PipesInv'
  OBVIOUS
<1> USE DEF pipes
<1>11. Unspawned'
  BY UnspawnedStep DEF PipesInv
<1>1. ASSUME UNCHANGED <<outbox, faults>>
      PROVE  /\ HasNoise' => "noise" \in faults'
             /\ \A i, k \in DOMAIN outbox' :
                  outbox'[i].id = 0 /\ outbox'[k].id = 0 => i = k
  BY <1>11, <1>1 DEF PipesInv, HasNoise
<1>2. ASSUME NEW line \in Reply, line.id # 0, outbox' = Append(outbox, line),
             UNCHANGED faults
      PROVE  /\ HasNoise' => "noise" \in faults'
             /\ \A i, k \in DOMAIN outbox' :
                  outbox'[i].id = 0 /\ outbox'[k].id = 0 => i = k
  <2>1. \A i \in DOMAIN outbox' : \/ i \in DOMAIN outbox /\ outbox'[i] = outbox[i]
                                  \/ outbox'[i] = line
    BY <1>2, AppendKeeps DEF TypeInv, PipesType
  <2> QED
    BY <1>11, <1>2, <2>1 DEF PipesInv, HasNoise
<1>3. CASE UNCHANGED vars
  BY <1>1, <1>3, <1>11 DEF vars, PipesInv
<1>4. CASE Call \/ Cancel
  <2>1. UNCHANGED <<outbox, faults, backend>>
    BY <1>4 DEF Call, Cancel, Discover, Close, Fallback, Finish
  <2>2. pc["caller"] = "start" \/ UNCHANGED server
    BY <1>4 DEF Call, Cancel, Discover, Close, Fallback, Finish
  <2> QED
    BY <1>1, <1>11, <2>1, <2>2 DEF PipesInv, Unspawned
<1>5. ASSUME NEW t \in Threads, Step(t) PROVE PipesInv'
  <2>1. /\ server'.state = server.state /\ UNCHANGED <<faults, backend>>
        /\ \/ UNCHANGED outbox
           \/ outbox # <<>> /\ outbox' = Tail(outbox)
    BY <1>5 DEF Step, Send, Receive, ReadEnd, Terminate, Wait, TypeInv, ServerType
  <2>2. CASE UNCHANGED outbox
    BY <1>11, <1>1, <2>1, <2>2 DEF PipesInv
  <2>3. CASE outbox # <<>> /\ outbox' = Tail(outbox)
    <3>1. /\ \A i \in DOMAIN outbox' : /\ i + 1 \in DOMAIN outbox
                                       /\ outbox'[i] = outbox[i + 1]
          /\ DOMAIN outbox' \subseteq Int
      <4>1. outbox \in Seq(Reply) /\ Tail(outbox) \in Seq(Reply)
        BY <2>3, TailKeeps DEF TypeInv, PipesType
      <4>2. DOMAIN Tail(outbox) \subseteq Int
        BY <4>1, LenProperties
      <4> QED
        BY <2>3, <4>1, <4>2, TailKeeps
    <3>2. ASSUME NEW i \in DOMAIN outbox', NEW k \in DOMAIN outbox',
                 outbox'[i].id = 0, outbox'[k].id = 0
          PROVE  i = k
      <4>1. i + 1 = k + 1
        BY <1>11, <3>1, <3>2 DEF PipesInv
      <4> QED
        BY <3>1, <4>1
    <3>3. HasNoise' => HasNoise
      BY <3>1 DEF HasNoise
    <3> QED
      BY <1>11, <2>1, <3>2, <3>3 DEF PipesInv
  <2> QED
    BY <2>1, <2>2, <2>3
<1>6. CASE Handle
  <2>1. /\ inbox # <<>> /\ inbox \in Seq(Request)
        /\ UNCHANGED <<backend, faults>> /\ server.state = "idle"
    BY <1>6 DEF Handle, TypeInv, PipesType
  <2>2. Head(inbox) \in Request
    BY <2>1, TailKeeps
  <2>3. PICK res \in Results : Answer(Head(inbox), res)
    BY <1>6, ErrorType DEF Handle, Ok, Codes
  <2> DEFINE line == [id |-> Head(inbox).id, about |-> Head(inbox).id, res |-> res]
  <2>4. line \in Reply /\ line.id # 0 /\ outbox' = Append(outbox, line)
    BY <2>2, <2>3 DEF Reply, Request, Answer
  <2> HIDE DEF line
  <2> QED
    BY <1>11, <1>2, <2>1, <2>4 DEF PipesInv
<1>7. CASE BeginCompute
  <2>1. UNCHANGED <<outbox, faults>> /\ server'.state = "busy"
    BY <1>7 DEF BeginCompute, TypeInv, ServerType
  <2> QED
    BY <1>11, <1>1, <2>1 DEF PipesInv
<1>8. CASE EndCompute
  <2>1. server.msg \in Request /\ backend' = "none" /\ UNCHANGED faults
    BY <1>8 DEF EndCompute, TypeInv, ServerType
  <2>2. PICK res \in Results : Answer(server.msg, res)
    BY <1>8, ErrorType, ResultsFit DEF EndCompute, TypeInv, Codes
  <2> DEFINE line == [id |-> server.msg.id, about |-> server.msg.id, res |-> res]
  <2>3. line \in Reply /\ line.id # 0 /\ outbox' = Append(outbox, line)
    BY <2>1, <2>2 DEF Reply, Request, Answer
  <2> HIDE DEF line
  <2> QED
    BY <1>11, <1>2, <2>1, <2>3 DEF PipesInv
<1>9. CASE Exit \/ ObeySignal \/ Die
  <2>1. /\ UNCHANGED outbox /\ faults \subseteq faults'
        /\ backend' # "running"
    BY <1>9 DEF Exit, ObeySignal, Die, Gone
  <2> QED
    BY <1>11, <2>1 DEF PipesInv, HasNoise
<1>10. CASE Noise
  <2> DEFINE line == [id |-> 0, about |-> 0, res |-> Nothing]
  <2>1. /\ outbox' = Append(outbox, line) /\ "noise" \in faults'
        /\ ~HasNoise /\ UNCHANGED <<server, backend>>
    BY <1>10 DEF Noise, PipesInv
  <2>2. line \in Reply
    BY ErrorType DEF Reply, Nothing
  <2> HIDE DEF line
  <2>3. outbox \in Seq(Reply) /\ Len(outbox) \in Nat /\ DOMAIN outbox = 1..Len(outbox)
    BY LenProperties DEF TypeInv, PipesType
  <2>4. \A i \in DOMAIN outbox' : outbox'[i].id = 0 => i = Len(outbox) + 1
    <3>1. /\ DOMAIN outbox' = 1..(Len(outbox) + 1)
          /\ \A i \in DOMAIN outbox : outbox'[i] = outbox[i]
      BY <2>1, <2>2, <2>3, AppendProperties, LenProperties
    <3> QED
      BY <2>1, <2>3, <3>1 DEF HasNoise
  <2> QED
    BY <1>11, <2>1, <2>4 DEF PipesInv
<1> QED
  BY <1>3, <1>4, <1>5, <1>6, <1>7, <1>8, <1>9, <1>10 DEF Next, Serve, Ended

(* The server moves: it computes only what the caller waits for.            *)
LEMMA QuietServer ==
  ASSUME TypeInv, Quiet, UNCHANGED client, server.state # "none",
         pc["caller"] = "start" => server.state = "none",
         server'.signal = server.signal, backend' # "orphan",
         Over => Over',
         pc["caller"] \in {"close", "shutdown"} /\ ("noise" \notin faults' \/ HasNoise')
           => Over,
         pc["caller"] \in Calls => OneAtATime',
         pc["caller"] = "shutdown" /\ Answered' => server'.state \in {"leaving", "dead"}
  PROVE  Quiet'
BY DEF client, Quiet

(* Lines that are written with an id other than 0.                          *)
LEMMA OutputIds ==
  ASSUME TypeInv, NEW line \in Reply, outbox' = Append(outbox, line), UNCHANGED client
  PROVE  /\ HasNoise' => HasNoise \/ line.id = 0
         /\ Answered' => Answered \/ (want["caller"] # 0 /\ line.id = want["caller"])
<1>1. \A i \in DOMAIN outbox' : \/ i \in DOMAIN outbox /\ outbox'[i] = outbox[i]
                                \/ outbox'[i] = line
  BY AppendKeeps DEF TypeInv, PipesType
<1>2. HasNoise' => HasNoise \/ line.id = 0
  BY <1>1 DEF HasNoise
<1>3. Answered' => Answered \/ (want["caller"] # 0 /\ line.id = want["caller"])
  BY <1>1 DEF Answered, client
<1> QED
  BY <1>2, <1>3

(* The server reads a line: nothing else is in its pipe, if only one was.   *)
LEMMA InputTaken ==
  ASSUME TypeInv, inbox # <<>>, inbox' = Tail(inbox)
  PROVE  /\ \A i \in DOMAIN inbox' : \E k \in DOMAIN inbox : inbox'[i] = inbox[k]
         /\ Len(inbox) =< 1 => inbox' = <<>>
         /\ Head(inbox) \in Request /\ Head(inbox) = inbox[1] /\ 1 \in DOMAIN inbox
<1>1. inbox \in Seq(Request)
  BY DEF TypeInv, PipesType
<1>2. /\ Len(inbox) \in Nat \ {0} /\ Tail(inbox) \in Seq(Request)
      /\ Len(Tail(inbox)) = Len(inbox) - 1
  BY <1>1, HeadTailProperties, EmptySeq, LenProperties
<1>3. Len(inbox) =< 1 => Tail(inbox) = <<>>
  BY <1>2, EmptySeq
<1> QED
  BY <1>1, <1>3, TailKeeps

LEMMA QuietServe ==
  ASSUME TypeInv, AnswerInv, PipesInv, Quiet, Serve \/ Noise
  PROVE  Quiet'
<1>1. pc["caller"] = "start" => server.state = "none"
  BY DEF PipesInv, Unspawned
<1>2. Len(<<>>) = 0 /\ backend # "orphan"
  BY EmptySeq DEF Quiet
<1>3. CASE Handle
  <2>1. /\ inbox # <<>> /\ inbox' = Tail(inbox) /\ server.state = "idle"
        /\ UNCHANGED <<client, backend, faults>>
        /\ server'.state = (IF Head(inbox).method = "shutdown" THEN "leaving" ELSE "idle")
        /\ server'.signal = server.signal
    BY <1>3 DEF Handle, TypeInv, ServerType
  <2>2. PICK res \in Results : Answer(Head(inbox), res)
    BY <1>3, ErrorType DEF Handle, Ok, Codes
  <2> DEFINE m == Head(inbox)
             line == [id |-> m.id, about |-> m.id, res |-> res]
  <2>3. m \in Request /\ m = inbox[1] /\ 1 \in DOMAIN inbox
    BY <2>1, InputTaken
  <2>4. line \in Reply /\ line.id = m.id /\ m.id # 0 /\ outbox' = Append(outbox, line)
    BY <2>2, <2>3 DEF Reply, Request, Answer
  <2> HIDE DEF line
  <2>5. Over => Over'
    BY <2>1, InputTaken DEF Over
  <2>6. HasNoise' => HasNoise
    BY <2>1, <2>4, OutputIds
  <2>7. pc["caller"] \in Calls => OneAtATime'
    BY <1>2, <2>1, InputTaken DEF Quiet, OneAtATime
  <2>8. ASSUME pc["caller"] = "shutdown", Answered'
        PROVE  server'.state \in {"leaving", "dead"}
    <3>1. ~Answered
      BY <2>1, <2>8 DEF Quiet
    <3>2. want["caller"] # 0 /\ m.id = want["caller"]
      BY <2>1, <2>4, <2>8, <3>1, OutputIds
    <3>3. m.method = "shutdown"
      BY <2>3, <2>8, <3>2 DEF AnswerInv, WaitsFor, Threads
    <3> QED
      BY <2>1, <3>3
  <2> QED
    BY <1>1, <1>2, <2>1, <2>5, <2>6, <2>7, <2>8, QuietServer DEF Quiet
<1>4. CASE BeginCompute
  <2>1. /\ inbox # <<>> /\ inbox' = Tail(inbox) /\ server.state = "idle"
        /\ Head(inbox).method = "compute" /\ backend' \in {backend, "running"}
        /\ UNCHANGED <<client, outbox, faults>>
        /\ server'.state = "busy" /\ server'.signal = server.signal
    BY <1>4 DEF BeginCompute, TypeInv, ServerType
  <2>2. ~Over
    BY <2>1, InputTaken DEF Over
  <2>3. UNCHANGED <<HasNoise, Answered>>
    BY <2>1 DEF client, HasNoise, Answered
  <2>4. pc["caller"] \in Calls => OneAtATime'
    BY <1>2, <2>1, <2>3, InputTaken DEF Quiet, OneAtATime, client
  <2>5. ~(pc["caller"] = "shutdown" /\ Answered)
    BY <2>1 DEF Quiet
  <2> QED
    BY <1>1, <1>2, <2>1, <2>2, <2>3, <2>4, <2>5, QuietServer DEF Quiet
<1>5. CASE EndCompute
  <2>1. /\ server.state = "busy" /\ server.msg \in Request
        /\ backend' = "none" /\ UNCHANGED <<client, inbox, faults>>
        /\ server'.state = "idle" /\ server'.signal = server.signal
    BY <1>5 DEF EndCompute, TypeInv, ServerType
  <2>2. PICK res \in Results : Answer(server.msg, res)
    BY <1>5, ErrorType, ResultsFit DEF EndCompute, TypeInv, Codes
  <2> DEFINE line == [id |-> server.msg.id, about |-> server.msg.id, res |-> res]
  <2>3. /\ line \in Reply /\ line.id = server.msg.id /\ server.msg.id # 0
        /\ outbox' = Append(outbox, line)
    BY <2>1, <2>2 DEF Reply, Request, Answer
  <2> HIDE DEF line
  <2>4. ~Over
    BY <2>1 DEF Over
  <2>5. HasNoise' => HasNoise
    BY <2>1, <2>3, OutputIds
  <2>6. pc["caller"] \in Calls => OneAtATime'
    BY <1>2, <2>1 DEF Quiet, OneAtATime
  <2>7. ~(pc["caller"] = "shutdown" /\ Answered')
    <3>1. SUFFICES ASSUME pc["caller"] = "shutdown", Answered' PROVE FALSE
      OBVIOUS
    <3>2. ~Answered
      BY <2>1, <3>1 DEF Quiet
    <3>3. want["caller"] # 0 /\ server.msg.id = want["caller"]
      BY <2>1, <2>3, <3>1, <3>2, OutputIds
    <3> QED
      BY <2>1, <3>1, <3>3 DEF AnswerInv, WaitsFor, Threads
  <2> QED
    BY <1>1, <2>1, <2>4, <2>5, <2>6, <2>7, QuietServer DEF Quiet
<1>6. CASE Exit \/ ObeySignal
  <2>1. /\ server'.state = "dead" /\ server'.signal = server.signal
        /\ UNCHANGED <<client, pipes, faults>> /\ server.state # "none"
        /\ backend' = (IF backend = "running" THEN "orphan" ELSE backend)
    BY <1>6 DEF Exit, ObeySignal, Gone, TypeInv, ServerType
  <2>2. server.state # "busy"
    <3>1. CASE Exit
      BY <3>1 DEF Exit
    <3>2. CASE ObeySignal
      BY <3>2 DEF ObeySignal, Quiet, Over
    <3> QED
      BY <1>6, <3>1, <3>2
  <2>3. backend' # "orphan"
    BY <1>2, <2>1, <2>2 DEF PipesInv
  <2>4. Over' /\ UNCHANGED <<HasNoise, Answered>>
    BY <2>1 DEF Over, client, pipes, HasNoise, Answered
  <2>5. pc["caller"] \in Calls => OneAtATime'
    BY <2>1, <2>4 DEF Quiet, OneAtATime, client, pipes
  <2> QED
    BY <1>1, <2>1, <2>3, <2>4, <2>5, QuietServer DEF Quiet
<1>7. CASE Noise
  <2> DEFINE line == [id |-> 0, about |-> 0, res |-> Nothing]
  <2>1. /\ outbox' = Append(outbox, line) /\ "noise" \notin faults
        /\ UNCHANGED <<client, inbox, server, backend>>
        /\ server.state # "none"
    BY <1>7 DEF Noise
  <2>2. line \in Reply /\ line.id = 0
    BY ErrorType DEF Reply, Nothing
  <2> HIDE DEF line
  <2>3. Answered' => Answered
    BY <2>1, <2>2, OutputIds
  <2>4. pc["caller"] \in Calls => OneAtATime'
    BY <2>1, <2>3 DEF Quiet, OneAtATime, client
  <2> QED
    BY <1>1, <1>2, <2>1, <2>3, <2>4, QuietServer DEF Quiet, Over
<1> QED
  BY <1>3, <1>4, <1>5, <1>6, <1>7 DEF Serve

(* The caller moves on, to a place where it waits for nothing.              *)
LEMMA QuietGoto ==
  ASSUME TypeInv, Quiet, NEW to, Goto("caller", to), to \notin {"start", "cancel"},
         want["caller"] = 0, UNCHANGED <<cancels, want, inbox, outbox, backend, faults>>,
         server'.signal # "none" => to \in Parting,
         Over => Over',
         to \in Calls => OneAtATime',
         to \in {"close", "shutdown"} /\ ("noise" \notin faults \/ HasNoise) => Over,
         to \in Parting \cup {"terminate"} => Over
  PROVE  Quiet'
<1>1. pc'["caller"] = to /\ pc'["canceller"] = pc["canceller"]
  BY DEF Goto, TypeInv, ClientType, Threads
<1>2. ~Answered' /\ (HasNoise' => HasNoise)
  BY DEF Answered, HasNoise
<1> QED
  BY <1>1, <1>2 DEF Quiet

LEMMA QuietCall ==
  ASSUME TypeInv, PipesInv, Quiet, Call
  PROVE  Quiet'
<1> USE DEF pipes
<1>1. want["caller"] = 0
  <2>1. pc["caller"] \in {"start", "close", "fallback", "finish"}
    BY DEF Call, Discover, Close, Fallback, Finish
  <2> QED
    BY <2>1 DEF TypeInv, ClientType, Methods, Calls, Threads
<1>2. CASE Discover
  <2>1. /\ inbox = <<>> /\ server.state = "none" /\ server.signal = "none"
        /\ pc["caller"] = "start"
    BY <1>2 DEF Discover, Quiet, PipesInv, Unspawned, Parting
  <2>2. /\ UNCHANGED <<cancels, want, inbox, outbox, backend, faults>>
        /\ server'.state \in {"none", "idle"} /\ server'.signal = "none"
        /\ \E to \in {"ended", "initialize", "fallback"} : Goto("caller", to)
    BY <1>2, <2>1 DEF Discover, Return, TypeInv, ServerType
  <2>3. Over /\ Over' /\ OneAtATime'
    <3>1. DOMAIN inbox = {} /\ Len(inbox) = 0
      BY <2>1, EmptySeq
    <3> QED
      BY <2>1, <2>2, <3>1 DEF Over, OneAtATime
  <2> QED
    BY <1>1, <2>2, <2>3, QuietGoto
<1>3. CASE Close
  <2>1. /\ UNCHANGED <<cancels, want, inbox, outbox, server, backend, faults>>
        /\ Goto("caller", IF Dead THEN "wait" ELSE "shutdown")
        /\ pc["caller"] = "close" /\ server.signal = "none"
    BY <1>3 DEF Close, Quiet, Parting
  <2>2. Over' <=> Over
    BY <2>1 DEF Over
  <2>3. Dead => Over
    BY DEF Dead, Over
  <2>4. "noise" \notin faults \/ HasNoise => Over
    BY <2>1 DEF Quiet
  <2> QED
    BY <1>1, <2>1, <2>2, <2>3, <2>4, QuietGoto DEF Calls, Parting
<1>4. CASE Fallback \/ Finish
  <2>1. /\ UNCHANGED <<cancels, want, inbox, outbox, server, backend, faults>>
        /\ pc["caller"] \in {"fallback", "finish"}
        /\ \E to \in {"ended", "finish"} : Goto("caller", to)
    BY <1>4 DEF Fallback, Finish, Return
  <2>2. Over /\ Over'
    BY <2>1 DEF Quiet, Parting, Over
  <2> QED
    BY <1>1, <2>1, <2>2, QuietGoto DEF Calls, Parting
<1> QED
  BY <1>2, <1>3, <1>4 DEF Call

(* The caller is told the result of its call: of a computation only if the  *)
(* server has answered, is dead, or has printed noise.                      *)
LEMMA QuietDeliver ==
  ASSUME TypeInv, Quiet, NEW res, Deliver("caller", res),
         pc["caller"] \in Calls \cup {"shutdown"},
         UNCHANGED <<cancels, inbox, server, backend, faults>>,
         HasNoise' => HasNoise,
         pc["caller"] = "shutdown" => Over,
         pc["caller"] \in Calls =>
           /\ "noise" \notin faults \/ HasNoise' => Over
           /\ res.code = "ok" => inbox = <<>> /\ server.state # "busy"
  PROVE  Quiet'
<1>1. want' = [want EXCEPT !["caller"] = 0]
  BY DEF Deliver
<1>2. want'["caller"] = 0 /\ want'["canceller"] = want["canceller"]
  BY <1>1 DEF TypeInv, ClientType, Threads
<1>3. \E to : /\ Goto("caller", to)
              /\ \/ to = "terminate" /\ pc["caller"] = "shutdown"
                 \/ to = "close" /\ pc["caller"] \in Calls
                 \/ to \in Calls /\ pc["caller"] \in Calls /\ res.code = "ok"
  BY DEF Deliver, Calls
<1>4. /\ pc'["canceller"] = pc["canceller"]
      /\ \/ pc'["caller"] = "terminate" /\ pc["caller"] = "shutdown"
         \/ pc'["caller"] = "close" /\ pc["caller"] \in Calls
         \/ pc'["caller"] \in Calls /\ pc["caller"] \in Calls /\ res.code = "ok"
  BY <1>3 DEF Goto, TypeInv, ClientType, Threads
<1>5. ~Answered' /\ (Over => Over')
  BY <1>2 DEF Answered, Over
<1>6. pc["caller"] \in Calls /\ res.code = "ok" => OneAtATime'
  BY EmptySeq DEF OneAtATime
<1>7. server.signal = "none"
  BY DEF Quiet, Parting, Calls
<1> QED
  BY <1>2, <1>4, <1>5, <1>6, <1>7 DEF Quiet, Parting, Calls

LEMMA QuietThread ==
  ASSUME TypeInv, AnswerInv, PipesInv, Quiet, NEW t \in Threads, Step(t)
  PROVE  Quiet'
<1> USE DEF pipes
<1>1. t = "caller"
  <2>1. SUFFICES ASSUME t = "canceller" PROVE FALSE
    BY DEF Threads
  <2>2. pc[t] = "start" /\ want[t] = 0
    BY <2>1 DEF Quiet
  <2> QED
    BY <2>2 DEF Step, Send, Receive, ReadEnd, Terminate, Wait, Calls
<1>2. ASSUME want["caller"] # 0 \/ pc["caller"] \in Calls \cup {"shutdown", "cancel"}
      PROVE  pc["caller"] \in Calls \cup {"shutdown"}
  BY <1>2 DEF TypeInv, ClientType, Quiet, Threads, Methods
<1>3. CASE Send(t)
  <2>1. /\ pc["caller"] \in Calls \cup {"shutdown"} /\ want["caller"] = 0
        /\ UNCHANGED <<cancels, outbox, server, backend, faults>>
    BY <1>1, <1>2, <1>3 DEF Send
  <2>2. CASE Dead /\ Deliver(t, Error("backend_unavailable")) /\ UNCHANGED inbox
    <3>1. Over /\ (HasNoise' => HasNoise) /\ Error("backend_unavailable").code # "ok"
      BY <2>1, <2>2 DEF Over, Dead, HasNoise, Error
    <3> QED
      BY <1>1, <2>1, <2>2, <3>1, QuietDeliver
  <2>3. CASE /\ ~Dead
             /\ want' = [want EXCEPT ![t] = nextId]
             /\ inbox' = Append(inbox, [id |-> nextId, method |-> pc[t]])
             /\ UNCHANGED <<pc, got>>
    <3> DEFINE new == [id |-> nextId, method |-> pc[t]]
    <3>1. new \in Request /\ new.method = pc["caller"]
      BY <1>1, <2>1 DEF Request, TypeInv, ClientType, Methods
    <3> HIDE DEF new
    <3>2. inbox' = Append(inbox, new) /\ inbox \in Seq(Request)
      BY <2>3 DEF new, TypeInv, PipesType
    <3>3. \A i \in DOMAIN inbox' : \/ i \in DOMAIN inbox /\ inbox'[i] = inbox[i]
                                   \/ inbox'[i] = new
      BY <3>1, <3>2, AppendKeeps
    <3>4. Len(inbox') = Len(inbox) + 1
      BY <3>1, <3>2, AppendProperties
    <3>5. want'["caller"] = nextId /\ want'["canceller"] = want["canceller"]
      BY <1>1, <2>3 DEF TypeInv, ClientType, Threads
    <3>6. ~Answered' /\ (HasNoise' => HasNoise)
      BY <2>1, <3>5 DEF Answered, HasNoise, TypeInv, PipesType, ClientType, Reply
    <3>7. ASSUME pc["caller"] \in Calls PROVE OneAtATime'
      <4>1. inbox = <<>> /\ server.state # "busy"
        BY <2>1, <3>7 DEF Quiet, OneAtATime
      <4>2. Len(inbox') = 1
        BY <3>4, <4>1, EmptySeq
      <4>3. want'["caller"] # 0
        BY <3>5 DEF TypeInv, ClientType
      <4> QED
        BY <2>1, <3>6, <4>1, <4>2, <4>3 DEF OneAtATime
    <3>8. ASSUME pc["caller"] = "shutdown", Over PROVE Over'
      BY <2>1, <3>1, <3>3, <3>8 DEF Over
    <3>9. pc["caller"] \in Calls \cup {"shutdown"} /\ UNCHANGED pc
      BY <2>1, <2>3
    <3> QED
      BY <2>1, <3>5, <3>6, <3>7, <3>8, <3>9 DEF Quiet, Parting, Calls
  <2> QED
    BY <1>3, <2>2, <2>3 DEF Send
<1>4. CASE Receive(t)
  <2>1. /\ outbox # <<>> /\ outbox' = Tail(outbox) /\ want["caller"] # 0
        /\ pc["caller"] \in Calls \cup {"shutdown"}
        /\ UNCHANGED <<cancels, inbox, server, backend, faults>>
    BY <1>1, <1>2, <1>4 DEF Receive
  <2>2. /\ outbox \in Seq(Reply)
        /\ Head(outbox) = outbox[1] /\ 1 \in DOMAIN outbox
        /\ \A i \in DOMAIN outbox' : i + 1 \in DOMAIN outbox /\ outbox'[i] = outbox[i + 1]
    BY <2>1, TailKeeps DEF TypeInv, PipesType
  <2>3. HasNoise' => HasNoise
    BY <2>2 DEF HasNoise
  <2>4. CASE Head(outbox).id = 0 /\ Deliver("caller", Error("malformed_evidence"))
    <3>1. HasNoise /\ "noise" \in faults
      BY <2>2, <2>4 DEF HasNoise, PipesInv
    <3>2. ~HasNoise'
      <4>1. outbox' \in Seq(Reply)
        BY <2>1, <2>2, TailKeeps
      <4>2. \A i \in DOMAIN outbox' : i + 1 # 1
        BY <4>1, LenProperties
      <4> QED
        BY <2>2, <2>4, <4>2 DEF HasNoise, PipesInv
    <3>3. pc["caller"] = "shutdown" => Over
      BY <3>1 DEF Quiet
    <3> QED
      BY <2>1, <2>4, <3>1, <3>2, <3>3, QuietDeliver DEF Error
  <2>5. CASE Head(outbox).id = want["caller"] /\ Deliver("caller", Head(outbox).res)
    <3>1. Answered
      BY <2>1, <2>2, <2>5 DEF Answered
    <3>2. pc["caller"] = "shutdown" => Over
      BY <3>1 DEF Quiet, Over
    <3>3. pc["caller"] \in Calls => inbox = <<>> /\ server.state # "busy"
      BY <3>1 DEF Quiet, OneAtATime
    <3>4. pc["caller"] \in Calls => Over
      BY <3>3 DEF Over
    <3> QED
      BY <2>1, <2>3, <2>5, <3>2, <3>3, <3>4, QuietDeliver
  <2>6. CASE UNCHANGED <<pc, want, got>>
    <3>1. Answered' => Answered
      BY <2>2, <2>6 DEF Answered
    <3>2. OneAtATime => OneAtATime'
      BY <2>1, <2>6, <3>1 DEF OneAtATime
    <3>3. Over => Over'
      BY <2>1 DEF Over
    <3> QED
      BY <2>1, <2>3, <2>6, <3>1, <3>2, <3>3 DEF Quiet
  <2> QED
    BY <1>1, <1>4, <2>4, <2>5, <2>6 DEF Receive
<1>5. CASE ReadEnd(t)
  <2>1. /\ pc["caller"] \in Calls \cup {"shutdown"}
        /\ Deliver("caller", Error("backend_unavailable"))
        /\ UNCHANGED <<cancels, inbox, outbox, server, backend, faults>>
    BY <1>1, <1>2, <1>5 DEF ReadEnd
  <2>2. Over /\ (HasNoise' => HasNoise) /\ Error("backend_unavailable").code # "ok"
    BY <1>5, <2>1 DEF ReadEnd, Over, Dead, HasNoise, Error
  <2> QED
    BY <2>1, <2>2, QuietDeliver
<1>6. CASE Terminate(t) \/ Wait(t)
  <2>1. /\ pc["caller"] \in Parting \cup {"terminate"} /\ want["caller"] = 0
        /\ UNCHANGED <<cancels, want, inbox, outbox, backend, faults>>
        /\ server'.state = server.state
    BY <1>1, <1>6
       DEF Terminate, Wait, Parting, TypeInv, ClientType, ServerType, Methods, Calls
  <2>2. \E to \in Parting : Goto("caller", to)
    BY <1>1, <1>6 DEF Terminate, Wait, Parting
  <2>3. Over /\ Over'
    BY <2>1 DEF Quiet, Over
  <2> QED
    BY <2>1, <2>2, <2>3, QuietGoto DEF Parting, Calls
<1> QED
  BY <1>3, <1>4, <1>5, <1>6 DEF Step

LEMMA QuietStep == TypeInv /\ AnswerInv /\ QuietInv /\ [Next]_vars => QuietInv'
<1> SUFFICES ASSUME TypeInv, AnswerInv, QuietInv, [Next]_vars
             PROVE  QuietInv'
  OBVIOUS
<1>1. PipesInv'
  BY PipesStep DEF QuietInv
<1>2. SUFFICES ASSUME ~cancels', "death" \notin faults' PROVE Quiet'
  BY <1>1 DEF QuietInv
<1>3. ~cancels /\ "death" \notin faults
  <2>1. CASE Call \/ Cancel
    BY <1>2, <2>1 DEF Call, Cancel, Discover, Close, Fallback, Finish
  <2>2. CASE \E t \in Threads : Step(t)
    BY <1>2, <2>2 DEF Step, Send, Receive, ReadEnd, Terminate, Wait
  <2>3. CASE Serve
    BY <1>2, <2>3 DEF Serve, Handle, BeginCompute, EndCompute, Exit, ObeySignal, Gone
  <2>4. CASE Die \/ Noise
    BY <1>2, <2>4 DEF Die, Noise, Gone
  <2>5. CASE UNCHANGED vars
    BY <1>2, <2>5 DEF vars
  <2> QED
    BY <2>1, <2>2, <2>3, <2>4, <2>5 DEF Next, Ended
<1>4. Quiet /\ PipesInv
  BY <1>3 DEF QuietInv
<1>5. CASE UNCHANGED vars
  BY <1>4, <1>5 DEF vars, client, pipes, Quiet, OneAtATime, HasNoise, Answered, Over
<1>6. ~Cancel /\ ~Die
  BY <1>2, <1>3 DEF Cancel, Die
<1> QED
  BY <1>4, <1>5, <1>6, QuietCall, QuietThread, QuietServe DEF Next, Ended

LEMMA QuietInvariant == Spec => []QuietInv
BY TypeInvariant, AnswerInvariant, QuietInit, QuietStep, PTL DEF Spec

(***************************************************************************)
(* No backend process is left without the server that limits its time,      *)
(* unless the server dies by itself or another thread cancels: rpc_client's *)
(* close() terminates the server only when nothing is computed, with at     *)
(* most one line of noise on the pipe.                                      *)
(***************************************************************************)
THEOREM BackendsEnd == Spec => []NoOrphanBackend
<1>1. QuietInv => NoOrphanBackend
  BY DEF QuietInv, Quiet, NoOrphanBackend
<1> QED
  BY <1>1, QuietInvariant, PTL

=============================================================================
