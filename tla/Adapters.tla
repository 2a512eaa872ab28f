------------------------------ MODULE Adapters ------------------------------
(***************************************************************************
 The compute handlers of the three adapters, as the sequence of checks that
 a request passes before its evidence is answered.  What a handler computes is
 abstracted; which failure is found first, and with which code, is not.  A
 request or an environment is described by the set of checks that it fails.
 ***************************************************************************)
EXTENDS Naturals, Sequences, FiniteSetsExt, SequencesExt

Backends == {"sympy", "sage", "mathematica"}

\* "derivative" and "equation" (ODE, recurrence) are the two groups of
\* operations of the capability algebra.formal_rational_calculus.
Kinds == {"rational", "linear", "counterexample", "derivative", "equation",
          "ideal", "analytic"}

\* What may be wrong with a request as it is sent: "ir" is an expression outside
\* the fragment, "vars" a variable declared twice or not at all.  Its schema
\* refuses it for two flaws: "unfilled" is a missing candidate or missing or null
\* domain conditions, "schema" any other departure from the schema, in a field
\* that no handler reads before it validates.
Flaws == {"schema", "unfilled", "digest", "size", "vars", "ir", "operation",
          "fields", "value"}

----------------------------------------------------------------------------
\* The Wolfram and Sage processes, and what is taken from their output.
WolframJson == <<"json">>
RunWolfram == <<"expired", "late", "spawn", "overtime", "exit", "output">>
              \o WolframJson \o <<"reported">>
WolframIr == <<"payload", "tag">>
WolframCertificate == WolframIr \o <<"large", "payload">>
WolframLinear == <<"payload", "operation">>
RunSage == <<"expired", "late", "spawn", "overtime", "exit", "output", "json">>
SageLinearCertificate == <<"payload", "operation">>

\* From an expression of a request to SymPy's own, and back.
SympyParse == <<"ir", "vars">>
SympyEncode == <<"encode">>

SympyRational == <<"schema", "digest", "expired", "size", "vars">>
                 \o SympyParse \o <<"overtime">> \o SympyEncode
                 \o <<"certificate", "output">>
SympyLinear == <<"schema", "digest", "expired", "singular", "unsolvable",
                 "operation", "certificate">>
SympyCounterexample == <<"schema", "digest", "expired", "absent",
                         "certificate">>
SympyCalculus == <<"schema", "digest", "expired", "operation", "fields",
                   "size">> \o SympyParse \o SympyEncode \o <<"certificate">>
SympyByMirror == <<"expired", "value", "output">>

SageRational == <<"schema", "digest", "size", "ir", "live">> \o RunSage
                \o <<"payload", "certificate">>
SageLinear == <<"schema", "digest", "live">> \o RunSage
              \o <<"reported">> \o SageLinearCertificate \o <<"certificate">>
GatedSearch == <<"schema", "digest", "live", "expired", "absent",
                 "certificate">>
SageCounterexample == GatedSearch
GatedIdeal == <<"expired", "live", "value", "witness", "output">>

MathematicaRational == <<"schema", "digest", "vars", "size", "ir", "live">>
                       \o RunWolfram \o WolframCertificate
                       \o <<"certificate", "output">>
MathematicaLinear == <<"schema", "digest", "live", "operation">> \o RunWolfram
                     \o WolframLinear \o <<"certificate", "output">>
MathematicaGenerate == <<"live", "ir">> \o RunWolfram \o WolframIr
                       \o <<"large", "schema", "fields", "size",
                            "certificate", "output">>
MathematicaEcho == <<"live", "schema", "digest", "fields", "size",
                     "certificate", "output">>

SympyHandlers ==
    [rational |-> SympyRational, linear |-> SympyLinear,
     counterexample |-> SympyCounterexample, derivative |-> SympyCalculus,
     equation |-> SympyCalculus, ideal |-> SympyByMirror,
     analytic |-> SympyByMirror]
SageHandlers ==
    [rational |-> SageRational, linear |-> SageLinear,
     counterexample |-> SageCounterexample, ideal |-> GatedIdeal]
MathematicaHandlers ==
    [rational |-> MathematicaRational, linear |-> MathematicaLinear,
     counterexample |-> GatedSearch, derivative |-> MathematicaGenerate,
     equation |-> MathematicaEcho, ideal |-> GatedIdeal]
Handlers == [sympy |-> SympyHandlers, sage |-> SageHandlers,
             mathematica |-> MathematicaHandlers]

\* A kind the dispatcher does not know goes to the handler for rational
\* equality.
Dispatched(b, kind) ==
    IF kind \in DOMAIN Handlers[b] THEN kind ELSE "rational"

\* The handler that puts Mathematica's candidate into the request, and domain
\* conditions if it has none, before it validates the request.
Generates(b, h) == b = "mathematica" /\ h = "derivative"

\* The in-process path of discovery has a dispatcher of its own, which knows
\* fewer kinds; "refused" stands for the refusal by the Sage branch.
DirectDispatched(b, kind) ==
    IF \/ kind \in {"linear", "counterexample", "rational"}
       \/ kind \in {"derivative", "equation"} /\ b # "sage"
      THEN kind
      ELSE IF b = "sage" THEN "refused" ELSE "rational"

----------------------------------------------------------------------------
Code(b, h, check) ==
    CASE check \in {"schema", "fields", "json", "payload", "value",
                    "certificate"} -> "malformed_evidence"
      [] check = "digest" -> IF b = "sympy" /\ h # "rational" THEN "exception"
                             ELSE "request_digest_mismatch"
      [] check \in {"expired", "overtime", "size", "large", "output"} ->
             "resource_limit_exceeded"
      [] check \in {"vars", "ir", "encode", "tag"} -> "unsupported_expression"
      [] check = "reported" -> IF b = "sage" THEN "certificate_rejected"
                               ELSE "unsupported_expression"
      [] check = "operation" -> "backend_unsupported"
      [] check \in {"live", "spawn", "witness"} -> "backend_unavailable"
      [] check = "late" -> "backend_timeout"
      [] check = "exit" -> "backend_crash"
      [] check \in {"singular", "absent"} -> "certificate_rejected"
      [] check = "unsolvable" -> "exception"

\* A backend is live if its executable is there and fixture mode is not set; an
\* executable is looked for on the PATH for Sage only.
SageLive(mode, exe) == exe /\ mode # "fixture"
MathematicaLive(mode, exe) == exe /\ mode # "fixture"
Live(b, mode, exe) == CASE b = "sympy" -> TRUE
                        [] b = "sage" -> SageLive(mode, exe)
                        [] b = "mathematica" -> MathematicaLive(mode, exe)

\* A bug: the requests are not validated against their schemas.
HandlerUnvalidated(b, h, kind, flawed) ==
    LET bad   == flawed \ {"schema"}
        fails == {i \in DOMAIN Handlers[b][h] :
                    Handlers[b][h][i] \in bad}
    IN  IF fails # {}
          THEN [code |-> Code(b, h, Handlers[b][h][Min(fails)]),
                kind |-> "none", digest |-> "none"]
          ELSE [code |-> "ok", kind |-> kind, digest |-> "request"]
\* The result of handler h for a request of some kind that fails `bad`.  The
\* request schemas fix the capability, so the handler for rational equality
\* refuses a request of any other one.  A request that Mathematica generates for
\* is validated as it was filled, and its digest is that of what it has become.
HandlerResult(b, h, kind, bad) ==
    LET all   == IF h # kind \/ ("unfilled" \in bad /\ ~Generates(b, h))
                   THEN bad \cup {"schema"} ELSE bad
        fails == {i \in DOMAIN Handlers[b][h] : Handlers[b][h][i] \in all}
    IN  IF fails # {}
          THEN [code |-> Code(b, h, Handlers[b][h][Min(fails)]),
                kind |-> "none", digest |-> "none"]
          ELSE [code |-> "ok", kind |-> kind,
                digest |-> IF Generates(b, h) /\ bad \cap {"differs", "unfilled"} # {}
                             THEN "rebound" ELSE "request"]

\* The check_support handlers; only the expressions of a request for rational
\* equality are looked at.
Sized(kind, flaws) == kind = "rational" => flaws \cap {"size", "ir"} = {}
SympySupports(kind, flaws) == Sized(kind, flaws)
SageSupports(kind, flaws, live) == live /\ Sized(kind, flaws)
MathematicaSupports(kind, flaws, live) == live /\ Sized(kind, flaws)
Supported(b, kind, flaws, live) ==
    CASE b = "sympy" -> SympySupports(kind, flaws)
      [] b = "sage" -> SageSupports(kind, flaws, live)
      [] b = "mathematica" -> MathematicaSupports(kind, flaws, live)
=============================================================================
