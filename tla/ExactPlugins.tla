---------------------------- MODULE ExactPlugins ----------------------------
(***************************************************************************
 The six generators that turn a candidate (a request and its certificate) into
 the source of a Lean theorem: what each refuses, which claims it takes, and
 what Lean can check of the source it renders.  All refuse by a ValueError.
 ***************************************************************************)
EXTENDS Naturals

\* What may be wrong with a candidate: "copy" is a field that the certificate
\* repeats with another value, "disabled" an operation that the registry has
\* switched off, "policy" a resource policy other than the fixed one, "render"
\* obligations or several initial conditions of an ODE.  Of its body: a
\* constructor outside the grammar ("tag"), too many nodes, rows or terms, lengths
\* that do not fit, a variable out of scope, a witness outside its domain.
Flaws == {"nesting", "float", "version", "capability", "copy", "digest",
          "operation", "disabled", "policy", "render",
          "tag", "large", "ragged", "scope", "outside"}
Claims == {"witness", "soundResult", "refutation", "candidate"}

Common == {"nesting", "version", "capability", "copy", "digest"}

\* What the validators of the bodies refuse.
RationalExpr == {"tag", "large", "scope"}
Matrix == {"tag", "large", "ragged"}
Value == {"tag", "float"}
Predicate == Value \cup {"tag", "large", "scope"}
Domain == {"tag", "large"}
WitnessInDomain == {"ragged", "outside"}
Polynomial == {"tag", "large", "ragged"}
AnalyticExpr == {"tag", "large", "scope"}
DerivProof == {"tag", "large"}
Obligation == {"tag"}

RationalRefuses(c) ==
    \/ c.flaws \cap (Common \cup RationalExpr \cup {"float", "policy"}) # {}
    \/ c.claim # "soundResult"
    \/ ~c.canonical
LinearRefuses(c) ==
    \/ c.flaws \cap (Common \cup Matrix \cup {"float", "operation", "disabled"}) # {}
    \/ c.claim # IF c.det THEN "soundResult" ELSE "witness"
CounterexampleRefuses(c) ==
    \/ c.flaws \cap (Common \cup Predicate \cup Domain \cup WitnessInDomain) # {}
    \/ c.claim \notin {"refutation", "witness"}
CalculusRefuses(c) ==
    \/ c.flaws \cap (Common \cup RationalExpr \cup {"float", "operation"}) # {}
    \/ c.claim \notin {"soundResult", "witness"}
IdealRefuses(c) ==
    \/ c.flaws \cap (Common \cup Polynomial) # {}
    \/ c.claim \notin {"soundResult", "witness"}
\* The claim of a request for analytic calculus is not looked at.
AnalyticRefuses(c) ==
    c.flaws \cap (Common \cup AnalyticExpr \cup DerivProof \cup Obligation
                  \cup {"float", "operation", "render"}) # {}

Refused(c) ==
    CASE c.cap = "rational" -> RationalRefuses(c)
      [] c.cap = "linear" -> LinearRefuses(c)
      [] c.cap = "counterexample" -> CounterexampleRefuses(c)
      [] c.cap = "calculus" -> CalculusRefuses(c)
      [] c.cap = "ideal" -> IdealRefuses(c)
      [] c.cap = "analytic" -> AnalyticRefuses(c)

\* The request digest in the source: rebuilt in Lean from the rendered fields
\* and compared with the submitted one, or the submitted one written twice.
RationalDigest == "rebuilt"
LinearDigest == "copied"
CounterexampleDigest == "copied"
CalculusDigest == "copied"
IdealDigest == "rebuilt"
AnalyticDigest == "copied"

DigestIn(cap) ==
    [rational |-> RationalDigest, linear |-> LinearDigest,
     counterexample |-> CounterexampleDigest, calculus |-> CalculusDigest,
     ideal |-> IdealDigest, analytic |-> AnalyticDigest][cap]

\* What Lean sees of a certificate: a rational that is not in lowest terms is
\* rendered in lowest terms, where the generator does not refuse it.
Rendered(c) == IF c.cap \in {"linear", "calculus", "analytic"}
                 THEN [c EXCEPT !.canonical = TRUE] ELSE c

\* The source rendered for a request and a certificate, as they were submitted
\* for the candidate of a bundle and perhaps edited since.
Source(request, certificate, bundle) ==
    [request |-> request.of.id, edited |-> "semantic" \in request.edits,
     certificate |-> Rendered(certificate.of), bundle |-> bundle,
     digest |-> DigestIn(bundle.cap)]

\* The certificate names the digest of its request.
Generates(request, certificate) ==
    /\ ~Refused(request.of)
    /\ request.of.id = certificate.of.id

\* Lean accepts a module if its checker accepts the certificate; where the digest
\* is rebuilt, it has to be the digest of the request.
LeanAccepts(c) == c.sound /\ (DigestIn(c.cap) = "rebuilt" => c.bound)
=============================================================================
