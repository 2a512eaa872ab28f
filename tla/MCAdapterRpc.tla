---------------------------- MODULE MCAdapterRpc ----------------------------
EXTENDS AdapterRpc

Job(b, k, f, m, x, w) == [backend |-> b, kind |-> k, flaws |-> f, mode |-> m,
                          exe |-> x, bundle |-> w]

\* Every kind of request to every backend in the default mode, without a flaw
\* and refused by the schema.  Then the cases in which the mode, the executable,
\* the fragment, the digest or the bundle make a difference, and requests of
\* formal calculus that lack what Mathematica fills in.
AllJobs ==
    {Job(b, k, f, "unset", TRUE, TRUE) :
        b \in Backends, k \in Kinds, f \in {{}, {"schema"}}}
    \cup {Job(b, k, {}, "live", TRUE, TRUE) :
            b \in {"sage", "mathematica"}, k \in Kinds}
    \cup {Job("mathematica", k, {}, "live", x, FALSE) :
            k \in {"derivative", "equation"}, x \in BOOLEAN}
    \cup {Job(b, "rational", {f}, "live", TRUE, TRUE) :
            b \in Backends, f \in {"digest", "ir", "size"}}
    \cup {Job(b, k, {"unfilled"}, "live", TRUE, TRUE) :
            b \in Backends, k \in {"derivative", "equation"}}
    \cup {Job("mathematica", "derivative", {f}, m, TRUE, w) :
            f \in {"schema", "unfilled"}, m \in {"unset", "live"}, w \in BOOLEAN}

AnyCancelling == BOOLEAN
=============================================================================
