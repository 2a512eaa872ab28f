-------------------------- MODULE MCOfflineBundle --------------------------
EXTENDS OfflineBundle

Candidate(cap, id, proof) ==
    [cap |-> cap, id |-> id, proof |-> proof, claim |-> "soundResult", det |-> TRUE,
     flaws |-> {}, canonical |-> TRUE, sound |-> TRUE, bound |-> TRUE]

Case(bs, ts, l) ==
    [builds |-> bs, tampers |-> ts, live |-> TRUE, offline |-> TRUE,
     lake |-> TRUE, lean |-> l, advance |-> FALSE, crash |-> FALSE,
     overlap |-> FALSE, meanwhile |-> TRUE]

Capabilities == {"rational", "linear", "counterexample", "calculus", "ideal", "analytic"}

First1 == Candidate("linear", 1, 1)
Other == [First1 EXCEPT !.proof = 2, !.sound = FALSE]
Respelt == [First1 EXCEPT !.canonical = FALSE]

\* Two builds in one directory: of two certificates for one request, one of which
\* Lean refuses, and of one certificate in two spellings: one after the other while
\* the replay reads the files, and both at a time before the replay begins.
TwoBuilds ==
    {Case({First1, Other}, {}, "asked"), Case({First1, Respelt}, {}, "off"),
     [Case({First1, Other}, {}, "asked") EXCEPT !.overlap = TRUE, !.meanwhile = FALSE]}

\* One build, with each edit, with two at once, and with a workspace that moves on.
Edited ==
    {Case({First1}, {t}, "off") : t \in Tampers \ {"toolchain_lock"}}
    \cup {[Case({First1}, {"toolchain_lock"}, "off") EXCEPT !.live = lv, !.advance = TRUE] :
            lv \in BOOLEAN}
    \cup {[Case({Candidate(cap, 1, 1)}, {"candidate", "capability_id"}, "off") EXCEPT !.crash = TRUE] :
            cap \in {"ideal", "rational"}}
\* Every generator, with what it refuses.
Submitted ==
    {Case({[Candidate(cap, 1, 1) EXCEPT !.flaws = f]}, {}, "off") :
        cap \in Capabilities, f \in {{}} \cup {{x} : x \in Flaws}}
    \cup {Case({[Candidate(cap, 1, 1) EXCEPT !.claim = cl, !.det = d, !.canonical = c]}, {}, "off") :
        cap \in Capabilities, cl \in Claims, d \in BOOLEAN, c \in BOOLEAN}
\* Every generator, with and without a certificate that Lean accepts.
Checked ==
    {[Case({[Candidate(cap, 1, 1) EXCEPT !.sound = s, !.bound = b]}, {}, l) EXCEPT !.lake = k] :
        cap \in Capabilities, s \in BOOLEAN, b \in BOOLEAN,
        l \in {"asked", "required"}, k \in BOOLEAN}

AllCases == TwoBuilds \cup Edited \cup Submitted \cup Checked
             \cup {[Case({First1}, {}, "off") EXCEPT !.offline = FALSE]}
=============================================================================
