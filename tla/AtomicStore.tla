----------------------------- MODULE AtomicStore -----------------------------
(***************************************************************************)
(* What the content-addressed store promises its readers: a map from        *)
(* digests to bundles in which an entry appears in one step, complete and   *)
(* with the bytes its digest names, and never changes or goes away.  An     *)
(* answer names a bundle that is stored, and the request index, which the   *)
(* clients use to find bundles, lists only bundles that are stored.  The    *)
(* index is a hint: nothing here says that it lists all of them.            *)
(***************************************************************************)
EXTENDS FiniteSets

CONSTANTS
  Digests,      \* names of bundles
  Keys,         \* request digests, under which bundles are listed
  KeyOf,        \* the request each bundle belongs to
  ContentOf,    \* the bundle each digest names
  Nothing       \* no entry

VARIABLES
  entries,      \* entries[d]: the stored bundle, or Nothing
  listed,       \* listed[k]: digests the index lists under k
  named         \* digests that answers have named

avars == <<entries, listed, named>>

Stored == {d \in Digests : entries[d] # Nothing}

AInit ==
  /\ entries = [d \in Digests |-> Nothing]
  /\ listed = [k \in Keys |-> {}]
  /\ named = {}

(* A bundle becomes visible, complete, under its own digest.                *)
Put(d) ==
  /\ entries[d] = Nothing
  /\ entries' = [entries EXCEPT ![d] = ContentOf[d]]
  /\ UNCHANGED <<listed, named>>

(* A stored bundle is listed under its request, together with some of the   *)
(* bundles stored for that request before, and an answer names it.          *)
Answer(d) ==
  /\ d \in Stored
  /\ \E S \in SUBSET {x \in Stored : KeyOf[x] = KeyOf[d]} :
       listed' = [listed EXCEPT ![KeyOf[d]] = S \cup {d}]
  /\ named' = named \cup {d}
  /\ UNCHANGED entries

ANext == \E d \in Digests : Put(d) \/ Answer(d)

ASpec == AInit /\ [][ANext]_avars

=============================================================================
