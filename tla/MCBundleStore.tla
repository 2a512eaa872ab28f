---------------------------- MODULE MCBundleStore ----------------------------
(***************************************************************************)
(* A server of two threads; evidence e1 answers request q1, e3 and e4       *)
(* answer q2.                                                               *)
(***************************************************************************)
EXTENDS BundleStore, TLC

CONSTANTS t1, t2, q1, q2, e1, e3, e4, d1, d2

MCRequestOf == [e \in Evidence |-> IF e = e1 THEN q1 ELSE q2]
MCRoles     == <<"request", "certificate">>

To(l, e) == [target |-> l, evidence |-> e]

(* Every thread writes to a directory of its own.  Both can produce e1;     *)
(* only t1 is asked for q2, for which it regenerates different evidence in  *)
(* the same directory.                                                      *)
OwnDirectories ==
  (t1 :> {To(d1, e1), To(d1, e3), To(d1, e4)}) @@ (t2 :> {To(d2, e1)})
=============================================================================
