--------------------------- MODULE MCAttribution ---------------------------
(***************************************************************************)
(* Attribution with two processes, directories and connections, and one    *)
(* branch, which is checked out at a directory or is not.  A tick is the   *)
(* longest a reply may take, the resolver's lifetime and the lifetime of   *)
(* what the worker parks.                                                  *)
(***************************************************************************)
EXTENDS Attribution, TLC

CONSTANTS p1, p2, d1, d2, c1, c2

PidSet == {p1, p2}
DirSet == {d1, d2}
ConnectionSet == {c1, c2}
Symmetric ==
  Permutations(PidSet) \cup Permutations(DirSet) \cup Permutations(ConnectionSet)

=============================================================================
