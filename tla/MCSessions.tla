----------------------------- MODULE MCSessions ----------------------------
(***************************************************************************)
(* Sessions with two workers and two erasers: a prompt, what follows it    *)
(* within the idle window, and a prompt after a break.                     *)
(***************************************************************************)
EXTENDS Sessions, TLC

CONSTANTS w1, w2, x1, x2

EventSet ==
  {[n |-> 1, at |-> 0, human |-> TRUE], [n |-> 2, at |-> 1, human |-> FALSE],
   [n |-> 3, at |-> 3, human |-> TRUE]}
WorkerSet == {w1, w2}
EraserSet == {x1, x2}
Symmetric == Permutations(WorkerSet) \cup Permutations(EraserSet)

=============================================================================
