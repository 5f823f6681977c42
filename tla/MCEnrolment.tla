----------------------------- MODULE MCEnrolment ---------------------------
(***************************************************************************)
(* Enrolment with the people of one company, and a second company whose    *)
(* machines are provisioned from the console.                              *)
(***************************************************************************)
EXTENDS Enrolment, TLC

CONSTANTS p1, p2, own, other, h1, h2, r1, r2

PersonSet == {p1, p2}
TenantSet == {own, other}
HostSet == {h1, h2}
FounderSet == {p1}
EmployerOf == [p \in PersonSet |-> own]
RequestSet == {r1, r2}
Symmetric == Permutations(RequestSet) \cup Permutations(HostSet)

=============================================================================
