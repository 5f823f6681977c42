----------------------------- MODULE MCDelivery -----------------------------
(***************************************************************************)
(* Instances of Delivery for TLC.  Event a is a cloud message with a       *)
(* prompt copy and a turn copy; b is recorded once.                        *)
(***************************************************************************)
EXTENDS Delivery

Cp(id, answer, fate) == [id |-> id, answer |-> answer, fate |-> fate]

Prompt(id)   == Cp(id, FALSE, "fits")
Turn(id)     == Cp(id, TRUE, "fits")
Invalid(id)  == Cp(id, TRUE, "invalid")
Oversize(id) == Cp(id, TRUE, "oversize")

CONSTANTS a, b, w1, w2

MCIds == {a, b}
MCWorkers == {w1, w2}
OneWorker == {w1}

Everything == {Prompt(a), Turn(a), Invalid(b), Oversize(b), Turn(b)}
Rejectable == {Turn(a), Invalid(b)}
Unstorable == {Turn(a), Oversize(b)}
=============================================================================
