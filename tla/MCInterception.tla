--------------------------- MODULE MCInterception ---------------------------
(***************************************************************************)
(* Instances of Interception for TLC: two releases, one with a wildcard    *)
(* and one with an exact name, so that one name is on both lists and the   *)
(* other on one; a program that pins and one that trusts the root.         *)
(***************************************************************************)
EXTENDS Interception

CONSTANTS app, cli, c1, c2

Domain == <<"claude", "ai">>
Api == <<"api", "claude", "ai">>

MCNames == {Domain, Api}
OneName == {Domain}
Wild == {[wild |-> TRUE, name |-> Domain]}
Exact == {[wild |-> FALSE, name |-> Api]}
BothLists == {Wild, Exact}
WildOnly == {Wild}

MCPrograms == {app, cli}
Pins == {<<Domain, app>>}

OneConn == {c1}
TwoConns == {c1, c2}
=============================================================================
