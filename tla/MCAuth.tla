------------------------------- MODULE MCAuth -------------------------------
(***************************************************************************)
(* Access control with two connections, the first administrator and        *)
(* another user, for TLC.                                                  *)
(***************************************************************************)
EXTENDS Auth, TLC

CONSTANTS c1, c2

Connections == Permutations({c1, c2})

Plain == [kind |-> "plain", groups |-> {}, permissions |-> Nothing]
Fatal == [Plain EXCEPT !.kind = "fatal"]

\* A salt of the form "...:admin:d=1".
Colons == [kind |-> "colon", groups |-> {"admin"}, permissions |-> [d |-> {"READ"}]]

SomeSalts == {Plain, Colons, Fatal}

=============================================================================
