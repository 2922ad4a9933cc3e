--------------------------- MODULE MCInstallation ---------------------------
(* An instance of Installation for TLC. *)
EXTENDS Installation

CONSTANTS p1, k1, r1, r2, r3, s1

(* One account that moves between servers. *)
Account(route) == [route |-> route, secret |-> s1, retain |-> FALSE]
MCMoves == {k1 :> Account(r) : r \in {r1, r2, r3}}
=============================================================================
