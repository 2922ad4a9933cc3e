------------------------------- MODULE Queues -------------------------------
(***************************************************************************)
(* The part of a queue at a set of places, in order: what Vec::retain,     *)
(* VecDeque::remove and a stable partition leave.  It is defined by        *)
(* counting, so that it can be reasoned about without induction.           *)
(***************************************************************************)
EXTENDS Naturals, Sequences, FiniteSets

(* The j-th smallest of a finite set of numbers. *)
Nth(S, j) == CHOOSE i \in S : Cardinality({k \in S : k <= i}) = j

Kept(q, S) == [j \in 1..Cardinality(S) |-> q[Nth(S, j)]]
=============================================================================
