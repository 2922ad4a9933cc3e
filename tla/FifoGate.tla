------------------------------ MODULE FifoGate ------------------------------
(***************************************************************************)
(* What the gate of src/authentication.rs promises: a counting semaphore   *)
(* with a bounded line that is served first come first served, in which    *)
(* every newcomer joins the line while there is one, and each holder was   *)
(* judged by the limit it brought along.  Wakeups are not visible here.    *)
(***************************************************************************)
EXTENDS Naturals, Sequences, FiniteSets

CONSTANTS
    Clients,    \* those who ask for a place
    Limit,      \* the active limit each of them brings
    Pending     \* how long a line it is willing to join

GateAssumption ==
    /\ Limit \in [Clients -> Nat]
    /\ Pending \in [Clients -> Nat]

VARIABLES
    holders,    \* who has a place
    line        \* who waits for one, in order

gateVars == <<holders, line>>

InLine == {line[i] : i \in DOMAIN line}
Outside(c) == c \notin holders \cup InLine

GateInit ==
    /\ holders = {}
    /\ line = <<>>

Enter(c) ==
    /\ Outside(c)
    /\ \/ /\ line = <<>>
          /\ Cardinality(holders) < Limit[c]
          /\ holders' = holders \cup {c}
          /\ UNCHANGED line
       \/ /\ line # <<>> \/ Cardinality(holders) >= Limit[c]
          /\ Len(line) < Pending[c]
          /\ line' = Append(line, c)
          /\ UNCHANGED holders

(* Error::RateLimited *)
Refused(c) ==
    /\ line # <<>> \/ Cardinality(holders) >= Limit[c]
    /\ Len(line) >= Pending[c]

Grant(c) ==
    /\ line # <<>>
    /\ c = Head(line)
    /\ Cardinality(holders) < Limit[c]
    /\ holders' = holders \cup {c}
    /\ line' = Tail(line)

(* The line without the one place that c has in it. *)
PlaceOf(c) == CHOOSE i \in DOMAIN line : line[i] = c
Without(c) == [i \in 1..Len(line) - 1 |-> IF i < PlaceOf(c) THEN line[i] ELSE line[i + 1]]

GiveUp(c) ==
    /\ c \in InLine
    /\ line' = Without(c)
    /\ UNCHANGED holders

Leave(c) ==
    /\ c \in holders
    /\ holders' = holders \ {c}
    /\ UNCHANGED line

GateNext == \E c \in Clients : Enter(c) \/ Grant(c) \/ GiveUp(c) \/ Leave(c)

(* Whoever stays first in line and fits gets a place. *)
GateFairness == \A c \in Clients : WF_gateVars(Grant(c))

GateSpec == GateInit /\ [][GateNext]_gateVars /\ GateFairness
=============================================================================
