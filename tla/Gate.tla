-------------------------------- MODULE Gate --------------------------------
(***************************************************************************)
(* The gate of src/authentication.rs as it is built: a counter and a queue *)
(* under a mutex, and one Notify per waiter that is signalled after the    *)
(* mutex is released.  It admits connections of an account and credential  *)
(* work of the process.  A step is one critical section, one notification  *)
(* or one wakeup.  An entry is named by its client, in the code by ticket. *)
(***************************************************************************)
EXTENDS Naturals, Sequences, FiniteSets

CONSTANTS
    Clients,
    Limit,      \* the `active` argument each client passes to reserve
    Pending     \* and its `pending` argument

GateAssumption ==
    /\ Limit \in [Clients -> Nat]
    /\ Pending \in [Clients -> Nat]

VARIABLES
    active,     \* GateState.active
    waiting,    \* GateState.waiting
    pc,         \* where each Admission stands
    owed,       \* clients whose notification was chosen and not yet sent
    permit      \* clients whose Notify holds a permit

vars == <<active, waiting, pc, owed, permit>>

Init ==
    /\ active = 0
    /\ waiting = <<>>
    /\ pc = [c \in Clients |-> "outside"]
    /\ owed = {}
    /\ permit = {}

(* next_notification: nobody, or the front of the queue if it fits. *)
NextNotification(n, q) ==
    IF q # <<>> /\ n < Limit[Head(q)] THEN {Head(q)} ELSE {}

Moves(c, p) == pc' = [pc EXCEPT ![c] = p]

(* Gate::reserve; a refusal changes nothing. *)
Reserve(c) ==
    /\ pc[c] = "outside"
    /\ \/ /\ waiting = <<>>
          /\ active < Limit[c]
          /\ active' = active + 1
          /\ Moves(c, "admitted")
          /\ UNCHANGED waiting
       \/ /\ waiting # <<>> \/ active >= Limit[c]
          /\ Len(waiting) < Pending[c]
          /\ waiting' = Append(waiting, c)
          /\ Moves(c, "checking")
          /\ UNCHANGED active
    /\ UNCHANGED <<owed, permit>>

(* One turn of the loop of Admission::wait, after `enable`. *)
Check(c) ==
    /\ pc[c] = "checking"
    /\ IF Head(waiting) = c /\ active < Limit[c]
       THEN /\ waiting' = Tail(waiting)
            /\ active' = active + 1
            /\ owed' = (owed \ {c}) \cup NextNotification(active', waiting')
            /\ permit' = permit \ {c}
            /\ Moves(c, "admitted")
       ELSE /\ Moves(c, "waiting")
            /\ UNCHANGED <<active, waiting, owed, permit>>

(* notify_one, after the mutex is released. *)
Notify(c) ==
    /\ c \in owed
    /\ owed' = owed \ {c}
    /\ permit' = permit \cup {c}
    /\ UNCHANGED <<active, waiting, pc>>

Wake(c) ==
    /\ pc[c] = "waiting"
    /\ c \in permit
    /\ permit' = permit \ {c}
    /\ Moves(c, "checking")
    /\ UNCHANGED <<active, waiting, owed>>

(* VecDeque::retain by ticket: the queue without the one entry of c. *)
PlaceOf(c) == CHOOSE i \in DOMAIN waiting : waiting[i] = c
Retained(c) ==
    [i \in 1..Len(waiting) - 1 |-> IF i < PlaceOf(c) THEN waiting[i] ELSE waiting[i + 1]]

(* Mutant: only a release of capacity wakes the next one. *)
CancelSilently(c) ==
    /\ pc[c] \in {"checking", "waiting"}
    /\ waiting' = Retained(c)
    /\ owed' = owed \ {c}
    /\ permit' = permit \ {c}
    /\ Moves(c, "outside")
    /\ UNCHANGED active

(* Admission::drop with a ticket.  An admission that was reserved may be dropped
   before it is ever polled. *)
Cancel(c) ==
    /\ pc[c] \in {"checking", "waiting"}
    /\ waiting' = Retained(c)
    /\ owed' = (owed \ {c}) \cup NextNotification(active, waiting')
    /\ permit' = permit \ {c}
    /\ Moves(c, "outside")
    /\ UNCHANGED active

(* Admission::drop without one. *)
Release(c) ==
    /\ pc[c] = "admitted"
    /\ active' = active - 1
    /\ owed' = owed \cup NextNotification(active', waiting)
    /\ Moves(c, "outside")
    /\ UNCHANGED <<waiting, permit>>

Next ==
    \E c \in Clients :
        Reserve(c) \/ Check(c) \/ Notify(c) \/ Wake(c) \/ Cancel(c) \/ Release(c)

(* Threads leave their critical sections and send what they owe, and woken
   futures are polled.  Nobody has to cancel or to release. *)
Fairness == \A c \in Clients : WF_vars(Check(c) \/ Wake(c)) /\ WF_vars(Notify(c))

Spec == Init /\ [][Next]_vars /\ Fairness

-----------------------------------------------------------------------------
Admitted == {c \in Clients : pc[c] = "admitted"}
Waiters == {c \in Clients : pc[c] \in {"checking", "waiting"}}

(* The counter and the queue agree with the admissions there are, however they
   ended; no place is lost or invented. *)
Accounted ==
    /\ active = Cardinality(Admitted)
    /\ Len(waiting) = Cardinality(Waiters)
    /\ \A i \in DOMAIN waiting : waiting[i] \in Waiters

(* No wakeup is lost: whenever the front of the queue fits, it looks at the state
   again, or its notification is on the way (next_notification, notify_one). *)
FrontIsCalled ==
    waiting # <<>> /\ active < Limit[Head(waiting)] =>
        Head(waiting) \in owed \cup permit \cup {c \in Clients : pc[c] = "checking"}

Fifo == INSTANCE FifoGate WITH holders <- Admitted, line <- waiting

(* The gate implements the fair FIFO semaphore, Fifo!GateSpec, liveness included:
   a wakeup that is chosen under the mutex and sent after it is never lost to a
   cancellation, a narrower limit at the front or a second release in between. *)
FifoInit == Fifo!GateInit
FifoStep == [Fifo!GateNext]_(Fifo!gateVars)
FifoFairness == Fifo!GateFairness
=============================================================================
