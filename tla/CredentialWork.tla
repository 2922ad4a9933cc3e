--------------------------- MODULE CredentialWork ---------------------------
(***************************************************************************)
(* Single-flight credential work (Runtime::work in src/authentication.rs). *)
(* Callers that need the same secret share a flight: a task that waits for *)
(* a worker place at the gate (FifoGate, which Gate implements), resolves  *)
(* the secret on a blocking thread and publishes the result.  A flight     *)
(* that nobody observes is abandoned before it runs.                       *)
(*                                                                         *)
(* A step is one critical section, one poll of a task or one end of        *)
(* blocking work.                                                          *)
(***************************************************************************)
EXTENDS Naturals, Sequences, FiniteSets

CONSTANTS
    Callers,
    Keys,           \* (account, generation, kind of work)
    Flights,        \* bound: flights that exist at a time
    Workers,        \* limits.credential_workers
    Queued,         \* limits.queued_credentials
    NoFlight

WorkAssumption ==
    /\ Workers \in Nat \ {0}
    /\ Queued \in Nat
    /\ NoFlight \notin Flights
    /\ Keys # {} /\ IsFiniteSet(Callers)

VARIABLES
    flights,    \* Runtime.flights: the last flight of each key (a Weak)
    flight,     \* the flights themselves
    wait,       \* the flight each caller's Waiter is on
    workers, backlog   \* Runtime.workers: who has a place, who waits for one

vars == <<flights, flight, wait, workers, backlog>>

Pool == INSTANCE FifoGate WITH
    Clients <- Flights,
    Limit <- [f \in Flights |-> Workers],
    Pending <- [f \in Flights |-> Queued],
    holders <- workers, line <- backlog

(* A flight's task is polled ("polled": about to look at `waiters`), parked in
   the select, past the gate, resolving, back from the blocking thread, leaving
   because it is abandoned, or over. *)
Tasks == {"polled", "parked", "placed", "resolving", "resolved", "leaving", "over"}

Flight == [key : Keys, task : Tasks, result : BOOLEAN,
           open : BOOLEAN,       \* waiters is Some(count)
           count : 0..Cardinality(Callers),
           permit : BOOLEAN]     \* Notify `abandoned` holds a permit

NewFlight(k) == [key |-> k, task |-> "polled", result |-> FALSE, open |-> TRUE,
                 count |-> 1, permit |-> FALSE]

(* What is left once its last owner is gone: nothing. *)
OldFlight == [key |-> CHOOSE k \in Keys : TRUE, task |-> "over", result |-> TRUE,
              open |-> FALSE, count |-> 0, permit |-> FALSE]

Observers(f) == {c \in Callers : wait[c] = f}

(* The task or a Waiter still owns it. *)
Live(f) == flight[f].task # "over" \/ Observers(f) # {}

Init ==
    /\ flights = [k \in Keys |-> NoFlight]
    /\ flight = [f \in Flights |-> OldFlight]
    /\ wait = [c \in Callers |-> NoFlight]
    /\ Pool!GateInit

-----------------------------------------------------------------------------
(* The map after `retain`. *)
Retained ==
    [k \in Keys |-> IF flights[k] # NoFlight /\ Live(flights[k]) THEN flights[k] ELSE NoFlight]

(* A live flight without a result whose `join` succeeds. *)
Joinable(k) ==
    /\ Retained[k] # NoFlight
    /\ ~flight[Retained[k]].result
    /\ flight[Retained[k]].open

Join(c, k) ==
    /\ wait[c] = NoFlight
    /\ Joinable(k)
    /\ flight' = [flight EXCEPT ![flights[k]].count = @ + 1]
    /\ wait' = [wait EXCEPT ![c] = flights[k]]
    /\ flights' = Retained
    /\ UNCHANGED <<workers, backlog>>

(* Otherwise a new flight, if the gate has a place or room in its line. *)
Launch(c, k) ==
    /\ wait[c] = NoFlight
    /\ ~Joinable(k)
    /\ \E f \in Flights :
          /\ ~Live(f)
          /\ Pool!Enter(f)
          /\ flight' = [flight EXCEPT ![f] = NewFlight(k)]
          /\ wait' = [wait EXCEPT ![c] = f]
          /\ flights' = [Retained EXCEPT ![k] = f]

-----------------------------------------------------------------------------
(* The task. *)

(* The task ends; the flight goes with it unless a Waiter still owns it. *)
Ends(f, result) ==
    flight' = [flight EXCEPT ![f] = IF Observers(f) = {} THEN OldFlight
                                    ELSE [@ EXCEPT !.task = "over", !.result = result]]

Goes(f, t) == flight' = [flight EXCEPT ![f].task = t]

(* abandon_if_unobserved: closed to new waiters before the place is given up. *)
Unobserved(f) == flight[f].count = 0
Abandoned(f) == [flight EXCEPT ![f].task = "leaving", ![f].open = FALSE]

(* Flight::cancelled, first branch of the select: the task looks at `waiters`
   and leaves, or parks. *)
PollAbandoned(f) ==
    /\ flight[f].task = "polled"
    /\ Unobserved(f)
    /\ flight' = Abandoned(f)
    /\ UNCHANGED <<flights, wait, workers, backlog>>

(* The task returns, and its Admission drops. *)
Depart(f) ==
    /\ flight[f].task = "leaving"
    /\ Pool!GiveUp(f) \/ Pool!Leave(f)
    /\ Ends(f, FALSE)
    /\ UNCHANGED <<flights, wait>>

Park(f) ==
    /\ flight[f].task = "polled"
    /\ ~Unobserved(f)
    /\ Goes(f, "parked")
    /\ UNCHANGED <<flights, wait, workers, backlog>>

Notified(f) ==
    /\ flight[f].task = "parked"
    /\ flight[f].permit
    /\ flight' = [flight EXCEPT ![f].task = "polled", ![f].permit = FALSE]
    /\ UNCHANGED <<flights, wait, workers, backlog>>

(* Second branch: a place at once, or in turn. *)
Placed(f) ==
    /\ flight[f].task \in {"polled", "parked"}
    /\ \/ f \in workers /\ UNCHANGED <<workers, backlog>>
       \/ Pool!Grant(f)
    /\ Goes(f, "placed")
    /\ UNCHANGED <<flights, wait>>

(* The deadline of the caller that launched the flight. *)
QueueTimeout(f) ==
    /\ flight[f].task \in {"polled", "parked"}
    /\ Pool!GiveUp(f)
    /\ Ends(f, TRUE)
    /\ UNCHANGED <<flights, wait>>

(* The last chance to abandon, then the blocking thread takes over. *)
Resolve(f) ==
    /\ flight[f].task = "placed"
    /\ flight' = IF Unobserved(f) THEN Abandoned(f)
                 ELSE [flight EXCEPT ![f].task = "resolving"]
    /\ UNCHANGED <<flights, wait, workers, backlog>>

(* Mutant: the place is kept until the process ends. *)
ResolvedKeepsPlace(f) ==
    /\ flight[f].task = "resolving"
    /\ Goes(f, "resolved")
    /\ UNCHANGED <<flights, wait, workers, backlog>>

(* The secret source answers, fails or panics; the worker place is free before
   the result is published. *)
Resolved(f) ==
    /\ flight[f].task = "resolving"
    /\ Pool!Leave(f)
    /\ Goes(f, "resolved")
    /\ UNCHANGED <<flights, wait>>

Publish(f) ==
    /\ flight[f].task = "resolved"
    /\ Ends(f, TRUE)
    /\ UNCHANGED <<flights, wait, workers, backlog>>

-----------------------------------------------------------------------------
(* Mutant: the last waiter leaves without a word. *)
WaiterDroppedSilently(f) == [flight EXCEPT ![f].count = IF @ > 0 THEN @ - 1 ELSE 0]

(* Waiter::drop: the last one out wakes the task. *)
WaiterDropped(f) ==
    [flight EXCEPT ![f].count = IF @ > 0 THEN @ - 1 ELSE 0,
                   ![f].permit = @ \/ flight[f].count = 1]

(* The result arrives, or the task is gone and the channel closed. *)
Receive(c) ==
    /\ wait[c] # NoFlight
    /\ flight[wait[c]].task = "over"
    /\ flight' = IF Observers(wait[c]) = {c} THEN [flight EXCEPT ![wait[c]] = OldFlight]
                 ELSE WaiterDropped(wait[c])
    /\ wait' = [wait EXCEPT ![c] = NoFlight]
    /\ UNCHANGED <<flights, workers, backlog>>

(* The caller's deadline passes or its future is dropped. *)
GiveUpWaiting(c) ==
    /\ wait[c] # NoFlight
    /\ flight[wait[c]].task # "over"
    /\ flight' = WaiterDropped(wait[c])
    /\ wait' = [wait EXCEPT ![c] = NoFlight]
    /\ UNCHANGED <<flights, workers, backlog>>

TaskStep(f) ==
    \/ PollAbandoned(f) \/ Depart(f) \/ Park(f) \/ Notified(f) \/ Placed(f)
    \/ QueueTimeout(f) \/ Resolve(f) \/ Resolved(f) \/ Publish(f)

Next ==
    \/ \E c \in Callers, k \in Keys : Join(c, k) \/ Launch(c, k)
    \/ \E f \in Flights : TaskStep(f)
    \/ \E c \in Callers : Receive(c) \/ GiveUpWaiting(c)

Spec == Init /\ [][Next]_vars

(* Tasks are polled when they can go on, secret sources answer within their own
   time limit, and results are received.  No caller has to give up. *)
Fairness ==
    /\ \A f \in Flights :
          /\ WF_vars(PollAbandoned(f) \/ Depart(f) \/ Park(f) \/ Notified(f))
          /\ WF_vars(Placed(f))
          /\ WF_vars(Resolve(f) \/ Resolved(f) \/ Publish(f))
    /\ \A c \in Callers : WF_vars(Receive(c))

FairSpec == Spec /\ Fairness

-----------------------------------------------------------------------------
TypeOK ==
    /\ flights \in [Keys -> Flights \cup {NoFlight}]
    /\ flight \in [Flights -> Flight]
    /\ wait \in [Callers -> Flights \cup {NoFlight}]
    /\ workers \subseteq Flights
    /\ backlog \in Seq(Flights)

(* A secret is never being resolved twice at the same time, whether its callers
   come, leave and come back while it is queued, running or being published. *)
OneResolution ==
    \A f, g \in Flights :
        flight[f].task = "resolving" /\ flight[g].task = "resolving"
            /\ flight[f].key = flight[g].key => f = g

(* Nobody waits for an abandoned flight, so that no Waiter meets the closed
   counter when it is dropped ("live credential waiter"), and the counter is
   the number of waiters as long as it is open. *)
WaitersCounted ==
    \A f \in Flights :
        IF flight[f].open THEN flight[f].count = Cardinality(Observers(f))
        ELSE Observers(f) = {}

(* A place at the gate belongs to a task that is on its way through it; a
   flight that ends, whichever way, leaves none behind. *)
PlacesOwned ==
    \A f \in Flights :
        /\ f \in workers => flight[f].task \in {"polled", "parked", "placed", "resolving",
                                                  "leaving"}
        /\ f \in Pool!InLine => flight[f].task \in {"polled", "parked", "leaving"}

(* Everyone who waits gets an answer without having to time out. *)
EveryWaiterAnswered == \A c \in Callers : (wait[c] # NoFlight) ~> (wait[c] = NoFlight)

(* A parked flight that everybody has given up on has been told, so that it does
   not keep its place in line from work somebody waits for: no join and leave
   in between swallows the notification. *)
UnobservedIsTold ==
    \A f \in Flights : flight[f].task = "parked" /\ Unobserved(f) => flight[f].permit

(* A caller gets the outcome of the work or a timeout, never a channel that was
   closed on it: a flight on its way out takes nobody in. *)
AnswersAreResults ==
    \A c \in Callers :
        wait[c] # NoFlight /\ flight[wait[c]].task = "over" => flight[wait[c]].result

(* Runtime::work: all of these at once. *)
WorkIsShared ==
    TypeOK /\ OneResolution /\ WaitersCounted /\ PlacesOwned /\ UnobservedIsTold
        /\ AnswersAreResults
=============================================================================
