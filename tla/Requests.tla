------------------------------ MODULE Requests ------------------------------
(***************************************************************************)
(* Admission of requests in one process (src/service/requests.rs).  A      *)
(* request reserves a slot, asks for admission under its account and its   *)
(* grant's limits, waits in a queue that is FIFO within an account and     *)
(* rotates between accounts, and leaves.  Requests run on several threads; *)
(* a step is one critical section of the state's mutex, one notification   *)
(* or one wakeup.  A waiting entry is named by its client, which the code  *)
(* does with a ticket.                                                     *)
(***************************************************************************)
EXTENDS Queues

CONSTANTS
    Requesters,   \* concurrent requests
    Accounts,     \* accounts, with Local for operations that need none
    Local,
    AccountOf,    \* the account a client asks for
    Limits        \* the limits of a client's grant

RequestsAssumption ==
    /\ IsFiniteSet(Requesters)
    /\ Local \in Accounts
    /\ AccountOf \in [Requesters -> Accounts]
    /\ Limits \in [Requesters -> [active_requests : Nat, queued_requests : Nat,
                               account_connections : Nat,
                               account_pending_requests : Nat]]

VARIABLES
    reserved,     \* State.reserved
    active,       \* State.active
    accounts,     \* State.accounts: admitted requests of each account
    queue,        \* State.queue: clients in order, with their account_head flag
    pc,           \* where each request stands
    owed,         \* clients whose notification was chosen and not yet sent
    permit,       \* clients whose Notify holds a permit
    passed        \* history: <<c, y>> if account y was admitted while c waited,
                  \* and c's account had no turn since

queueVars == <<reserved, active, accounts, queue>>
requestVars == <<queueVars, pc, owed, permit, passed>>

Entry == [client : Requesters, head : BOOLEAN]

ActiveLimit(c) == Limits[c].active_requests
AccountLimit(c) ==
    IF AccountOf[c] = Local THEN Limits[c].active_requests
    ELSE Limits[c].account_connections

(* The places of an account's waiting entries, and those of all others. *)
PlacesOf(q, a) == {i \in DOMAIN q : AccountOf[q[i].client] = a}
PlacesOfOthers(q, a) == {i \in DOMAIN q : AccountOf[q[i].client] # a}
Waits(q) == {q[i].client : i \in DOMAIN q}

RequestsInit ==
    /\ reserved = 0
    /\ active = 0
    /\ accounts = [a \in Accounts |-> 0]
    /\ queue = <<>>
    /\ pc = [c \in Requesters |-> "idle"]
    /\ owed = {}
    /\ permit = {}
    /\ passed = {}

-----------------------------------------------------------------------------
Eligible(e, n, acc) ==
    /\ e.head
    /\ n < ActiveLimit(e.client)
    /\ acc[AccountOf[e.client]] < AccountLimit(e.client)

(* next_eligible, as the set of the one client it finds. *)
NextEligible(q, n, acc) ==
    {q[i].client : i \in {j \in DOMAIN q :
        /\ Eligible(q[j], n, acc)
        /\ \A k \in 1..(j - 1) : ~Eligible(q[k], n, acc)}}

(* remove_waiting: the next entry of the account inherits the head flag. *)
RemoveWaiting(q, c) ==
    LET rest == Kept(q, {i \in DOMAIN q : q[i].client # c})
        wasHead == \E i \in DOMAIN q : q[i].client = c /\ q[i].head
    IN  [i \in DOMAIN rest |->
            IF /\ wasHead
               /\ AccountOf[rest[i].client] = AccountOf[c]
               /\ \A k \in 1..(i - 1) : AccountOf[rest[k].client] # AccountOf[c]
            THEN [rest[i] EXCEPT !.head = TRUE]
            ELSE rest[i]]

(* Mutant: nobody moves. *)
RotateNothing(q, a) == q

(* rotate: the account's entries go behind all others, in order. *)
Rotate(q, a) == Kept(q, PlacesOfOthers(q, a)) \o Kept(q, PlacesOf(q, a))

Taken(c, n) == [accounts EXCEPT ![AccountOf[c]] = @ + n]

(* Turns that still count: those of clients that wait on, and not in the account
   a that has just had its own. *)
StillPassed(q, a) == {p \in passed : p[1] \in Waits(q) /\ AccountOf[p[1]] # a}
PassedBy(q, a) == {c \in Waits(q) : AccountOf[c] # a} \X {a}

-----------------------------------------------------------------------------
(* reserve; a refusal changes nothing. *)
Reserve(c) ==
    /\ pc[c] = "idle"
    /\ reserved < Limits[c].active_requests + Limits[c].queued_requests
    /\ reserved' = reserved + 1
    /\ pc' = [pc EXCEPT ![c] = "reserved"]
    /\ UNCHANGED <<active, accounts, queue, owed, permit, passed>>

MustWait(c) ==
    \/ active >= ActiveLimit(c)
    \/ accounts[AccountOf[c]] >= AccountLimit(c)
    \/ PlacesOf(queue, AccountOf[c]) # {}
    \/ NextEligible(queue, active, accounts) # {}

(* The first critical section of admit: at once, into the queue, or refused. *)
Admit(c) ==
    /\ pc[c] = "reserved"
    /\ LET pending == Cardinality(PlacesOf(queue, AccountOf[c])) IN
       \/ /\ ~MustWait(c)
          /\ active' = active + 1
          /\ accounts' = Taken(c, 1)
          /\ pc' = [pc EXCEPT ![c] = "admitted"]
          /\ UNCHANGED queue
       \/ /\ MustWait(c)
          /\ \/ pending >= Limits[c].account_pending_requests
             \/ Len(queue) >= Limits[c].queued_requests
          /\ pc' = [pc EXCEPT ![c] = "leaving"]
          /\ UNCHANGED <<active, accounts, queue>>
       \/ /\ MustWait(c)
          /\ pending < Limits[c].account_pending_requests
          /\ Len(queue) < Limits[c].queued_requests
          /\ queue' = Append(queue, [client |-> c, head |-> pending = 0])
          /\ pc' = [pc EXCEPT ![c] = "checking"]
          /\ UNCHANGED <<active, accounts>>
    /\ UNCHANGED <<reserved, owed, permit, passed>>

(* Mutant: an admitted request does not look for the next one. *)
AdmitWaitingSilently(c) ==
    /\ queue' = Rotate(RemoveWaiting(queue, c), AccountOf[c])
    /\ active' = active + 1
    /\ accounts' = Taken(c, 1)
    /\ pc' = [pc EXCEPT ![c] = "admitted"]
    /\ passed' = StillPassed(queue', AccountOf[c]) \cup PassedBy(queue', AccountOf[c])
    /\ owed' = owed \ {c}
    /\ permit' = permit \ {c}

(* The waiter is the next eligible one: it takes its place, its account goes
   to the back, and whoever is next then will be told. *)
AdmitWaiting(c) ==
    /\ queue' = Rotate(RemoveWaiting(queue, c), AccountOf[c])
    /\ active' = active + 1
    /\ accounts' = Taken(c, 1)
    /\ owed' = (owed \ {c}) \cup NextEligible(queue', active', accounts')
    /\ permit' = permit \ {c}
    /\ pc' = [pc EXCEPT ![c] = "admitted"]
    /\ passed' = StillPassed(queue', AccountOf[c]) \cup PassedBy(queue', AccountOf[c])

(* The body of the waiting loop, after `enable`. *)
Check(c) ==
    /\ pc[c] = "checking"
    /\ IF c \in NextEligible(queue, active, accounts)
       THEN AdmitWaiting(c)
       ELSE /\ pc' = [pc EXCEPT ![c] = "waiting"]
            /\ UNCHANGED <<active, accounts, queue, owed, permit, passed>>
    /\ UNCHANGED reserved

(* notify_one, sent after the mutex is released.  (The Notify of an entry that
   has left the queue is nobody's any more.) *)
Notify(c) ==
    /\ c \in owed
    /\ owed' = owed \ {c}
    /\ permit' = permit \cup {c}
    /\ UNCHANGED <<queueVars, pc, passed>>

Wake(c) ==
    /\ pc[c] = "waiting"
    /\ c \in permit
    /\ permit' = permit \ {c}
    /\ pc' = [pc EXCEPT ![c] = "checking"]
    /\ UNCHANGED <<queueVars, owed, passed>>

(* Mutant: a cancelled request does not pass its notification on. *)
CancelSilently(c) ==
    /\ pc[c] = "waiting"
    /\ queue' = RemoveWaiting(queue, c)
    /\ owed' = owed \ {c}
    /\ permit' = permit \ {c}
    /\ pc' = [pc EXCEPT ![c] = "leaving"]
    /\ passed' = {p \in passed : p[1] # c}
    /\ UNCHANGED <<reserved, active, accounts>>

(* Admission::drop of a request that waits: its deadline passed or its caller
   went away. *)
Cancel(c) ==
    /\ pc[c] = "waiting"
    /\ queue' = RemoveWaiting(queue, c)
    /\ owed' = (owed \ {c}) \cup NextEligible(queue', active, accounts)
    /\ permit' = permit \ {c}
    /\ pc' = [pc EXCEPT ![c] = "leaving"]
    /\ passed' = {p \in passed : p[1] # c}
    /\ UNCHANGED <<reserved, active, accounts>>

(* Admission::drop of an admitted request. *)
ReleaseAdmission(c) ==
    /\ pc[c] = "admitted"
    /\ active' = active - 1
    /\ accounts' = Taken(c, 0 - 1)
    /\ queue' = Rotate(queue, AccountOf[c])
    /\ owed' = owed \cup NextEligible(queue', active', accounts')
    /\ pc' = [pc EXCEPT ![c] = "leaving"]
    /\ passed' = StillPassed(queue', AccountOf[c])
    /\ UNCHANGED <<reserved, permit>>

(* Reservation::drop *)
DropReservation(c) ==
    /\ pc[c] = "leaving"
    /\ reserved' = reserved - 1
    /\ pc' = [pc EXCEPT ![c] = "idle"]
    /\ UNCHANGED <<active, accounts, queue, owed, permit, passed>>

RequestsNext ==
    \E c \in Requesters :
        \/ Reserve(c) \/ Admit(c) \/ Check(c) \/ Notify(c) \/ Wake(c)
        \/ Cancel(c) \/ ReleaseAdmission(c) \/ DropReservation(c)

RequestsSpec == RequestsInit /\ [][RequestsNext]_requestVars

(* Threads go on, notifications are sent, woken futures are polled, and an
   admitted operation ends, at the latest at its deadline.  Nothing forces a
   waiting request to be cancelled. *)
RequestsFairness ==
    \A c \in Requesters :
        /\ WF_requestVars(Admit(c) \/ Check(c) \/ Wake(c) \/ ReleaseAdmission(c)
                              \/ DropReservation(c))
        /\ WF_requestVars(Notify(c))

RequestsFairSpec == RequestsSpec /\ RequestsFairness

-----------------------------------------------------------------------------
Admitted == {c \in Requesters : pc[c] = "admitted"}
AdmittedOf(a) == {c \in Admitted : AccountOf[c] = a}

RequestsTyped ==
    /\ reserved \in 0..Cardinality(Requesters)
    /\ active \in 0..Cardinality(Requesters)
    /\ accounts \in [Accounts -> 0..Cardinality(Requesters)]
    /\ queue \in Seq(Entry)
    /\ pc \in [Requesters -> {"idle", "reserved", "checking", "waiting", "admitted",
                           "leaving"}]
    /\ owed \subseteq Requesters
    /\ permit \subseteq Requesters
    /\ passed \subseteq Requesters \X Accounts

(* Counters and queue agree with the requests there are, whichever way each of
   them left: nothing leaks, nothing is counted twice. *)
Accounted ==
    /\ reserved = Cardinality({c \in Requesters : pc[c] # "idle"})
    /\ active = Cardinality(Admitted)
    /\ \A a \in Accounts : accounts[a] = Cardinality(AdmittedOf(a))
    /\ Len(queue) = Cardinality(Waits(queue))
    /\ Waits(queue) = {c \in Requesters : pc[c] \in {"checking", "waiting"}}

(* With grants of different width side by side, the work in progress is always
   within the limits of some request that is part of it, for the process and
   for each account. *)
WithinLimits ==
    /\ Admitted # {} => \E c \in Admitted : active <= ActiveLimit(c)
    /\ \A a \in Accounts : AdmittedOf(a) # {} =>
           \E c \in AdmittedOf(a) : accounts[a] <= AccountLimit(c)

(* Exactly the first waiting request of each account carries the head flag,
   through cancellations in the middle and rotations. *)
HeadsAreFirst ==
    \A i \in DOMAIN queue :
        queue[i].head <=> \A k \in 1..(i - 1) :
            AccountOf[queue[k].client] # AccountOf[queue[i].client]

(* The request that could go next always knows, or is about to: no wakeup is
   lost between the mutex, the notification and a cancelled waiter. *)
NoLostWakeup ==
    \A c \in NextEligible(queue, active, accounts) :
        c \in owed \/ c \in permit \/ pc[c] = "checking"

(* Within an account nobody overtakes: an admitted waiter was the first of its
   account in the queue. *)
FirstInFirstAdmitted ==
    \A c \in Requesters : pc[c] = "checking" /\ pc'[c] = "admitted" =>
        \E i \in DOMAIN queue :
            /\ queue[i].client = c
            /\ \A k \in 1..(i - 1) : AccountOf[queue[k].client] # AccountOf[c]

(* Accounts take turns: while c could go, no other account is admitted from the
   queue twice, unless c's own account was admitted or finished something in
   between. *)
TakesTurns ==
    \A c \in Requesters : pc[c] = "checking" /\ pc'[c] = "admitted" =>
        \A i \in DOMAIN queue :
            Eligible(queue[i], active, accounts) =>
                <<queue[i].client, AccountOf[c]>> \notin passed

(* A newcomer is admitted past the queue only when nobody in it could go. *)
NewcomersYield ==
    \A c \in Requesters : pc[c] = "reserved" /\ pc'[c] = "admitted" =>
        \A i \in DOMAIN queue : ~Eligible(queue[i], active, accounts)

(* RequestQueue: however requests leave, the counters and the queue agree with
   the requests there are (Accounted), the work in progress is within the limits
   of some request that is part of it (WithinLimits), exactly the first waiting
   request of each account carries the head flag (HeadsAreFirst) and the one
   that could go next knows, or is about to (NoLostWakeup). *)
QueueConsistent ==
    RequestsTyped /\ Accounted /\ WithinLimits /\ HeadsAreFirst /\ NoLostWakeup

(* RequestQueue::admit: nobody overtakes within an account, accounts take turns,
   and a newcomer passes the queue only when nobody in it could go. *)
AdmissionIsFair == [][FirstInFirstAdmitted /\ TakesTurns /\ NewcomersYield]_requestVars

(* Under equal limits every queued request is admitted in the end, if it is
   not cancelled first. *)
QueuedIsServed ==
    \A c \in Requesters : (pc[c] \in {"checking", "waiting"}) ~>
                           (pc[c] \notin {"checking", "waiting"})
=============================================================================
