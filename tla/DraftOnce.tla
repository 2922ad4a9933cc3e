----------------------------- MODULE DraftOnce ------------------------------
(***************************************************************************)
(* What draft creation promises, without calls, locks, journals or wires:  *)
(* the server is asked at most once to store an operation's draft, what    *)
(* the installation believes about the attempt is never wrong, and once    *)
(* history has been rolled back nothing is attempted any more.             *)
(***************************************************************************)
EXTENDS Naturals

CONSTANT Operations

VARIABLES
    verdict,    \* what the installation believes of each operation
    attempts,   \* how often the server was asked to store its draft
    stored,     \* how often it did
    sealed      \* recorded history may be older than what happened

onceVars == <<verdict, attempts, stored, sealed>>

OnceInit ==
    /\ verdict = [op \in Operations |-> "open"]
    /\ attempts = [op \in Operations |-> 0]
    /\ stored = [op \in Operations |-> 0]
    /\ sealed = FALSE

(* The intention to attempt is recorded before the attempt. *)
Commit(op) ==
    /\ ~sealed
    /\ verdict[op] = "open"
    /\ verdict' = [verdict EXCEPT ![op] = "uncertain"]
    /\ UNCHANGED <<attempts, stored, sealed>>

Attempt(op) ==
    /\ ~sealed
    /\ verdict[op] = "uncertain"
    /\ attempts[op] = 0
    /\ attempts' = [attempts EXCEPT ![op] = 1]
    /\ UNCHANGED <<verdict, stored, sealed>>

(* The server may store the draft long after the installation gave up. *)
Store(op) ==
    /\ attempts[op] = 1
    /\ stored[op] = 0
    /\ verdict[op] # "rejected"
    /\ stored' = [stored EXCEPT ![op] = 1]
    /\ UNCHANGED <<verdict, attempts, sealed>>

Conclude(op) ==
    /\ verdict[op] = "uncertain"
    /\ attempts[op] = 1
    /\ verdict' = [verdict EXCEPT ![op] = IF stored[op] = 1 THEN "created" ELSE "rejected"]
    /\ UNCHANGED <<attempts, stored, sealed>>

Seal ==
    /\ sealed' = TRUE
    /\ UNCHANGED <<verdict, attempts, stored>>

(* An older history may have forgotten outcomes; it never invents one. *)
Rollback ==
    /\ sealed
    /\ verdict' \in [Operations -> {"open", "uncertain", "created", "rejected"}]
    /\ \A op \in Operations :
          /\ verdict'[op] = "created" => stored[op] = 1
          /\ verdict'[op] = "rejected" => attempts[op] = 1 /\ stored[op] = 0
    /\ UNCHANGED <<attempts, stored, sealed>>

OnceNext ==
    \/ \E op \in Operations : Commit(op) \/ Attempt(op) \/ Store(op) \/ Conclude(op)
    \/ Seal
    \/ Rollback

OnceSpec == OnceInit /\ [][OnceNext]_onceVars
=============================================================================
