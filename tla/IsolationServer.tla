-------------------------- MODULE IsolationServer ---------------------------
(***************************************************************************)
(* The isolated server process (server in src/isolation.rs): it checks its *)
(* installation, opens the state, takes the singleton lock, replaces a     *)
(* stale socket and accepts sessions, bounded as a whole and per grant,    *)
(* until it is told to stop.  Several processes may be started, and each   *)
(* may die at any point: the kernel releases its lock, the socket's file   *)
(* stays.                                                                  *)
(***************************************************************************)
EXTENDS Naturals, FiniteSets

CONSTANTS
    Servers,      \* processes
    Connections,  \* bound: connections at a time
    Grants,
    Cap,          \* min(SESSIONS, limits.active_requests)
    GrantCap,     \* the same, narrowed by each grant
    MaxConfig,    \* bound: changes of the configuration file
    Nobody

IsolationServerAssumption ==
    /\ Cap \in Nat \ {0}
    /\ GrantCap \in [Grants -> 1..Cap]
    /\ MaxConfig \in Nat
    /\ Nobody \notin Servers /\ Nobody \notin [server : Servers, grant : Grants]

VARIABLES
    config,      \* version of the configuration file
    trusted,     \* owner and mode of every file and directory are as required
    stage,       \* of each process
    loaded,      \* the version it loaded
    lock,        \* holder of run/server.lock
    socket,      \* the process whose listener the socket's file belongs to
    permits,     \* free permits
    grantFree,   \* grant_permits
    sessions     \* [server, grant] of each connection that is served

serverVars == <<config, trusted, stage, loaded, lock, socket, permits, grantFree, sessions>>

Stages == {"down", "loaded", "opened", "locked", "cleared", "bound", "serving", "stopping",
           "unlinked"}
Session == [server : Servers, grant : Grants]

ServerTypeOK ==
    /\ config \in 0..MaxConfig /\ trusted \in BOOLEAN
    /\ stage \in [Servers -> Stages]
    /\ loaded \in [Servers -> 0..MaxConfig]
    /\ lock \in Servers \cup {Nobody}
    /\ socket \in Servers \cup {Nobody}
    /\ permits \in [Servers -> 0..Cap]
    /\ grantFree \in [Servers -> [Grants -> 0..Cap]]
    /\ \A p \in Servers, g \in Grants : grantFree[p][g] <= GrantCap[g]
    /\ sessions \in [Connections -> Session \cup {Nobody}]

ServerInit ==
    /\ config = 0
    /\ trusted = TRUE
    /\ stage = [p \in Servers |-> "down"]
    /\ loaded = [p \in Servers |-> 0]
    /\ lock = Nobody
    /\ socket = Nobody
    /\ permits = [p \in Servers |-> Cap]
    /\ grantFree = [p \in Servers |-> GrantCap]
    /\ sessions = [c \in Connections |-> Nobody]

Of(p) == {c \in Connections : sessions[c] # Nobody /\ sessions[c].server = p}

At(p, s) == stage' = [stage EXCEPT ![p] = s]
Quiet == UNCHANGED <<config, trusted, permits, grantFree, sessions>>

-----------------------------------------------------------------------------
(* read_private_file, verify_root_path, verify_private_directory and the others:
   a path in which others could write is refused. *)
Verified == trusted

(* Route::load and load_service_config *)
Load(p) ==
    /\ stage[p] = "down" /\ Verified
    /\ loaded' = [loaded EXCEPT ![p] = config]
    /\ At(p, "loaded")
    /\ UNCHANGED <<lock, socket>> /\ Quiet

(* Service::open_checked loads the configuration again under the state's own lock:
   a process whose configuration has changed gives up. *)
Open(p) ==
    /\ stage[p] = "loaded"
    /\ IF Verified /\ config = loaded[p]
       THEN At(p, "opened")
       ELSE At(p, "down")
    /\ UNCHANGED <<loaded, lock, socket>> /\ Quiet

(* Mutant: the lock is not asked for. *)
LockNever(p) ==
    /\ stage[p] = "opened"
    /\ lock' = p /\ At(p, "locked")
    /\ UNCHANGED <<loaded, socket>> /\ Quiet

(* prepare_run_directory and singleton_lock, which does not wait *)
SingletonLock(p) ==
    /\ stage[p] = "opened"
    /\ IF Verified /\ lock = Nobody
       THEN lock' = p /\ At(p, "locked")
       ELSE UNCHANGED lock /\ At(p, "down")
    /\ UNCHANGED <<loaded, socket>> /\ Quiet

(* remove_stale_socket *)
RemoveStaleSocket(p) ==
    /\ stage[p] = "locked"
    /\ socket' = Nobody
    /\ At(p, "cleared")
    /\ UNCHANGED <<loaded, lock>> /\ Quiet

(* UnixListener::bind and set_permissions: an address that is in use ends it. *)
Bind(p) ==
    /\ stage[p] = "cleared"
    /\ IF socket = Nobody
       THEN socket' = p /\ At(p, "bound") /\ UNCHANGED lock
       ELSE UNCHANGED socket /\ At(p, "down") /\ lock' = Nobody
    /\ UNCHANGED loaded /\ Quiet

(* The semaphores are made; one per grant of the route. *)
StartServing(p) ==
    /\ stage[p] = "bound"
    /\ At(p, "serving")
    /\ permits' = [permits EXCEPT ![p] = Cap]
    /\ grantFree' = [grantFree EXCEPT ![p] = GrantCap]
    /\ UNCHANGED <<config, trusted, loaded, lock, socket, sessions>>

Accepted(p, c, g) ==
    /\ grantFree[p][g] > 0
    /\ permits' = [permits EXCEPT ![p] = @ - 1]
    /\ grantFree' = [grantFree EXCEPT ![p][g] = @ - 1]
    /\ sessions' = [sessions EXCEPT ![c] = [server |-> p, grant |-> g]]

(* listener.accept(): a connection beyond a bound, or of a user the route does not
   name, is closed without a word. *)
Accept(p, c) ==
    /\ stage[p] = "serving" /\ socket = p
    /\ sessions[c] = Nobody /\ permits[p] > 0
    /\ \E g \in Grants : Accepted(p, c, g)
    /\ UNCHANGED <<config, trusted, stage, loaded, lock, socket>>

(* A session ends: its permits go with its task. *)
SessionEnds(c) ==
    /\ sessions[c] # Nobody
    /\ LET p == sessions[c].server
           g == sessions[c].grant
       IN  /\ permits' = [permits EXCEPT ![p] = @ + 1]
           /\ grantFree' = [grantFree EXCEPT ![p][g] = @ + 1]
    /\ sessions' = [sessions EXCEPT ![c] = Nobody]
    /\ UNCHANGED <<config, trusted, stage, loaded, lock, socket>>

(* The signal: no more connections; the sessions are aborted and joined. *)
Signal(p) ==
    /\ stage[p] = "serving"
    /\ At(p, "stopping")
    /\ UNCHANGED <<loaded, lock, socket>> /\ Quiet

Unlink(p) ==
    /\ stage[p] = "stopping" /\ Of(p) = {}
    /\ socket' = Nobody
    /\ At(p, "unlinked")
    /\ UNCHANGED <<loaded, lock>> /\ Quiet

Release(p) ==
    /\ stage[p] = "unlinked"
    /\ lock' = Nobody
    /\ At(p, "down")
    /\ UNCHANGED <<loaded, socket>> /\ Quiet

(* The process dies, or gives up with an error. *)
Crash(p) ==
    /\ stage[p] # "down"
    /\ At(p, "down")
    /\ lock' = IF lock = p THEN Nobody ELSE lock
    /\ sessions' = [c \in Connections |-> IF c \in Of(p) THEN Nobody ELSE sessions[c]]
    /\ UNCHANGED <<config, trusted, loaded, socket, permits, grantFree>>

(* The administrator edits the configuration, or changes owners and modes. *)
EditConfig ==
    /\ config < MaxConfig
    /\ config' = config + 1
    /\ UNCHANGED <<trusted, stage, loaded, lock, socket, permits, grantFree, sessions>>

ChangeModes ==
    /\ trusted' = ~trusted
    /\ UNCHANGED <<config, stage, loaded, lock, socket, permits, grantFree, sessions>>

ServerNext ==
    \/ \E p \in Servers :
          \/ Load(p) \/ Open(p) \/ SingletonLock(p) \/ RemoveStaleSocket(p) \/ Bind(p)
          \/ StartServing(p) \/ Signal(p) \/ Unlink(p) \/ Release(p) \/ Crash(p)
          \/ \E c \in Connections : Accept(p, c)
    \/ \E c \in Connections : SessionEnds(c)
    \/ EditConfig \/ ChangeModes

ServerSpec == ServerInit /\ [][ServerNext]_serverVars

-----------------------------------------------------------------------------
(* A server that accepts is the one its clients reach: no other process removes or
   replaces the socket of a live server, whichever start, stop and die. *)
Reachable == \A p \in Servers : stage[p] \in {"bound", "serving", "stopping"} => socket = p

(* What a dead server left behind never keeps the next one from starting. *)
StaleIsReplaced == \A p \in Servers : stage[p] = "cleared" => socket = Nobody

(* Permits and sessions agree, as a whole and per grant: a refused connection
   costs nothing and an ended session leaves nothing behind. *)
PermitsAccounted ==
    \A p \in Servers : stage[p] \in {"serving", "stopping"} =>
        /\ permits[p] + Cardinality(Of(p)) = Cap
        /\ \A g \in Grants :
              grantFree[p][g] + Cardinality({c \in Of(p) : sessions[c].grant = g}) = GrantCap[g]

(* server as a whole: one process is reached, and it serves within its bounds. *)
OneServer == ServerTypeOK /\ Reachable /\ StaleIsReplaced /\ PermitsAccounted

=============================================================================
