---------------------------- MODULE Installation ----------------------------
(***************************************************************************)
(* Processes of one installation starting, being set up, serving and       *)
(* dying, around its files: the configuration, the account registry, the   *)
(* initialization marker and two advisory locks (Initialization and        *)
(* AccountRegistry in src/service/state.rs, src/service/state/storage.rs,  *)
(* open and setup in src/frontends/configuration.rs, restore in            *)
(* src/service/state/maintenance.rs).                                      *)
(*                                                                         *)
(* A step is one access to a file or a lock.  The operating system frees   *)
(* the locks of a process that dies.  The operator may edit the            *)
(* configuration at any time, and may lose the registry file.              *)
(***************************************************************************)
EXTENDS Registry, FiniteSets, TLC

CONSTANTS
    Procs,         \* processes
    Configs,       \* configurations the operator may write
    MaxEdits,      \* bound: edits, losses and set-ups
    MaxInstalls,   \* bound: installation identities
    Losses,        \* whether the operator may lose the registry file
    Restores,      \* whether the operator may restore a snapshot
    None

InstallationAssumption ==
    /\ MaxEdits \in Nat /\ MaxInstalls \in Nat \ {0}
    /\ Losses \in BOOLEAN /\ Restores \in BOOLEAN
    /\ None \notin Procs
    /\ \A c \in Configs : DOMAIN c \subseteq Keys /\ \A k \in DOMAIN c : c[k] \in Settings

VARIABLES
    file,        \* config.toml, or None
    disk,        \* accounts.json, or None
    marker,      \* initialization.lock's content: whose, and whether whole
    initLock,    \* who holds initialization.lock, or None
    exclusive,   \* who holds maintenance.lock exclusively, or None
    shared,      \* who holds it shared
    proc,        \* what each process is doing
    archive,     \* a backup: the registry, or None
    installs,    \* installations created
    edits,       \* edits, losses and set-ups so far
    issued       \* history: what each account and generation stood for when a service used it

locks == <<initLock, exclusive, shared>>
installationVars == <<file, disk, marker, locks, proc, archive, installs, edits, issued>>

Idle == [pc |-> "idle"]

EmptyMarker == [of |-> 0, whole |-> FALSE]

InstallationInit ==
    /\ file \in Configs \cup {None}
    /\ disk = None
    /\ marker = EmptyMarker
    /\ initLock = None /\ exclusive = None /\ shared = {}
    /\ proc = [p \in Procs |-> Idle]
    /\ archive = None
    /\ installs = 0
    /\ edits = 0
    /\ issued = {}

At(p, pc) == proc[p].pc = pc
Proceed(p, pc) == proc' = [proc EXCEPT ![p].pc = pc]

\* The process gives up or dies: the operating system frees its locks.
Release(p) ==
    /\ initLock' = IF initLock = p THEN None ELSE initLock
    /\ exclusive' = IF exclusive = p THEN None ELSE exclusive
    /\ shared' = shared \ {p}
    /\ proc' = [proc EXCEPT ![p] = Idle]

----------------------------------------------------------------------------
(* Starting, and setting up                                                *)

\* A front end reads its configuration.
Open(p) ==
    /\ At(p, "idle") /\ file # None
    /\ proc' = [proc EXCEPT ![p] = [pc |-> "locking", setup |-> FALSE, config |-> file,
                                    previous |-> file]]
    /\ UNCHANGED <<file, disk, marker, locks, archive, installs, edits, issued>>

\* setup reads what is there, and what it means to write.
Setup(p) ==
    /\ At(p, "idle") /\ edits < MaxEdits
    /\ edits' = edits + 1
    /\ \E config \in Configs :
          proc' = [proc EXCEPT ![p] = [pc |-> "locking", setup |-> TRUE, config |-> config,
                                       previous |-> file]]
    /\ UNCHANGED <<file, disk, marker, locks, archive, installs, issued>>

Changed(config) ==
    \/ disk = None
    \/ disk.revision # config
    \/ Outdated(disk.accounts, config)

\* Initialization::acquire up to the maintenance lock.  Without a registry
\* there must be no marker either.
LockInitialization(p) ==
    /\ At(p, "locking") /\ initLock = None
    /\ ~(disk = None /\ marker # EmptyMarker)
    /\ initLock' = p
    /\ proc' = [proc EXCEPT ![p] =
                   [pc |-> "maintenance", setup |-> @.setup, config |-> @.config,
                    previous |-> @.previous, registry |-> disk,
                    changed |-> Changed(@.config)]]
    /\ UNCHANGED <<file, disk, marker, exclusive, shared, archive, installs, edits, issued>>

Exclusively(p) == proc[p].setup \/ proc[p].changed

\* storage::lock, polled until it is to be had.
Lockable(p) == exclusive = None /\ (Exclusively(p) => shared = {})

NewRegistry(revision) ==
    [installation |-> installs + 1, revision |-> revision, accounts |-> <<>>]

\* The marker must be that of the registry, or a part of it.
MarkerFits(registry) == marker.of \in {0, registry.installation}

\* The rest of acquire: the maintenance lock, and the registry to work on.
LockMaintenance(p) ==
    /\ At(p, "maintenance") /\ Lockable(p)
    /\ IF Exclusively(p) THEN exclusive' = p /\ UNCHANGED shared
                         ELSE shared' = shared \cup {p} /\ UNCHANGED exclusive
    /\ LET registry == IF proc[p].registry = None THEN NewRegistry(proc[p].config)
                       ELSE proc[p].registry
       IN /\ registry.installation <= MaxInstalls
          /\ installs' = IF proc[p].registry = None THEN installs + 1 ELSE installs
          /\ MarkerFits(registry)
          /\ proc[p].changed \/ DOMAIN proc[p].config \subseteq DOMAIN registry.accounts
          /\ proc' = [proc EXCEPT ![p].pc = "confirm",
                                  ![p].registry =
                IF proc[p].changed
                THEN [registry EXCEPT !.revision = proc[p].config,
                                      !.accounts = Reconcile(@, proc[p].config)]
                ELSE registry]
    /\ UNCHANGED <<file, disk, marker, initLock, archive, edits, issued>>

\* update_configuration: the file must still be what was read; setup then
\* replaces it, before the registry is written.
Confirm(p) ==
    /\ At(p, "confirm")
    /\ file = proc[p].previous
    /\ file' = proc[p].config
    /\ Proceed(p, "persist")
    /\ UNCHANGED <<disk, marker, locks, archive, installs, edits, issued>>

Persist(p) ==
    /\ At(p, "persist")
    /\ disk' = IF proc[p].changed THEN proc[p].registry ELSE disk
    /\ Proceed(p, "mark")
    /\ UNCHANGED <<file, marker, locks, archive, installs, edits, issued>>

\* mark_initialized, unless the marker is whole already.  The process may die
\* having written a part of it.
Mark(p) ==
    /\ At(p, "mark")
    /\ \/ /\ ~marker.whole
          /\ marker' = [of |-> proc[p].registry.installation, whole |-> FALSE]
          /\ Release(p)
       \/ /\ marker' = IF marker.whole THEN marker
                       ELSE [of |-> proc[p].registry.installation, whole |-> TRUE]
          /\ IF proc[p].setup THEN Release(p) ELSE Proceed(p, "unlock") /\ UNCHANGED locks
    /\ UNCHANGED <<file, disk, archive, installs, edits, issued>>

\* What a service hands out names the account and its newest generation.
Issues(p) ==
    LET registry == proc[p].registry
    IN {[installation |-> registry.installation, key |-> k,
         generation |-> Len(registry.accounts[k]), route |-> proc[p].config[k].route]
           : k \in DOMAIN proc[p].config}

\* downgrade_to_shared gives up the exclusive lock, then asks for a shared one.
\* The initialization lock is held until then.
UnlockAlone(p) ==
    /\ At(p, "unlock")
    /\ exclusive' = IF exclusive = p THEN None ELSE exclusive
    /\ initLock' = None
    /\ Proceed(p, "share")
    /\ UNCHANGED <<file, disk, marker, shared, archive, installs, edits, issued>>

Unlock(p) ==
    /\ At(p, "unlock")
    /\ exclusive' = IF exclusive = p THEN None ELSE exclusive
    /\ Proceed(p, "share")
    /\ UNCHANGED <<file, disk, marker, initLock, shared, archive, installs, edits, issued>>

Share(p) ==
    /\ At(p, "share") /\ exclusive = None
    /\ shared' = shared \cup {p}
    /\ initLock' = IF initLock = p THEN None ELSE initLock
    /\ Proceed(p, "serving")
    /\ issued' = issued \cup Issues(p)
    /\ UNCHANGED <<file, disk, marker, exclusive, archive, installs, edits>>

\* A lock was not to be had in time, a check failed, a request found another
\* registry than the process has, the process ends or is killed.
Stop(p) ==
    /\ ~At(p, "idle")
    /\ Release(p)
    /\ UNCHANGED <<file, disk, marker, archive, installs, edits, issued>>

----------------------------------------------------------------------------
(* Maintenance, and the operator                                           *)

\* Maintenance::acquire takes both locks; nothing else runs while it does.
NothingRuns == initLock = None /\ exclusive = None /\ shared = {}

Fits == /\ disk # None /\ file # None
        /\ disk.revision = file
        /\ marker = [of |-> disk.installation, whole |-> TRUE]

ArchiveRegistry ==
    /\ Restores /\ NothingRuns /\ Fits
    /\ archive = None
    /\ archive' = disk
    /\ UNCHANGED <<file, disk, marker, locks, proc, installs, edits, issued>>

RestoreArchive ==
    /\ Restores /\ NothingRuns /\ archive # None /\ file # None
    /\ archive.revision = file
    /\ marker = [of |-> archive.installation, whole |-> TRUE]
    /\ disk' = archive
    /\ UNCHANGED <<file, marker, locks, proc, archive, installs, edits, issued>>

Edit ==
    /\ edits < MaxEdits
    /\ edits' = edits + 1
    /\ \E config \in Configs \ {file} : file' = config
    /\ UNCHANGED <<disk, marker, locks, proc, archive, installs, issued>>

LoseRegistry ==
    /\ Losses /\ edits < MaxEdits /\ disk # None
    /\ edits' = edits + 1
    /\ disk' = None
    /\ UNCHANGED <<file, marker, locks, proc, archive, installs, issued>>

InstallationNext ==
    \/ \E p \in Procs :
          \/ Open(p) \/ Setup(p) \/ LockInitialization(p) \/ LockMaintenance(p)
          \/ Confirm(p) \/ Persist(p) \/ Mark(p) \/ Unlock(p) \/ Share(p) \/ Stop(p)
    \/ ArchiveRegistry \/ RestoreArchive \/ Edit \/ LoseRegistry

InstallationSpec == InstallationInit /\ [][InstallationNext]_installationVars

----------------------------------------------------------------------------
(* Properties                                                              *)

(* What the registry file holds, and what a process is doing and has read. *)
Generations == [route : Routes, secret : Secrets \cup {NoSecret}]

RegistryTyped(r) ==
    /\ r \in [installation : Nat \ {0}, revision : Configs, accounts : {r.accounts}]
    /\ DOMAIN r.accounts \subseteq Keys
    /\ r.accounts \in [DOMAIN r.accounts -> Seq(Generations)]
    /\ \A k \in DOMAIN r.accounts : r.accounts[k] # <<>>

Phases == {"confirm", "persist", "mark", "unlock", "share", "serving"}

ActivityTyped(a) ==
    \/ a = Idle
    \/ a \in [pc : {"locking"}, setup : BOOLEAN, config : Configs,
              previous : Configs \cup {None}]
    \/ /\ a \in [pc : {"maintenance"} \cup Phases, setup : BOOLEAN, config : Configs,
                 previous : Configs \cup {None}, registry : {a.registry}, changed : BOOLEAN]
       /\ (a.pc = "maintenance" /\ a.registry = None) \/ RegistryTyped(a.registry)

InstallationTyped ==
    /\ file \in Configs \cup {None}
    /\ disk = None \/ RegistryTyped(disk)
    /\ archive = None \/ RegistryTyped(archive)
    /\ marker \in [of : Nat, whole : BOOLEAN]
    /\ initLock \in Procs \cup {None} /\ exclusive \in Procs \cup {None}
    /\ shared \subseteq Procs
    /\ DOMAIN proc = Procs /\ \A p \in Procs : ActivityTyped(proc[p])
    /\ installs \in Nat /\ edits \in Nat

Serving == {p \in Procs : At(p, "serving")}

\* While a service runs, the registry on disk is the one it works with, so
\* check_revision never finds a change made by another start, a set-up or a
\* restore: those need the maintenance lock to themselves.  Only the loss of
\* the file goes unhindered.
LeaseHolds == \A p \in Serving : disk \in {None, proc[p].registry}

\* The newest generation of each account a service is configured with stands
\* for exactly the settings the service uses, whatever was set up, edited or
\* interrupted before it started.
GenerationIsCurrent ==
    \A p \in Serving : \A k \in DOMAIN proc[p].config :
        LET history == proc[p].registry.accounts[k]
        IN /\ history[Len(history)].route = proc[p].config[k].route
           /\ history[Len(history)].secret = proc[p].config[k].secret

\* An account and a generation, once handed out, stand for the same server,
\* user and Drafts mailbox for ever: reconfiguration makes a new generation
\* and does not redirect what names an old one (docs/adr/0003).
NeverRedirected ==
    \A a, b \in issued :
        (a.installation = b.installation /\ a.key = b.key /\ a.generation = b.generation)
            => a.route = b.route

\* Starts that race, die half-way or find their registry gone never replace
\* the identity of an installation that has been in use.
OneInstallation == \A a, b \in issued : a.installation = b.installation

\* A past generation's credential is on disk only while the account's settings
\* say so, and never for an account that is no longer configured.
OldSecretsGone ==
    disk # None =>
        \A k \in DOMAIN disk.accounts : \A g \in DOMAIN disk.accounts[k] :
            disk.accounts[k][g].secret # NoSecret =>
                /\ k \in DOMAIN disk.revision
                /\ g = Len(disk.accounts[k]) \/ disk.revision[k].retain

(* Initialization and AccountRegistry: through crashes, races, edits and lost
   files, a process that runs holds a lease, and nobody changes what it runs on
   (LeaseHolds); the generation in use is that of the configuration it was
   started with (GenerationIsCurrent); nothing makes a second installation of
   one that is there (OneInstallation); secrets of the past are forgotten
   (OldSecretsGone); and until there is a snapshot to go back to, a generation
   that was handed out keeps its route (NeverRedirected). *)
InstallationSound ==
    /\ InstallationTyped /\ LeaseHolds /\ GenerationIsCurrent /\ OneInstallation
    /\ OldSecretsGone
    /\ archive = None => NeverRedirected
=============================================================================
