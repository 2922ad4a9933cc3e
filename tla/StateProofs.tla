---------------------------- MODULE StateProofs -----------------------------
(***************************************************************************)
(* The installation is sound through crashes, races, edits, lost files and *)
(* snapshots, and requests stay within their grants over the lives of a    *)
(* service, for any processes, accounts, grants and configurations.        *)
(*                                                                         *)
(* The installation: who is at which step says which locks are held        *)
(* (Locked), so at most one process is between taking the initialization   *)
(* lock and serving, and nobody serves while another may write.  What that *)
(* process has read stays what is on disk, or is lost (Working); the       *)
(* marker, once whole, names the installation of everything that was ever  *)
(* handed out (Marked); and a registry only grows, so it covers what it    *)
(* ever stood for (Covered).                                               *)
(*                                                                         *)
(* The grants: a context of this life is what its grant allows, narrowed   *)
(* (Narrowed), and a reference of this installation names a generation     *)
(* whose route is the one it was made for (Traced), because reconciling    *)
(* the registry never redirects a generation.                              *)
(***************************************************************************)
EXTENDS Installation, Authority, TLAPS

Holding == {"maintenance", "confirm", "persist", "mark", "unlock", "share"}
Leasing == {"confirm", "persist", "mark", "unlock", "share"}

(* The locks, as the steps of the processes tell them. *)
Locked ==
    /\ \A p \in Procs : initLock = p <=> proc[p].pc \in Holding
    /\ \A p \in Procs :
           exclusive = p <=> (proc[p].pc \in Leasing \ {"share"} /\ Exclusively(p))
    /\ \A p \in Procs :
           p \in shared <=>
               (proc[p].pc = "serving" \/ (proc[p].pc \in Leasing /\ ~Exclusively(p)))
    /\ exclusive # None => shared = {}

(* The newest generation of each account of settings stands for its settings. *)
Stands(accounts, settings) ==
    \A k \in DOMAIN settings :
        /\ k \in DOMAIN accounts
        /\ Matches(accounts[k][Len(accounts[k])], settings[k])

(* OldSecretsGone, of any registry. *)
Clean(r) ==
    \A k \in DOMAIN r.accounts : \A g \in DOMAIN r.accounts[k] :
        r.accounts[k][g].secret # NoSecret =>
            /\ k \in DOMAIN r.revision
            /\ g = Len(r.accounts[k]) \/ r.revision[k].retain

(* What a process that has read the registry has in hand. *)
AtMaintenance(a) ==
    a.pc = "maintenance" =>
        /\ a.registry = None => a.changed /\ disk = None /\ marker = EmptyMarker
        /\ a.registry # None => disk \in {None, a.registry}
        /\ ~a.changed => ~Outdated(a.registry.accounts, a.config)
AtLeasing(a) ==
    a.pc \in Phases =>
        /\ Stands(a.registry.accounts, a.config)
        /\ marker.of \in {0, a.registry.installation}
        /\ a.changed => Clean(a.registry)
        /\ (a.pc \in {"confirm", "persist"} /\ a.changed) \/ disk \in {None, a.registry}
        /\ a.pc \in {"unlock", "share", "serving"} => marker.whole
Working == \A p \in Procs : AtMaintenance(proc[p]) /\ AtLeasing(proc[p])

(* The marker, and what was handed out under it. *)
Marked ==
    /\ marker.whole => marker.of # 0
    /\ \A a \in issued : marker.whole /\ a.installation = marker.of

Tidy == (disk # None => Clean(disk)) /\ (archive # None => Clean(archive))

(* A registry knows every generation that was handed out, and its route. *)
Covers(r) ==
    \A a \in issued :
        /\ a.key \in DOMAIN r.accounts
        /\ a.generation \in DOMAIN r.accounts[a.key]
        /\ r.accounts[a.key][a.generation].route = a.route
Covered ==
    archive = None =>
        /\ NeverRedirected
        /\ disk # None => Covers(disk)
        /\ \A p \in Procs :
               proc[p].pc \in Holding /\ ~(proc[p].pc = "maintenance" /\ proc[p].registry = None)
                   => Covers(proc[p].registry)

InstallationInvariant == InstallationTyped /\ Locked /\ Working /\ Marked /\ Tidy /\ Covered

HistoriesTyped(accounts) ==
    /\ DOMAIN accounts \subseteq Keys
    /\ accounts \in [DOMAIN accounts -> Seq(Generations)]
    /\ \A k \in DOMAIN accounts : accounts[k] # <<>>

SettingsTyped(settings) ==
    DOMAIN settings \subseteq Keys /\ \A k \in DOMAIN settings : settings[k] \in Settings

-----------------------------------------------------------------------------
(* The registry's operators                                                *)

(* Forgetting keeps the generations and their routes, and the secrets of the
   kept ones only. *)
LEMMA ForgottenFacts ==
    ASSUME NEW h \in Seq(Generations), NEW kept
    PROVE  /\ Forgotten(h, kept) \in Seq(Generations)
           /\ Len(Forgotten(h, kept)) = Len(h) /\ DOMAIN Forgotten(h, kept) = 1..Len(h)
           /\ \A i \in 1..Len(h) :
                  /\ Forgotten(h, kept)[i].route = h[i].route
                  /\ i \in kept => Forgotten(h, kept)[i] = h[i]
                  /\ i \notin kept => Forgotten(h, kept)[i].secret = NoSecret
<1> DEFINE f == [i \in 1..Len(h) |-> IF i \in kept THEN h[i]
                                     ELSE [h[i] EXCEPT !.secret = NoSecret]]
<1>1. DOMAIN h = 1..Len(h) /\ Len(h) \in Nat /\ \A i \in 1..Len(h) : h[i] \in Generations
  OBVIOUS
<1>2. Forgotten(h, kept) = f
  BY <1>1 DEF Forgotten
<1>3. \A i \in 1..Len(h) :
          /\ f[i] \in Generations /\ f[i].route = h[i].route
          /\ i \in kept => f[i] = h[i]
          /\ i \notin kept => f[i].secret = NoSecret
  BY <1>1 DEF Generations
<1>4. f \in Seq(Generations)
  BY <1>1, <1>3
<1>5. Len(f) = Len(h)
  BY <1>1, <1>4
<1> HIDE DEF f
<1> QED BY <1>2, <1>3, <1>4, <1>5

(* One account, whose history may be empty only if it is configured. *)
LEMMA ReconciledFacts ==
    ASSUME NEW settings, SettingsTyped(settings), NEW key \in Keys,
           NEW h \in Seq(Generations), key \notin DOMAIN settings => h # <<>>
    PROVE  LET r == Reconciled(h, key, settings)
           IN /\ r \in Seq(Generations) /\ r # <<>> /\ Len(h) <= Len(r)
              /\ \A i \in 1..Len(h) : r[i].route = h[i].route
              /\ key \in DOMAIN settings => Matches(r[Len(r)], settings[key])
              /\ \A i \in 1..Len(r) : r[i].secret # NoSecret =>
                     /\ key \in DOMAIN settings
                     /\ i = Len(r) \/ settings[key].retain
<1>0. Len(h) \in Nat /\ DOMAIN h = 1..Len(h)
  OBVIOUS
<1>1. CASE key \notin DOMAIN settings
  <2>1. Reconciled(h, key, settings) = Forgotten(h, {}) /\ Len(h) # 0
    BY <1>1 DEF Reconciled
  <2>2. Forgotten(h, {}) # <<>>
    BY <2>1, ForgottenFacts
  <2> QED BY <1>0, <1>1, <2>1, <2>2, ForgottenFacts
<1>2. CASE key \in DOMAIN settings
  <2> DEFINE account == settings[key]
             current == [route |-> account.route, secret |-> account.secret]
             longer == IF h # <<>> /\ Matches(h[Len(h)], account) THEN h ELSE Append(h, current)
  <2>1. account \in Settings
    BY <1>2 DEF SettingsTyped
  <2>2. current \in Generations /\ Matches(current, account)
    BY <2>1 DEF Settings, Generations, Matches
  <2>3. /\ longer \in Seq(Generations) /\ longer # <<>> /\ Len(h) <= Len(longer)
        /\ Len(longer) \in Nat \ {0}
        /\ \A i \in 1..Len(h) : longer[i] = h[i]
        /\ Matches(longer[Len(longer)], account)
    <3>1. CASE h # <<>> /\ Matches(h[Len(h)], account)
      BY <1>0, <3>1
    <3>2. CASE ~(h # <<>> /\ Matches(h[Len(h)], account))
      <4>1. longer = Append(h, current)
        BY <3>2
      <4>2. /\ Append(h, current) \in Seq(Generations)
            /\ Len(Append(h, current)) = Len(h) + 1
            /\ Append(h, current)[Len(h) + 1] = current
            /\ \A i \in 1..Len(h) : Append(h, current)[i] = h[i]
        BY <1>0, <2>2
      <4> HIDE DEF longer, current, account
      <4> QED BY <1>0, <2>2, <4>1, <4>2
    <3> QED BY <3>1, <3>2
  <2>4. Reconciled(h, key, settings) = IF account.retain THEN longer
                                     ELSE Forgotten(longer, {Len(longer)})
    BY <1>2 DEF Reconciled
  <2> HIDE DEF longer, current
  <2>5. CASE account.retain
    BY <1>2, <2>3, <2>4, <2>5
  <2>6. CASE ~account.retain
    <3> DEFINE r == Forgotten(longer, {Len(longer)})
    <3>1. /\ r \in Seq(Generations) /\ Len(r) = Len(longer) /\ r # <<>>
          /\ \A i \in 1..Len(longer) :
                 /\ r[i].route = longer[i].route
                 /\ i = Len(longer) => r[i] = longer[i]
                 /\ i # Len(longer) => r[i].secret = NoSecret
      BY <2>3, ForgottenFacts
    <3>2. Reconciled(h, key, settings) = r
      BY <2>4, <2>6
    <3> HIDE DEF r
    <3>3. \A i \in 1..Len(h) : i \in 1..Len(longer) /\ r[i].route = h[i].route
      BY <1>0, <2>3, <3>1
    <3>4. Len(longer) \in 1..Len(longer)
      BY <2>3
    <3> QED BY <1>2, <2>3, <3>1, <3>2, <3>3, <3>4
  <2> QED BY <2>5, <2>6
<1> QED BY <1>1, <1>2

(* The whole registry: the newest generations are the configuration's, past
   secrets are gone, and no generation is dropped or redirected. *)
LEMMA ReconcileFacts ==
    ASSUME NEW settings, SettingsTyped(settings),
           NEW accounts, HistoriesTyped(accounts)
    PROVE  LET r == Reconcile(accounts, settings)
           IN /\ HistoriesTyped(r) /\ Stands(r, settings)
              /\ \A k \in DOMAIN r : \A g \in DOMAIN r[k] :
                     r[k][g].secret # NoSecret =>
                         /\ k \in DOMAIN settings
                         /\ g = Len(r[k]) \/ settings[k].retain
              /\ \A k \in DOMAIN accounts : \A g \in DOMAIN accounts[k] :
                     /\ k \in DOMAIN r /\ g \in DOMAIN r[k]
                     /\ r[k][g].route = accounts[k][g].route
<1> DEFINE r == Reconcile(accounts, settings)
           Old(k) == IF k \in DOMAIN accounts THEN accounts[k] ELSE <<>>
<1>1. DOMAIN r = DOMAIN accounts \cup DOMAIN settings /\ DOMAIN r \subseteq Keys
  BY DEF Reconcile, HistoriesTyped, SettingsTyped
<1>2. \A k \in DOMAIN r : r[k] = Reconciled(Old(k), k, settings)
  BY DEF Reconcile
<1>3. \A k \in DOMAIN r :
          /\ k \in Keys /\ Old(k) \in Seq(Generations)
          /\ k \notin DOMAIN settings => Old(k) # <<>>
  BY <1>1 DEF HistoriesTyped
<1>4. r \in [DOMAIN r -> Seq(Generations)]
  <2>1. r = [k \in DOMAIN accounts \cup DOMAIN settings |-> Reconciled(Old(k), k, settings)]
    BY DEF Reconcile
  <2>2. \A k \in DOMAIN r : Reconciled(Old(k), k, settings) \in Seq(Generations)
    BY <1>3, ReconciledFacts
  <2> HIDE DEF Old
  <2> QED BY <1>1, <2>1, <2>2
<1> HIDE DEF r, Old
<1>5. ASSUME NEW k \in DOMAIN r
      PROVE  /\ r[k] \in Seq(Generations) /\ r[k] # <<>> /\ Len(Old(k)) <= Len(r[k])
             /\ \A i \in 1..Len(Old(k)) : r[k][i].route = Old(k)[i].route
             /\ k \in DOMAIN settings => Matches(r[k][Len(r[k])], settings[k])
             /\ \A i \in 1..Len(r[k]) : r[k][i].secret # NoSecret =>
                    /\ k \in DOMAIN settings
                    /\ i = Len(r[k]) \/ settings[k].retain
  BY <1>2, <1>3, <1>5, ReconciledFacts
<1>6. HistoriesTyped(r) /\ Stands(r, settings)
  BY <1>1, <1>4, <1>5 DEF HistoriesTyped, Stands
<1>7. \A k \in DOMAIN r : DOMAIN r[k] = 1..Len(r[k]) /\ Len(r[k]) \in Nat
  BY <1>5
<1>8. ASSUME NEW k \in DOMAIN accounts, NEW g \in DOMAIN accounts[k]
      PROVE  /\ k \in DOMAIN r /\ g \in DOMAIN r[k]
             /\ r[k][g].route = accounts[k][g].route
  <2>1. k \in DOMAIN r /\ Old(k) = accounts[k]
    BY <1>1 DEF Old
  <2>2. accounts[k] \in Seq(Generations)
    BY DEF HistoriesTyped
  <2>3. DOMAIN accounts[k] = 1..Len(accounts[k]) /\ Len(accounts[k]) \in Nat
    BY <2>2
  <2> QED BY <1>5, <1>7, <2>1, <2>3
<1>9. /\ HistoriesTyped(r) /\ Stands(r, settings)
      /\ \A k \in DOMAIN r : \A g \in DOMAIN r[k] :
             r[k][g].secret # NoSecret =>
                 /\ k \in DOMAIN settings
                 /\ g = Len(r[k]) \/ settings[k].retain
      /\ \A k \in DOMAIN accounts : \A g \in DOMAIN accounts[k] :
             /\ k \in DOMAIN r /\ g \in DOMAIN r[k]
             /\ r[k][g].route = accounts[k][g].route
  BY <1>5, <1>6, <1>7, <1>8
<1> QED BY <1>9 DEF r

-----------------------------------------------------------------------------
(* The steps of a process                                                  *)

(* What the type says of a process, by its step. *)
LEMMA ActivityFacts ==
    ASSUME NEW a, ActivityTyped(a)
    PROVE  /\ a.pc \in {"idle", "locking", "maintenance"} \cup Phases
           /\ a.pc = "idle" => a = Idle
           /\ a.pc # "idle" =>
                  a.setup \in BOOLEAN /\ a.config \in Configs /\ a.previous \in Configs \cup {None}
           /\ a.pc \in {"maintenance"} \cup Phases =>
                  /\ a \in [pc : {"maintenance"} \cup Phases, setup : BOOLEAN, config : Configs,
                            previous : Configs \cup {None}, registry : {a.registry},
                            changed : BOOLEAN]
                  /\ a.changed \in BOOLEAN
                  /\ (a.pc = "maintenance" /\ a.registry = None) \/ RegistryTyped(a.registry)
BY DEF ActivityTyped, Idle, Phases

(* A process goes on with what it has. *)
LEMMA ProceedFacts ==
    ASSUME InstallationTyped, NEW p \in Procs, proc[p].pc \in Phases,
           NEW pc \in Phases, Proceed(p, pc)
    PROVE  /\ DOMAIN proc' = Procs
           /\ \A q \in Procs \ {p} : proc'[q] = proc[q]
           /\ proc'[p].pc = pc /\ proc'[p].setup = proc[p].setup
           /\ proc'[p].config = proc[p].config /\ proc'[p].registry = proc[p].registry
           /\ proc'[p].changed = proc[p].changed
           /\ \A q \in Procs : ActivityTyped(proc'[q])
<1>1. DOMAIN proc' = Procs /\ \A q \in Procs \ {p} : proc'[q] = proc[q]
  BY DEF Proceed, InstallationTyped
<1>2. proc'[p] = [proc[p] EXCEPT !.pc = pc]
  BY DEF Proceed, InstallationTyped
<1>3. /\ proc[p] \in [pc : {"maintenance"} \cup Phases, setup : BOOLEAN, config : Configs,
                      previous : Configs \cup {None}, registry : {proc[p].registry},
                      changed : BOOLEAN]
      /\ RegistryTyped(proc[p].registry)
  BY ActivityFacts DEF InstallationTyped, Phases
<1> DEFINE a == proc[p]
           b == [a EXCEPT !.pc = pc]
<1>4. /\ b.pc = pc /\ b.setup = a.setup /\ b.config = a.config
      /\ b.registry = a.registry /\ b.changed = a.changed
      /\ b \in [pc : {"maintenance"} \cup Phases, setup : BOOLEAN, config : Configs,
                previous : Configs \cup {None}, registry : {b.registry}, changed : BOOLEAN]
  BY <1>3
<1>5. ActivityTyped(b)
  BY <1>3, <1>4 DEF ActivityTyped
<1> QED BY <1>1, <1>2, <1>4, <1>5 DEF InstallationTyped

(* A process that gives up or dies leaves the locks as if it had never run. *)
LEMMA ReleaseFacts ==
    ASSUME InstallationAssumption, InstallationTyped, Locked, NEW p \in Procs, Release(p)
    PROVE  /\ DOMAIN proc' = Procs
           /\ \A q \in Procs \ {p} : proc'[q] = proc[q]
           /\ proc'[p] = Idle /\ proc'[p].pc = "idle"
           /\ \A q \in Procs : ActivityTyped(proc'[q])
           /\ initLock' \in Procs \cup {None} /\ exclusive' \in Procs \cup {None}
           /\ shared' \subseteq Procs
           /\ Locked'
<1>1. /\ DOMAIN proc' = Procs /\ proc'[p] = Idle /\ proc'[p].pc = "idle"
      /\ \A q \in Procs \ {p} : proc'[q] = proc[q]
  BY DEF Release, InstallationTyped, Idle
<1>2. \A q \in Procs : ActivityTyped(proc'[q])
  BY <1>1 DEF InstallationTyped, ActivityTyped
<1>3. /\ initLock' \in Procs \cup {None} /\ exclusive' \in Procs \cup {None}
      /\ shared' \subseteq Procs
  BY DEF Release, InstallationTyped
<1>4. ASSUME NEW q \in Procs
      PROVE  /\ initLock' = q <=> proc'[q].pc \in Holding
             /\ exclusive' = q <=> (proc'[q].pc \in Leasing \ {"share"} /\ Exclusively(q)')
             /\ q \in shared' <=>
                    (proc'[q].pc = "serving" \/ (proc'[q].pc \in Leasing /\ ~Exclusively(q)'))
  <2>1. CASE q = p
    BY <1>1, <2>1 DEF Release, InstallationAssumption, Holding, Leasing
  <2>2. CASE q # p
    <3>1. proc'[q] = proc[q] /\ (Exclusively(q)' <=> Exclusively(q))
      BY <1>1, <2>2 DEF Exclusively
    <3>2. /\ initLock' = q <=> initLock = q
          /\ exclusive' = q <=> exclusive = q
          /\ q \in shared' <=> q \in shared
      BY <2>2 DEF Release, InstallationAssumption
    <3> QED BY <3>1, <3>2 DEF Locked
  <2> QED BY <2>1, <2>2
<1>5. exclusive' # None => shared' = {}
  BY DEF Release, Locked
<1> QED BY <1>1, <1>2, <1>3, <1>4, <1>5 DEF Locked

(* A step of one process that leaves the files, the marker and what was handed
   out alone has to answer only for that process. *)
LEMMA OneProcess ==
    ASSUME InstallationInvariant, NEW p \in Procs,
           \A q \in Procs \ {p} : proc'[q] = proc[q],
           UNCHANGED <<disk, marker, archive, issued>>,
           AtMaintenance(proc[p])', AtLeasing(proc[p])',
           archive = None /\ proc'[p].pc \in Holding
               /\ ~(proc'[p].pc = "maintenance" /\ proc'[p].registry = None)
               => Covers(proc[p].registry)'
    PROVE  Working' /\ Marked' /\ Tidy' /\ Covered'
<1>1. \A q \in Procs \ {p} : AtMaintenance(proc[q])' /\ AtLeasing(proc[q])'
  BY DEF InstallationInvariant, Working, AtMaintenance, AtLeasing
<1>2. Working'
  BY <1>1 DEF Working
<1>3. Marked' /\ Tidy'
  BY DEF InstallationInvariant, Marked, Tidy, Clean
<1>4. ASSUME archive' = None PROVE NeverRedirected' /\ (disk' # None => Covers(disk)')
  BY <1>4 DEF InstallationInvariant, Covered, NeverRedirected, Covers
<1>5. ASSUME archive' = None, NEW q \in Procs \ {p}, proc'[q].pc \in Holding,
             ~(proc'[q].pc = "maintenance" /\ proc'[q].registry = None)
      PROVE  Covers(proc[q].registry)'
  BY <1>5 DEF InstallationInvariant, Covered, Covers
<1>6. Covered'
  BY <1>4, <1>5 DEF Covered
<1> QED BY <1>2, <1>3, <1>6

LEMMA StopKeeps ==
    ASSUME InstallationAssumption, InstallationInvariant, NEW p \in Procs, Stop(p)
    PROVE  InstallationInvariant'
<1>1. Release(p) /\ UNCHANGED <<file, disk, marker, archive, installs, edits, issued>>
  BY DEF Stop
<1>2. InstallationTyped /\ Locked
  BY DEF InstallationInvariant
<1>3. InstallationTyped'
  BY <1>1, <1>2, ReleaseFacts DEF InstallationTyped, RegistryTyped
<1>4. AtMaintenance(proc[p])' /\ AtLeasing(proc[p])' /\ proc'[p].pc \notin Holding
  BY <1>1, <1>2, ReleaseFacts DEF AtMaintenance, AtLeasing, Phases, Holding
<1> QED BY <1>1, <1>2, <1>3, <1>4, ReleaseFacts, OneProcess DEF InstallationInvariant

LEMMA BeginKeeps ==
    ASSUME InstallationAssumption, InstallationInvariant, NEW p \in Procs, Open(p) \/ Setup(p)
    PROVE  InstallationInvariant'
<1> USE DEF InstallationInvariant
<1>1. /\ proc[p].pc = "idle" /\ UNCHANGED <<file, disk, marker, locks, archive, installs, issued>>
      /\ edits' \in Nat
  BY DEF Open, Setup, At, InstallationTyped, InstallationAssumption
<1>2. PICK a \in [pc : {"locking"}, setup : BOOLEAN, config : Configs,
                 previous : Configs \cup {None}] :
          proc' = [proc EXCEPT ![p] = a]
  <2>1. CASE Open(p)
    <3> DEFINE a == [pc |-> "locking", setup |-> FALSE, config |-> file, previous |-> file]
    <3>1. proc' = [proc EXCEPT ![p] = a] /\ file \in Configs
      BY <2>1 DEF Open, InstallationTyped
    <3> QED BY <3>1
  <2>2. CASE Setup(p)
    <3>1. PICK chosen \in Configs :
              proc' = [proc EXCEPT ![p] = [pc |-> "locking", setup |-> TRUE, config |-> chosen,
                                           previous |-> file]]
      BY <2>2 DEF Setup
    <3>2. file \in Configs \cup {None}
      BY DEF InstallationTyped
    <3> DEFINE a == [pc |-> "locking", setup |-> TRUE, config |-> chosen, previous |-> file]
    <3> QED BY <3>1, <3>2
  <2> QED BY <2>1, <2>2
<1>3. /\ DOMAIN proc' = Procs /\ proc'[p] = a /\ proc'[p].pc = "locking"
      /\ \A q \in Procs \ {p} : proc'[q] = proc[q]
  BY <1>2 DEF InstallationTyped
<1>4. \A q \in Procs : ActivityTyped(proc'[q])
  BY <1>2, <1>3 DEF InstallationTyped, ActivityTyped
<1>5. InstallationTyped'
  BY <1>1, <1>3, <1>4 DEF InstallationTyped, RegistryTyped, locks
<1>6. Locked'
  BY <1>1, <1>3 DEF Locked, locks, Holding, Leasing, Exclusively
<1>7. AtMaintenance(proc[p])' /\ AtLeasing(proc[p])' /\ proc'[p].pc \notin Holding
  BY <1>3 DEF AtMaintenance, AtLeasing, Phases, Holding
<1> QED BY <1>1, <1>3, <1>5, <1>6, <1>7, OneProcess

LEMMA LockInitializationKeeps ==
    ASSUME InstallationAssumption, InstallationInvariant, NEW p \in Procs, LockInitialization(p)
    PROVE  InstallationInvariant'
<1> USE DEF InstallationInvariant
<1>1. /\ proc[p].pc = "locking" /\ initLock = None /\ initLock' = p
      /\ disk = None => marker = EmptyMarker
      /\ UNCHANGED <<file, disk, marker, exclusive, shared, archive, installs, edits, issued>>
  BY DEF LockInitialization, At
<1> DEFINE o == proc[p]
           a == [pc |-> "maintenance", setup |-> o.setup, config |-> o.config,
                 previous |-> o.previous, registry |-> disk, changed |-> Changed(o.config)]
<1>2. proc' = [proc EXCEPT ![p] = a]
  BY DEF LockInitialization
<1>3. /\ DOMAIN proc' = Procs /\ proc'[p] = a
      /\ \A q \in Procs \ {p} : proc'[q] = proc[q]
  BY <1>2 DEF InstallationTyped
<1>4. o.setup \in BOOLEAN /\ o.config \in Configs /\ o.previous \in Configs \cup {None}
  BY <1>1, ActivityFacts DEF InstallationTyped
<1>5. Changed(o.config) \in BOOLEAN
  BY DEF Changed
<1>6. /\ a.pc = "maintenance" /\ a.registry = disk /\ a.config = o.config
      /\ a.changed = Changed(o.config)
      /\ a \in [pc : {"maintenance"} \cup Phases, setup : BOOLEAN, config : Configs,
                previous : Configs \cup {None}, registry : {a.registry}, changed : BOOLEAN]
  BY <1>4, <1>5
<1> HIDE DEF a, o
<1>7. ActivityTyped(a)
  BY <1>6 DEF ActivityTyped, InstallationTyped
<1>8. InstallationTyped'
  <2>1. \A q \in Procs : ActivityTyped(proc'[q])
    BY <1>3, <1>7 DEF InstallationTyped
  <2> QED BY <1>1, <1>3, <2>1 DEF InstallationTyped, RegistryTyped
<1>9. Locked'
  <2>1. \A q \in Procs : q # None /\ proc[q].pc \notin Holding
    BY <1>1 DEF Locked, InstallationAssumption
  <2>2. \A q \in Procs \ {p} : Exclusively(q)' <=> Exclusively(q)
    BY <1>3 DEF Exclusively
  <2>3. proc[p].pc \notin Leasing \cup {"serving"} /\ proc'[p].pc \notin Leasing \cup {"serving"}
        /\ proc'[p].pc \in Holding
    BY <1>1, <1>3, <1>6 DEF Leasing, Holding
  <2> QED BY <1>1, <1>3, <2>1, <2>2, <2>3 DEF Locked
<1>10. AtMaintenance(proc[p])'
  <2>1. disk = None => Changed(o.config)
    BY DEF Changed
  <2>2. ~Changed(o.config) => ~Outdated(disk.accounts, o.config)
    BY DEF Changed
  <2> QED BY <1>1, <1>3, <1>6, <2>1, <2>2 DEF AtMaintenance, EmptyMarker
<1>11. AtLeasing(proc[p])'
  BY <1>3, <1>6 DEF AtLeasing, Phases
<1>12. archive = None /\ proc'[p].registry # None => Covers(proc[p].registry)'
  BY <1>1, <1>3, <1>6 DEF Covered, Covers
<1> QED BY <1>1, <1>3, <1>6, <1>8, <1>9, <1>10, <1>11, <1>12, OneProcess

(* The registry that LockMaintenance goes on with. *)
LEMMA LockMaintenanceFacts ==
    ASSUME InstallationAssumption, InstallationInvariant, NEW p \in Procs, LockMaintenance(p)
    PROVE  \E r :
              /\ RegistryTyped(r) /\ Stands(r.accounts, proc[p].config)
              /\ marker.of \in {0, r.installation}
              /\ proc[p].changed => Clean(r)
              /\ ~proc[p].changed => disk \in {None, r}
              /\ archive = None => Covers(r)
              /\ proc' = [proc EXCEPT ![p].pc = "confirm", ![p].registry = r]
<1> USE DEF InstallationInvariant
<1> DEFINE a == proc[p]
           old == IF a.registry = None THEN NewRegistry(a.config) ELSE a.registry
           r == IF a.changed
                THEN [old EXCEPT !.revision = a.config, !.accounts = Reconcile(@, a.config)]
                ELSE old
<1>1. /\ a.pc = "maintenance" /\ MarkerFits(old)
      /\ a.changed \/ DOMAIN a.config \subseteq DOMAIN old.accounts
      /\ proc' = [proc EXCEPT ![p].pc = "confirm", ![p].registry = r]
  BY DEF LockMaintenance, At
<1>2. /\ a.config \in Configs /\ a.changed \in BOOLEAN
      /\ a.registry = None \/ RegistryTyped(a.registry)
  BY <1>1, ActivityFacts DEF InstallationTyped
<1>3. AtMaintenance(a)
  BY DEF Working
<1>4. RegistryTyped(old)
  <2>1. CASE a.registry = None
    <3>1. old = NewRegistry(a.config)
      BY <2>1
    <3> DEFINE n == NewRegistry(a.config)
    <3>2. n = [installation |-> installs + 1, revision |-> a.config, accounts |-> <<>>]
      BY DEF NewRegistry
    <3>3. installs + 1 \in Nat \ {0}
      BY DEF InstallationTyped
    <3>4. DOMAIN n.accounts = {} /\ n.accounts = <<>>
      BY <3>2
    <3>5. n.accounts \in [DOMAIN n.accounts -> Seq(Generations)]
      BY <3>4
    <3> QED BY <1>2, <3>1, <3>2, <3>3, <3>4, <3>5 DEF RegistryTyped
  <2>2. CASE a.registry # None
    BY <1>2, <2>2
  <2> QED BY <2>1, <2>2
<1>5. archive = None => Covers(old)
  <2>1. CASE a.registry = None
    BY <1>1, <1>3, <2>1 DEF AtMaintenance, EmptyMarker, Marked, Covers
  <2>2. CASE a.registry # None
    BY <1>1, <2>2 DEF Covered, Holding
  <2> QED BY <2>1, <2>2
<1> HIDE DEF old
<1>6. CASE a.changed
  <2> DEFINE n == Reconcile(old.accounts, a.config)
  <2>1. HistoriesTyped(old.accounts)
    BY <1>4 DEF RegistryTyped, HistoriesTyped
  <2>2. /\ HistoriesTyped(n) /\ Stands(n, a.config)
        /\ \A k \in DOMAIN n : \A g \in DOMAIN n[k] :
               n[k][g].secret # NoSecret =>
                   /\ k \in DOMAIN a.config
                   /\ g = Len(n[k]) \/ a.config[k].retain
        /\ \A k \in DOMAIN old.accounts : \A g \in DOMAIN old.accounts[k] :
               /\ k \in DOMAIN n /\ g \in DOMAIN n[k]
               /\ n[k][g].route = old.accounts[k][g].route
    <3>1. SettingsTyped(a.config)
      BY <1>2 DEF InstallationAssumption, SettingsTyped
    <3> QED BY <2>1, <3>1, ReconcileFacts
  <2>3. r = [old EXCEPT !.revision = a.config, !.accounts = n]
    BY <1>6
  <2> HIDE DEF n, r
  <2>4. /\ r.accounts = n /\ r.revision = a.config /\ r.installation = old.installation
        /\ r \in [installation : Nat \ {0}, revision : Configs, accounts : {r.accounts}]
    BY <1>2, <1>4, <2>3 DEF RegistryTyped
  <2>5. RegistryTyped(r) /\ Stands(r.accounts, a.config) /\ Clean(r)
    BY <2>2, <2>4 DEF RegistryTyped, HistoriesTyped, Clean
  <2>6. archive = None => Covers(r)
    BY <1>5, <2>2, <2>4 DEF Covers
  <2> QED BY <1>1, <1>6, <2>4, <2>5, <2>6 DEF MarkerFits
<1>7. CASE ~a.changed
  <2>1. r = old /\ old = a.registry /\ a.registry # None
    BY <1>1, <1>3, <1>7 DEF old, AtMaintenance
  <2>2. Stands(old.accounts, a.config)
    BY <1>1, <1>3, <1>7, <2>1 DEF AtMaintenance, Outdated, Stands
  <2> HIDE DEF r
  <2>3. disk \in {None, r}
    BY <1>1, <1>3, <2>1 DEF AtMaintenance
  <2> QED BY <1>1, <1>4, <1>5, <1>7, <2>1, <2>2, <2>3 DEF MarkerFits
<1> QED BY <1>2, <1>6, <1>7

LEMMA LockMaintenanceKeeps ==
    ASSUME InstallationAssumption, InstallationInvariant, NEW p \in Procs, LockMaintenance(p)
    PROVE  InstallationInvariant'
<1> USE DEF InstallationInvariant
<1>1. PICK r :
          /\ RegistryTyped(r) /\ Stands(r.accounts, proc[p].config)
          /\ marker.of \in {0, r.installation}
          /\ proc[p].changed => Clean(r)
          /\ ~proc[p].changed => disk \in {None, r}
          /\ archive = None => Covers(r)
          /\ proc' = [proc EXCEPT ![p].pc = "confirm", ![p].registry = r]
  BY LockMaintenanceFacts
<1>2. /\ proc[p].pc = "maintenance" /\ exclusive = None
      /\ Exclusively(p) => shared = {}
      /\ IF Exclusively(p) THEN exclusive' = p /\ shared' = shared
                           ELSE shared' = shared \cup {p} /\ exclusive' = exclusive
      /\ UNCHANGED <<file, disk, marker, initLock, archive, edits, issued>>
      /\ installs' \in Nat
  BY DEF LockMaintenance, At, Lockable, InstallationTyped
<1> DEFINE o == proc[p]
           a == [o EXCEPT !.pc = "confirm", !.registry = r]
<1>3. /\ DOMAIN proc' = Procs /\ proc'[p] = a
      /\ \A q \in Procs \ {p} : proc'[q] = proc[q]
  BY <1>1 DEF InstallationTyped
<1>4. o \in [pc : {"maintenance"} \cup Phases, setup : BOOLEAN, config : Configs,
            previous : Configs \cup {None}, registry : {o.registry}, changed : BOOLEAN]
  BY <1>2, ActivityFacts DEF InstallationTyped
<1>5. /\ a.pc = "confirm" /\ a.registry = r /\ a.config = o.config
      /\ a.changed = o.changed /\ a.setup = o.setup
      /\ a \in [pc : {"maintenance"} \cup Phases, setup : BOOLEAN, config : Configs,
                previous : Configs \cup {None}, registry : {a.registry}, changed : BOOLEAN]
  BY <1>4 DEF Phases
<1> HIDE DEF a
<1>6. InstallationTyped'
  <2>1. ActivityTyped(a)
    BY <1>1, <1>5 DEF ActivityTyped
  <2>2. \A q \in Procs : ActivityTyped(proc'[q])
    BY <1>3, <2>1 DEF InstallationTyped
  <2>3. exclusive' \in Procs \cup {None} /\ shared' \subseteq Procs
    BY <1>2 DEF InstallationTyped
  <2> QED BY <1>2, <1>3, <2>2, <2>3 DEF InstallationTyped, RegistryTyped
<1>7. Locked'
  <2>1. \A q \in Procs : q # None
    BY DEF InstallationAssumption
  <2>2. \A q \in Procs : Exclusively(q)' <=> Exclusively(q)
    BY <1>3, <1>5 DEF Exclusively
  <2>3. /\ initLock = p /\ proc'[p].pc \in Holding /\ proc'[p].pc \in Leasing \ {"share"}
        /\ proc'[p].pc # "serving" /\ p \notin shared
    BY <1>2, <1>3, <1>5 DEF Locked, Holding, Leasing
  <2>4. /\ exclusive' = p <=> Exclusively(p)
        /\ p \in shared' <=> ~Exclusively(p)
    BY <1>2, <2>1, <2>3
  <2>5. \A q \in Procs \ {p} : exclusive' # q /\ exclusive # q /\ (q \in shared' <=> q \in shared)
    BY <1>2, <2>1
  <2>6. exclusive' # None => shared' = {}
    BY <1>2
  <2>7. \A q \in Procs \ {p} :
            ~(proc'[q].pc \in Leasing \ {"share"} /\ Exclusively(q)')
    BY <1>3, <2>2, <2>5 DEF Locked
  <2>8. \A q \in Procs : exclusive' = q <=> (proc'[q].pc \in Leasing \ {"share"} /\ Exclusively(q)')
    BY <2>2, <2>3, <2>4, <2>5, <2>7
  <2>9. \A q \in Procs : q \in shared' <=>
            (proc'[q].pc = "serving" \/ (proc'[q].pc \in Leasing /\ ~Exclusively(q)'))
    BY <1>3, <2>2, <2>3, <2>4, <2>5 DEF Locked
  <2> QED BY <1>2, <1>3, <2>3, <2>6, <2>8, <2>9 DEF Locked
<1>8. AtMaintenance(proc[p])' /\ AtLeasing(proc[p])'
  <2>1. /\ proc'[p].pc = "confirm" /\ proc'[p].registry = r /\ proc'[p].config = proc[p].config
        /\ proc'[p].changed = proc[p].changed /\ proc[p].changed \in BOOLEAN
        /\ UNCHANGED <<disk, marker>>
    BY <1>2, <1>3, <1>4, <1>5
  <2>2. AtLeasing(proc[p])'
    BY <1>1, <2>1 DEF AtLeasing, Stands, Clean
  <2> QED BY <2>1, <2>2 DEF AtMaintenance
<1>9. archive = None => Covers(proc[p].registry)'
  BY <1>1, <1>2, <1>3, <1>5 DEF Covers
<1> QED BY <1>2, <1>3, <1>6, <1>7, <1>8, <1>9, OneProcess

(* The initialization lock has one holder; the others serve or have not begun. *)
LEMMA OneHolder ==
    ASSUME InstallationInvariant, NEW p \in Procs, proc[p].pc \in Holding,
           NEW q \in Procs, q # p
    PROVE  proc[q].pc \in {"idle", "locking", "serving"}
<1>1. initLock = p /\ proc[q].pc \notin Holding
  BY DEF InstallationInvariant, Locked
<1> QED BY <1>1, ActivityFacts DEF InstallationInvariant, InstallationTyped, Holding, Phases

LEMMA ConfirmKeeps ==
    ASSUME InstallationAssumption, InstallationInvariant, NEW p \in Procs, Confirm(p)
    PROVE  InstallationInvariant'
<1> USE DEF InstallationInvariant
<1>1. /\ proc[p].pc = "confirm" /\ file' = proc[p].config /\ Proceed(p, "persist")
      /\ UNCHANGED <<disk, marker, locks, archive, installs, edits, issued>>
      /\ "persist" \in Phases /\ proc[p].pc \in Phases
  BY DEF Confirm, At, Phases
<1>2. /\ DOMAIN proc' = Procs
      /\ \A q \in Procs \ {p} : proc'[q] = proc[q]
      /\ proc'[p].pc = "persist" /\ proc'[p].setup = proc[p].setup
      /\ proc'[p].config = proc[p].config /\ proc'[p].registry = proc[p].registry
      /\ proc'[p].changed = proc[p].changed
      /\ \A q \in Procs : ActivityTyped(proc'[q])
  BY <1>1, ProceedFacts
<1>3. proc[p].config \in Configs
  BY <1>1, ActivityFacts DEF InstallationTyped
<1>4. InstallationTyped'
  BY <1>1, <1>2, <1>3 DEF InstallationTyped, RegistryTyped, locks
<1>5. Locked'
  <2>1. \A q \in Procs : Exclusively(q)' <=> Exclusively(q)
    BY <1>2 DEF Exclusively
  <2> QED BY <1>1, <1>2, <2>1 DEF Locked, locks, Holding, Leasing
<1>6. AtLeasing(proc[p])
  BY DEF Working
<1>7. AtMaintenance(proc[p])' /\ AtLeasing(proc[p])'
  BY <1>1, <1>2, <1>6 DEF AtMaintenance, AtLeasing, Phases, Stands, Clean
<1>8. archive = None => Covers(proc[p].registry)'
  BY <1>1, <1>2 DEF Covered, Covers, Holding
<1> QED BY <1>1, <1>2, <1>4, <1>5, <1>7, <1>8, OneProcess

(* A changed registry is written under the exclusive lock: nobody serves. *)
LEMMA PersistKeeps ==
    ASSUME InstallationAssumption, InstallationInvariant, NEW p \in Procs, Persist(p)
    PROVE  InstallationInvariant'
<1> USE DEF InstallationInvariant
<1>1. /\ proc[p].pc = "persist" /\ Proceed(p, "mark")
      /\ disk' = IF proc[p].changed THEN proc[p].registry ELSE disk
      /\ UNCHANGED <<file, marker, locks, archive, installs, edits, issued>>
      /\ "mark" \in Phases /\ proc[p].pc \in Phases
      /\ proc[p].pc \in Holding /\ proc[p].pc \in Leasing \ {"share"}
  BY DEF Persist, At, Phases, Holding, Leasing
<1>2. /\ DOMAIN proc' = Procs
      /\ \A q \in Procs \ {p} : proc'[q] = proc[q]
      /\ proc'[p].pc = "mark" /\ proc'[p].setup = proc[p].setup
      /\ proc'[p].config = proc[p].config /\ proc'[p].registry = proc[p].registry
      /\ proc'[p].changed = proc[p].changed
      /\ \A q \in Procs : ActivityTyped(proc'[q])
  BY <1>1, ProceedFacts
<1>3. RegistryTyped(proc[p].registry) /\ proc[p].changed \in BOOLEAN
  BY <1>1, ActivityFacts DEF InstallationTyped
<1>4. InstallationTyped'
  <2>1. disk' = None \/ RegistryTyped(disk')
    BY <1>1, <1>3 DEF InstallationTyped
  <2> QED BY <1>1, <1>2, <2>1 DEF InstallationTyped, RegistryTyped, locks
<1>5. Locked'
  <2>1. \A q \in Procs : Exclusively(q)' <=> Exclusively(q)
    BY <1>2 DEF Exclusively
  <2> QED BY <1>1, <1>2, <2>1 DEF Locked, locks, Holding, Leasing
<1>6. AtLeasing(proc[p])
  BY DEF Working
<1>7. disk' \in {None, proc[p].registry} /\ (disk' # None => Clean(disk'))
  BY <1>1, <1>3, <1>6 DEF AtLeasing, Tidy
<1>8. AtMaintenance(proc[p])' /\ AtLeasing(proc[p])'
  BY <1>1, <1>2, <1>6, <1>7 DEF AtMaintenance, AtLeasing, Phases, Stands, Clean
<1>9. ASSUME NEW q \in Procs, q # p
      PROVE  /\ AtMaintenance(proc[q])' /\ AtLeasing(proc[q])' /\ proc'[q].pc \notin Holding
  <2>1. proc'[q] = proc[q] /\ proc[q].pc \in {"idle", "locking", "serving"}
    BY <1>1, <1>2, <1>9, OneHolder
  <2>2. CASE proc[q].pc \in {"idle", "locking"}
    BY <2>1, <2>2 DEF AtMaintenance, AtLeasing, Phases, Holding
  <2>3. CASE proc[q].pc = "serving"
    <3>1. q \in shared /\ exclusive = None
      BY <2>3 DEF Locked
    <3>2. ~Exclusively(p)
      BY <1>1, <3>1 DEF Locked, InstallationAssumption
    <3>3. disk' = disk
      BY <1>1, <3>2 DEF Exclusively
    <3>4. AtLeasing(proc[q])
      BY DEF Working
    <3> QED BY <1>1, <2>1, <2>3, <3>3, <3>4
          DEF AtMaintenance, AtLeasing, Phases, Holding, Stands, Clean
  <2> QED BY <2>1, <2>2, <2>3
<1>10. Working'
  BY <1>8, <1>9 DEF Working
<1>11. Marked' /\ Tidy'
  BY <1>1, <1>7 DEF Marked, Tidy, Clean
<1>12. Covered'
  <2> SUFFICES ASSUME archive' = None PROVE Covered'
    BY DEF Covered
  <2>1. archive = None /\ NeverRedirected' /\ Covers(proc[p].registry)
    BY <1>1 DEF Covered, NeverRedirected, Holding
  <2>2. disk' # None => Covers(disk)'
    BY <1>1, <1>7, <2>1 DEF Covers
  <2>3. Covers(proc[p].registry)'
    BY <1>1, <1>2, <2>1 DEF Covers
  <2> QED BY <1>9, <2>1, <2>2, <2>3 DEF Covered
<1> QED BY <1>4, <1>5, <1>10, <1>11, <1>12

(* The marker changes only before anything has been handed out. *)
LEMMA MarkKeeps ==
    ASSUME InstallationAssumption, InstallationInvariant, NEW p \in Procs, Mark(p)
    PROVE  InstallationInvariant'
<1> USE DEF InstallationInvariant
<1> DEFINE name == proc[p].registry.installation
<1>1. /\ proc[p].pc = "mark" /\ UNCHANGED <<file, disk, archive, installs, edits, issued>>
      /\ "unlock" \in Phases /\ proc[p].pc \in Phases
      /\ proc[p].pc \in Holding /\ proc[p].pc \in Leasing \ {"share"}
  BY DEF Mark, At, Phases, Holding, Leasing
<1>2. RegistryTyped(proc[p].registry) /\ name \in Nat \ {0} /\ proc[p].setup \in BOOLEAN
  BY <1>1, ActivityFacts DEF InstallationTyped, RegistryTyped
<1>3. AtLeasing(proc[p])
  BY DEF Working
<1>4. marker.whole \in BOOLEAN /\ marker.of \in Nat /\ (marker.whole => marker.of = name)
  BY <1>1, <1>3 DEF AtLeasing, Marked, InstallationTyped
<1>5. /\ marker' \in [of : Nat, whole : BOOLEAN] /\ marker'.of = name
      /\ marker.whole => marker' = marker
      /\ Release(p) \/ (Proceed(p, "unlock") /\ marker'.whole /\ UNCHANGED locks)
  <2>1. CASE ~marker.whole /\ marker' = [of |-> name, whole |-> FALSE] /\ Release(p)
    BY <1>2, <2>1
  <2>2. CASE /\ marker' = IF marker.whole THEN marker ELSE [of |-> name, whole |-> TRUE]
             /\ IF proc[p].setup THEN Release(p) ELSE Proceed(p, "unlock") /\ UNCHANGED locks
    BY <1>2, <1>4, <2>2 DEF InstallationTyped
  <2> QED BY <2>1, <2>2 DEF Mark
<1> HIDE DEF name
<1>6. /\ DOMAIN proc' = Procs
      /\ \A q \in Procs \ {p} : proc'[q] = proc[q]
      /\ \A q \in Procs : ActivityTyped(proc'[q])
      /\ initLock' \in Procs \cup {None} /\ exclusive' \in Procs \cup {None}
      /\ shared' \subseteq Procs
      /\ Locked'
      /\ \/ proc'[p].pc = "idle"
         \/ /\ proc'[p].pc = "unlock" /\ marker'.whole
            /\ proc'[p].config = proc[p].config /\ proc'[p].registry = proc[p].registry
            /\ proc'[p].changed = proc[p].changed
  <2>1. CASE Release(p)
    BY <2>1, ReleaseFacts
  <2>2. CASE Proceed(p, "unlock") /\ marker'.whole /\ UNCHANGED locks
    <3>1. /\ DOMAIN proc' = Procs
          /\ \A q \in Procs \ {p} : proc'[q] = proc[q]
          /\ proc'[p].pc = "unlock" /\ proc'[p].setup = proc[p].setup
          /\ proc'[p].config = proc[p].config /\ proc'[p].registry = proc[p].registry
          /\ proc'[p].changed = proc[p].changed
          /\ \A q \in Procs : ActivityTyped(proc'[q])
      BY <1>1, <2>2, ProceedFacts
    <3>2. \A q \in Procs : Exclusively(q)' <=> Exclusively(q)
      BY <3>1 DEF Exclusively
    <3>3. Locked'
      BY <1>1, <2>2, <3>1, <3>2 DEF Locked, locks, Holding, Leasing
    <3> QED BY <2>2, <3>1, <3>3 DEF InstallationTyped, locks
  <2> QED BY <1>5, <2>1, <2>2
<1>7. InstallationTyped'
  BY <1>1, <1>5, <1>6 DEF InstallationTyped, RegistryTyped
<1>8. AtMaintenance(proc[p])' /\ AtLeasing(proc[p])'
  <2>1. CASE proc'[p].pc = "idle"
    BY <2>1 DEF AtMaintenance, AtLeasing, Phases
  <2>2. CASE proc'[p].pc # "idle"
    BY <1>1, <1>3, <1>5, <1>6, <2>2 DEF AtMaintenance, AtLeasing, Phases, Stands, Clean, name
  <2> QED BY <2>1, <2>2
<1>9. ASSUME NEW q \in Procs, q # p
      PROVE  /\ AtMaintenance(proc[q])' /\ AtLeasing(proc[q])' /\ proc'[q].pc \notin Holding
  <2>1. proc'[q] = proc[q] /\ proc[q].pc \in {"idle", "locking", "serving"}
    BY <1>1, <1>6, <1>9, OneHolder
  <2>2. CASE proc[q].pc \in {"idle", "locking"}
    BY <2>1, <2>2 DEF AtMaintenance, AtLeasing, Phases, Holding
  <2>3. CASE proc[q].pc = "serving"
    <3>1. AtLeasing(proc[q])
      BY DEF Working
    <3>2. marker' = marker
      BY <1>5, <2>3, <3>1 DEF AtLeasing, Phases
    <3> QED BY <1>1, <2>1, <2>3, <3>1, <3>2
          DEF AtMaintenance, AtLeasing, Phases, Holding, Stands, Clean
  <2> QED BY <2>1, <2>2, <2>3
<1>10. Working'
  BY <1>8, <1>9 DEF Working
<1>11. Marked' /\ Tidy'
  BY <1>1, <1>2, <1>5 DEF Marked, Tidy, Clean
<1>12. Covered'
  <2> SUFFICES ASSUME archive' = None PROVE Covered'
    BY DEF Covered
  <2>1. archive = None /\ NeverRedirected' /\ Covers(proc[p].registry)
    BY <1>1 DEF Covered, NeverRedirected, Holding
  <2>2. disk' # None => Covers(disk)'
    BY <1>1, <2>1 DEF Covered, Covers
  <2>3. proc'[p].pc \in Holding => Covers(proc[p].registry)'
    BY <1>1, <1>6, <2>1 DEF Covers, Holding
  <2> QED BY <1>9, <2>1, <2>2, <2>3 DEF Covered
<1> QED BY <1>6, <1>7, <1>10, <1>11, <1>12

LEMMA UnlockKeeps ==
    ASSUME InstallationAssumption, InstallationInvariant, NEW p \in Procs, Unlock(p)
    PROVE  InstallationInvariant'
<1> USE DEF InstallationInvariant
<1>1. /\ proc[p].pc = "unlock" /\ Proceed(p, "share")
      /\ exclusive' = IF exclusive = p THEN None ELSE exclusive
      /\ UNCHANGED <<file, disk, marker, initLock, shared, archive, installs, edits, issued>>
      /\ "share" \in Phases /\ proc[p].pc \in Phases
  BY DEF Unlock, At, Phases
<1>2. /\ DOMAIN proc' = Procs
      /\ \A q \in Procs \ {p} : proc'[q] = proc[q]
      /\ proc'[p].pc = "share" /\ proc'[p].setup = proc[p].setup
      /\ proc'[p].config = proc[p].config /\ proc'[p].registry = proc[p].registry
      /\ proc'[p].changed = proc[p].changed
      /\ \A q \in Procs : ActivityTyped(proc'[q])
  BY <1>1, ProceedFacts
<1>3. InstallationTyped'
  BY <1>1, <1>2 DEF InstallationTyped, RegistryTyped
<1>4. Locked'
  <2>1. \A q \in Procs : (Exclusively(q)' <=> Exclusively(q)) /\ q # None
    BY <1>2 DEF Exclusively, InstallationAssumption
  <2>2. exclusive' # p /\ \A q \in Procs \ {p} : exclusive' = q <=> exclusive = q
    BY <1>1, <2>1
  <2>3. \A q \in Procs : exclusive' = q <=> (proc'[q].pc \in Leasing \ {"share"} /\ Exclusively(q)')
    BY <1>2, <2>1, <2>2 DEF Locked
  <2>4. \A q \in Procs : q \in shared' <=>
            (proc'[q].pc = "serving" \/ (proc'[q].pc \in Leasing /\ ~Exclusively(q)'))
    BY <1>1, <1>2, <2>1 DEF Locked, Leasing
  <2>5. \A q \in Procs : initLock' = q <=> proc'[q].pc \in Holding
    BY <1>1, <1>2 DEF Locked, Holding
  <2>6. exclusive' # None => shared' = {}
    BY <1>1 DEF Locked
  <2> QED BY <2>3, <2>4, <2>5, <2>6 DEF Locked
<1>5. AtLeasing(proc[p])
  BY DEF Working
<1>6. AtMaintenance(proc[p])' /\ AtLeasing(proc[p])'
  BY <1>1, <1>2, <1>5 DEF AtMaintenance, AtLeasing, Phases, Stands, Clean
<1>7. archive = None => Covers(proc[p].registry)'
  BY <1>1, <1>2 DEF Covered, Covers, Holding
<1> QED BY <1>1, <1>2, <1>3, <1>4, <1>6, <1>7, OneProcess

(* What a service hands out is of the marked installation, and its registry
   covers it. *)
LEMMA ShareKeeps ==
    ASSUME InstallationAssumption, InstallationInvariant, NEW p \in Procs, Share(p)
    PROVE  InstallationInvariant'
<1> USE DEF InstallationInvariant
<1> DEFINE known == proc[p].registry
<1>1. /\ proc[p].pc = "share" /\ Proceed(p, "serving") /\ exclusive = None
      /\ shared' = shared \cup {p}
      /\ initLock' = IF initLock = p THEN None ELSE initLock
      /\ issued' = issued \cup Issues(p)
      /\ UNCHANGED <<file, disk, marker, exclusive, archive, installs, edits>>
      /\ "serving" \in Phases /\ proc[p].pc \in Phases /\ proc[p].pc \in Holding
  BY DEF Share, At, Phases, Holding
<1>2. /\ DOMAIN proc' = Procs
      /\ \A q \in Procs \ {p} : proc'[q] = proc[q]
      /\ proc'[p].pc = "serving" /\ proc'[p].setup = proc[p].setup
      /\ proc'[p].config = proc[p].config /\ proc'[p].registry = proc[p].registry
      /\ proc'[p].changed = proc[p].changed
      /\ \A q \in Procs : ActivityTyped(proc'[q])
  BY <1>1, ProceedFacts
<1>3. InstallationTyped'
  BY <1>1, <1>2 DEF InstallationTyped, RegistryTyped
<1>4. Locked'
  <2>1. \A q \in Procs : (Exclusively(q)' <=> Exclusively(q)) /\ q # None
    BY <1>2 DEF Exclusively, InstallationAssumption
  <2>2. initLock = p
    BY <1>1 DEF Locked
  <2>3. \A q \in Procs : exclusive' = q <=> (proc'[q].pc \in Leasing \ {"share"} /\ Exclusively(q)')
    BY <1>1, <1>2, <2>1 DEF Locked, Leasing
  <2>4. \A q \in Procs : q \in shared' <=>
            (proc'[q].pc = "serving" \/ (proc'[q].pc \in Leasing /\ ~Exclusively(q)'))
    BY <1>1, <1>2, <2>1 DEF Locked
  <2>5. \A q \in Procs : initLock' = q <=> proc'[q].pc \in Holding
    BY <1>1, <1>2, <2>1, <2>2 DEF Locked, Holding
  <2> QED BY <1>1, <2>3, <2>4, <2>5 DEF Locked
<1>5. AtLeasing(proc[p])
  BY DEF Working
<1>6. /\ marker.whole /\ marker.of = known.installation
      /\ Stands(known.accounts, proc[p].config) /\ disk \in {None, known}
  BY <1>1, <1>5 DEF AtLeasing, Marked
<1>7. ASSUME NEW q \in Procs
      PROVE  AtMaintenance(proc[q])' /\ AtLeasing(proc[q])' /\ proc'[q].pc \notin Holding
  <2>1. CASE q = p
    BY <1>1, <1>2, <1>5, <2>1 DEF AtMaintenance, AtLeasing, Phases, Holding, Stands, Clean
  <2>2. CASE q # p
    <3>1. proc'[q] = proc[q] /\ proc[q].pc \in {"idle", "locking", "serving"}
      BY <1>1, <1>2, <2>2, OneHolder
    <3>2. AtLeasing(proc[q])
      BY DEF Working
    <3> QED BY <1>1, <3>1, <3>2 DEF AtMaintenance, AtLeasing, Holding, Stands, Clean
  <2> QED BY <2>1, <2>2
<1>8. Working'
  BY <1>7 DEF Working
<1>9. ASSUME NEW i \in Issues(p)
      PROVE  /\ i.installation = known.installation
             /\ i.key \in DOMAIN known.accounts
             /\ i.generation \in DOMAIN known.accounts[i.key]
             /\ known.accounts[i.key][i.generation].route = i.route
  <2>1. PICK k \in DOMAIN proc[p].config :
            i = [installation |-> known.installation, key |-> k,
                 generation |-> Len(known.accounts[k]), route |-> proc[p].config[k].route]
    BY DEF Issues
  <2>2. /\ k \in DOMAIN known.accounts
        /\ known.accounts[k][Len(known.accounts[k])].route = proc[p].config[k].route
    BY <1>6 DEF Stands, Matches
  <2>3. RegistryTyped(known)
    BY <1>1, ActivityFacts DEF InstallationTyped
  <2>4. known.accounts[k] \in Seq(Generations) /\ known.accounts[k] # <<>>
    BY <2>2, <2>3 DEF RegistryTyped
  <2>5. Len(known.accounts[k]) \in DOMAIN known.accounts[k]
    <3> DEFINE h == known.accounts[k]
    <3>1. h \in Seq(Generations) /\ h # <<>>
      BY <2>4
    <3> HIDE DEF h
    <3>2. Len(h) \in Nat /\ Len(h) # 0 /\ DOMAIN h = 1..Len(h)
      BY <3>1
    <3>3. Len(h) \in DOMAIN h
      BY <3>2
    <3> QED BY <3>3 DEF h
  <2> QED BY <2>1, <2>2, <2>5
<1>10. Marked' /\ Tidy'
  BY <1>1, <1>6, <1>9 DEF Marked, Tidy, Clean
<1>11. Covered'
  <2> SUFFICES ASSUME archive' = None PROVE Covered'
    BY DEF Covered
  <2>1. archive = None /\ Covers(known)
    BY <1>1 DEF Covered
  <2>2. \A i \in issued' :
            /\ i.key \in DOMAIN known.accounts
            /\ i.generation \in DOMAIN known.accounts[i.key]
            /\ known.accounts[i.key][i.generation].route = i.route
    BY <1>1, <1>9, <2>1 DEF Covers
  <2>3. NeverRedirected'
    BY <2>2 DEF NeverRedirected
  <2>4. disk' # None => Covers(disk)'
    BY <1>1, <1>6, <2>2 DEF Covers
  <2> QED BY <1>7, <2>3, <2>4 DEF Covered
<1> QED BY <1>3, <1>4, <1>8, <1>10, <1>11

-----------------------------------------------------------------------------
(* Maintenance and the operator                                            *)

(* With all locks free, no process has read the registry. *)
LEMMA NobodyRuns ==
    ASSUME InstallationAssumption, InstallationInvariant, NothingRuns, NEW p \in Procs
    PROVE  proc[p].pc \in {"idle", "locking"}
<1>1. proc[p].pc \notin Holding /\ proc[p].pc # "serving"
  BY DEF InstallationInvariant, Locked, NothingRuns, InstallationAssumption
<1> QED BY <1>1, ActivityFacts DEF InstallationInvariant, InstallationTyped, Holding, Phases

LEMMA MaintenanceKeeps ==
    ASSUME InstallationAssumption, InstallationInvariant, ArchiveRegistry \/ RestoreArchive
    PROVE  InstallationInvariant'
<1> USE DEF InstallationInvariant
<1>1. /\ NothingRuns /\ UNCHANGED <<file, marker, locks, proc, installs, edits, issued>>
      /\ disk' \in {disk, archive} /\ archive' \in {disk, archive} /\ archive' # None
  BY DEF ArchiveRegistry, RestoreArchive, Fits
<1>2. InstallationTyped'
  BY <1>1 DEF InstallationTyped, RegistryTyped, locks
<1>3. Locked'
  BY <1>1 DEF Locked, locks, Exclusively
<1>4. Working'
  <2>1. \A p \in Procs : proc'[p].pc \in {"idle", "locking"}
    BY <1>1, NobodyRuns
  <2> QED BY <2>1 DEF Working, AtMaintenance, AtLeasing, Phases
<1>5. Marked' /\ Tidy'
  BY <1>1 DEF Marked, Tidy, Clean
<1> QED BY <1>1, <1>2, <1>3, <1>4, <1>5 DEF Covered

LEMMA OperatorKeeps ==
    ASSUME InstallationAssumption, InstallationInvariant, Edit \/ LoseRegistry
    PROVE  InstallationInvariant'
<1> USE DEF InstallationInvariant
<1>1. /\ UNCHANGED <<marker, locks, proc, archive, installs, issued>>
      /\ disk' \in {None, disk} /\ file' \in Configs \cup {None} /\ edits' \in Nat
  BY DEF Edit, LoseRegistry, InstallationTyped
<1>2. InstallationTyped'
  BY <1>1 DEF InstallationTyped, RegistryTyped, locks
<1>3. Locked'
  BY <1>1 DEF Locked, locks, Exclusively
<1>4. Working'
  BY <1>1 DEF Working, AtMaintenance, AtLeasing, Stands, Clean
<1>5. Marked' /\ Tidy'
  BY <1>1 DEF Marked, Tidy, Clean
<1>6. Covered'
  BY <1>1 DEF Covered, NeverRedirected, Covers
<1> QED BY <1>2, <1>3, <1>4, <1>5, <1>6

-----------------------------------------------------------------------------
LEMMA AtInstallationInit ==
    ASSUME InstallationAssumption, InstallationInit
    PROVE  InstallationInvariant
<1>1. \A p \in Procs : proc[p] = Idle /\ proc[p].pc = "idle" /\ p # None
  BY DEF InstallationInit, Idle, InstallationAssumption
<1>2. InstallationTyped
  BY <1>1 DEF InstallationInit, InstallationTyped, ActivityTyped, EmptyMarker
<1>3. Locked
  BY <1>1 DEF InstallationInit, Locked, Holding, Leasing
<1>4. Working
  BY <1>1 DEF Working, AtMaintenance, AtLeasing, Phases
<1>5. Marked /\ Tidy
  BY DEF InstallationInit, Marked, Tidy, EmptyMarker
<1>6. Covered
  BY <1>1 DEF InstallationInit, Covered, NeverRedirected, Holding
<1> QED BY <1>2, <1>3, <1>4, <1>5, <1>6 DEF InstallationInvariant

(* Whatever processes start, are set up, race, die half-way or serve, whatever
   the operator edits, loses or restores: a running service works on the
   registry that is on disk and on the generations of its configuration; what was
   handed out is all of one installation; the secrets of past generations are
   gone from the disk; and until a snapshot is taken no generation that was
   handed out is redirected to another route. *)
THEOREM InstallationStaysSound ==
    ASSUME InstallationAssumption
    PROVE  InstallationSpec => []InstallationSound
<1>1. InstallationInit => InstallationInvariant
  BY AtInstallationInit
<1>2. InstallationInvariant /\ [InstallationNext]_installationVars => InstallationInvariant'
  <2> SUFFICES ASSUME InstallationInvariant, [InstallationNext]_installationVars
               PROVE  InstallationInvariant'
    OBVIOUS
  <2>1. ASSUME NEW p \in Procs,
               Open(p) \/ Setup(p) \/ LockInitialization(p) \/ LockMaintenance(p)
        PROVE  InstallationInvariant'
    BY <2>1, BeginKeeps, LockInitializationKeeps, LockMaintenanceKeeps
  <2>2. ASSUME NEW p \in Procs, Confirm(p) \/ Persist(p) \/ Mark(p)
        PROVE  InstallationInvariant'
    BY <2>2, ConfirmKeeps, PersistKeeps, MarkKeeps
  <2>3. ASSUME NEW p \in Procs, Unlock(p) \/ Share(p) \/ Stop(p)
        PROVE  InstallationInvariant'
    BY <2>3, UnlockKeeps, ShareKeeps, StopKeeps
  <2>4. CASE ArchiveRegistry \/ RestoreArchive \/ Edit \/ LoseRegistry
    BY <2>4, MaintenanceKeeps, OperatorKeeps
  <2>5. CASE UNCHANGED installationVars
    <3>1. UNCHANGED <<file, disk, marker, initLock, exclusive, shared, proc, archive, installs,
                      edits, issued>>
      BY <2>5 DEF installationVars, locks
    <3>2. (InstallationTyped /\ Locked)'
      BY <3>1 DEF InstallationInvariant, InstallationTyped, RegistryTyped, Locked, Exclusively
    <3>3. (Working /\ Marked /\ Tidy /\ Covered)'
      BY <3>1 DEF InstallationInvariant, Working, AtMaintenance, AtLeasing, Stands, Clean,
                  Marked, Tidy, Covered, NeverRedirected, Covers
    <3> QED BY <3>2, <3>3 DEF InstallationInvariant
  <2> QED BY <2>1, <2>2, <2>3, <2>4, <2>5 DEF InstallationNext
<1>3. InstallationInvariant => InstallationSound
  <2> SUFFICES ASSUME InstallationInvariant PROVE InstallationSound
    OBVIOUS
  <2> USE DEF InstallationInvariant
  <2>1. \A p \in Serving : /\ disk \in {None, proc[p].registry}
                           /\ Stands(proc[p].registry.accounts, proc[p].config)
    BY DEF Working, AtLeasing, Serving, At, Phases
  <2>2. LeaseHolds /\ GenerationIsCurrent
    BY <2>1 DEF LeaseHolds, GenerationIsCurrent, Stands, Matches
  <2>3. OneInstallation
    BY DEF Marked, OneInstallation
  <2>4. OldSecretsGone
    BY DEF Tidy, Clean, OldSecretsGone
  <2> QED BY <2>2, <2>3, <2>4 DEF InstallationSound, Covered
<1> QED BY <1>1, <1>2, <1>3, PTL DEF InstallationSpec

-----------------------------------------------------------------------------
(* Grants and references                                                   *)

AuthorityTyped ==
    /\ config \in Configurations /\ life \in Nat
    /\ HistoriesTyped(registry) /\ Stands(registry, config.accounts)
    /\ DOMAIN health = Keys

(* A context of this life has its grant's accounts and permissions, or fewer. *)
Narrowed ==
    \A c \in contexts :
        /\ c.life \in Nat /\ c.life <= life
        /\ c.life = life =>
               /\ c.grant \in DOMAIN config.grants
               /\ c.keys \subseteq config.grants[c.grant].keys
               /\ c.permissions = PermissionsOf(config.grants[c.grant].profile, c.readOnly)

(* A reference of this installation names a generation, and its route. *)
Known(t) ==
    /\ t.key \in DOMAIN registry
    /\ t.generation \in DOMAIN registry[t.key]
    /\ registry[t.key][t.generation].route = t.route
Traced == \A t \in tokens : Known(t) \/ (~t.ours /\ t.kind \in {"mb", "ms"})

AuthorityInvariant ==
    AuthorityTyped /\ Narrowed /\ Traced /\ ReadOnlyIsKept /\ LeadsWhereMade

(* What AuthorityHeld says of one step. *)
StepHeld == WithinGrant /\ ReadOnlyIsKept' /\ LeadsWhereMade' /\ HealthIsEvidence

(* The newest generation of a configured account has the route it is
   configured with, and so have the references made for it. *)
LEMMA CurrentRoute ==
    ASSUME AuthorityAssumption, AuthorityInvariant, NEW k \in DOMAIN config.accounts
    PROVE  /\ k \in Keys /\ k \in DOMAIN registry
           /\ Generation(k) \in DOMAIN registry[k]
           /\ registry[k][Generation(k)].route = config.accounts[k].route
           /\ \A kind, box : Known(Reference(kind, k, box))
<1> USE DEF AuthorityInvariant, AuthorityTyped
<1>1. k \in Keys
  BY DEF AuthorityAssumption
<1>2. /\ k \in DOMAIN registry
      /\ registry[k][Generation(k)].route = config.accounts[k].route
  BY DEF Stands, Matches, Generation
<1>3. registry[k] \in Seq(Generations) /\ registry[k] # <<>>
  BY <1>2 DEF HistoriesTyped
<1>4. Generation(k) \in DOMAIN registry[k]
  <2> DEFINE h == registry[k]
  <2> HIDE DEF h
  <2>1. h \in Seq(Generations) /\ h # <<>>
    BY <1>3 DEF h
  <2>2. Len(h) \in Nat /\ Len(h) # 0 /\ DOMAIN h = 1..Len(h)
    BY <2>1
  <2>3. Len(h) \in DOMAIN h
    BY <2>2
  <2> QED BY <2>3 DEF h, Generation
<1> QED BY <1>1, <1>2, <1>4 DEF Known, Reference

(* A request that was admitted and authorized has come back: the server it went
   to is the one its reference was made for. *)
LEMMA AnswerKeeps ==
    ASSUME AuthorityAssumption, AuthorityInvariant,
           NEW context \in contexts, NEW permission, Admits(context, permission),
           NEW token, NEW outcome, NEW made,
           token.key \in context.keys,
           \/ token.box \in Scope(context, token.key)
           \/ [key |-> token.key, generation |-> token.generation, box |-> token.box]
                 \in config.grants[context.grant].historical,
           last' = [grant |-> context.grant, readOnly |-> context.readOnly,
                    permission |-> permission, key |-> token.key, box |-> token.box,
                    generation |-> token.generation,
                    route |-> token.route, meant |-> token.route, outcome |-> outcome],
           \/ health' = health
           \/ /\ health' = Observed(token.key, outcome)
              /\ token.generation = Generation(token.key),
           tokens' \subseteq tokens \cup made, \A t \in made : Known(t),
           UNCHANGED <<config, registry, life, contexts>>
    PROVE  AuthorityInvariant' /\ StepHeld
<1> USE DEF AuthorityInvariant
<1> DEFINE granted == config.grants[context.grant]
<1>1. /\ context.grant \in DOMAIN config.grants /\ token.key \in granted.keys
      /\ permission \in PermissionsOf(granted.profile, context.readOnly)
  BY DEF Admits, Narrowed
<1>2. token.key \in DOMAIN config.accounts /\ token.key \in Keys
  <2>1. config \in Configurations
    BY DEF AuthorityTyped
  <2>2. token.key \in DOMAIN config.accounts
    BY <1>1, <2>1 DEF AuthorityAssumption
  <2> QED BY <2>2, CurrentRoute
<1>3. WithinGrant
  <2>1. permission \in PermissionsOf(granted.profile, FALSE)
    BY <1>1 DEF PermissionsOf
  <2> QED BY <1>1, <2>1 DEF WithinGrant, Scope
<1>4. ReadOnlyIsKept' /\ LeadsWhereMade'
  BY <1>1 DEF ReadOnlyIsKept, LeadsWhereMade, PermissionsOf
<1>5. /\ DOMAIN health' = Keys
      /\ \A k \in Keys : health'[k] # health[k] =>
             /\ k = token.key /\ token.generation = Generation(k)
             /\ <<outcome, health'[k]>> \in
                   {<<"ok", "available">>, <<"unreachable", "unavailable">>}
  BY <1>2 DEF AuthorityTyped, Observed
<1>6. HealthIsEvidence
  BY <1>5 DEF HealthIsEvidence
<1>7. AuthorityTyped' /\ Narrowed'
  BY <1>5 DEF AuthorityTyped, Narrowed, HistoriesTyped, Stands
<1>8. Traced'
  BY DEF Traced, Known
<1> QED BY <1>3, <1>4, <1>6, <1>7, <1>8 DEF StepHeld

LEMMA ReadingKeeps ==
    ASSUME AuthorityAssumption, AuthorityInvariant, NEW context \in contexts,
           \/ \E k \in Keys, box \in Boxes : ListMailboxes(context, k, box)
           \/ \E token \in tokens :
                  \/ SearchMessages(context, token)
                  \/ \E permission \in ReadOperations : Read(context, permission, token)
    PROVE  AuthorityInvariant' /\ StepHeld
<1> USE DEF AuthorityInvariant
<1>0. \A permission : Admits(context, permission) =>
          \A k \in context.keys : k \in DOMAIN config.accounts
  BY DEF Admits, Narrowed, AuthorityTyped, AuthorityAssumption
<1>1. ASSUME NEW k \in Keys, NEW box \in Boxes, ListMailboxes(context, k, box)
      PROVE  AuthorityInvariant' /\ StepHeld
  <2> DEFINE reference == Reference("mb", k, box)
  <2>1. /\ Admits(context, "ListMailboxes") /\ k \in context.keys /\ box \in Scope(context, k)
        /\ Reaches(context, "ListMailboxes", reference, config.accounts[k].route, TRUE, {reference})
    BY <1>1 DEF ListMailboxes, Visible
  <2>2. k \in DOMAIN config.accounts
    BY <1>0, <2>1
  <2>3. /\ Known(reference) /\ reference.key = k /\ reference.box = box
        /\ reference.generation = Generation(k) /\ reference.route = config.accounts[k].route
    BY <2>2, CurrentRoute DEF Reference
  <2> HIDE DEF reference
  <2>4. PICK outcome :
            /\ health' = Observed(reference.key, outcome)
            /\ last' = [grant |-> context.grant, readOnly |-> context.readOnly,
                        permission |-> "ListMailboxes", key |-> reference.key,
                        box |-> reference.box, generation |-> reference.generation,
                        route |-> reference.route, meant |-> reference.route,
                        outcome |-> outcome]
            /\ tokens' \subseteq tokens \cup {reference}
            /\ UNCHANGED <<config, registry, life, contexts>>
    BY <2>1, <2>3 DEF Reaches
  <2>5. /\ reference.key \in context.keys /\ reference.box \in Scope(context, reference.key)
        /\ reference.generation = Generation(reference.key)
        /\ \A t \in {reference} : Known(t)
    BY <2>1, <2>3
  <2> QED BY <2>1, <2>4, <2>5, AnswerKeeps
<1>2. ASSUME NEW token \in tokens, NEW permission, Admits(context, permission),
             token.ours \/ token.kind = "draft", Authorize(context, token),
             NEW made, \A t \in made : Known(t),
             Reaches(context, permission, token, config.accounts[token.key].route, TRUE, made)
      PROVE  AuthorityInvariant' /\ StepHeld
  <2>1. /\ token.key \in context.keys /\ token.generation = Generation(token.key)
        /\ token.box \in Scope(context, token.key)
    BY <1>2 DEF Authorize, Visible
  <2>2. token.key \in DOMAIN config.accounts
    BY <1>0, <1>2, <2>1
  <2>3. token.route = config.accounts[token.key].route
    BY <1>2, <2>1, <2>2, CurrentRoute DEF Traced, Known
  <2>4. PICK outcome :
            /\ health' = Observed(token.key, outcome)
            /\ last' = [grant |-> context.grant, readOnly |-> context.readOnly,
                        permission |-> permission, key |-> token.key, box |-> token.box,
                        generation |-> token.generation,
                        route |-> token.route, meant |-> token.route, outcome |-> outcome]
            /\ tokens' \subseteq tokens \cup made
            /\ UNCHANGED <<config, registry, life, contexts>>
    BY <1>2, <2>3 DEF Reaches
  <2> QED BY <1>2, <2>1, <2>4, AnswerKeeps
<1>3. ASSUME NEW token \in tokens, SearchMessages(context, token)
      PROVE  AuthorityInvariant' /\ StepHeld
  <2> DEFINE made == {Reference("ms", token.key, token.box)}
  <2>1. /\ Admits(context, "SearchMessages") /\ token.ours /\ Authorize(context, token)
        /\ Reaches(context, "SearchMessages", token, config.accounts[token.key].route, TRUE, made)
    BY <1>3 DEF SearchMessages, Decode
  <2>2. \A t \in made : Known(t)
    <3>1. token.key \in DOMAIN config.accounts
      BY <1>0, <2>1 DEF Authorize, Visible
    <3> QED BY <3>1, CurrentRoute
  <2> QED BY <1>2, <2>1, <2>2
<1>4. ASSUME NEW token \in tokens, NEW permission \in ReadOperations,
             Read(context, permission, token)
      PROVE  AuthorityInvariant' /\ StepHeld
  <2> DEFINE made == {}
  <2>1. /\ Admits(context, permission) /\ token.ours /\ Authorize(context, token)
        /\ Reaches(context, permission, token, config.accounts[token.key].route, TRUE, made)
    BY <1>4 DEF Read, Decode, AuthorizeMessage
  <2>2. \A t \in made : Known(t)
    OBVIOUS
  <2> HIDE DEF made
  <2> QED BY <1>2, <2>1, <2>2
<1> QED BY <1>1, <1>3, <1>4

(* A draft operation goes on with the route of its own generation. *)
LEMMA DraftingKeeps ==
    ASSUME AuthorityAssumption, AuthorityInvariant, NEW context \in contexts,
           \/ \E k \in Keys, box \in Boxes : SaveDraft(context, k, box)
           \/ \E token \in tokens : \E permission \in {"AppendDraft", "InspectDraftOperation"} :
                  ResumeDraft(context, permission, token)
    PROVE  AuthorityInvariant' /\ StepHeld
<1> USE DEF AuthorityInvariant
<1>1. ASSUME NEW permission, Admits(context, permission), NEW draft, Known(draft),
             AuthorizeDraft(context, draft), NEW made, \A t \in made : Known(t),
             NEW route \in DraftRoute(registry, config.accounts, draft.key, draft.generation),
             NEW observes,
             observes => draft.generation = Generation(draft.key),
             Reaches(context, permission, draft, route.route, observes, made)
      PROVE  AuthorityInvariant' /\ StepHeld
  <2>1. draft.key \in context.keys
    BY <1>1 DEF AuthorizeDraft, Visible
  <2>2. \/ draft.box \in Scope(context, draft.key)
        \/ [key |-> draft.key, generation |-> draft.generation, box |-> draft.box]
              \in config.grants[context.grant].historical
    BY <1>1 DEF AuthorizeDraft
  <2>3. route.route = draft.route
    BY <1>1 DEF Known, DraftRoute
  <2>4. PICK outcome :
            /\ \/ health' = health
               \/ health' = Observed(draft.key, outcome) /\ draft.generation = Generation(draft.key)
            /\ last' = [grant |-> context.grant, readOnly |-> context.readOnly,
                        permission |-> permission, key |-> draft.key, box |-> draft.box,
                        generation |-> draft.generation,
                        route |-> draft.route, meant |-> draft.route, outcome |-> outcome]
            /\ tokens' \subseteq tokens \cup made
            /\ UNCHANGED <<config, registry, life, contexts>>
    BY <1>1, <2>3 DEF Reaches
  <2> QED BY <1>1, <2>1, <2>2, <2>4, AnswerKeeps
<1>2. ASSUME NEW k \in Keys, NEW box \in Boxes, SaveDraft(context, k, box)
      PROVE  AuthorityInvariant' /\ StepHeld
  <2> DEFINE draft == Reference("draft", k, box)
             made == {draft}
  <2>1. /\ Admits(context, "AppendDraft") /\ k \in context.keys /\ AuthorizeDraft(context, draft)
        /\ \E route \in DraftRoute(registry, config.accounts, k, draft.generation) :
               Reaches(context, "AppendDraft", draft, route.route, TRUE, made)
    BY <1>2 DEF SaveDraft, Visible
  <2>2. k \in DOMAIN config.accounts
    BY <2>1 DEF Admits, Narrowed, AuthorityTyped, AuthorityAssumption
  <2>3. Known(draft) /\ draft.key = k /\ draft.generation = Generation(k)
    BY <2>2, CurrentRoute DEF Reference
  <2> HIDE DEF draft
  <2>4. \A t \in made : Known(t)
    BY <2>3
  <2> HIDE DEF made
  <2>5. PICK route \in DraftRoute(registry, config.accounts, draft.key, draft.generation) :
            Reaches(context, "AppendDraft", draft, route.route, TRUE, made)
    BY <2>1, <2>3
  <2> QED BY <1>1, <2>1, <2>3, <2>4, <2>5
<1>3. ASSUME NEW token \in tokens, NEW permission \in {"AppendDraft", "InspectDraftOperation"},
             ResumeDraft(context, permission, token)
      PROVE  AuthorityInvariant' /\ StepHeld
  <2> DEFINE made == {}
             observes == permission = "AppendDraft" /\ token.generation = Generation(token.key)
  <2>1. /\ Admits(context, permission) /\ token.kind = "draft" /\ AuthorizeDraft(context, token)
        /\ \E route \in DraftRoute(registry, config.accounts, token.key, token.generation) :
               Reaches(context, permission, token, route.route, observes, made)
    BY <1>3 DEF ResumeDraft
  <2>2. Known(token)
    BY <2>1 DEF Traced
  <2>3. (\A t \in made : Known(t)) /\ (observes => token.generation = Generation(token.key))
    OBVIOUS
  <2> HIDE DEF made, observes
  <2>4. PICK route \in DraftRoute(registry, config.accounts, token.key, token.generation) :
            Reaches(context, permission, token, route.route, observes, made)
    BY <2>1
  <2> QED BY <1>1, <2>1, <2>2, <2>3, <2>4
<1> QED BY <1>2, <1>3

(* Another life numbers what changed anew, and redirects nothing. *)
LEMMA RestartKeeps ==
    ASSUME AuthorityAssumption, AuthorityInvariant, Restart
    PROVE  AuthorityInvariant' /\ StepHeld
<1> USE DEF AuthorityInvariant
<1>1. PICK c \in Configurations : config' = c /\ registry' = Reconcile(registry, c.accounts)
  BY DEF Restart
<1>2. /\ life' = life + 1 /\ health' = [k \in Keys |-> "unknown"] /\ life \in Nat
      /\ UNCHANGED <<contexts, tokens, last>>
  BY DEF Restart, AuthorityTyped
<1>3. SettingsTyped(c.accounts)
  BY DEF AuthorityAssumption, SettingsTyped
<1>4. /\ HistoriesTyped(registry') /\ Stands(registry', c.accounts)
      /\ \A k \in DOMAIN registry : \A g \in DOMAIN registry[k] :
             /\ k \in DOMAIN registry' /\ g \in DOMAIN registry'[k]
             /\ registry'[k][g].route = registry[k][g].route
  BY <1>1, <1>3, ReconcileFacts DEF AuthorityTyped
<1>5. AuthorityTyped'
  BY <1>1, <1>2, <1>4 DEF AuthorityTyped, HistoriesTyped, Stands
<1>6. Narrowed'
  BY <1>2 DEF Narrowed
<1>7. Traced'
  BY <1>2, <1>4 DEF Traced, Known
<1>8. ReadOnlyIsKept' /\ LeadsWhereMade'
  BY <1>2 DEF ReadOnlyIsKept, LeadsWhereMade
<1>9. WithinGrant /\ HealthIsEvidence
  BY <1>2 DEF WithinGrant, HealthIsEvidence
<1> QED BY <1>5, <1>6, <1>7, <1>8, <1>9 DEF StepHeld

LEMMA NewContextKeeps ==
    ASSUME AuthorityAssumption, AuthorityInvariant,
           \/ Foreign
           \/ \E grant \in Grants, keys \in SUBSET Keys, readOnly \in BOOLEAN :
                  NewContext(grant, keys, readOnly)
    PROVE  AuthorityInvariant' /\ StepHeld
<1> USE DEF AuthorityInvariant
<1>1. UNCHANGED <<config, registry, life, health, last>>
  BY DEF Foreign, NewContext
<1>2. AuthorityTyped' /\ ReadOnlyIsKept' /\ LeadsWhereMade'
  BY <1>1 DEF AuthorityTyped, HistoriesTyped, Stands, ReadOnlyIsKept, LeadsWhereMade
<1>3. WithinGrant /\ HealthIsEvidence
  BY <1>1 DEF WithinGrant, HealthIsEvidence
<1>4. Narrowed' /\ Traced'
  <2>1. CASE Foreign
    <3>1. PICK k \in DOMAIN config.accounts, box \in Boxes, kind \in {"mb", "ms"},
               route \in Routes :
              tokens' = tokens \cup {[kind |-> kind, key |-> k, generation |-> 1, box |-> box,
                                      route |-> route, ours |-> FALSE]}
      BY <2>1 DEF Foreign
    <3> DEFINE t == [kind |-> kind, key |-> k, generation |-> 1, box |-> box,
                     route |-> route, ours |-> FALSE]
    <3>2. tokens' = tokens \cup {t} /\ ~t.ours /\ t.kind \in {"mb", "ms"}
      BY <3>1
    <3>3. contexts' = contexts
      BY <2>1 DEF Foreign
    <3> HIDE DEF t
    <3> QED BY <1>1, <3>2, <3>3 DEF Narrowed, Traced, Known
  <2>2. ASSUME NEW grant \in Grants, NEW keys \in SUBSET Keys, NEW readOnly \in BOOLEAN,
               NewContext(grant, keys, readOnly)
        PROVE  Narrowed' /\ Traced'
    <3> DEFINE granted == config.grants[grant]
               c == [life |-> life, grant |-> grant, readOnly |-> readOnly,
                     keys |-> granted.keys \cap keys,
                     permissions |-> PermissionsOf(granted.profile, readOnly)]
    <3>1. grant \in DOMAIN config.grants /\ contexts' = contexts \cup {c} /\ tokens' = tokens
      BY <2>2 DEF NewContext
    <3>2. /\ c.life = life /\ c.grant = grant /\ c.keys \subseteq granted.keys
          /\ c.permissions = PermissionsOf(granted.profile, c.readOnly)
      OBVIOUS
    <3>3. life \in Nat /\ life <= life
      BY DEF AuthorityTyped
    <3> HIDE DEF c
    <3>4. Narrowed'
      BY <1>1, <3>1, <3>2, <3>3 DEF Narrowed
    <3>5. Traced'
      BY <1>1, <3>1 DEF Traced, Known
    <3> QED BY <3>4, <3>5
  <2> QED BY <2>1, <2>2
<1> QED BY <1>2, <1>3, <1>4 DEF StepHeld

LEMMA AtAuthorityInit ==
    ASSUME AuthorityAssumption, AuthorityInit
    PROVE  AuthorityInvariant
<1>1. HistoriesTyped(<<>>)
  BY DEF HistoriesTyped
<1>2. config \in Configurations /\ SettingsTyped(config.accounts)
  BY DEF AuthorityInit, AuthorityAssumption, SettingsTyped
<1>3. HistoriesTyped(registry) /\ Stands(registry, config.accounts)
  BY <1>1, <1>2, ReconcileFacts DEF AuthorityInit
<1>4. AuthorityTyped
  BY <1>2, <1>3 DEF AuthorityInit, AuthorityTyped
<1> QED BY <1>4 DEF AuthorityInit, AuthorityInvariant, Narrowed, Traced, ReadOnlyIsKept,
                    LeadsWhereMade

(* For any accounts, grants and configurations, over any number of lives: a
   request reaches a server only within the grant of its context as it is now, a
   reading session only reads, a reference leads to the server it was made for
   or nowhere, and health changes only on evidence of the account as it is. *)
THEOREM AuthorityStaysHeld ==
    ASSUME AuthorityAssumption
    PROVE  AuthoritySpec => AuthorityHeld
<1>1. AuthorityInit => AuthorityInvariant
  BY AtAuthorityInit
<1>2. ASSUME AuthorityInvariant, AuthorityNext PROVE AuthorityInvariant' /\ StepHeld
  BY <1>2, ReadingKeeps, DraftingKeeps, RestartKeeps, NewContextKeeps DEF AuthorityNext
<1>3. ASSUME AuthorityInvariant, UNCHANGED authorityVars PROVE AuthorityInvariant'
  BY <1>3 DEF authorityVars, AuthorityInvariant, AuthorityTyped, HistoriesTyped, Stands, Narrowed,
              Traced, Known, ReadOnlyIsKept, LeadsWhereMade
<1>4. AuthorityInvariant /\ [AuthorityNext]_authorityVars
          => AuthorityInvariant' /\ [StepHeld]_authorityVars
  BY <1>2, <1>3
<1> QED BY <1>1, <1>4, PTL DEF AuthoritySpec, AuthorityHeld, StepHeld
=============================================================================
