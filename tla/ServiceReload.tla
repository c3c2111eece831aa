---------------------------- MODULE ServiceReload ----------------------------
(***************************************************************************)
(* Hot reload of the configuration (cmd/dl_conn/main.go): two goroutines,  *)
(* the SIGHUP loop and the poller of the drop-in directory, run the same   *)
(* reloadServices closure with nothing to keep them apart.  It loads       *)
(* config.yaml and services.d (internal/config), then hands the result to  *)
(* the allowlist, the router, the health monitor and the discovery handler *)
(* one after the other.                                                    *)
(*                                                                         *)
(* A file is a version number and what matters of its content.  A          *)
(* config.yaml that is "broken" cannot be read, parsed or validated; one    *)
(* with a "badNpub" loads but gives no allowlist; one that is "taken" has a *)
(* service under the prefix that a "claiming" services.d wants as well.     *)
(***************************************************************************)
EXTENDS Naturals

CONSTANTS
  MaxMainEdits,    \* bound: edits of config.yaml
  MaxDropInEdits,  \* bound: edits of services.d
  MaxHups,         \* bound: SIGHUPs sent
  MaxEvents        \* bound: edits and SIGHUPs together

ASSUME BoundsAssumption ==
  {MaxMainEdits, MaxDropInEdits, MaxHups, MaxEvents} \subseteq Nat

VARIABLES
  phase,        \* how far run() is
  disk,         \* config.yaml and services.d
  authorized,   \* Client.authorized, as the config.yaml it comes from
  router, monitor, handler,  \* the configuration each one serves
  job,          \* reloadServices in each of its two callers
  fingerprint,  \* watchServicesDir's lastFingerprint
  hup,          \* a signal is waiting in hupCh
  hups,         \* SIGHUPs sent so far
  overlapped,   \* history: both callers were ever in reloadServices at once
  announced     \* history: since the daemon was last told to look (by its start,
                \* a SIGHUP, or an edit of services.d that the watcher can see)
                \* config.yaml and services.d have loaded together

served == <<authorized, router, monitor, handler>>
history == <<overlapped, announced>>
vars == <<phase, disk, served, job, fingerprint, hup, hups, history>>

MainKinds   == {"good", "badNpub", "taken", "broken"}
DropInKinds == {"good", "claiming", "broken"}
Mains   == [ver : 0..MaxMainEdits, kind : MainKinds]
DropIns == [ver : 0..MaxDropInEdits, kind : DropInKinds]
Configs == [main : Mains, dropIn : DropIns]
Jobs    == [pc : {"idle", "main", "dropIn", "auth", "router", "monitor", "handler"},
            cfg : Configs]
Callers == {"sighup", "watcher"}

TypeOK ==
  /\ phase \in {"boot", "loaded", "notified", "up"}
  /\ disk \in Configs
  /\ authorized \in Mains
  /\ {router, monitor, handler} \subseteq Configs
  /\ job \in [Callers -> Jobs]
  /\ fingerprint \in 0..MaxDropInEdits
  /\ hup \in BOOLEAN
  /\ hups \in 0..MaxHups
  /\ overlapped \in BOOLEAN /\ announced \in BOOLEAN

FirstConfig == [main |-> [ver |-> 0, kind |-> "good"],
                dropIn |-> [ver |-> 0, kind |-> "good"]]
IdleJob == [pc |-> "idle", cfg |-> FirstConfig]

Init ==
  /\ phase = "boot"
  /\ disk = FirstConfig
  /\ authorized = FirstConfig.main
  /\ router = FirstConfig /\ monitor = FirstConfig /\ handler = FirstConfig
  /\ job = [c \in Callers |-> IdleJob]
  /\ fingerprint = 0
  /\ hup = FALSE /\ hups = 0
  /\ overlapped = FALSE /\ announced = FALSE

\* LoadWithServicesDir succeeds: both files load, and no drop-in has the prefix
\* of another service of config.yaml.
Loads(cfg) ==
  /\ cfg.main.kind # "broken" /\ cfg.dropIn.kind # "broken"
  /\ ~(cfg.main.kind = "taken" /\ cfg.dropIn.kind = "claiming")

\* Every npub of the allowlist decodes.
Decodes(main) == main.kind # "badNpub"

-----------------------------------------------------------------------------
(* Start-up.                                                               *)

\* run() loads the configuration and builds everything from it; one that does
\* not load, or an npub that does not decode, ends it.
Load ==
  /\ phase = "boot"
  /\ Loads(disk) /\ Decodes(disk.main)
  /\ phase' = "loaded"
  /\ authorized' = disk.main
  /\ router' = disk /\ monitor' = disk /\ handler' = disk
  /\ announced' = TRUE
  /\ UNCHANGED <<disk, job, fingerprint, hup, hups, overlapped>>

\* signal.Notify takes SIGHUP over, once the tunnel's first hostname has come
\* or has been given up on.
Notify ==
  /\ phase = "loaded"
  /\ phase' = "notified"
  /\ UNCHANGED <<disk, served, job, fingerprint, hup, hups, history>>

\* The watcher starts and takes its baseline.
Baseline ==
  /\ phase = "notified"
  /\ phase' = "up"
  /\ fingerprint' = disk.dropIn.ver
  /\ UNCHANGED <<disk, served, job, hup, hups, history>>

-----------------------------------------------------------------------------
(* reloadServices.                                                         *)

\* Caller c enters reloadServices, whether the other one is in it or not.
Enter(c) ==
  /\ job[c].pc = "idle"
  /\ job' = [job EXCEPT ![c].pc = "main"]
  /\ overlapped' = (overlapped \/ \E d \in Callers : job[d].pc # "idle")

\* Mutant of WatchTick: a change seen while a reload runs is noted and skipped.
WatchTickBusy ==
  /\ phase = "up"
  /\ fingerprint # disk.dropIn.ver
  /\ fingerprint' = disk.dropIn.ver
  /\ Enter("watcher") \/ (job["watcher"].pc # "idle" /\ UNCHANGED <<job, overlapped>>)
  /\ UNCHANGED <<phase, disk, served, hup, hups, announced>>

\* The watcher's tick finds another fingerprint.
WatchTick ==
  /\ phase = "up"
  /\ fingerprint # disk.dropIn.ver
  /\ fingerprint' = disk.dropIn.ver
  /\ Enter("watcher")
  /\ UNCHANGED <<phase, disk, served, hup, hups, announced>>

\* The SIGHUP loop takes the waiting signal.
HupReceive ==
  /\ hup
  /\ hup' = FALSE
  /\ Enter("sighup")
  /\ UNCHANGED <<phase, disk, served, fingerprint, hups, announced>>

\* LoadWithServicesDir reads config.yaml.  What cannot be parsed ends the reload
\* here; what Validate refuses ends it after services.d was read.
ReadMain(c) ==
  /\ job[c].pc = "main"
  /\ \/ disk.main.kind = "broken" /\ job' = [job EXCEPT ![c] = IdleJob]
     \/ job' = [job EXCEPT ![c].pc = "dropIn", ![c].cfg.main = disk.main]
  /\ UNCHANGED <<phase, disk, served, fingerprint, hup, hups, history>>

\* Mutant of ReadDropIns: a reload that failed is forgotten together with the
\* signal that came in meanwhile.
ReadAndForgetHup(c) ==
  /\ job[c].pc = "dropIn"
  /\ hup' = FALSE
  /\ LET cfg == [main |-> job[c].cfg.main, dropIn |-> disk.dropIn] IN
     job' = [job EXCEPT ![c] = IF Loads(cfg) THEN [pc |-> "auth", cfg |-> cfg] ELSE IdleJob]
  /\ UNCHANGED <<phase, disk, served, fingerprint, hups, history>>

\* ... and then services.d; what does not load together ends the reload with
\* nothing changed, and the watcher's fingerprint stays as it is.
ReadDropIns(c) ==
  /\ job[c].pc = "dropIn"
  /\ LET cfg == [main |-> job[c].cfg.main, dropIn |-> disk.dropIn] IN
     job' = [job EXCEPT ![c] = IF Loads(cfg) THEN [pc |-> "auth", cfg |-> cfg] ELSE IdleJob]
  /\ UNCHANGED <<phase, disk, served, fingerprint, hup, hups, history>>

\* Mutant of SetAuthorized: an npub that does not decode leaves no allowlist.
SetAuthorizedEmpty(c) ==
  /\ job[c].pc = "auth"
  /\ authorized' = IF Decodes(job[c].cfg.main) THEN job[c].cfg.main
                   ELSE [job[c].cfg.main EXCEPT !.kind = "none"]
  /\ job' = [job EXCEPT ![c].pc = "router"]
  /\ UNCHANGED <<phase, disk, router, monitor, handler, fingerprint, hup, hups, history>>

\* An npub that does not decode leaves the allowlist as it is, and the reload
\* goes on.
SetAuthorized(c) ==
  /\ job[c].pc = "auth"
  /\ authorized' = IF Decodes(job[c].cfg.main) THEN job[c].cfg.main ELSE authorized
  /\ job' = [job EXCEPT ![c].pc = "router"]
  /\ UNCHANGED <<phase, disk, router, monitor, handler, fingerprint, hup, hups, history>>

UpdateRouter(c) ==
  /\ job[c].pc = "router"
  /\ router' = job[c].cfg
  /\ job' = [job EXCEPT ![c].pc = "monitor"]
  /\ UNCHANGED <<phase, disk, authorized, monitor, handler, fingerprint, hup, hups, history>>

UpdateMonitor(c) ==
  /\ job[c].pc = "monitor"
  /\ monitor' = job[c].cfg
  /\ job' = [job EXCEPT ![c].pc = "handler"]
  /\ UNCHANGED <<phase, disk, authorized, router, handler, fingerprint, hup, hups, history>>

\* Mutant of UpdateHandler: the discovery handler keeps its list.
SkipHandler(c) ==
  /\ job[c].pc = "handler"
  /\ job' = [job EXCEPT ![c] = IdleJob]
  /\ UNCHANGED <<phase, disk, served, fingerprint, hup, hups, history>>

UpdateHandler(c) ==
  /\ job[c].pc = "handler"
  /\ handler' = job[c].cfg
  /\ job' = [job EXCEPT ![c] = IdleJob]
  /\ UNCHANGED <<phase, disk, authorized, router, monitor, fingerprint, hup, hups, history>>

-----------------------------------------------------------------------------
(* What happens outside the daemon.                                        *)

\* Bound: one more edit or signal.
AnotherEvent == disk.main.ver + disk.dropIn.ver + hups < MaxEvents

EditMain ==
  /\ AnotherEvent
  /\ disk.main.ver < MaxMainEdits
  /\ \E kind \in MainKinds :
       disk' = [disk EXCEPT !.main = [ver |-> @.ver + 1, kind |-> kind]]
  /\ announced' = (announced /\ Loads(disk'))
  /\ UNCHANGED <<phase, served, job, fingerprint, hup, hups, overlapped>>

EditDropIns ==
  /\ AnotherEvent
  /\ disk.dropIn.ver < MaxDropInEdits
  /\ \E kind \in DropInKinds :
       disk' = [disk EXCEPT !.dropIn = [ver |-> @.ver + 1, kind |-> kind]]
  /\ announced' = (phase = "up" /\ Loads(disk'))
  /\ UNCHANGED <<phase, served, job, fingerprint, hup, hups, overlapped>>

\* SIGHUP: kept in the channel of one; a signal that finds it full is dropped.
\* Before signal.Notify it kills the daemon, which is started again.
Sighup ==
  /\ phase # "boot"
  /\ AnotherEvent
  /\ hups < MaxHups
  /\ hups' = hups + 1
  /\ \/ phase = "loaded" /\ phase' = "boot" /\ announced' = FALSE /\ UNCHANGED hup
     \/ phase # "loaded" /\ hup' = TRUE /\ announced' = Loads(disk) /\ UNCHANGED phase
  /\ UNCHANGED <<disk, served, job, fingerprint, overlapped>>

ReloadStep(c) ==
  \/ ReadMain(c) \/ ReadDropIns(c) \/ SetAuthorized(c)
  \/ UpdateRouter(c) \/ UpdateMonitor(c) \/ UpdateHandler(c)

Next ==
  \/ Load \/ Notify \/ Baseline \/ WatchTick \/ HupReceive
  \/ \E c \in Callers : ReloadStep(c)
  \/ EditMain \/ EditDropIns \/ Sighup

Spec == Init /\ [][Next]_vars

(* The daemon's own steps are taken; nobody has to edit or signal anything. *)
Fairness ==
  /\ WF_vars(Load) /\ WF_vars(Notify) /\ WF_vars(Baseline)
  /\ WF_vars(WatchTick) /\ WF_vars(HupReceive)
  /\ \A c \in Callers : WF_vars(ReloadStep(c))

FairSpec == Spec /\ Fairness

-----------------------------------------------------------------------------
(* Properties.                                                             *)

\* The router, the health monitor and the discovery handler serve the same
\* configuration whenever no reload is under way, however edits, broken files
\* and signals fell, unless the two callers were ever in a reload together
\* (main.go:318-334).
AgreeUnlessOverlapped ==
  ~overlapped /\ (\A c \in Callers : job[c].pc = "idle")
    => router = monitor /\ monitor = handler

\* The last edit of services.d is what all three serve in the end, if config.yaml
\* and services.d have loaded together since that edit, or since a SIGHUP or a
\* start after it, and whatever broken files came before (main.go:318-350, 770-789).
AnnouncedIsServed ==
  \A v \in 0..MaxDropInEdits :
    <>[](disk.dropIn.ver = v /\ announced /\ ~overlapped)
      => <>[](\A cfg \in {router, monitor, handler} : cfg.dropIn.ver = v)

\* What docs/runbook.md:301-303 promises, changes of the directory are detected
\* and loaded without any command: the last edit of services.d, if it loads, is
\* what all three of a daemon that runs serve in the end.  Not so in the code (README, 4): the edit may
\* come before the watcher's baseline (main.go:774), or its fingerprint may be
\* spent on a reload that config.yaml makes fail (main.go:783).
EditsAreServed ==
  \A v \in 0..MaxDropInEdits :
    <>[](phase = "up" /\ disk.dropIn.ver = v /\ Loads(disk) /\ ~overlapped)
      => <>[](\A cfg \in {router, monitor, handler} : cfg.dropIn.ver = v)

\* An allowlist that was on disk when SIGHUP was sent, or a later one, gets
\* into effect, also when the signal arrives during a reload and is merged with
\* another (main.go:336-350).  Files that do not load together stand in its way.
\* A reload can also fail by reading two versions that never were on disk
\* together; once the watcher runs, it makes up for that, since services.d was
\* edited in between.
HupTakesEffect ==
  \A v \in 0..MaxMainEdits :
    (hup /\ phase = "up" /\ disk.main.ver = v)
      ~> (authorized.ver >= v \/ ~Decodes(disk.main) \/ ~Loads(disk) \/ overlapped)

\* What docs/okf/tasks/17-dropin-services-reload.md:38 promises, a concurrent and
\* thread-safe hot reload: at rest, all three serve the same configuration.
\* Not so in the code (README, 4).
AgreeAtRest ==
  (\A c \in Callers : job[c].pc = "idle") => router = monitor /\ monitor = handler

=============================================================================
