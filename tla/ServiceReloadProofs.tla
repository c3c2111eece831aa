------------------------- MODULE ServiceReloadProofs -------------------------
(***************************************************************************)
(* Theorems of ServiceReload, for any number of edits and signals.         *)
(***************************************************************************)
EXTENDS ServiceReload, TLAPS

\* A reload's copy of the configuration stays one, whichever file it reads.
LEMMA JobTypes ==
  ASSUME TypeOK, NEW c \in Callers
  PROVE  /\ IdleJob \in Jobs
         /\ \A step \in {"main", "router", "monitor", "handler"} :
               [job[c] EXCEPT !.pc = step] \in Jobs
         /\ [job[c] EXCEPT !.pc = "dropIn", !.cfg.main = disk.main] \in Jobs
         /\ [pc |-> "auth",
             cfg |-> [main |-> job[c].cfg.main, dropIn |-> disk.dropIn]] \in Jobs
         /\ job[c].cfg \in Configs /\ job[c].cfg.main \in Mains
<1>1. job[c] \in Jobs /\ disk.main \in Mains /\ disk.dropIn \in DropIns
  BY DEF TypeOK, Configs
<1>2. job[c].cfg \in Configs /\ job[c].cfg.main \in Mains
  BY <1>1 DEF Jobs, Configs
<1>3. IdleJob \in Jobs
  BY BoundsAssumption
  DEF IdleJob, FirstConfig, Jobs, Configs, Mains, DropIns, MainKinds, DropInKinds
<1>4. \A step \in {"main", "router", "monitor", "handler"} :
         [job[c] EXCEPT !.pc = step] \in Jobs
  BY <1>1 DEF Jobs
<1>5. [job[c] EXCEPT !.pc = "dropIn", !.cfg.main = disk.main] \in Jobs
  BY <1>1 DEF Jobs, Configs
<1>6. [main |-> job[c].cfg.main, dropIn |-> disk.dropIn] \in Configs
  BY <1>1, <1>2 DEF Configs
<1>7. QED
  BY <1>2, <1>3, <1>4, <1>5, <1>6 DEF Jobs

\* Every reachable state is well typed; in particular the allowlist is always
\* one that a config.yaml gave (main.go:318-334, client.go:146-168).
THEOREM TypeCorrect == Spec => []TypeOK
<1>1. Init => TypeOK
  <2> SUFFICES ASSUME Init PROVE TypeOK
    OBVIOUS
  <2>1. FirstConfig \in Configs /\ FirstConfig.main \in Mains
    BY BoundsAssumption DEF FirstConfig, Configs, Mains, DropIns, MainKinds, DropInKinds
  <2>2. IdleJob \in Jobs
    BY <2>1 DEF IdleJob, Jobs
  <2>3. job \in [Callers -> Jobs]
    BY <2>2 DEF Init
  <2>4. 0 \in 0..MaxDropInEdits /\ 0 \in 0..MaxHups
    BY BoundsAssumption
  <2>5. QED
    BY <2>1, <2>3, <2>4 DEF Init, TypeOK
<1>2. TypeOK /\ [Next]_vars => TypeOK'
  <2> SUFFICES ASSUME TypeOK, [Next]_vars PROVE TypeOK'
    OBVIOUS
  <2>1. disk.main \in Mains /\ disk.dropIn \in DropIns /\ disk.dropIn.ver \in 0..MaxDropInEdits
    BY DEF TypeOK, Configs, DropIns
  <2>2. CASE Load \/ Notify \/ Baseline
    BY <2>1, <2>2 DEF Load, Notify, Baseline, TypeOK, served, history
  <2>3. ASSUME NEW c \in Callers, Enter(c)
        PROVE  job' \in [Callers -> Jobs] /\ overlapped' \in BOOLEAN
    <3>1. job' = [job EXCEPT ![c] = [job[c] EXCEPT !.pc = "main"]]
      BY <2>3 DEF Enter, TypeOK
    <3>2. job' \in [Callers -> Jobs]
      BY <3>1, JobTypes DEF TypeOK
    <3>3. QED
      BY <2>3, <3>2 DEF Enter, TypeOK
  <2>4. CASE WatchTick \/ HupReceive
    BY <2>1, <2>3, <2>4 DEF WatchTick, HupReceive, TypeOK, served, Callers
  <2>5. ASSUME NEW c \in Callers, ReloadStep(c) PROVE TypeOK'
    <3>1. ASSUME NEW j \in Jobs, job' = [job EXCEPT ![c] = j]
          PROVE  job' \in [Callers -> Jobs]
      BY <3>1 DEF TypeOK
    <3>2. CASE ReadMain(c)
      <4>1. \/ job' = [job EXCEPT ![c] = IdleJob]
            \/ job' = [job EXCEPT ![c] = [job[c] EXCEPT !.pc = "dropIn", !.cfg.main = disk.main]]
        BY <3>2 DEF ReadMain, TypeOK
      <4>2. job' \in [Callers -> Jobs]
        BY <3>1, <4>1, JobTypes
      <4>3. QED
        BY <3>2, <4>2 DEF ReadMain, TypeOK, served, history
    <3>3. CASE ReadDropIns(c)
      BY <3>1, <3>3, JobTypes DEF ReadDropIns, TypeOK, served, history
    <3>4. CASE SetAuthorized(c)
      <4>1. job' = [job EXCEPT ![c] = [job[c] EXCEPT !.pc = "router"]]
        BY <3>4 DEF SetAuthorized, TypeOK
      <4>2. QED
        BY <3>1, <3>4, <4>1, JobTypes DEF SetAuthorized, TypeOK, history
    <3>5. CASE UpdateRouter(c)
      <4>1. job' = [job EXCEPT ![c] = [job[c] EXCEPT !.pc = "monitor"]]
        BY <3>5 DEF UpdateRouter, TypeOK
      <4>2. QED
        BY <3>1, <3>5, <4>1, JobTypes DEF UpdateRouter, TypeOK, history
    <3>6. CASE UpdateMonitor(c)
      <4>1. job' = [job EXCEPT ![c] = [job[c] EXCEPT !.pc = "handler"]]
        BY <3>6 DEF UpdateMonitor, TypeOK
      <4>2. QED
        BY <3>1, <3>6, <4>1, JobTypes DEF UpdateMonitor, TypeOK, history
    <3>7. CASE UpdateHandler(c)
      BY <3>1, <3>7, JobTypes DEF UpdateHandler, TypeOK, history
    <3>8. QED
      BY <2>5, <3>2, <3>3, <3>4, <3>5, <3>6, <3>7 DEF ReloadStep
  <2>6. CASE EditMain
    <3>1. disk.main.ver + 1 \in 0..MaxMainEdits
      BY <2>1, <2>6, BoundsAssumption DEF EditMain, Mains
    <3>2. disk' \in Configs
      BY <2>1, <2>6, <3>1 DEF EditMain, Mains, TypeOK, Configs
    <3>3. announced' \in BOOLEAN
      BY <2>6 DEF EditMain, Loads, TypeOK
    <3>4. QED
      BY <2>6, <3>2, <3>3 DEF EditMain, TypeOK, served
  <2>7. CASE EditDropIns
    <3>1. disk.dropIn.ver + 1 \in 0..MaxDropInEdits
      BY <2>1, <2>7, BoundsAssumption DEF EditDropIns, DropIns
    <3>2. disk' \in Configs
      BY <2>1, <2>7, <3>1 DEF EditDropIns, DropIns, TypeOK, Configs
    <3>3. announced' \in BOOLEAN
      BY <2>7 DEF EditDropIns, Loads
    <3>4. QED
      BY <2>7, <3>2, <3>3 DEF EditDropIns, TypeOK, served
  <2>8. CASE Sighup
    <3>1. hups + 1 \in 0..MaxHups
      BY <2>8, BoundsAssumption DEF Sighup, TypeOK
    <3>2. announced' \in BOOLEAN
      BY <2>8 DEF Sighup, Loads
    <3>3. QED
      BY <2>8, <3>1, <3>2 DEF Sighup, TypeOK, served
  <2>9. CASE UNCHANGED vars
    BY <2>9 DEF vars, served, history, TypeOK
  <2>10. QED
    BY <2>2, <2>4, <2>5, <2>6, <2>7, <2>8, <2>9 DEF Next
<1>3. QED
  BY <1>1, <1>2, PTL DEF Spec

-----------------------------------------------------------------------------
(* Agreement.                                                              *)

\* What AgreeUnlessOverlapped needs to be inductive: nothing reloads before the
\* daemon listens for signals, one reload runs at a time, and a reload leaves
\* the three of them agreeing until it begins to install, and has installed
\* its own configuration in all those it has passed.
Installed(c) ==
  /\ job[c].pc = "monitor" => router = job[c].cfg
  /\ job[c].pc = "handler" => router = job[c].cfg /\ monitor = job[c].cfg

ReloadInv ==
  /\ phase \in {"boot", "loaded"} => ~hup /\ \A c \in Callers : job[c].pc = "idle"
  /\ ~overlapped =>
       /\ \A c, d \in Callers : job[c].pc # "idle" /\ job[d].pc # "idle" => c = d
       /\ \A c \in Callers : Installed(c)
       /\ (\A c \in Callers : job[c].pc \notin {"monitor", "handler"})
            => router = monitor /\ monitor = handler

LEMMA ReloadInvariance == Spec => []ReloadInv
<1>1. Init => ReloadInv
  BY DEF Init, ReloadInv, Installed, IdleJob
<1>2. TypeOK /\ ReloadInv /\ [Next]_vars => ReloadInv'
  <2> SUFFICES ASSUME TypeOK, ReloadInv, [Next]_vars PROVE ReloadInv'
    OBVIOUS
  <2> USE DEF ReloadInv, Installed
  <2>1. CASE Load
    BY <2>1 DEF Load
  <2>2. CASE Notify \/ Baseline
    BY <2>2 DEF Notify, Baseline, served, history
  <2>3. CASE WatchTick \/ HupReceive
    <3>1. PICK c \in Callers : Enter(c)
      BY <2>3 DEF WatchTick, HupReceive, Callers
    <3>2. UNCHANGED <<phase, served>> /\ (hup' => hup) /\ phase \notin {"boot", "loaded"}
      BY <2>3 DEF WatchTick, HupReceive
    <3>3. CASE overlapped'
      BY <3>2, <3>3
    <3>4. CASE ~overlapped'
      <4>1. ~overlapped /\ \A d \in Callers : job[d].pc = "idle"
        BY <3>1, <3>4 DEF Enter, TypeOK
      <4>2. /\ job'[c].pc = "main"
            /\ \A d \in Callers : d # c => job'[d].pc = "idle"
        BY <3>1, <4>1 DEF Enter, TypeOK, Jobs
      <4>3. QED
        BY <3>2, <4>1, <4>2 DEF served
    <3>5. QED
      BY <3>3, <3>4
  <2>4. ASSUME NEW c \in Callers, ReloadStep(c) PROVE ReloadInv'
    <3>1. /\ job[c].pc # "idle" /\ UNCHANGED <<phase, overlapped>> /\ (hup' => hup)
          /\ \A d \in Callers : d # c => job'[d] = job[d]
      BY <2>4 DEF ReloadStep, ReadMain, ReadDropIns, SetAuthorized, UpdateRouter,
         UpdateMonitor, UpdateHandler, TypeOK, Jobs, IdleJob, history
    <3>2. CASE overlapped
      BY <3>1, <3>2
    <3>3. CASE ~overlapped
      <4>1. \A d \in Callers : d # c => job[d].pc = "idle" /\ job'[d].pc = "idle"
        BY <3>1, <3>3
      <4>2. CASE ReadMain(c) \/ ReadDropIns(c) \/ SetAuthorized(c)
        <5>1. /\ job[c].pc \notin {"monitor", "handler"}
              /\ job'[c].pc \notin {"monitor", "handler"}
              /\ UNCHANGED <<router, monitor, handler>>
          BY <4>2 DEF ReadMain, ReadDropIns, SetAuthorized, IdleJob, TypeOK, Jobs, served
        <5>2. QED
          BY <3>1, <3>3, <4>1, <5>1
      <4>3. CASE UpdateRouter(c)
        <5>1. job'[c].pc = "monitor" /\ job'[c].cfg = job[c].cfg /\ router' = job[c].cfg
          BY <4>3 DEF UpdateRouter, TypeOK, Jobs
        <5>2. QED
          BY <3>1, <3>3, <4>1, <5>1
      <4>4. CASE UpdateMonitor(c)
        <5>1. /\ job[c].pc = "monitor" /\ job'[c].pc = "handler"
              /\ job'[c].cfg = job[c].cfg /\ monitor' = job[c].cfg /\ router' = router
          BY <4>4 DEF UpdateMonitor, TypeOK, Jobs
        <5>2. QED
          BY <3>1, <3>3, <4>1, <5>1
      <4>5. CASE UpdateHandler(c)
        <5>1. /\ job[c].pc = "handler" /\ job'[c].pc = "idle"
              /\ handler' = job[c].cfg /\ UNCHANGED <<router, monitor>>
          BY <4>5 DEF UpdateHandler, IdleJob, TypeOK, Jobs
        <5>2. QED
          BY <3>1, <3>3, <4>1, <5>1
      <4>6. QED
        BY <2>4, <4>2, <4>3, <4>4, <4>5 DEF ReloadStep
    <3>4. QED
      BY <3>2, <3>3 DEF TypeOK
  <2>5. CASE EditMain \/ EditDropIns
    BY <2>5 DEF EditMain, EditDropIns, served
  <2>6. CASE Sighup
    BY <2>6 DEF Sighup, served
  <2>7. CASE UNCHANGED vars
    BY <2>7 DEF vars, served, history
  <2>8. QED
    BY <2>1, <2>2, <2>3, <2>4, <2>5, <2>6, <2>7 DEF Next
<1>3. QED
  BY <1>1, <1>2, TypeCorrect, PTL DEF Spec

\* As long as the two callers of reloadServices never run it together, whatever
\* is edited, broken or signalled, the router, the health monitor and discovery
\* serve the same configuration between reloads (main.go:318-334).
THEOREM AgreementHolds == Spec => []AgreeUnlessOverlapped
<1>1. ReloadInv => AgreeUnlessOverlapped
  BY DEF ReloadInv, AgreeUnlessOverlapped
<1>2. QED
  BY <1>1, ReloadInvariance, PTL

-----------------------------------------------------------------------------
(* No edit is lost.                                                        *)

\* Caller c has read services.d and is handing the result out.
Installing(c) == job[c].pc \in {"auth", "router", "monitor", "handler"}

\* A drop-in directory that the daemon was told of, with a config.yaml it loads
\* with ever since, is served by all three, or some step that is still to come has
\* it: the watcher's next tick, a signal, a reload that is going to read it with a
\* main file it loads with, or one that has read this very state of it.
\* AnnouncedIsServed adds only that those steps are taken.
Seen == hup \/ (phase = "up" /\ fingerprint # disk.dropIn.ver)

WillRead(c) ==
  \/ job[c].pc = "main"
  \/ job[c].pc = "dropIn" /\ Loads([main |-> job[c].cfg.main, dropIn |-> disk.dropIn])

EditOnItsWay ==
  phase # "boot" /\ ~overlapped /\ announced =>
     \/ Seen
     \/ \E c \in Callers : WillRead(c)
     \/ \E c \in Callers : Installing(c) /\ job[c].cfg.dropIn = disk.dropIn
     \/ \A cfg \in {router, monitor, handler} : cfg.dropIn = disk.dropIn

\* Why a reload that fails, or hands out what it read before an edit, does no
\* harm: what was announced loads, so a reload of it fails only when it read a
\* main file of before the announcement, and an announcement that came after a
\* reload began has left a signal behind or a fingerprint to find.
EditInv ==
  /\ fingerprint <= disk.dropIn.ver
  /\ announced => Loads(disk)
  /\ ~overlapped /\ announced =>
       \A c \in Callers :
         /\ job[c].pc = "dropIn" => WillRead(c) \/ Seen
         /\ Installing(c) => job[c].cfg.dropIn = disk.dropIn \/ Seen
  /\ EditOnItsWay

LEMMA EditStep ==
  ASSUME TypeOK, ReloadInv, EditInv, [Next]_vars
  PROVE  EditInv'
<1> USE DEF EditInv, EditOnItsWay, Installing, Seen, WillRead
<1>0. /\ fingerprint \in Nat /\ disk.dropIn.ver \in Nat /\ disk.dropIn \in DropIns
      /\ \A c \in Callers : job[c] \in Jobs
  BY DEF TypeOK, Configs, DropIns
<1>1. CASE Load
  <2>1. /\ router' = disk' /\ monitor' = disk' /\ handler' = disk' /\ Loads(disk')
        /\ \A c \in Callers : job'[c].pc = "idle"
    BY <1>1 DEF Load, ReloadInv, Loads
  <2>2. UNCHANGED <<fingerprint, disk>>
    BY <1>1 DEF Load
  <2>3. QED
    BY <1>0, <2>1, <2>2
<1>2. CASE Notify \/ UNCHANGED vars
  <2>1. UNCHANGED <<disk, router, monitor, handler, job, fingerprint, hup, overlapped, announced>>
    BY <1>2 DEF Notify, served, history, vars
  <2>2. (phase' = "up" <=> phase = "up") /\ (phase' # "boot" => phase # "boot")
    BY <1>2 DEF Notify, vars
  <2>3. QED
    BY <2>1, <2>2 DEF Loads
<1>3. CASE Baseline
  <2>1. /\ fingerprint' = disk.dropIn.ver /\ phase = "notified" /\ phase' = "up"
        /\ UNCHANGED <<disk, router, monitor, handler, job, hup, overlapped, announced>>
    BY <1>3 DEF Baseline, served, history
  <2>2. QED
    BY <1>0, <2>1 DEF Loads
<1>4. ASSUME NEW c \in Callers, Enter(c), phase # "boot",
             UNCHANGED <<phase, disk, router, monitor, handler, announced>>,
             fingerprint' = fingerprint \/ fingerprint' = disk.dropIn.ver
      PROVE  EditInv'
  <2>1. /\ job'[c].pc = "main" /\ \A d \in Callers \ {c} : job'[d] = job[d]
        /\ overlapped' = (overlapped \/ \E d \in Callers : job[d].pc # "idle")
    BY <1>0, <1>4 DEF Enter, Jobs, TypeOK
  <2>2. ~overlapped' => \A d \in Callers : job'[d].pc # "dropIn" /\ ~Installing(d)'
    BY <2>1
  <2>3. QED
    BY <1>0, <1>4, <2>1, <2>2 DEF Loads
<1>5. CASE WatchTick \/ HupReceive
  <2>1. phase # "boot"
    BY <1>5 DEF WatchTick, HupReceive, ReloadInv
  <2>2. QED
    BY <1>4, <1>5, <2>1 DEF WatchTick, HupReceive, Callers, served
<1>6. ASSUME NEW c \in Callers, ReloadStep(c) PROVE EditInv'
  <2>1. /\ job[c].pc # "idle"
        /\ UNCHANGED <<phase, disk, fingerprint, hup, overlapped, announced>>
        /\ \A d \in Callers : d # c => job'[d] = job[d]
    BY <1>6 DEF ReloadStep, ReadMain, ReadDropIns, SetAuthorized, UpdateRouter,
       UpdateMonitor, UpdateHandler, TypeOK, Jobs, IdleJob, history
  <2>2. (announced => Loads(disk)) /\ (announced' => Loads(disk'))
    BY <2>1 DEF Loads
  <2>3. CASE overlapped \/ ~announced
    BY <2>1, <2>2, <2>3 DEF TypeOK
  <2>4. CASE ~overlapped /\ announced
    <3>1. \A d \in Callers : d # c => job[d].pc = "idle" /\ job'[d].pc = "idle"
      BY <2>1, <2>4 DEF ReloadInv
    <3>2. CASE ReadMain(c)
      <4>1. disk.main.kind # "broken" /\ Loads([main |-> disk.main, dropIn |-> disk.dropIn])
        BY <2>2, <2>4 DEF Loads
      <4>2. job'[c].pc = "dropIn" /\ job'[c].cfg.main = disk.main
        BY <1>0, <3>2, <4>1 DEF ReadMain, TypeOK, Jobs, Configs
      <4>3. WillRead(c)'
        BY <2>1, <4>1, <4>2 DEF Loads
      <4>4. QED
        BY <2>1, <2>2, <3>1, <4>2, <4>3
    <3>3. CASE ReadDropIns(c)
      <4> DEFINE cfg == [main |-> job[c].cfg.main, dropIn |-> disk.dropIn]
      <4>1. CASE Loads(cfg)
        <5>1. job'[c].pc = "auth" /\ job'[c].cfg.dropIn = disk.dropIn
          BY <3>3, <4>1 DEF ReadDropIns, TypeOK
        <5>2. QED
          BY <2>1, <2>2, <3>1, <5>1
      <4>2. CASE ~Loads(cfg)
        <5>1. job'[c].pc = "idle"
          BY <3>3, <4>2 DEF ReadDropIns, TypeOK, IdleJob
        <5>2. Seen
          BY <2>4, <3>3, <4>2 DEF ReadDropIns
        <5>3. QED
          BY <2>1, <2>2, <3>1, <5>1, <5>2
      <4>3. QED
        BY <4>1, <4>2
    <3>4. CASE SetAuthorized(c) \/ UpdateRouter(c) \/ UpdateMonitor(c)
      <4>1. Installing(c) /\ Installing(c)' /\ job'[c].cfg = job[c].cfg
        BY <1>0, <3>4 DEF SetAuthorized, UpdateRouter, UpdateMonitor, TypeOK, Jobs
      <4>2. job[c].cfg.dropIn = disk.dropIn \/ Seen
        BY <2>4, <4>1
      <4>3. QED
        BY <2>1, <2>2, <3>1, <4>1, <4>2
    <3>5. CASE UpdateHandler(c)
      <4>1. /\ job[c].pc = "handler" /\ job'[c].pc = "idle"
            /\ handler' = job[c].cfg /\ UNCHANGED <<router, monitor>>
        BY <3>5 DEF UpdateHandler, IdleJob, TypeOK
      <4>2. router = job[c].cfg /\ monitor = job[c].cfg
        BY <2>4, <4>1 DEF ReloadInv, Installed
      <4>3. job[c].cfg.dropIn = disk.dropIn \/ Seen
        BY <2>4, <4>1
      <4>4. QED
        BY <2>1, <2>2, <3>1, <4>1, <4>2, <4>3
    <3>6. QED
      BY <1>6, <3>2, <3>3, <3>4, <3>5 DEF ReloadStep
  <2>5. QED
    BY <2>3, <2>4 DEF TypeOK
<1>7. CASE EditMain
  <2>1. disk'.dropIn = disk.dropIn /\ announced' = (announced /\ Loads(disk'))
    BY <1>7 DEF EditMain, TypeOK, Configs
  <2>2. UNCHANGED <<phase, router, monitor, handler, job, fingerprint, hup, overlapped>>
    BY <1>7 DEF EditMain, served
  <2>3. QED
    BY <2>1, <2>2 DEF Loads
<1>8. CASE EditDropIns
  <2>1. /\ disk'.dropIn.ver = disk.dropIn.ver + 1
        /\ announced' = (phase = "up" /\ Loads(disk'))
        /\ UNCHANGED <<phase, fingerprint>>
    BY <1>8 DEF EditDropIns, TypeOK, Configs
  <2>2. fingerprint' <= disk'.dropIn.ver /\ fingerprint' # disk'.dropIn.ver
    BY <1>0, <2>1
  <2>3. QED
    BY <2>1, <2>2
<1>9. CASE Sighup
  <2>1. UNCHANGED <<disk, fingerprint>>
    BY <1>9 DEF Sighup
  <2>2. announced' => hup' /\ Loads(disk)
    BY <1>9 DEF Sighup
  <2>3. QED
    BY <2>1, <2>2 DEF Loads
<1>10. QED
  BY <1>1, <1>2, <1>3, <1>5, <1>6, <1>7, <1>8, <1>9 DEF Next

\* Nothing that was announced is lost: an edit of services.d the watcher can see,
\* or any edit a SIGHUP or a start came after, is served or on its way as long as
\* both files load together, however reloads, broken files of either kind and
\* signals fell before, unless the two callers of reloadServices ever ran it
\* together (main.go:318-350, 770-789).
THEOREM EditOnItsWayHolds == Spec => []EditOnItsWay
<1>1. Init => EditInv
  BY DEF Init, EditInv, EditOnItsWay, Installing, FirstConfig, IdleJob, Loads
<1>2. TypeOK /\ ReloadInv /\ EditInv /\ [Next]_vars => EditInv'
  BY EditStep
<1>3. EditInv => EditOnItsWay
  BY DEF EditInv
<1>4. QED
  BY <1>1, <1>2, <1>3, TypeCorrect, ReloadInvariance, PTL DEF Spec

-----------------------------------------------------------------------------
(* The allowlist only moves forward.                                       *)

\* A reload never goes back to an allowlist older than the one in effect, so
\* an npub taken off the list is not let in again by a reload that read
\* config.yaml before the edit, unless the two callers were ever in a reload
\* together.
AllowlistForward == [][~overlapped' => authorized'.ver >= authorized.ver]_vars

\* Why: nothing in memory is newer than config.yaml, and a reload that has not
\* set its allowlist yet read config.yaml after the one in effect was set.
AllowInv ==
  /\ authorized.ver <= disk.main.ver
  /\ \A c \in Callers : job[c].pc \in {"dropIn", "auth"} =>
       /\ job[c].cfg.main.ver <= disk.main.ver
       /\ ~overlapped => authorized.ver <= job[c].cfg.main.ver

LEMMA AllowStep ==
  ASSUME TypeOK, ReloadInv, AllowInv, [Next]_vars
  PROVE  AllowInv' /\ (~overlapped' => authorized'.ver >= authorized.ver)
<1> USE DEF AllowInv
<1>0. /\ authorized.ver \in Nat /\ disk.main.ver \in Nat
      /\ \A c \in Callers : job[c] \in Jobs /\ job[c].cfg.main.ver \in Nat
  BY DEF TypeOK, Configs, Mains, Jobs
<1>1. CASE Load
  <2>1. /\ authorized' = disk.main /\ UNCHANGED <<disk, job, overlapped>>
        /\ \A c \in Callers : job[c].pc = "idle"
    BY <1>1 DEF Load, ReloadInv
  <2>2. QED
    BY <1>0, <2>1
<1>2. ASSUME UNCHANGED <<authorized, job, overlapped>>,
             disk'.main.ver \in Nat, disk.main.ver <= disk'.main.ver
      PROVE  AllowInv' /\ authorized'.ver >= authorized.ver
  BY <1>0, <1>2
<1>3. CASE Notify \/ Baseline \/ EditDropIns \/ Sighup \/ UNCHANGED vars
  <2>1. UNCHANGED <<authorized, job, overlapped>> /\ disk'.main = disk.main
    BY <1>3 DEF Notify, Baseline, EditDropIns, Sighup, vars, served, history, TypeOK, Configs
  <2>2. QED
    BY <1>0, <1>2, <2>1
<1>4. CASE EditMain
  <2>1. UNCHANGED <<authorized, job, overlapped>> /\ disk'.main.ver = disk.main.ver + 1
    BY <1>4 DEF EditMain, served, TypeOK, Configs
  <2>2. QED
    BY <1>0, <1>2, <2>1
<1>5. CASE WatchTick \/ HupReceive
  <2>1. PICK c \in Callers : Enter(c)
    BY <1>5 DEF WatchTick, HupReceive, Callers
  <2>2. /\ job'[c].pc = "main" /\ \A d \in Callers \ {c} : job'[d] = job[d]
        /\ overlapped' = (overlapped \/ \E d \in Callers : job[d].pc # "idle")
    BY <1>0, <2>1 DEF Enter, Jobs, TypeOK
  <2>3. UNCHANGED <<authorized, disk>>
    BY <1>5 DEF WatchTick, HupReceive, served
  <2>4. \A d \in Callers : job'[d].pc \in {"dropIn", "auth"} => d # c /\ job'[d] = job[d]
    BY <2>2
  <2>5. overlapped => overlapped'
    BY <2>2
  <2>6. QED
    BY <1>0, <2>3, <2>4, <2>5
<1>6. ASSUME NEW c \in Callers, ReloadStep(c)
      PROVE  AllowInv' /\ (~overlapped' => authorized'.ver >= authorized.ver)
  <2>1. /\ job[c].pc # "idle" /\ UNCHANGED <<disk, overlapped>>
        /\ \A d \in Callers : d # c => job'[d] = job[d]
    BY <1>6 DEF ReloadStep, ReadMain, ReadDropIns, SetAuthorized, UpdateRouter,
       UpdateMonitor, UpdateHandler, TypeOK, Jobs, IdleJob, history
  <2>2. ~overlapped => \A d \in Callers : d # c => job'[d].pc = "idle"
    BY <2>1 DEF ReloadInv
  <2>3. CASE ReadMain(c)
    <3>1. /\ UNCHANGED authorized
          /\ job'[c].pc = "idle" \/ job'[c].cfg.main = disk.main
      BY <1>0, <2>3 DEF ReadMain, TypeOK, Jobs, Configs, IdleJob, served
    <3>2. QED
      BY <1>0, <2>1, <2>2, <3>1
  <2>4. CASE ReadDropIns(c)
    <3>1. /\ job[c].pc = "dropIn" /\ UNCHANGED authorized
          /\ job'[c].pc = "idle" \/ job'[c].cfg.main = job[c].cfg.main
      BY <1>0, <2>4 DEF ReadDropIns, TypeOK, Jobs, Configs, IdleJob, served
    <3>2. QED
      BY <1>0, <2>1, <2>2, <3>1
  <2>5. CASE SetAuthorized(c)
    <3>1. /\ job[c].pc = "auth" /\ job'[c].pc = "router"
          /\ authorized' = job[c].cfg.main \/ authorized' = authorized
      BY <1>0, <2>5 DEF SetAuthorized, TypeOK, Jobs
    <3>2. CASE ~overlapped
      BY <1>0, <2>1, <2>2, <3>1, <3>2
    <3>3. CASE overlapped
      BY <1>0, <2>1, <3>1, <3>3
    <3>4. QED
      BY <3>2, <3>3 DEF TypeOK
  <2>6. CASE UpdateRouter(c) \/ UpdateMonitor(c) \/ UpdateHandler(c)
    <3>1. job'[c].pc \notin {"dropIn", "auth"} /\ UNCHANGED authorized
      BY <1>0, <2>6 DEF UpdateRouter, UpdateMonitor, UpdateHandler, TypeOK, Jobs, IdleJob
    <3>2. QED
      BY <1>0, <2>1, <2>2, <3>1
  <2>7. QED
    BY <1>6, <2>3, <2>4, <2>5, <2>6 DEF ReloadStep
<1>7. QED
  BY <1>1, <1>3, <1>4, <1>5, <1>6 DEF Next

\* An allowlist that was replaced never comes back into effect, whatever edits,
\* signals and broken files fall between a reload's steps, as long as the two
\* callers of reloadServices never run it together (main.go:318-334,
\* client.go:146-168).
THEOREM AllowlistForwardHolds == Spec => AllowlistForward
<1> DEFINE Forward == ~overlapped' => authorized'.ver >= authorized.ver
<1>1. Init => AllowInv
  BY DEF Init, AllowInv, FirstConfig, IdleJob
<1>2. TypeOK /\ ReloadInv /\ AllowInv /\ [Next]_vars => AllowInv' /\ [Forward]_vars
  BY AllowStep
<1>3. QED
  BY <1>1, <1>2, TypeCorrect, ReloadInvariance, PTL DEF Spec, AllowlistForward

=============================================================================
