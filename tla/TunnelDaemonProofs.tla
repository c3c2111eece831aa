------------------------- MODULE TunnelDaemonProofs -------------------------
(***************************************************************************)
(* Theorems of TunnelDaemon, for every number of launches, banner lines,   *)
(* refused launches and daemon lives, with failing writes and with slow    *)
(* scanners or without.                                                    *)
(***************************************************************************)
EXTENDS TunnelDaemon, SequenceTheorems, TLAPS

-----------------------------------------------------------------------------
(* Lemmas about the incarnation table.                                     *)

\* Closing every row keeps the rows, their order and their hostnames.
LEMMA ClosedTable ==
  ASSUME NEW t \in Seq(Row)
  PROVE  /\ Closed(t) \in Seq(Row)
         /\ DOMAIN Closed(t) = DOMAIN t
         /\ \A i \in DOMAIN t : Closed(t)[i].open = FALSE /\ Closed(t)[i].url = t[i].url
<1>1. \A i \in DOMAIN t : t[i] \in Row
  OBVIOUS
<1>2. \A i \in DOMAIN t : [t[i] EXCEPT !.open = FALSE] \in Row
  BY <1>1 DEF Row
<1>3. DOMAIN t = 1..Len(t) /\ Len(t) \in Nat
  OBVIOUS
<1>4. Closed(t) \in Seq(Row)
  BY <1>2, <1>3, IsASeq DEF Closed
<1>5. \A i \in DOMAIN t : Closed(t)[i].open = FALSE /\ Closed(t)[i].url = t[i].url
  BY <1>1 DEF Closed, Row
<1>6. QED
  BY <1>4, <1>5 DEF Closed

\* Recording an incarnation leaves its row the only open one.
LEMMA RecordedTable ==
  ASSUME NEW t \in Seq(Row), NEW url \in Procs,
         NEW t2, t2 = Append(Closed(t), [url |-> url, open |-> TRUE])
  PROVE  /\ t2 \in Seq(Row)
         /\ \A i, j \in DOMAIN t2 : t2[i].open /\ t2[j].open => i = j
<1> DEFINE c == Closed(t)
           r == [url |-> url, open |-> TRUE]
<1>1. c \in Seq(Row) /\ r \in Row
  BY ClosedTable DEF Row
<1>2. t2 \in Seq(Row)
  BY <1>1
<1>3. \A i \in DOMAIN c : c[i].open = FALSE
  BY ClosedTable
<1>4. /\ DOMAIN t2 = 1..(Len(c) + 1)
      /\ \A i \in 1..Len(c) : t2[i] = c[i]
  BY <1>1
<1>5. DOMAIN c = 1..Len(c) /\ Len(c) \in Nat
  BY <1>1
<1> HIDE DEF c, r
<1>6. \A i \in DOMAIN t2 : t2[i].open => i = Len(c) + 1
  BY <1>3, <1>4, <1>5
<1>7. QED
  BY <1>2, <1>6

-----------------------------------------------------------------------------
(* Type correctness.                                                       *)

\* The current process's number is a process number once something launched.
LEMMA StartTypes ==
  ASSUME TypeOK, NEW watchers \in [Procs -> {"none", "wait", "backoff"}],
         StartFrom(watchers)
  PROVE  /\ proc' \in {"none", "alive", "dead"} /\ running' \in BOOLEAN
         /\ minted' \in 0..MaxStarts /\ fails' \in 0..MaxFails
         /\ watch' \in [Procs -> {"none", "wait", "backoff"}]
         /\ printed' \in 0..MaxPrints
BY BoundsAssumption DEF StartFrom, TypeOK, ManagerTypeOK, Procs

\* A daemon that is gone leaves a well-typed state, whatever run() calls it.
LEMMA GoneTypes ==
  ASSUME TypeOK, Gone, main' \in Phases
  PROVE  TypeOK'
<1>1. lines' \in [Scanners -> Nat] /\ printed' \in 0..MaxPrints
  BY BoundsAssumption DEF Gone
<1>2. /\ watch' \in [Procs -> {"none", "wait", "backoff"}]
      /\ scan' \in [Scanners -> {"read", "record", "send", "drain"}]
  BY DEF Gone
<1>3. ManagerTypeOK'
  BY <1>1, <1>2 DEF Gone, TypeOK, ManagerTypeOK, URLs
<1>4. QED
  BY <1>3 DEF Gone, TypeOK, URLs

\* Every step of the manager's goroutines keeps the types.
LEMMA ManagerTypes ==
  ASSUME TypeOK, ManagerNext, UNCHANGED mainVars
  PROVE  TypeOK'
<1> USE DEF procVars, scanVars, storeVars
<1>0. lives' = lives /\ UNCHANGED mainVars /\ (ManagerTypeOK' => TypeOK')
  BY DEF TypeOK, mainVars, URLs
<1> SUFFICES ManagerTypeOK'
  BY <1>0
<1>1. CASE ProcessExit
  BY <1>1 DEF TypeOK, ManagerTypeOK, ProcessExit
<1>2. ASSUME NEW n \in Procs, WatchExit(n) PROVE ManagerTypeOK'
  <2>1. lines' \in [Scanners -> Nat]
    <3> PICK left \in [{s \in Scanners : URLOf(s) = n} -> 0..MaxPrints] :
          lines' = [s \in Scanners |-> IF URLOf(s) = n THEN left[s] ELSE lines[s]]
      BY <1>2 DEF WatchExit
    <3> QED
      BY DEF TypeOK, ManagerTypeOK
  <2>2. QED
    BY <1>2, <2>1 DEF TypeOK, ManagerTypeOK, WatchExit
<1>3. ASSUME NEW n \in Procs, Restart(n) PROVE ManagerTypeOK'
  <2>1. [watch EXCEPT ![n] = "none"] \in [Procs -> {"none", "wait", "backoff"}]
    BY DEF TypeOK, ManagerTypeOK
  <2>2. QED
    BY <1>3, <2>1, StartTypes DEF TypeOK, ManagerTypeOK, Restart
<1>4. ASSUME NEW n \in Procs, RestartFails(n) PROVE ManagerTypeOK'
  <2>1. fails' \in 0..MaxFails
    BY <1>4, BoundsAssumption DEF TypeOK, ManagerTypeOK, RestartFails
  <2>2. QED
    BY <1>4, <2>1 DEF TypeOK, ManagerTypeOK, RestartFails
<1>5. ASSUME NEW n \in Procs, WatchStop(n) PROVE ManagerTypeOK'
  BY <1>5 DEF TypeOK, ManagerTypeOK, WatchStop
<1>6. ASSUME NEW s \in Scanners, PrintURL(s) PROVE ManagerTypeOK'
  <2>1. printed' \in 0..MaxPrints
    BY <1>6, BoundsAssumption DEF TypeOK, ManagerTypeOK, PrintURL
  <2>2. lines' \in [Scanners -> Nat]
    BY <1>6 DEF TypeOK, ManagerTypeOK, PrintURL
  <2>3. QED
    BY <1>6, <2>1, <2>2 DEF TypeOK, ManagerTypeOK, PrintURL
<1>7. ASSUME NEW s \in Scanners, ScanLine(s) PROVE ManagerTypeOK'
  <2>1. URLOf(s) \in URLs
    BY DEF Scanners, URLs, URLOf
  <2>2. lines' \in [Scanners -> Nat]
    BY <1>7, BoundsAssumption DEF TypeOK, ManagerTypeOK, ScanLine
  <2>3. QED
    BY <1>7, <2>1, <2>2 DEF TypeOK, ManagerTypeOK, ScanLine
<1>8. ASSUME NEW s \in Scanners, RecordIncarnation(s) PROVE ManagerTypeOK'
  <2>1. URLOf(s) \in Procs
    BY DEF Scanners, URLOf
  <2>2. rows' \in Seq(Row)
    BY <1>8, <2>1, RecordedTable
       DEF TypeOK, ManagerTypeOK, RecordIncarnation, RecordTunnelIncarnation
  <2>3. QED
    BY <1>8, <2>2 DEF TypeOK, ManagerTypeOK, RecordIncarnation
<1>9. ASSUME NEW s \in Scanners, Send(s) PROVE ManagerTypeOK'
  <2>1. URLOf(s) \in URLs
    BY DEF Scanners, URLs, URLOf
  <2>2. QED
    BY <1>9, <2>1 DEF TypeOK, ManagerTypeOK, Send
<1>10. ASSUME NEW s \in Scanners, Drain(s) PROVE ManagerTypeOK'
  BY <1>10 DEF TypeOK, ManagerTypeOK, Drain, URLs
<1>11. QED
  BY <1>1, <1>2, <1>3, <1>4, <1>5, <1>6, <1>7, <1>8, <1>9, <1>10
     DEF ManagerNext, WatcherStep, ScannerStep

\* Every state has its type (internal/tunnel/manager.go:151, main.go:65).
THEOREM TypeCorrect == Spec => []TypeOK
<1> USE DEF procVars, scanVars, storeVars
<1>1. Init => TypeOK
  <2> SUFFICES ASSUME Init PROVE TypeOK
    OBVIOUS
  <2>1. ManagerTypeOK
    <3>1. /\ watch \in [Procs -> {"none", "wait", "backoff"}]
          /\ scan \in [Scanners -> {"read", "record", "send", "drain"}]
      BY DEF Init, ManagerInit, Fresh
    <3>2. lines \in [Scanners -> Nat]
      BY BoundsAssumption DEF Init, ManagerInit, Fresh
    <3>3. rows \in Seq(Row)
      BY DEF Init, ManagerInit
    <3>4. /\ minted \in 0..MaxStarts /\ fails \in 0..MaxFails
          /\ printed \in 0..MaxPrints
      BY BoundsAssumption DEF Init, ManagerInit, Fresh
    <3>5. latestURL \in URLs /\ notify \in URLs
      BY DEF Init, ManagerInit, Fresh, URLs
    <3>6. /\ ctxDone \in BOOLEAN /\ running \in BOOLEAN /\ recorder \in BOOLEAN
          /\ storeOpen \in BOOLEAN /\ proc \in {"none", "alive", "dead"}
      BY DEF Init, ManagerInit, Fresh
    <3>7. QED
      BY <3>1, <3>2, <3>3, <3>4, <3>5, <3>6 DEF ManagerTypeOK
  <2>2. lives \in 1..MaxLives /\ born \in 0..MaxStarts
    BY LivesAssumption, BoundsAssumption DEF Init
  <2>3. QED
    BY <2>1, <2>2 DEF Init, MainFresh, TypeOK, URLs, Phases
<1>2. TypeOK /\ [Next]_vars => TypeOK'
  <2> SUFFICES ASSUME TypeOK, [Next]_vars PROVE TypeOK'
    OBVIOUS
  <2>1. CASE ManagerNext /\ UNCHANGED mainVars
    BY <2>1, ManagerTypes
  <2>2. CASE MainStart
    BY <2>2, StartTypes DEF MainStart, TypeOK, ManagerTypeOK, Phases
  <2>3. CASE MainGotURL
    BY <2>3 DEF MainGotURL, TypeOK, ManagerTypeOK, Phases, URLs
  <2>4. CASE MainTimeout
    BY <2>4 DEF MainTimeout, mgrVars, TypeOK, ManagerTypeOK, Phases
  <2>5. CASE AttachRecorder
    BY <2>5 DEF AttachRecorder, TypeOK, ManagerTypeOK, Phases
  <2>6. CASE Wire
    BY <2>6 DEF Wire, mgrVars, TypeOK, ManagerTypeOK, Phases
  <2>7. CASE ServeStart
    BY <2>7 DEF ServeStart, mgrVars, TypeOK, ManagerTypeOK, URLs
  <2>8. CASE ConsumerRecv
    BY <2>8 DEF ConsumerRecv, TypeOK, ManagerTypeOK, URLs
  <2>9. CASE ConsumerAdvertise
    BY <2>9 DEF ConsumerAdvertise, mgrVars, TypeOK, ManagerTypeOK, URLs
  <2>10. CASE StopSignal \/ BeginStop
    <3>1. CASE StopSignal
      BY <2>10, <3>1 DEF StopSignal, mainVars, TypeOK, ManagerTypeOK
    <3>2. CASE BeginStop
      BY <3>2 DEF BeginStop, mgrVars, TypeOK, ManagerTypeOK, Phases
    <3>3. QED
      BY <2>10, <3>1, <3>2
  <2>11. CASE CloseOpenTunnelIncarnation
    BY <2>11, ClosedTable DEF CloseOpenTunnelIncarnation, TypeOK, ManagerTypeOK, Phases
  <2>12. CASE CloseStore
    BY <2>12 DEF CloseStore, TypeOK, ManagerTypeOK, Phases
  <2>13. CASE Shutdown \/ Crash
    BY <2>13, GoneTypes DEF Shutdown, Crash, TypeOK, Phases
  <2>14. CASE Boot
    BY <2>14, LivesAssumption DEF Boot, mgrVars, TypeOK, ManagerTypeOK, Phases
  <2>15. CASE UNCHANGED vars
    BY <2>15 DEF vars, mgrVars, mainVars, TypeOK, ManagerTypeOK
  <2>16. QED
    BY <2>1, <2>2, <2>3, <2>4, <2>5, <2>6, <2>7, <2>8, <2>9, <2>10, <2>11,
       <2>12, <2>13, <2>14, <2>15 DEF Next, MainStep, StopStep
<1>3. QED
  BY <1>1, <1>2, PTL DEF Spec

-----------------------------------------------------------------------------
(* One open incarnation.                                                   *)

\* At most one row of tunnel_incarnations is open, for any interleaving of
\* scanners, failed writes, stops, crashes and restarts (history.go:161).
THEOREM OneOpenRowHolds == Spec => []OneOpenRow
<1> USE DEF procVars, scanVars, storeVars
<1>1. Init => OneOpenRow
  BY DEF Init, ManagerInit, OneOpenRow
<1>2. TypeOK /\ OneOpenRow /\ [Next]_vars => OneOpenRow'
  <2> SUFFICES ASSUME TypeOK, OneOpenRow, [Next]_vars PROVE OneOpenRow'
    OBVIOUS
  <2>1. rows \in Seq(Row)
    BY DEF TypeOK, ManagerTypeOK
  <2>2. UNCHANGED rows => OneOpenRow'
    BY DEF OneOpenRow
  <2>3. ASSUME NEW s \in Scanners, RecordIncarnation(s) PROVE OneOpenRow'
    <3>1. CASE RecordTunnelIncarnation(URLOf(s))
      <4>1. URLOf(s) \in Procs
        BY DEF Scanners, URLOf
      <4>2. rows' = Append(Closed(rows), [url |-> URLOf(s), open |-> TRUE])
        BY <3>1 DEF RecordTunnelIncarnation
      <4>3. \A i, j \in DOMAIN rows' : rows'[i].open /\ rows'[j].open => i = j
        BY <2>1, <4>1, <4>2, RecordedTable, SMTT(30)
      <4>4. QED
        BY <4>3 DEF OneOpenRow
    <3>2. QED
      BY <2>2, <2>3, <3>1 DEF RecordIncarnation
  <2>4. CASE CloseOpenTunnelIncarnation
    <3>1. CASE rows' = Closed(rows)
      BY <2>1, <3>1, ClosedTable DEF OneOpenRow
    <3>2. QED
      BY <2>2, <2>4, <3>1 DEF CloseOpenTunnelIncarnation
  <2>5. ASSUME NEW n \in Procs, WatcherStep(n) PROVE UNCHANGED rows
    BY <2>5 DEF WatcherStep, WatchExit, Restart, RestartFails, WatchStop
  <2>6. ASSUME NEW s \in Scanners,
               PrintURL(s) \/ ScanLine(s) \/ Send(s) \/ Drain(s)
        PROVE  UNCHANGED rows
    BY <2>6 DEF PrintURL, ScanLine, Send, Drain
  <2>7. CASE ProcessExit
    BY <2>2, <2>7 DEF ProcessExit
  <2>8. CASE MainStep
    BY <2>2, <2>8 DEF MainStep, MainStart, MainGotURL, MainTimeout,
       AttachRecorder, Wire, ServeStart, ConsumerRecv, ConsumerAdvertise, mgrVars
  <2>9. CASE StopSignal \/ BeginStop \/ CloseStore \/ Shutdown \/ Crash \/ Boot
    BY <2>2, <2>9 DEF StopSignal, BeginStop, CloseStore, Shutdown, Crash, Gone, Boot, mgrVars
  <2>10. CASE UNCHANGED vars
    BY <2>2, <2>10 DEF vars, mgrVars
  <2>11. QED
    BY <2>2, <2>3, <2>4, <2>5, <2>6, <2>7, <2>8, <2>9, <2>10
       DEF Next, ManagerNext, ScannerStep, StopStep
<1>3. QED
  BY <1>1, <1>2, TypeCorrect, PTL DEF Spec

-----------------------------------------------------------------------------
(* One watcher.                                                            *)

\* What OneWatcher needs to be inductive: a daemon that is not running has no
\* watcher and no process.
WatcherInv ==
  /\ OneWatcher
  /\ main \in {"start", "exited", "crashed"} =>
       ~running /\ proc = "none" /\ \A n \in Procs : watch[n] = "none"

LEMMA WatcherInvariance == Spec => []WatcherInv
<1> USE DEF procVars, scanVars, storeVars
<1>1. Init => WatcherInv
  BY DEF Init, ManagerInit, Fresh, OneWatcher, WatcherInv
<1>2. TypeOK /\ WatcherInv /\ [Next]_vars => WatcherInv'
  <2> SUFFICES ASSUME TypeOK, WatcherInv, [Next]_vars PROVE WatcherInv'
    OBVIOUS
  <2>1. watch \in [Procs -> {"none", "wait", "backoff"}] /\ minted \in Nat
    BY BoundsAssumption DEF TypeOK, ManagerTypeOK
  <2>2. UNCHANGED <<ctxDone, proc, running, minted, watch, main>> => WatcherInv'
    BY DEF WatcherInv, OneWatcher
  <2>3. ASSUME UNCHANGED <<proc, running, minted, watch>>, ctxDone' \/ ctxDone' = ctxDone,
               main \notin {"start", "exited", "crashed"},
               main' \notin {"start", "exited", "crashed"}
        PROVE  WatcherInv'
    BY <2>3 DEF WatcherInv, OneWatcher
  <2>4. CASE ProcessExit /\ UNCHANGED mainVars
    BY <2>4 DEF ProcessExit, mainVars, WatcherInv, OneWatcher
  <2>5. ASSUME NEW n \in Procs, WatchExit(n), UNCHANGED mainVars PROVE WatcherInv'
    BY <2>1, <2>5 DEF WatchExit, mainVars, WatcherInv, OneWatcher
  <2>6. ASSUME NEW n \in Procs, Restart(n), UNCHANGED mainVars PROVE WatcherInv'
    <3>1. n = minted /\ \A k \in Procs : k # n => watch[k] = "none"
      BY <2>1, <2>6 DEF Restart, WatcherInv, OneWatcher
    <3>2. \A k \in Procs :
            watch'[k] = IF k = minted + 1 THEN "wait" ELSE "none"
      BY <2>1, <2>6, <3>1 DEF Restart, StartFrom
    <3>3. minted' = minted + 1 /\ main \notin {"start", "exited", "crashed"}
      BY <2>1, <2>6 DEF Restart, StartFrom, WatcherInv
    <3>4. minted' \in Procs /\ watch'[minted'] = "wait" /\ main' = main
      BY BoundsAssumption, <2>1, <2>6, <3>2, <3>3 DEF Restart, StartFrom, Procs, mainVars
    <3>5. QED
      BY <2>1, <3>2, <3>3, <3>4 DEF WatcherInv, OneWatcher
  <2>7. ASSUME NEW n \in Procs, RestartFails(n), UNCHANGED mainVars PROVE WatcherInv'
    BY <2>7 DEF RestartFails, mainVars, WatcherInv, OneWatcher
  <2>8. ASSUME NEW n \in Procs, WatchStop(n), UNCHANGED mainVars PROVE WatcherInv'
    BY <2>1, <2>8 DEF WatchStop, mainVars, WatcherInv, OneWatcher
  <2>9. ASSUME NEW s \in Scanners, PrintURL(s) \/ ScannerStep(s), UNCHANGED mainVars
        PROVE  WatcherInv'
    BY <2>2, <2>9 DEF PrintURL, ScannerStep, ScanLine, RecordIncarnation, Send,
       Drain, mainVars
  <2>10. CASE MainStart
    <3>1. \A k \in Procs :
            watch'[k] = IF k = minted + 1 THEN "wait" ELSE "none"
      BY <2>1, <2>10 DEF MainStart, StartFrom, WatcherInv
    <3>2. /\ minted' = minted + 1 /\ minted' \in Procs /\ watch'[minted'] = "wait"
          /\ main' = "waitURL"
      BY BoundsAssumption, <2>1, <2>10, <3>1 DEF MainStart, StartFrom, Procs
    <3>3. QED
      BY <2>1, <3>1, <3>2 DEF WatcherInv, OneWatcher
  <2>11. CASE MainGotURL \/ MainTimeout \/ AttachRecorder \/ Wire
    BY <2>3, <2>11 DEF MainGotURL, MainTimeout, AttachRecorder, Wire, mgrVars
  <2>12. CASE ServeStart \/ ConsumerRecv \/ ConsumerAdvertise
    BY <2>2, <2>12 DEF ServeStart, ConsumerRecv, ConsumerAdvertise, mgrVars
  <2>13. CASE StopSignal \/ BeginStop \/ CloseOpenTunnelIncarnation \/ CloseStore
    BY <2>2, <2>3, <2>13 DEF StopSignal, BeginStop, CloseOpenTunnelIncarnation,
       CloseStore, mgrVars, mainVars
  <2>14. CASE Shutdown \/ Crash
    BY <2>14 DEF Shutdown, Crash, Gone, WatcherInv, OneWatcher
  <2>15. CASE Boot
    BY <2>15 DEF Boot, mgrVars, WatcherInv, OneWatcher
  <2>16. CASE UNCHANGED vars
    BY <2>2, <2>16 DEF vars, mgrVars, mainVars
  <2>17. QED
    BY <2>4, <2>5, <2>6, <2>7, <2>8, <2>9, <2>10, <2>11, <2>12, <2>13, <2>14,
       <2>15, <2>16 DEF Next, ManagerNext, WatcherStep, MainStep, StopStep
<1>3. QED
  BY <1>1, <1>2, TypeCorrect, PTL DEF Spec

\* There is never more than one restart watcher, and one that is about to call
\* Start finds running reset (manager.go:183, 311-361).
THEOREM OneWatcherHolds == Spec => []OneWatcher
<1>1. WatcherInv => OneWatcher
  BY DEF WatcherInv
<1>2. QED
  BY <1>1, WatcherInvariance, PTL

-----------------------------------------------------------------------------
(* Answers carry a checked hostname.                                       *)

\* What AnswersOnlyChecked needs to be inductive: before the serving goroutine
\* starts, the only unchecked hostname the handler can hold is the one known
\* at start-up, which is the one that goroutine checks.
AnswerInv ==
  /\ AnswersOnlyChecked
  /\ handlerURL \in checked \cup {NoURL, tunnelURL}
  /\ main \in {"start", "waitURL", "setup", "wire", "exited", "crashed"} =>
       ~answering /\ handlerURL = NoURL /\ consumer = "off"

\* The hostname in a discovery answer is one whose readiness check has
\* returned (main.go:280-313).
THEOREM AnswersOnlyCheckedHolds == Spec => []AnswersOnlyChecked
<1>1. Init => AnswerInv
  BY DEF Init, MainFresh, AnswerInv, AnswersOnlyChecked
<1>2. AnswerInv /\ [Next]_vars => AnswerInv'
  <2> SUFFICES ASSUME AnswerInv, [Next]_vars PROVE AnswerInv'
    OBVIOUS
  <2> USE DEF AnswerInv, AnswersOnlyChecked
  <2>1. CASE UNCHANGED mainVars \/ StopSignal
    BY <2>1 DEF mainVars, StopSignal
  <2>2. CASE MainStart \/ MainGotURL \/ MainTimeout \/ AttachRecorder
    BY <2>2 DEF MainStart, MainGotURL, MainTimeout, AttachRecorder
  <2>3. CASE Wire
    BY <2>3 DEF Wire
  <2>4. CASE ServeStart
    BY <2>4 DEF ServeStart
  <2>5. CASE ConsumerRecv
    BY <2>5 DEF ConsumerRecv
  <2>6. CASE ConsumerAdvertise
    BY <2>6 DEF ConsumerAdvertise
  <2>7. CASE BeginStop \/ CloseOpenTunnelIncarnation \/ CloseStore
    BY <2>7 DEF BeginStop, CloseOpenTunnelIncarnation, CloseStore
  <2>8. CASE Shutdown \/ Crash
    BY <2>8 DEF Shutdown, Crash, Gone
  <2>9. CASE Boot
    BY <2>9 DEF Boot
  <2>10. QED
    BY <2>1, <2>2, <2>3, <2>4, <2>5, <2>6, <2>7, <2>8, <2>9
       DEF Next, MainStep, StopStep, vars
<1>3. AnswerInv => AnswersOnlyChecked
  BY DEF AnswerInv
<1>4. QED
  BY <1>1, <1>2, <1>3, PTL DEF Spec

-----------------------------------------------------------------------------
(* The open row is the newest hostname's.                                  *)

Down == {"start", "exited", "crashed"}

\* What OpenRowIsLatest needs to be inductive, when the scanners of a dead
\* process are done before the next one is launched: only the newest process
\* has output to read, and until the recorder is attached a life of the daemon
\* has no rows of its own.
RowInv ==
  /\ \A s \in Scanners : ~Idle(s) => URLOf(s) = minted
  /\ \A s \in Scanners : scan[s] = "record" => latestURL = URLOf(s)
  /\ main \in Down => proc # "alive" /\ \A s \in Scanners : Idle(s)
  /\ main \in Down \cup {"waitURL", "setup"} => ~recorder
  /\ storeOpen => recorder
  /\ \A i \in DOMAIN rows : rows[i].url <= minted
  /\ main \notin {"exited", "crashed"} /\ ~recorder => \A i \in DOMAIN rows : rows[i].url <= born
  /\ OpenRowIsLatest

\* Steps that leave the table and the scanners alone.
LEMMA RowsKept ==
  ASSUME RowInv, UNCHANGED <<lines, scan, latestURL, rows, minted, born>>,
         storeOpen' => storeOpen, recorder' = recorder,
         proc' = "alive" => proc = "alive", main' \in Down => main \in Down,
         main' \in Down \cup {"waitURL", "setup"} => main \in Down \cup {"waitURL", "setup"},
         main' \notin {"exited", "crashed"} => main \notin {"exited", "crashed"}
  PROVE  RowInv'
BY DEF RowInv, OpenRowIsLatest, Idle, Down

\* A daemon that is gone.
LEMMA GoneRows ==
  ASSUME RowInv, Gone, main' \in {"exited", "crashed"} PROVE RowInv'
<1>1. \A s \in Scanners : Idle(s)' /\ scan'[s] = "read"
  BY DEF Gone, Idle
<1>2. ~storeOpen' /\ ~recorder' /\ proc' # "alive" /\ rows' = rows /\ minted' = minted
  BY DEF Gone
<1>3. QED
  BY <1>1, <1>2 DEF RowInv, OpenRowIsLatest

\* Rows after a scanner's step that leaves the hostnames alone: it moves its
\* scanner on, or takes output away.
LEMMA ScansOn ==
  ASSUME TypeOK, RowInv, NEW s \in Scanners, NEW next \in {"read", "send", "drain"},
         scan[s] # "record", ~Idle(s), scan' = [scan EXCEPT ![s] = next],
         UNCHANGED <<lines, latestURL, rows, minted, born, recorder, storeOpen, main, proc>>
  PROVE  RowInv'
<1>1. scan \in [Scanners -> {"read", "record", "send", "drain"}]
  BY DEF TypeOK, ManagerTypeOK
<1>2. \A t \in Scanners : scan'[t] = IF t = s THEN next ELSE scan[t]
  BY <1>1
<1>3. \A t \in Scanners : ~Idle(t)' => ~Idle(t)
  BY <1>2 DEF Idle
<1>4. \A t \in Scanners : scan'[t] = "record" <=> scan[t] = "record"
  BY <1>2
<1>5. main \notin Down
  BY DEF RowInv
<1>6. QED
  BY <1>3, <1>4, <1>5 DEF RowInv, OpenRowIsLatest

LEMMA RowInductive ==
  DrainBeforeRestart /\ TypeOK /\ WatcherInv /\ RowInv /\ [Next]_vars => RowInv'
<1> SUFFICES ASSUME DrainBeforeRestart, TypeOK, WatcherInv, RowInv, [Next]_vars PROVE RowInv'
  OBVIOUS
<1> USE DEF procVars, scanVars, storeVars
<1>0. /\ lines \in [Scanners -> Nat]
      /\ scan \in [Scanners -> {"read", "record", "send", "drain"}]
      /\ minted \in Nat /\ born \in Nat /\ rows \in Seq(Row)
  BY BoundsAssumption DEF TypeOK, ManagerTypeOK
<1>a. \A i \in DOMAIN rows : rows[i] \in Row /\ rows[i].url \in Nat
  <2>1. \A i \in DOMAIN rows : rows[i] \in Row
    BY <1>0
  <2>2. QED
    BY <2>1, BoundsAssumption DEF Row, Procs
<1>1. CASE ProcessExit /\ UNCHANGED mainVars
  BY <1>1, RowsKept DEF ProcessExit, mainVars
<1>2. ASSUME NEW n \in Procs, WatchExit(n), UNCHANGED mainVars PROVE RowInv'
  <2>1. PICK left \in [{s \in Scanners : URLOf(s) = n} -> 0..MaxPrints] :
          /\ \A s \in DOMAIN left : left[s] <= lines[s]
          /\ lines' = [s \in Scanners |-> IF URLOf(s) = n THEN left[s] ELSE lines[s]]
    BY <1>2 DEF WatchExit
  <2>2. UNCHANGED <<scan, latestURL, rows, minted, born, recorder, storeOpen, main, proc>>
    BY <1>2 DEF WatchExit, mainVars
  <2>3. \A s \in Scanners : Idle(s) => Idle(s)'
    <3> SUFFICES ASSUME NEW s \in Scanners, lines[s] = 0 PROVE lines'[s] = 0
      BY <2>2 DEF Idle
    <3>1. CASE URLOf(s) = n
      <4>1. left[s] \in 0..MaxPrints /\ left[s] <= 0 /\ lines'[s] = left[s]
        BY <2>1, <3>1
      <4>2. QED
        BY <4>1, BoundsAssumption
    <3>2. QED
      BY <2>1, <3>1
  <2>4. QED
    BY <2>2, <2>3 DEF RowInv, OpenRowIsLatest
<1>3. ASSUME NEW n \in Procs, Restart(n), UNCHANGED mainVars PROVE RowInv'
  <2>1. \A s \in Scanners : Idle(s)
    BY <1>3 DEF Restart
  <2>2. minted' = minted + 1
          /\ UNCHANGED <<lines, scan, latestURL, rows, born, recorder, storeOpen, main>>
    BY <1>3 DEF Restart, StartFrom, mainVars
  <2>3. \A s \in Scanners : Idle(s)'
    BY <2>1, <2>2 DEF Idle
  <2>4. \A i \in DOMAIN rows : rows[i].url <= minted'
    BY <1>0, <1>a, <2>2 DEF RowInv
  <2>5. main \notin Down
    BY <1>3 DEF Restart, WatcherInv, Down
  <2>6. QED
    BY <2>2, <2>3, <2>4, <2>5 DEF RowInv, OpenRowIsLatest, Idle
<1>4. ASSUME NEW n \in Procs, RestartFails(n) \/ WatchStop(n), UNCHANGED mainVars PROVE RowInv'
  BY <1>4, RowsKept DEF RestartFails, WatchStop, mainVars
<1>5. ASSUME NEW s \in Scanners, PrintURL(s), UNCHANGED mainVars PROVE RowInv'
  <2>1. /\ URLOf(s) = minted /\ lines' = [lines EXCEPT ![s] = @ + 1] /\ proc = "alive"
        /\ UNCHANGED <<scan, latestURL, rows, minted, born, recorder, storeOpen, main, proc>>
    BY <1>5 DEF PrintURL, mainVars
  <2>2. \A t \in Scanners : t # s => lines'[t] = lines[t]
    BY <2>1
  <2>3. \A t \in Scanners : ~Idle(t)' => URLOf(t) = minted
    BY <2>1, <2>2 DEF RowInv, Idle
  <2>4. main \notin Down
    BY <2>1 DEF RowInv
  <2>5. QED
    BY <2>1, <2>3, <2>4 DEF RowInv, OpenRowIsLatest
<1>6. ASSUME NEW s \in Scanners, ScanLine(s), UNCHANGED mainVars PROVE RowInv'
  <2>1. /\ ~Idle(s)
        /\ lines' = [lines EXCEPT ![s] = @ - 1] /\ latestURL' = URLOf(s)
        /\ scan' = [scan EXCEPT ![s] = IF latestURL = URLOf(s) THEN "read" ELSE "record"]
        /\ scan[s] = "read"
        /\ UNCHANGED <<rows, minted, born, recorder, storeOpen, main, proc>>
    BY <1>0, <1>6 DEF ScanLine, mainVars, Idle
  <2>2. URLOf(s) = minted /\ main \notin Down
    BY <2>1 DEF RowInv
  <2>3. \A t \in Scanners : t # s => lines'[t] = lines[t] /\ scan'[t] = scan[t]
    BY <2>1
  <2>4. \A t \in Scanners : ~Idle(t)' => URLOf(t) = minted
    BY <2>2, <2>3 DEF RowInv, Idle
  <2>5. scan'[s] = (IF latestURL = URLOf(s) THEN "read" ELSE "record")
    BY <1>0, <2>1
  <2>6. \A t \in Scanners : scan'[t] = "record" => latestURL' = URLOf(t)
    <3> SUFFICES ASSUME NEW t \in Scanners, scan'[t] = "record", t # s PROVE latestURL' = URLOf(t)
      BY <2>1
    <3>1. scan[t] = "record"
      BY <2>3
    <3>2. URLOf(t) = minted
      BY <3>1 DEF RowInv, Idle
    <3>3. QED
      BY <2>1, <2>2, <3>2
  <2>7. OpenRowIsLatest'
    <3>1. CASE latestURL = URLOf(s)
      <4>1. \A t \in Scanners : scan'[t] = "record" <=> scan[t] = "record"
        BY <2>1, <2>3, <2>5, <3>1
      <4>2. QED
        BY <2>1, <3>1, <4>1 DEF RowInv, OpenRowIsLatest
    <3>2. CASE latestURL # URLOf(s)
      BY <2>5, <3>2 DEF OpenRowIsLatest
    <3>3. QED
      BY <3>1, <3>2
  <2>8. QED
    BY <2>1, <2>2, <2>4, <2>6, <2>7 DEF RowInv
<1>7. ASSUME NEW s \in Scanners, RecordIncarnation(s), UNCHANGED mainVars PROVE RowInv'
  <2>1. /\ scan[s] = "record" /\ scan' = [scan EXCEPT ![s] = "send"]
        /\ UNCHANGED <<lines, latestURL, minted, born, recorder, storeOpen, main, proc>>
    BY <1>7 DEF RecordIncarnation, mainVars
  <2>2. URLOf(s) = minted /\ latestURL = URLOf(s) /\ main \notin Down
    BY <2>1 DEF RowInv, Idle
  <2>3. \A t \in Scanners : scan'[t] = IF t = s THEN "send" ELSE scan[t]
    BY <1>0, <2>1
  <2>4. \A t \in Scanners : ~Idle(t)' => URLOf(t) = minted
    BY <2>1, <2>2, <2>3 DEF RowInv, Idle
  <2>5. \A t \in Scanners : scan'[t] = "record" => latestURL = URLOf(t)
    BY <2>3 DEF RowInv
  <2>6. CASE recorder /\ rows' = Append(Closed(rows), [url |-> URLOf(s), open |-> TRUE])
    <3>1. Closed(rows) \in Seq(Row) /\ DOMAIN Closed(rows) = DOMAIN rows
            /\ \A i \in DOMAIN rows : Closed(rows)[i].open = FALSE
      BY <1>0, ClosedTable
    <3>2. \A i \in DOMAIN rows : Closed(rows)[i].url = rows[i].url
      BY <1>0, ClosedTable
    <3>3. \A i \in DOMAIN rows' :
            \/ i \in DOMAIN rows /\ rows'[i] = Closed(rows)[i]
            \/ rows'[i] = [url |-> URLOf(s), open |-> TRUE]
      BY <1>0, <2>6, <3>1
    <3>4. \A i \in DOMAIN rows' : rows'[i].url <= minted
      BY <1>0, <2>2, <3>2, <3>3 DEF RowInv
    <3>5. \A i \in DOMAIN rows' : rows'[i].open => rows'[i].url = latestURL
      BY <2>2, <3>1, <3>3
    <3>6. OpenRowIsLatest'
      BY <2>1, <3>5 DEF OpenRowIsLatest
    <3>7. QED
      BY <2>1, <2>2, <2>4, <2>5, <2>6, <3>4, <3>6 DEF RowInv
  <2>7. CASE UNCHANGED rows /\ ~(~StoreMayFail /\ storeOpen)
    BY <2>1, <2>2, <2>4, <2>5, <2>7 DEF RowInv, OpenRowIsLatest
  <2>8. QED
    BY <1>7, <2>6, <2>7 DEF RecordIncarnation, RecordTunnelIncarnation, RowInv
<1>8. ASSUME NEW s \in Scanners, Send(s) \/ Drain(s), UNCHANGED mainVars PROVE RowInv'
  <2>1. /\ scan[s] \in {"send", "drain"}
        /\ \E next \in {"read", "send", "drain"} : scan' = [scan EXCEPT ![s] = next]
        /\ UNCHANGED <<lines, latestURL, rows, minted, born, recorder, storeOpen, main, proc>>
    BY <1>8 DEF Send, Drain, mainVars
  <2>2. QED
    BY <2>1, ScansOn DEF Idle
<1>9. CASE MainStart
  <2>1. \A s \in Scanners : Idle(s)
    BY <1>9 DEF MainStart, RowInv, Down
  <2>2. minted' = minted + 1 /\ main' = "waitURL" /\ main = "start"
          /\ UNCHANGED <<lines, scan, latestURL, rows, born, recorder, storeOpen>>
    BY <1>9 DEF MainStart, StartFrom
  <2>3. \A s \in Scanners : Idle(s)' /\ scan'[s] # "record"
    BY <2>1, <2>2 DEF Idle
  <2>4. \A i \in DOMAIN rows : rows[i].url <= minted'
    BY <1>0, <1>a, <2>2 DEF RowInv
  <2>5. ~storeOpen
    BY <2>2 DEF RowInv, Down
  <2>6. QED
    BY <2>2, <2>3, <2>4, <2>5 DEF RowInv, OpenRowIsLatest, Down
<1>10. CASE MainGotURL \/ MainTimeout \/ Wire \/ ServeStart \/ ConsumerRecv \/ ConsumerAdvertise
  BY <1>10, RowsKept DEF MainGotURL, MainTimeout, Wire, ServeStart, ConsumerRecv,
     ConsumerAdvertise, mgrVars, Down
<1>11. CASE AttachRecorder
  <2>1. /\ main = "setup" /\ main' = "wire"
        /\ UNCHANGED <<lines, scan, latestURL, rows, minted, born, proc>>
        /\ (recorder' = TRUE /\ storeOpen' = TRUE) \/ UNCHANGED <<recorder, storeOpen>>
    BY <1>11 DEF AttachRecorder
  <2>2. CASE UNCHANGED <<recorder, storeOpen>>
    BY <2>1, <2>2, RowsKept DEF Down
  <2>3. CASE recorder' = TRUE /\ storeOpen' = TRUE
    <3>1. \A i \in DOMAIN rows : ~(rows[i].url > born)
      BY <1>0, <1>a, <2>1 DEF RowInv
    <3>2. QED
      BY <2>1, <2>3, <3>1 DEF RowInv, OpenRowIsLatest, Idle, Down
  <2>4. QED
    BY <2>1, <2>2, <2>3
<1>12. CASE StopSignal \/ BeginStop \/ CloseStore
  BY <1>12, RowsKept DEF StopSignal, BeginStop, CloseStore, mgrVars, mainVars, Down
<1>13. CASE CloseOpenTunnelIncarnation
  <2>1. main = "closeRow" /\ main' = "closeStore"
          /\ UNCHANGED <<lines, scan, latestURL, minted, born, recorder, storeOpen, proc>>
    BY <1>13 DEF CloseOpenTunnelIncarnation
  <2>2. CASE UNCHANGED rows
    BY <2>1, <2>2, RowsKept DEF Down
  <2>3. CASE rows' = Closed(rows)
    <3>1. DOMAIN rows' = DOMAIN rows /\ \A i \in DOMAIN rows : rows'[i].open = FALSE
      BY <1>0, <2>3, ClosedTable
    <3>2. \A i \in DOMAIN rows : rows'[i].url = rows[i].url
      BY <1>0, <2>3, ClosedTable
    <3>3. QED
      BY <2>1, <3>1, <3>2 DEF RowInv, OpenRowIsLatest, Idle, Down
  <2>4. QED
    BY <1>13, <2>2, <2>3 DEF CloseOpenTunnelIncarnation
<1>14. CASE Shutdown \/ Crash
  BY <1>14, GoneRows DEF Shutdown, Crash
<1>15. CASE Boot
  <2>1. /\ main \in {"exited", "crashed"} /\ main' = "start" /\ born' = minted
        /\ UNCHANGED <<lines, scan, latestURL, rows, minted, recorder, storeOpen, proc>>
    BY <1>15 DEF Boot, mgrVars
  <2>2. QED
    BY <2>1 DEF RowInv, OpenRowIsLatest, Idle, Down
<1>16. CASE UNCHANGED vars
  BY <1>16, RowsKept DEF vars, mgrVars, mainVars
<1>17. QED
  BY <1>1, <1>2, <1>3, <1>4, <1>5, <1>6, <1>7, <1>8, <1>9, <1>10, <1>11, <1>12, <1>13, <1>14,
     <1>15, <1>16 DEF Next, ManagerNext, WatcherStep, ScannerStep, MainStep, StopStep

LEMMA RowInvariance == DrainBeforeRestart => (Spec => []RowInv)
<1> SUFFICES ASSUME DrainBeforeRestart PROVE Spec => []RowInv
  OBVIOUS
<1>1. Init => RowInv
  BY DEF Init, ManagerInit, Fresh, MainFresh, RowInv, OpenRowIsLatest, Idle
<1>2. TypeOK /\ WatcherInv /\ RowInv /\ [Next]_vars => RowInv'
  BY RowInductive
<1>3. QED
  BY <1>1, <1>2, TypeCorrect, WatcherInvariance, PTL DEF Spec

\* With writes that succeed, the open row of a daemon's own is the row of the
\* newest hostname its scanners have read, as long as a dead process's output
\* is read within the restart backoff (manager.go:277-289, history.go:161).
THEOREM OpenRowIsLatestHolds == DrainBeforeRestart => (Spec => []OpenRowIsLatest)
<1>1. RowInv => OpenRowIsLatest
  BY DEF RowInv
<1>2. QED
  BY <1>1, RowInvariance, PTL

-----------------------------------------------------------------------------
(* The advertisement implements its specification.                         *)

\* The order of hostnames along the way from a scanner to the answers: what is
\* downstream is never newer than what is upstream.
AdvertInv ==
  /\ latestURL <= minted
  /\ \A s \in Scanners : scan[s] # "read" => latestURL = URLOf(s)
  /\ notify <= latestURL /\ tunnelURL <= latestURL
  /\ newURL <= latestURL /\ handlerURL <= latestURL
  /\ notify # NoURL => tunnelURL <= notify /\ newURL <= notify /\ handlerURL <= notify
  /\ newURL # NoURL => handlerURL < newURL
  /\ consumer = "await" <=> newURL # NoURL
  /\ main \in Down \cup {"waitURL"} => tunnelURL = NoURL
  /\ main \in Down \cup {"waitURL", "setup", "wire"} =>
       handlerURL = NoURL /\ newURL = NoURL /\ consumer = "off"

URLNumbers ==
  /\ latestURL \in Nat /\ notify \in Nat /\ minted \in Nat
  /\ tunnelURL \in Nat /\ newURL \in Nat /\ handlerURL \in Nat

LEMMA Numbered == TypeOK => URLNumbers
BY BoundsAssumption DEF TypeOK, ManagerTypeOK, URLs, Procs, NoURL, URLNumbers

\* Every step keeps the order, and is a step of the advertisement or invisible.
LEMMA AdvertStep ==
  ASSUME TypeOK, RowInv, AdvertInv, [Next]_vars
  PROVE  AdvertInv' /\ [Advert!Next]_(Advert!advertVars)
<1> USE DEF procVars, scanVars, storeVars, NoURL
<1>0. URLNumbers /\ scan \in [Scanners -> {"read", "record", "send", "drain"}]
  BY Numbered DEF TypeOK, ManagerTypeOK
<1>a. ASSUME UNCHANGED <<latestURL, handlerURL>> PROVE [Advert!Next]_(Advert!advertVars)
  BY <1>a DEF Advert!advertVars
<1>b. ASSUME UNCHANGED <<scan, latestURL, notify, tunnelURL, newURL, handlerURL, consumer>>,
             minted' \in Nat, minted <= minted',
             main' \in Down \cup {"waitURL"} => main \in Down \cup {"waitURL"},
             main' \in Down \cup {"waitURL", "setup", "wire"}
               => main \in Down \cup {"waitURL", "setup", "wire"}
      PROVE  AdvertInv' /\ [Advert!Next]_(Advert!advertVars)
  BY <1>0, <1>a, <1>b DEF AdvertInv, URLNumbers
<1>1. ASSUME \/ ProcessExit \/ \E n \in Procs : WatcherStep(n)
             \/ \E s \in Scanners : PrintURL(s),
             UNCHANGED mainVars
      PROVE  AdvertInv' /\ [Advert!Next]_(Advert!advertVars)
  <2>1. UNCHANGED <<scan, latestURL, notify, tunnelURL, newURL, handlerURL, consumer, main>>
    BY <1>1 DEF ProcessExit, WatcherStep, WatchExit, Restart, RestartFails, WatchStop, PrintURL,
       mainVars
  <2>2. minted' = minted \/ minted' = minted + 1
    BY <1>1 DEF ProcessExit, WatcherStep, WatchExit, Restart, StartFrom, RestartFails, WatchStop,
       PrintURL
  <2>3. minted' \in Nat /\ minted <= minted'
    BY <1>0, <2>2 DEF URLNumbers
  <2>4. QED
    BY <1>b, <2>1, <2>3
<1>2. ASSUME NEW s \in Scanners, ScanLine(s), UNCHANGED mainVars
      PROVE  AdvertInv' /\ [Advert!Next]_(Advert!advertVars)
  <2>1. /\ scan[s] = "read" /\ lines[s] > 0 /\ latestURL' = URLOf(s)
        /\ scan' = [scan EXCEPT ![s] = IF latestURL = URLOf(s) THEN "read" ELSE "record"]
        /\ UNCHANGED <<minted, notify, tunnelURL, newURL, handlerURL, consumer, main>>
    BY <1>2 DEF ScanLine, mainVars
  <2>2. URLOf(s) = minted
    <3>1. lines[s] \in Nat
      BY DEF TypeOK, ManagerTypeOK
    <3>2. ~Idle(s)
      BY <2>1, <3>1 DEF Idle
    <3>3. QED
      BY <3>2 DEF RowInv
  <2>3. \A t \in Scanners : scan'[t] # "read" => URLOf(t) = minted
    <3> SUFFICES ASSUME NEW t \in Scanners, t # s, scan'[t] # "read" PROVE URLOf(t) = minted
      BY <2>2
    <3>1. scan[t] # "read"
      BY <2>1
    <3>2. QED
      BY <3>1 DEF RowInv, Idle
  <2>4. latestURL' = minted /\ latestURL <= minted
    BY <2>1, <2>2 DEF AdvertInv
  <2>5. AdvertInv'
    BY <1>0, <2>1, <2>3, <2>4 DEF AdvertInv, URLNumbers
  <2>6. CASE latestURL' = latestURL
    BY <1>a, <2>1, <2>5, <2>6
  <2>7. CASE latestURL' # latestURL
    <3>1. latestURL' \in Nat /\ latestURL' > latestURL /\ handlerURL' = handlerURL
      BY <1>0, <2>1, <2>4, <2>7 DEF URLNumbers
    <3>2. Advert!See
      BY <3>1 DEF Advert!See
    <3>3. QED
      BY <2>5, <3>2 DEF Advert!Next
  <2>8. QED
    BY <2>6, <2>7
<1>3. ASSUME NEW s \in Scanners, RecordIncarnation(s) \/ Send(s) \/ Drain(s), UNCHANGED mainVars
      PROVE  AdvertInv' /\ [Advert!Next]_(Advert!advertVars)
  <2>1. /\ scan[s] # "read" /\ notify' \in {notify, NoURL, URLOf(s)}
        /\ \E next \in {"read", "send", "drain"} : scan' = [scan EXCEPT ![s] = next]
        /\ UNCHANGED <<latestURL, minted, tunnelURL, newURL, handlerURL, consumer, main>>
    BY <1>3 DEF RecordIncarnation, Send, Drain, mainVars
  <2>2. URLOf(s) = latestURL
    BY <2>1 DEF AdvertInv
  <2>3. \A t \in Scanners : scan'[t] # "read" => scan[t] # "read"
    BY <1>0, <2>1
  <2>4. AdvertInv'
    BY <1>0, <2>1, <2>2, <2>3 DEF AdvertInv, URLNumbers
  <2>5. QED
    BY <1>a, <2>1, <2>4
<1>4. CASE MainStart \/ MainTimeout \/ AttachRecorder \/ ServeStart
  <2>1. UNCHANGED <<scan, latestURL, notify, tunnelURL, newURL, handlerURL, consumer>>
          /\ (minted' = minted \/ minted' = minted + 1)
    BY <1>4 DEF MainStart, StartFrom, MainTimeout, AttachRecorder, ServeStart, mgrVars
  <2>2. minted' \in Nat /\ minted <= minted'
    BY <1>0, <2>1 DEF URLNumbers
  <2>3. /\ main' \in Down \cup {"waitURL"} => main \in Down \cup {"waitURL"}
        /\ main' \in Down \cup {"waitURL", "setup", "wire"}
               => main \in Down \cup {"waitURL", "setup", "wire"}
    BY <1>4 DEF MainStart, MainTimeout, AttachRecorder, ServeStart, Down
  <2>4. QED
    BY <1>b, <2>1, <2>2, <2>3
<1>5. CASE MainGotURL
  <2>1. /\ main = "waitURL" /\ main' = "setup" /\ notify # NoURL
        /\ tunnelURL' = notify /\ notify' = NoURL
        /\ UNCHANGED <<scan, latestURL, minted, newURL, handlerURL, consumer>>
    BY <1>5 DEF MainGotURL
  <2>2. AdvertInv'
    BY <1>0, <2>1 DEF AdvertInv, URLNumbers, Down
  <2>3. QED
    BY <1>a, <2>1, <2>2
<1>6. CASE Wire
  <2>1. /\ main = "wire" /\ main' = "run" /\ handlerURL' = tunnelURL /\ consumer' = "recv"
        /\ UNCHANGED <<scan, latestURL, minted, notify, newURL, tunnelURL>>
    BY <1>6 DEF Wire, mgrVars
  <2>2. handlerURL = NoURL /\ newURL = NoURL
    BY <2>1 DEF AdvertInv
  <2>3. AdvertInv'
    BY <1>0, <2>1, <2>2 DEF AdvertInv, URLNumbers, Down
  <2>4. CASE tunnelURL = NoURL
    BY <1>a, <2>1, <2>2, <2>3, <2>4
  <2>5. CASE tunnelURL # NoURL
    <3>1. handlerURL' \in (handlerURL + 1)..latestURL /\ latestURL' = latestURL
      BY <1>0, <2>1, <2>2, <2>5 DEF AdvertInv, URLNumbers
    <3>2. Advert!Advertise
      BY <3>1 DEF Advert!Advertise
    <3>3. QED
      BY <2>3, <3>2 DEF Advert!Next
  <2>6. QED
    BY <2>4, <2>5
<1>7. CASE ConsumerRecv
  <2>1. /\ consumer = "recv" /\ notify # NoURL /\ notify' = NoURL
        /\ \/ UNCHANGED <<consumer, newURL>>
           \/ notify # handlerURL /\ consumer' = "await" /\ newURL' = notify
        /\ UNCHANGED <<scan, latestURL, minted, tunnelURL, handlerURL, main>>
    BY <1>7 DEF ConsumerRecv
  <2>2. main \notin Down \cup {"waitURL", "setup", "wire"}
    BY <2>1 DEF AdvertInv
  <2>3. AdvertInv'
    BY <1>0, <2>1, <2>2 DEF AdvertInv, URLNumbers
  <2>4. QED
    BY <1>a, <2>1, <2>3
<1>8. CASE ConsumerAdvertise
  <2>1. /\ consumer = "await" /\ handlerURL' = newURL /\ consumer' = "recv" /\ newURL' = NoURL
        /\ UNCHANGED <<scan, latestURL, minted, notify, tunnelURL, main>>
    BY <1>8 DEF ConsumerAdvertise, mgrVars
  <2>2. newURL # NoURL /\ handlerURL < newURL /\ newURL <= latestURL
    BY <2>1 DEF AdvertInv
  <2>3. main \notin Down \cup {"waitURL", "setup", "wire"}
    BY <2>2 DEF AdvertInv
  <2>4. AdvertInv'
    BY <1>0, <2>1, <2>2, <2>3 DEF AdvertInv, URLNumbers
  <2>5. handlerURL' \in (handlerURL + 1)..latestURL /\ latestURL' = latestURL
    BY <1>0, <2>1, <2>2 DEF URLNumbers
  <2>6. Advert!Advertise
    BY <2>5 DEF Advert!Advertise
  <2>7. QED
    BY <2>4, <2>6 DEF Advert!Next
<1>9. CASE StopSignal \/ BeginStop \/ CloseOpenTunnelIncarnation \/ CloseStore \/ Boot
           \/ UNCHANGED vars
  <2>1. UNCHANGED <<scan, latestURL, notify, tunnelURL, newURL, handlerURL, consumer, minted>>
    BY <1>9 DEF StopSignal, BeginStop, CloseOpenTunnelIncarnation, CloseStore, Boot, vars, mgrVars,
       mainVars
  <2>2. /\ main' \in Down \cup {"waitURL"} => main \in Down \cup {"waitURL"}
        /\ main' \in Down \cup {"waitURL", "setup", "wire"}
               => main \in Down \cup {"waitURL", "setup", "wire"}
    BY <1>9 DEF StopSignal, BeginStop, CloseOpenTunnelIncarnation, CloseStore, Boot, vars, mainVars,
       Down
  <2>3. QED
    BY <1>0, <1>b, <2>1, <2>2 DEF URLNumbers
<1>10. CASE Shutdown \/ Crash
  <2>1. /\ latestURL' = NoURL /\ notify' = NoURL /\ tunnelURL' = NoURL /\ newURL' = NoURL
        /\ handlerURL' = NoURL /\ consumer' = "off" /\ minted' = minted
        /\ \A s \in Scanners : scan'[s] = "read"
    BY <1>10 DEF Shutdown, Crash, Gone
  <2>2. AdvertInv'
    BY <1>0, <2>1 DEF AdvertInv, URLNumbers
  <2>3. Advert!Down
    BY <2>1 DEF Advert!Down
  <2>4. QED
    BY <2>2, <2>3 DEF Advert!Next
<1>11. QED
  BY <1>1, <1>2, <1>3, <1>4, <1>5, <1>6, <1>7, <1>8, <1>9, <1>10
     DEF Next, ManagerNext, ScannerStep, MainStep, StopStep

LEMMA AdvertBegins == Init => AdvertInv /\ Advert!Init
BY BoundsAssumption DEF Init, ManagerInit, Fresh, MainFresh, AdvertInv, Advert!Init, NoURL

LEMMA AdvertInvariance == DrainBeforeRestart => (Spec => []AdvertInv)
<1> SUFFICES ASSUME DrainBeforeRestart PROVE Spec => []AdvertInv
  OBVIOUS
<1>1. TypeOK /\ RowInv /\ AdvertInv /\ [Next]_vars => AdvertInv'
  BY AdvertStep
<1>2. QED
  BY <1>1, AdvertBegins, TypeCorrect, RowInvariance, PTL DEF Spec

\* Two scanners, a channel of one, the consumer and the readiness check
\* together implement the advertisement: it moves to newer hostnames only and
\* to none that was not read, as long as a dead process's output is read within
\* the restart backoff (manager.go:244-307, main.go:280-313).
THEOREM AdvertImplemented == DrainBeforeRestart => (Spec => ImplementsAdvert)
<1>1. TypeOK /\ RowInv /\ AdvertInv /\ [Next]_vars
        => AdvertInv' /\ [Advert!Next]_(Advert!advertVars)
  BY AdvertStep
<1>2. QED
  BY <1>1, AdvertBegins, TypeCorrect, RowInvariance, PTL DEF Spec, ImplementsAdvert, Advert!Spec

\* What manager.go:291-294 says of the channel is true of the daemon whose
\* scanners finish within the restart backoff: neither the channel nor the
\* answers ever go back to an older hostname.  Without the hypothesis they do
\* (README, 4).
THEOREM LatestWinsHolds == DrainBeforeRestart => (Spec => LatestWins)
<1> SUFFICES ASSUME DrainBeforeRestart PROVE Spec => LatestWins
  OBVIOUS
<1> DEFINE Forward == /\ handlerURL' # NoURL => handlerURL' >= handlerURL
                      /\ notify' # NoURL => notify' >= notify
<1>1. TypeOK /\ TypeOK' /\ RowInv /\ AdvertInv /\ [Next]_vars => [Forward]_vars
  <2> SUFFICES ASSUME TypeOK, TypeOK', RowInv, AdvertInv, [Next]_vars PROVE Forward
    OBVIOUS
  <2>1. URLNumbers
    BY Numbered
  <2>2. [Advert!Next]_(Advert!advertVars)
    BY AdvertStep
  <2>3. handlerURL' # NoURL => handlerURL' >= handlerURL
    <3>1. CASE Advert!Advertise
      BY <2>1, <3>1 DEF Advert!Advertise, URLNumbers
    <3>2. CASE Advert!Down
      BY <3>2 DEF Advert!Down, NoURL
    <3>3. CASE handlerURL' = handlerURL
      BY <2>1, <3>3 DEF URLNumbers
    <3>4. QED
      BY <2>2, <3>1, <3>2, <3>3 DEF Advert!Next, Advert!See, Advert!advertVars
  <2>4. notify' = notify \/ notify' = NoURL \/ notify = NoURL
    <3>1. CASE ManagerNext
      BY <3>1 DEF ManagerNext, ProcessExit, WatcherStep, WatchExit, Restart, RestartFails,
         WatchStop, PrintURL, ScannerStep, ScanLine, RecordIncarnation, Send, Drain
    <3>2. CASE MainStep
      BY <3>2 DEF MainStep, MainStart, MainGotURL, MainTimeout, AttachRecorder, Wire, ServeStart,
         ConsumerRecv, ConsumerAdvertise, mgrVars
    <3>3. CASE StopStep
      BY <3>3 DEF StopStep, StopSignal, BeginStop, CloseOpenTunnelIncarnation, CloseStore,
         Shutdown, Crash, Gone, Boot, mgrVars
    <3>4. QED
      BY <3>1, <3>2, <3>3 DEF Next, vars, mgrVars
  <2>5. notify' # NoURL => notify' >= notify
    <3>1. CASE notify' = notify
      BY <2>1, <3>1 DEF URLNumbers
    <3>2. CASE notify' = NoURL
      BY <3>2
    <3>3. CASE notify = NoURL /\ notify' # notify
      <4>1. notify' \in Nat
        BY BoundsAssumption DEF TypeOK, ManagerTypeOK, URLs, Procs, NoURL
      <4>2. QED
        BY <3>3, <4>1 DEF NoURL
    <3>4. QED
      BY <2>4, <3>1, <3>2, <3>3
  <2>6. QED
    BY <2>3, <2>5
<1>2. QED
  BY <1>1, AdvertInvariance, TypeCorrect, RowInvariance, PTL DEF Spec, LatestWins

-----------------------------------------------------------------------------
(* The newest hostname is never lost.                                      *)

\* The newest hostname read is held by some goroutine that will pass it on, or
\* is already in the answers: a scanner, the channel, run() before it creates
\* the handler, or the consumer.  LatestIsAdvertised adds only that each of
\* them does run.
NewestOnItsWay ==
  latestURL # NoURL =>
     \/ latestURL \in {notify, newURL, handlerURL}
     \/ latestURL = tunnelURL /\ main \in {"setup", "wire"}
     \/ \E s \in Scanners : URLOf(s) = latestURL /\ scan[s] # "read"

LEMMA NewestStep ==
  ASSUME TypeOK, AdvertInv, NewestOnItsWay, [Next]_vars
  PROVE  NewestOnItsWay'
<1> USE DEF procVars, scanVars, storeVars, NewestOnItsWay
<1>0. URLNumbers /\ scan \in [Scanners -> {"read", "record", "send", "drain"}]
  BY Numbered DEF TypeOK, ManagerTypeOK
<1>a. ASSUME UNCHANGED <<scan, latestURL, notify, tunnelURL, newURL, handlerURL>>,
             main \in {"setup", "wire"} => main' \in {"setup", "wire"}
      PROVE  NewestOnItsWay'
  BY <1>a
<1>1. ASSUME \/ ProcessExit \/ \E n \in Procs : WatcherStep(n)
             \/ \E s \in Scanners : PrintURL(s),
             UNCHANGED mainVars
      PROVE  NewestOnItsWay'
  BY <1>1, <1>a DEF ProcessExit, WatcherStep, WatchExit, Restart, RestartFails, WatchStop, PrintURL,
     mainVars
<1>2. ASSUME NEW s \in Scanners, ScanLine(s), UNCHANGED mainVars PROVE NewestOnItsWay'
  <2>1. /\ latestURL' = URLOf(s)
        /\ scan' = [scan EXCEPT ![s] = IF latestURL = URLOf(s) THEN "read" ELSE "record"]
        /\ scan[s] = "read"
        /\ UNCHANGED <<notify, tunnelURL, newURL, handlerURL, main>>
    BY <1>2 DEF ScanLine, mainVars
  <2>2. CASE latestURL = URLOf(s)
    BY <1>0, <1>a, <2>1, <2>2
  <2>3. CASE latestURL # URLOf(s)
    BY <1>0, <2>1, <2>3
  <2>4. QED
    BY <2>2, <2>3
<1>3. ASSUME NEW s \in Scanners, RecordIncarnation(s) \/ Drain(s), UNCHANGED mainVars
      PROVE  NewestOnItsWay'
  <2>1. /\ scan[s] # "read" /\ scan' = [scan EXCEPT ![s] = "send"]
        /\ UNCHANGED <<latestURL, tunnelURL, newURL, handlerURL, main>>
    BY <1>3 DEF RecordIncarnation, Drain, mainVars
  <2>2. URLOf(s) = latestURL /\ scan'[s] # "read"
    BY <1>0, <2>1 DEF AdvertInv
  <2>3. QED
    BY <2>1, <2>2
<1>4. ASSUME NEW s \in Scanners, Send(s), UNCHANGED mainVars PROVE NewestOnItsWay'
  <2>1. scan[s] # "read" /\ latestURL' = latestURL
    BY <1>4 DEF Send
  <2>2. URLOf(s) = latestURL
    BY <2>1 DEF AdvertInv
  <2>3. notify' = URLOf(s) \/ scan'[s] = "drain"
    BY <1>0, <1>4 DEF Send
  <2>4. QED
    BY <2>1, <2>2, <2>3
<1>5. CASE MainStart \/ MainTimeout \/ AttachRecorder \/ ServeStart \/ StopSignal \/ BeginStop
           \/ CloseOpenTunnelIncarnation \/ CloseStore \/ Boot \/ UNCHANGED vars
  BY <1>5, <1>a DEF MainStart, MainTimeout, AttachRecorder, ServeStart, StopSignal, BeginStop,
     CloseOpenTunnelIncarnation, CloseStore, Boot, vars, mgrVars, mainVars
<1>6. CASE MainGotURL
  BY <1>6 DEF MainGotURL
<1>7. CASE Wire
  <2>1. handlerURL = NoURL
    BY <1>7 DEF Wire, AdvertInv
  <2>2. QED
    BY <1>7, <2>1 DEF Wire, mgrVars
<1>8. CASE ConsumerRecv
  <2>1. newURL = NoURL
    BY <1>8 DEF ConsumerRecv, AdvertInv
  <2>2. QED
    BY <1>8, <2>1 DEF ConsumerRecv
<1>9. CASE ConsumerAdvertise
  <2>1. newURL # NoURL /\ handlerURL < newURL /\ newURL <= latestURL
    BY <1>9 DEF ConsumerAdvertise, AdvertInv
  <2>2. handlerURL # latestURL
    BY <1>0, <2>1 DEF URLNumbers
  <2>3. QED
    BY <1>9, <2>2 DEF ConsumerAdvertise, mgrVars
<1>10. CASE Shutdown \/ Crash
  BY <1>10 DEF Shutdown, Crash, Gone
<1>11. QED
  BY <1>1, <1>2, <1>3, <1>4, <1>5, <1>6, <1>7, <1>8, <1>9, <1>10
     DEF Next, ManagerNext, ScannerStep, MainStep, StopStep

\* No interleaving of scanners, a full channel, a rotation during start-up or a
\* failing write drops the newest hostname on its way to the answers
\* (manager.go:277-307, main.go:85-92, 232, 299-313).
THEOREM NewestOnItsWayHolds == DrainBeforeRestart => (Spec => []NewestOnItsWay)
<1> SUFFICES ASSUME DrainBeforeRestart PROVE Spec => []NewestOnItsWay
  OBVIOUS
<1>1. Init => NewestOnItsWay
  BY DEF Init, ManagerInit, Fresh, NewestOnItsWay
<1>2. TypeOK /\ AdvertInv /\ NewestOnItsWay /\ [Next]_vars => NewestOnItsWay'
  BY NewestStep
<1>3. QED
  BY <1>1, <1>2, TypeCorrect, AdvertInvariance, PTL DEF Spec

=============================================================================
