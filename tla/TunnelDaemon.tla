---------------------------- MODULE TunnelDaemon ----------------------------
(***************************************************************************)
(* The daemon around the tunnel manager: how run() of cmd/dl_conn/main.go  *)
(* waits for the first hostname, attaches the incarnation recorder, starts *)
(* answering discovery requests once the hostname is reachable, and moves  *)
(* its answers to every later hostname; and how it stops, crashes and is   *)
(* started again over the same history database.                           *)
(***************************************************************************)
EXTENDS TunnelManager

CONSTANT MaxLives  \* bound: times the daemon is started

ASSUME LivesAssumption == MaxLives \in Nat \ {0}

VARIABLES
  lives,       \* daemon starts so far
  born,        \* minted when this daemon started: its own hostnames are newer
  main,        \* where run() is
  tunnelURL,   \* run()'s local tunnelURL: the hostname known at start-up
  answering,   \* handler.Serve is running: discovery requests are answered
  consumer,    \* the rotation goroutine: "off", "recv" or "await"
  newURL,      \* its local newURL
  handlerURL,  \* Handler.tunnelURL, what an answer carries
  checked      \* hostnames whose awaitTunnelReady has returned

mainVars == <<lives, born, main, tunnelURL, answering, consumer, newURL,
              handlerURL, checked>>
vars == <<mgrVars, mainVars>>

Phases == {"start", "waitURL", "setup", "wire", "run", "closeRow",
           "closeStore", "shutdown", "exited", "crashed"}

TypeOK ==
  /\ ManagerTypeOK
  /\ lives \in 1..MaxLives
  /\ born \in 0..MaxStarts
  /\ main \in Phases
  /\ tunnelURL \in URLs
  /\ answering \in BOOLEAN
  /\ consumer \in {"off", "recv", "await"}
  /\ newURL \in URLs
  /\ handlerURL \in URLs
  /\ checked \subseteq URLs

MainFresh ==
  /\ main = "start"
  /\ tunnelURL = NoURL
  /\ answering = FALSE
  /\ consumer = "off"
  /\ newURL = NoURL
  /\ handlerURL = NoURL
  /\ checked = {}

Init ==
  /\ ManagerInit
  /\ MainFresh
  /\ lives = 1
  /\ born = 0

-----------------------------------------------------------------------------
(* run() *)

\* The first launch.  A refused one ends run() with an error before anything
\* else exists, which is the state before it.
MainStart ==
  /\ main = "start"
  /\ StartFrom(watch)
  /\ main' = "waitURL"
  /\ UNCHANGED <<ctxDone, scanVars, notify, storeVars, rows, lives, born,
                 tunnelURL, answering, consumer, newURL, handlerURL, checked>>

\* The hostname arrives within 15 seconds.
MainGotURL ==
  /\ main = "waitURL"
  /\ notify # NoURL
  /\ tunnelURL' = notify
  /\ notify' = NoURL
  /\ main' = "setup"
  /\ UNCHANGED <<ctxDone, procVars, scanVars, storeVars, rows, lives, born,
                 answering, consumer, newURL, handlerURL, checked>>

\* It does not.
MainTimeout ==
  /\ main = "waitURL"
  /\ main' = "setup"
  /\ UNCHANGED <<mgrVars, lives, born, tunnelURL, answering, consumer, newURL,
                 handlerURL, checked>>

\* The database is opened and the recorder attached, or opening failed and the
\* daemon goes on without.
AttachRecorder ==
  /\ main = "setup"
  /\ main' = "wire"
  /\ \/ recorder' = TRUE /\ storeOpen' = TRUE
     \/ StoreMayFail /\ UNCHANGED storeVars
  /\ UNCHANGED <<ctxDone, procVars, scanVars, notify, rows, lives, born,
                 tunnelURL, answering, consumer, newURL, handlerURL, checked>>

\* The discovery handler is created with the first hostname and the rotation
\* goroutine starts.
Wire ==
  /\ main = "wire"
  /\ main' = "run"
  /\ handlerURL' = tunnelURL
  /\ consumer' = "recv"
  /\ UNCHANGED <<mgrVars, lives, born, tunnelURL, answering, newURL, checked>>

\* The serving goroutine: awaitTunnelReady returns for the first hostname
\* (reachable, or out of budget), or there is none to wait for.
ServeStart ==
  /\ main = "run"
  /\ ~answering
  /\ answering' = TRUE
  /\ checked' = checked \cup ({tunnelURL} \ {NoURL})
  /\ UNCHANGED <<mgrVars, lives, born, main, tunnelURL, consumer, newURL, handlerURL>>

\* Mutant of ConsumerRecv: the hostname is advertised before it is checked.
RecvAndAdvertise ==
  /\ consumer = "recv"
  /\ notify # NoURL
  /\ notify' = NoURL
  /\ consumer' = "await" /\ newURL' = notify /\ handlerURL' = notify
  /\ UNCHANGED <<ctxDone, procVars, scanVars, storeVars, rows, lives, born, main,
                 tunnelURL, answering, checked>>

\* The rotation goroutine takes a hostname off the channel.
ConsumerRecv ==
  /\ consumer = "recv"
  /\ notify # NoURL
  /\ notify' = NoURL
  /\ \/ notify = handlerURL /\ UNCHANGED <<consumer, newURL>>
     \/ notify # handlerURL /\ consumer' = "await" /\ newURL' = notify
  /\ UNCHANGED <<ctxDone, procVars, scanVars, storeVars, rows, lives, born, main,
                 tunnelURL, answering, handlerURL, checked>>

\* awaitTunnelReady returns (reachable, out of budget or cancelled) and the
\* hostname is advertised.
ConsumerAdvertise ==
  /\ consumer = "await"
  /\ checked' = checked \cup {newURL}
  /\ handlerURL' = newURL
  /\ consumer' = "recv"
  /\ newURL' = NoURL
  /\ UNCHANGED <<mgrVars, lives, born, main, tunnelURL, answering>>

-----------------------------------------------------------------------------
(* Stopping: the context is cancelled, run() returns, and its deferred     *)
(* calls run last registered first.                                        *)

\* SIGTERM or SIGINT, at any time.
StopSignal ==
  /\ main \notin {"start", "exited", "crashed"}
  /\ ~ctxDone
  /\ ctxDone' = TRUE
  /\ UNCHANGED <<procVars, scanVars, notify, storeVars, rows, mainVars>>

\* run() looks at its context while it waits for the first hostname, and
\* again once everything is started.
BeginStop ==
  /\ main \in {"waitURL", "run"}
  /\ ctxDone
  /\ main' = IF main = "run" /\ storeOpen THEN "closeRow" ELSE "shutdown"
  /\ UNCHANGED <<mgrVars, lives, born, tunnelURL, answering, consumer, newURL,
                 handlerURL, checked>>

CloseOpenTunnelIncarnation ==
  /\ main = "closeRow"
  /\ \/ rows' = Closed(rows)
     \/ StoreMayFail /\ UNCHANGED rows
  /\ main' = "closeStore"
  /\ UNCHANGED <<ctxDone, procVars, scanVars, notify, storeVars, lives, born,
                 tunnelURL, answering, consumer, newURL, handlerURL, checked>>

CloseStore ==
  /\ main = "closeStore"
  /\ storeOpen' = FALSE
  /\ main' = "shutdown"
  /\ UNCHANGED <<ctxDone, procVars, scanVars, notify, recorder, rows, lives, born,
                 tunnelURL, answering, consumer, newURL, handlerURL, checked>>

\* The daemon's memory is gone and its goroutines with it.
Gone ==
  /\ ctxDone' = FALSE /\ proc' = "none" /\ running' = FALSE
  /\ watch' = [n \in Procs |-> "none"]
  /\ printed' = 0
  /\ lines' = [s \in Scanners |-> 0]
  /\ scan' = [s \in Scanners |-> "read"]
  /\ latestURL' = NoURL /\ notify' = NoURL
  /\ recorder' = FALSE /\ storeOpen' = FALSE
  /\ tunnelURL' = NoURL /\ answering' = FALSE
  /\ consumer' = "off" /\ newURL' = NoURL
  /\ handlerURL' = NoURL /\ checked' = {}
  /\ UNCHANGED <<minted, fails, rows, lives, born>>

\* Shutdown signals the subprocess and waits for it; run() returns.
Shutdown ==
  /\ main = "shutdown"
  /\ main' = "exited"
  /\ Gone

\* The daemon is killed, at any time after its start.
Crash ==
  /\ main \notin {"start", "exited", "crashed"}
  /\ main' = "crashed"
  /\ Gone

\* The service manager starts the daemon again.
Boot ==
  /\ main \in {"exited", "crashed"}
  /\ lives < MaxLives
  /\ lives' = lives + 1
  /\ born' = minted
  /\ main' = "start"
  /\ UNCHANGED <<mgrVars, tunnelURL, answering, consumer, newURL, handlerURL, checked>>

MainStep ==
  \/ MainStart \/ MainGotURL \/ MainTimeout \/ AttachRecorder \/ Wire
  \/ ServeStart \/ ConsumerRecv \/ ConsumerAdvertise

StopStep ==
  \/ StopSignal \/ BeginStop \/ CloseOpenTunnelIncarnation \/ CloseStore
  \/ Shutdown \/ Crash \/ Boot

Next ==
  \/ ManagerNext /\ UNCHANGED mainVars
  \/ MainStep
  \/ StopStep

Spec == Init /\ [][Next]_vars

(* Goroutines that can run do run; the backoff timer fires and launches     *)
(* that are refused are refused finitely often.  Nothing makes cloudflared  *)
(* print or exit, nor anybody stop, kill or start the daemon.               *)
Fairness ==
  /\ \A n \in Procs : WF_vars(WatcherStep(n) /\ UNCHANGED mainVars)
  /\ \A s \in Scanners : WF_vars(ScannerStep(s) /\ UNCHANGED mainVars)
  /\ WF_vars(MainStart) /\ WF_vars(AttachRecorder) /\ WF_vars(Wire)
  /\ WF_vars(MainGotURL \/ MainTimeout)
  /\ WF_vars(ServeStart)
  /\ WF_vars(ConsumerRecv) /\ WF_vars(ConsumerAdvertise)

FairSpec == Spec /\ Fairness

-----------------------------------------------------------------------------
(* Properties.                                                             *)

\* At most one row of tunnel_incarnations is open, whatever the interleaving
\* of scanners, crashes, restarts and failed writes (history.go:161).
OneOpenRow ==
  \A i, j \in DOMAIN rows : rows[i].open /\ rows[j].open => i = j

\* Once the recorder is attached and every write succeeds, an open row of this
\* daemon's own is the row of the newest hostname its scanners have read,
\* except while one of them is between reading and recording.
OpenRowIsLatest ==
  \A i \in DOMAIN rows :
     /\ rows[i].open /\ rows[i].url > born
     /\ ~StoreMayFail /\ storeOpen
     => \/ rows[i].url = latestURL
        \/ \E s \in Scanners : scan[s] = "record"

\* There is one restart watcher at a time, it outlives the process it watches,
\* and a watcher that is about to call Start never finds running set: the
\* "tunnel already running" refusal cannot strand the daemon.  From the first
\* launch until it is told to stop the daemon never lacks one: a launch the
\* system refuses does not end the watching (manager.go:183, 311-361).
OneWatcher ==
  /\ \A n \in Procs : watch[n] # "none" =>
       /\ \A k \in Procs : watch[k] # "none" => k = n
       /\ n = minted
       /\ watch[n] = "backoff" => ~running /\ proc = "dead"
  /\ proc # "none" /\ ~ctxDone => \E n \in Procs : watch[n] # "none"

\* While discovery is answered, the hostname in the answer is one whose
\* readiness check has returned, at start-up and after every rotation
\* (main.go:280-313).
AnswersOnlyChecked ==
  answering => handlerURL \in checked \cup {NoURL}

\* The advertised hostname only moves forward within a life of the daemon, to
\* a hostname its scanners have read.
Advert == INSTANCE TunnelAdvert WITH seen <- latestURL, advertised <- handlerURL
ImplementsAdvert == Advert!Spec

\* A dead process is replaced, as long as nobody stops the daemon and launches
\* remain.
DeadTunnelRestarts ==
  (proc = "dead" /\ minted < MaxStarts) ~> (proc # "dead" \/ ctxDone)

\* Whatever was read last is what is advertised in the end: no interleaving
\* of scanners, channel and consumer loses the newest hostname, and no failing
\* history write keeps it back (manager.go:277-307).
LatestIsAdvertised ==
  \A u \in Procs :
    (latestURL = u) ~> (handlerURL = u \/ latestURL # u \/ ctxDone)

\* What history.go:156-159 says of a killed daemon: the row it left open is
\* closed once the next start has taken over.  Not so in the code (README, 4).
PredecessorsRowIsClosed ==
  handlerURL # NoURL => \A i \in DOMAIN rows : rows[i].open => rows[i].url > born

\* What main.go:189-192 says of a clean stop: it ends its own incarnation.
\* Not so in the code (README, 4).
CleanStopClosesRow ==
  main = "exited" => \A i \in DOMAIN rows : ~rows[i].open

\* What manager.go:291-294 says of the channel, "latest-wins": a hostname is
\* never replaced by an older one, in the channel or in the answers.  Not so
\* without DrainBeforeRestart (README, 4).
LatestWins ==
  [][ /\ handlerURL' # NoURL => handlerURL' >= handlerURL
      /\ notify' # NoURL => notify' >= notify ]_vars

=============================================================================
