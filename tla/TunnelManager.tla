--------------------------- MODULE TunnelManager ---------------------------
(***************************************************************************)
(* internal/tunnel/manager.go: one cloudflared subprocess at a time, its   *)
(* restart watcher, the goroutines that scan its two output streams for    *)
(* the ephemeral hostname, the single-slot channel they publish it on, and *)
(* the table of tunnel incarnations the recorder writes                    *)
(* (internal/store/history.go).                                            *)
(*                                                                         *)
(* Hostnames are numbered by the launch that minted them: process n prints *)
(* hostname n, and a later launch never mints an earlier hostname.  The    *)
(* mutex of the manager is held for single assignments only, so each       *)
(* locked region is one step and what happens between two of them is open  *)
(* to every other goroutine.                                               *)
(***************************************************************************)
EXTENDS Naturals, Sequences

CONSTANTS
  MaxStarts,          \* bound: launches of cloudflared, over all daemon lives
  MaxPrints,          \* bound: banner lines one process prints
  MaxFails,           \* bound: launches the operating system refuses
  StoreMayFail,       \* TRUE: a write to the history database may fail
  DrainBeforeRestart  \* TRUE: the restart backoff (one second at least) is
                      \* longer than the scanners need for what is left of
                      \* the dead process's output

ASSUME BoundsAssumption ==
  /\ MaxStarts \in Nat \ {0}
  /\ MaxPrints \in Nat \ {0}
  /\ MaxFails \in Nat
  /\ StoreMayFail \in BOOLEAN
  /\ DrainBeforeRestart \in BOOLEAN

VARIABLES
  ctxDone,    \* the daemon's context was cancelled (SIGINT or SIGTERM)
  proc,       \* the subprocess launched last: "none", "alive" or "dead"
  running,    \* Manager.running
  minted,     \* launches so far, and so the newest hostname there is
  fails,      \* launches refused so far
  watch,      \* watchRestart goroutine of each launch
  printed,    \* lines the current process has printed
  lines,      \* unread lines with a hostname, by scanner
  scan,       \* where each scanOutput goroutine is
  latestURL,  \* Manager.latestURL
  notify,     \* what the channel notifyURL holds, NoURL when empty
  recorder,   \* Manager.recorder is set
  storeOpen,  \* the history database is open
  rows        \* table tunnel_incarnations, oldest first

procVars  == <<proc, running, minted, fails, watch, printed>>
scanVars  == <<lines, scan, latestURL>>
storeVars == <<recorder, storeOpen>>
mgrVars   == <<ctxDone, procVars, scanVars, notify, storeVars, rows>>

Procs    == 1..MaxStarts
Scanners == Procs \X {"stdout", "stderr"}
NoURL    == 0
URLs     == Procs \cup {NoURL}
Row      == [url : Procs, open : BOOLEAN]

\* The scanner of process n reads hostname n.
URLOf(s) == s[1]

\* A scanner with nothing left to read or to hand over.
Idle(s) == scan[s] = "read" /\ lines[s] = 0

ManagerTypeOK ==
  /\ ctxDone \in BOOLEAN
  /\ proc \in {"none", "alive", "dead"}
  /\ running \in BOOLEAN
  /\ minted \in 0..MaxStarts
  /\ fails \in 0..MaxFails
  /\ watch \in [Procs -> {"none", "wait", "backoff"}]
  /\ printed \in 0..MaxPrints
  /\ lines \in [Scanners -> Nat]
  /\ scan \in [Scanners -> {"read", "record", "send", "drain"}]
  /\ latestURL \in URLs
  /\ notify \in URLs
  /\ recorder \in BOOLEAN
  /\ storeOpen \in BOOLEAN
  /\ rows \in Seq(Row)

\* The memory of a daemon that has not started cloudflared yet.
Fresh ==
  /\ ctxDone = FALSE
  /\ proc = "none"
  /\ running = FALSE
  /\ watch = [n \in Procs |-> "none"]
  /\ printed = 0
  /\ lines = [s \in Scanners |-> 0]
  /\ scan = [s \in Scanners |-> "read"]
  /\ latestURL = NoURL
  /\ notify = NoURL
  /\ recorder = FALSE
  /\ storeOpen = FALSE

ManagerInit ==
  /\ Fresh
  /\ minted = 0
  /\ fails = 0
  /\ rows = << >>

-----------------------------------------------------------------------------
(* The process and its watcher.                                            *)

\* Start, when the operating system launches the subprocess.  watchers is
\* the watch function as the caller leaves it.
StartFrom(watchers) ==
  /\ ~running
  /\ minted < MaxStarts
  /\ minted' = minted + 1
  /\ proc' = "alive"
  /\ running' = TRUE
  /\ printed' = 0
  /\ watch' = [watchers EXCEPT ![minted + 1] = "wait"]
  /\ UNCHANGED fails

\* cloudflared prints its hostname, once more, on one of its streams.
PrintURL(s) ==
  /\ proc = "alive"
  /\ URLOf(s) = minted
  /\ printed < MaxPrints
  /\ printed' = printed + 1
  /\ lines' = [lines EXCEPT ![s] = @ + 1]
  /\ UNCHANGED <<ctxDone, proc, running, minted, fails, watch, scan,
                 latestURL, notify, storeVars, rows>>

\* cloudflared exits.
ProcessExit ==
  /\ proc = "alive"
  /\ proc' = "dead"
  /\ UNCHANGED <<ctxDone, running, minted, fails, watch, printed, scanVars,
                 notify, storeVars, rows>>

\* Mutant of WatchExit: running is not reset when the process exits.
WatchExitStillRunning(n) ==
  /\ watch[n] = "wait"
  /\ proc = "dead" /\ n = minted
  /\ watch' = [watch EXCEPT ![n] = IF ctxDone THEN "none" ELSE "backoff"]
  /\ UNCHANGED <<ctxDone, proc, running, minted, fails, printed, scanVars,
                 notify, storeVars, rows>>

\* cmd.Wait returns in the watcher.  Wait closes the pipes whether or not the
\* scanners are done with them, so any suffix of the unread output may be lost.
WatchExit(n) ==
  /\ watch[n] = "wait"
  /\ proc = "dead" /\ n = minted
  /\ running' = FALSE
  /\ watch' = [watch EXCEPT ![n] = IF ctxDone THEN "none" ELSE "backoff"]
  /\ \E left \in [{s \in Scanners : URLOf(s) = n} -> 0..MaxPrints] :
       /\ \A s \in DOMAIN left : left[s] <= lines[s]
       /\ lines' = [s \in Scanners |-> IF URLOf(s) = n THEN left[s] ELSE lines[s]]
  /\ UNCHANGED <<ctxDone, proc, minted, fails, printed, scan, latestURL,
                 notify, storeVars, rows>>

\* Mutant of Restart: no backoff before Start.
RestartAtOnce(n) ==
  /\ watch[n] = "backoff" /\ ~ctxDone
  /\ StartFrom([watch EXCEPT ![n] = "none"])
  /\ UNCHANGED <<ctxDone, scanVars, notify, storeVars, rows>>

\* The backoff timer fires and Start succeeds: the watcher is replaced by the
\* new process's.
Restart(n) ==
  /\ watch[n] = "backoff" /\ ~ctxDone
  /\ DrainBeforeRestart => \A s \in Scanners : Idle(s)
  /\ StartFrom([watch EXCEPT ![n] = "none"])
  /\ UNCHANGED <<ctxDone, scanVars, notify, storeVars, rows>>

\* Mutant of RestartFails: Start's error path forgets to reset running.
RestartFailsRunning(n) ==
  /\ watch[n] = "backoff" /\ ~ctxDone
  /\ ~running
  /\ fails < MaxFails
  /\ fails' = fails + 1
  /\ running' = TRUE
  /\ UNCHANGED <<ctxDone, proc, minted, watch, printed, scanVars, notify,
                 storeVars, rows>>

\* The backoff timer fires and the launch fails: running is reset and the
\* watcher waits again.
RestartFails(n) ==
  /\ watch[n] = "backoff" /\ ~ctxDone
  /\ ~running
  /\ fails < MaxFails
  /\ fails' = fails + 1
  /\ running' = FALSE
  /\ UNCHANGED <<ctxDone, proc, minted, watch, printed, scanVars, notify,
                 storeVars, rows>>

\* The watcher sees the cancelled context.
WatchStop(n) ==
  /\ ctxDone
  /\ watch[n] # "none"
  /\ watch' = [watch EXCEPT ![n] = "none"]
  /\ UNCHANGED <<ctxDone, proc, running, minted, fails, printed, scanVars,
                 notify, storeVars, rows>>

-----------------------------------------------------------------------------
(* The scanners.                                                           *)

\* Mutants of ScanLine: the loop goes on after the end of the stream; only the
\* first hostname is recorded and published.
ScanPastEnd(s) ==
  /\ scan[s] = "read"
  /\ lines' = [lines EXCEPT ![s] = @ - 1]
  /\ latestURL' = URLOf(s)
  /\ scan' = [scan EXCEPT ![s] = IF latestURL = URLOf(s) THEN "read" ELSE "record"]
  /\ UNCHANGED <<ctxDone, procVars, notify, storeVars, rows>>
ScanFirstOnly(s) ==
  /\ scan[s] = "read"
  /\ lines[s] > 0
  /\ lines' = [lines EXCEPT ![s] = @ - 1]
  /\ latestURL' = URLOf(s)
  /\ scan' = [scan EXCEPT ![s] = IF latestURL # NoURL THEN "read" ELSE "record"]
  /\ UNCHANGED <<ctxDone, procVars, notify, storeVars, rows>>

\* A line with a hostname: latestURL moves under the lock; only a hostname
\* that differs from the previous one is recorded and published, after the
\* lock is released.
ScanLine(s) ==
  /\ scan[s] = "read"
  /\ lines[s] > 0
  /\ lines' = [lines EXCEPT ![s] = @ - 1]
  /\ latestURL' = URLOf(s)
  /\ scan' = [scan EXCEPT ![s] = IF latestURL = URLOf(s) THEN "read" ELSE "record"]
  /\ UNCHANGED <<ctxDone, procVars, notify, storeVars, rows>>

Closed(table) == [i \in DOMAIN table |-> [table[i] EXCEPT !.open = FALSE]]

\* Mutant of RecordTunnelIncarnation: the open row is not closed first.
InsertOnly(url) == rows' = Append(rows, [url |-> url, open |-> TRUE])

\* Store.RecordTunnelIncarnation, one transaction: every open row is closed
\* and an open row for url is inserted.
RecordTunnelIncarnation(url) ==
  rows' = Append(Closed(rows), [url |-> url, open |-> TRUE])

\* recordIncarnation: nothing without a recorder, and an error of the store
\* is swallowed.
RecordIncarnation(s) ==
  /\ scan[s] = "record"
  /\ scan' = [scan EXCEPT ![s] = "send"]
  /\ \/ recorder /\ storeOpen /\ RecordTunnelIncarnation(URLOf(s))
     \/ ~recorder /\ UNCHANGED rows
     \/ recorder /\ (StoreMayFail \/ ~storeOpen) /\ UNCHANGED rows
  /\ UNCHANGED <<ctxDone, procVars, lines, latestURL, notify, storeVars>>

\* Mutant of Send: a hostname that finds the slot taken is dropped.
SendOrDrop(s) ==
  /\ scan[s] = "send"
  /\ notify' = IF notify = NoURL THEN URLOf(s) ELSE notify
  /\ scan' = [scan EXCEPT ![s] = "read"]
  /\ UNCHANGED <<ctxDone, procVars, lines, latestURL, storeVars, rows>>

\* publishURL, the non-blocking send ...
Send(s) ==
  /\ scan[s] = "send"
  /\ \/ /\ notify = NoURL
        /\ notify' = URLOf(s)
        /\ scan' = [scan EXCEPT ![s] = "read"]
     \/ /\ notify # NoURL
        /\ scan' = [scan EXCEPT ![s] = "drain"]
        /\ UNCHANGED notify
  /\ UNCHANGED <<ctxDone, procVars, lines, latestURL, storeVars, rows>>

\* ... and, when the slot was taken, the non-blocking receive that empties it
\* before the next try.
Drain(s) ==
  /\ scan[s] = "drain"
  /\ notify' = NoURL
  /\ scan' = [scan EXCEPT ![s] = "send"]
  /\ UNCHANGED <<ctxDone, procVars, lines, latestURL, storeVars, rows>>

WatcherStep(n) == WatchExit(n) \/ Restart(n) \/ RestartFails(n) \/ WatchStop(n)
ScannerStep(s) == ScanLine(s) \/ RecordIncarnation(s) \/ Send(s) \/ Drain(s)

ManagerNext ==
  \/ ProcessExit
  \/ \E n \in Procs : WatcherStep(n)
  \/ \E s \in Scanners : PrintURL(s) \/ ScannerStep(s)

=============================================================================
