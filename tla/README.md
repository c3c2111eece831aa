# dl_conn in TLA+

`dl_conn` publishes services of a home machine through an ephemeral cloudflared
tunnel. A Go daemon (`src/cmd/dl_conn`, `src/internal/*`) launches cloudflared,
reads the hostname it prints, and answers encrypted discovery requests that
arrive over Nostr relays with that hostname, the list of services, their health
and a one-time token. A single-page application (`src/web`) finds the daemon
that way, exchanges the token for a session cookie and uses the services behind
the reverse proxy.

This directory holds TLA+ modules of the daemon's concurrent core and of the
application's asynchronous one, TLC configurations that check them on small
instances, and TLAPS proofs of their main safety properties for every value of
the constants. `PROJECT.json` is the machine-readable index: components, runs,
one mutant per property, the map from definitions to source lines, findings,
hazards and theorems.

    tlc -workers 2 -config Auth.cfg MCAuth        # one run
    tlapm AuthProofs.tla                          # one module's proofs

## 1. Inventory

### Daemon

| component | state it keeps | operations | interacts with |
|---|---|---|---|
| Tunnel manager (`internal/tunnel/manager.go`) | `running`, `latestURL`, `recorder` under one mutex; the subprocess; a channel of one hostname | `Start`, two `scanOutput` goroutines, `publishURL`, `watchRestart`, `Shutdown`, `healthCheck` | `run()` reads the channel, the recorder writes the history database, `watchRestart` calls `Start` again |
| Life cycle (`cmd/dl_conn/main.go`) | local variables and goroutines of `run()` | start-up, waiting for a hostname, the readiness check, the rotation goroutine, signals, the deferred closes | everything below |
| Incarnation history (`internal/store/history.go`) | table `tunnel_incarnations`; table of health samples | `RecordTunnelIncarnation`, `CloseOpenTunnelIncarnation`, health rows, queries, pruning | scanners and `run()` write it |
| Tokens and sessions (`internal/auth`) | two maps, a mutex each | `Issue`, `ConsumeWithReason`, `Validate`, `CreateSession`, `ValidateSession`, `Invalidate`, two clean-up loops, `HandleAuth`, `HandleLogout` | discovery issues tokens; every HTTP request validates a session |
| Step-up, rate limiter, login redirect (`internal/auth`) | buckets by address; nothing for the other two | windows of a keyed proof, bucket refill and clean-up | `HandleAuth`, telemetry |
| Health monitor (`internal/health/monitor.go`) | the list of services, the status map | periodic and on-demand `probeAll`, one goroutine per dial, `UpdateServices` | discovery requests call it, reloads replace its list, the recorder stores its snapshots |
| Discovery handler (`internal/nostr/handler.go`, `protocol.go`) | advertised services, tunnel URL, statistics | `processEvent`, `servicesWithStatus`, `UpdateServices`, `SetTunnelURL` | the monitor, the token manager, the relay client |
| Relay client (`internal/nostr/client.go`, `crypto.go`) | allowlist, event channel of 16, one loop per relay | subscribe loops with backoff, `PublishMany`, `SetAuthorized` | the handler; reloads |
| Configuration (`internal/config`) | files on disk | `LoadWithServicesDir`, drop-ins, `AddAuthorizedNpub` | reloads; the command line |
| Hot reload (`cmd/dl_conn/main.go:318-350, 770-789`) | the watcher's fingerprint, the signal channel of one | `reloadServices`, the SIGHUP loop, `watchServicesDir` | writes the allowlist, the router, the monitor and the handler |
| Reverse proxy (`internal/proxy`) | services and proxies by id, the hub of connections | `ServeHTTP`, `UpdateServices`, prefix matching, header and cookie rewriting | sessions, reloads |
| Telemetry, sensors (`internal/telemetry`, `internal/sensors`, `internal/store/telemetry.go`) | a snapshot cache, the collector's previous counters, sample tables | collection, `ServeHTTP`, bucketed queries, pruning | sessions or bearer tokens |
| Command line (`cmd/dl_conn/npubs.go`, `keygen*.go`, `diagnostics.go`) | `config.yaml` | one-shot edits | reloads, through SIGHUP |

### Single-page application

| component | state it keeps | operations | interacts with |
|---|---|---|---|
| Key vault session (`js/session_manager.js`, `crypto_vault.js`, `webauthn_manager.js`) | the key, the auto-lock timer, the PIN kept for biometrics; the stored vaults, the credential and the brute-force count | log in, save, unlock by PIN or biometry, enrol, lock, time out, wipe | the session card; every component below starts and ends with the session |
| Discovery (`app.js`, `js/nostr_client.js`) | the relay client and its sockets, request counters, the newest reply's time, the answer timer, the watchdog | start, request, reply, timeout, refresh, diagnose, reconnect | the daemon, by relays; each reply brings a tunnel URL and a token |
| Relay list and tests (`js/relay_manager.js`, `relay_tester.js`, `relay_rtt_history.js`) | the list, the results, the series of readings, in memory and stored | add, remove, switch, reset, test one or all | discovery takes the active relays; the panel shows all of it |
| Live telemetry and step-up proof (`app.js`, `js/api_client.js`) | one interval, requests in flight, two panels with a window each, the proof | poll, ask for history, choose a window or a metric, lock, hide, show | telemetry and step-up routes of the daemon |
| Return trip, token redemption (`js/return_to.js`, `js/api_client.js`, `app.js`) | the destination (address bar, session storage, variable), the timer, the one token | capture, resume, cancel, redeem, open a service or a port | the daemon's login redirect; discovery's replies |
| Custom services, host chart, presentation (`js/custom_services.js`, `host_history.js`, ...) | the user's own links | edits and drawing | none |

The NixOS module, the test harness and vendored libraries are outside the
project.

### What is hard here, and what has to hold

* **Two scanners, one watcher, one consumer.** cloudflared prints its hostname
  on either stream; each stream has a goroutine. `latestURL` is compared under
  the mutex, but the hostname is recorded and put in the channel after the
  mutex is released. The process may die, its watcher restarts it in place, the
  consumer may be waiting up to a minute for the previous hostname to become
  reachable, and the daemon may be killed at any moment over a database that
  survives. *Right when*: one open row at most, the open row is the current
  hostname's, one watcher at a time, clients only get hostnames that were
  checked, their hostname never goes backwards and ends up the newest.
* **One-time tokens in concurrent handlers.** Every request runs in its own
  goroutine and takes the two maps' locks one at a time; clean-up, the clock,
  logout and restarts fall in between. *Right when*: a token becomes one
  session, ended access never revives, only the client a session is bound to
  renews it, clean-up agrees with validation at the boundary.
* **Overlapping probe rounds over one status map**, while the list of services
  is replaced. *Right when*: a recorded round is complete, answers are fresh,
  the status becomes right and stays right, no request hangs, removed services
  disappear.
* **One reload closure, two callers, four recipients.** *Right when*: the
  recipients agree, the last edit that loads is served, a signal is never lost although
  signals merge.
* **A key vault whose every operation awaits** key derivation, encryption or an
  authenticator's prompt that stays open for up to a minute, while the session
  may be locked, wiped, timed out, reloaded or opened by another operation.
  *Right when*: an unlocked session has its timer, no wrong PIN is lost from the
  count, the card shows the session that is there, what was wiped stays wiped,
  both vaults hold one key.
* **Relays multiply, delay and reorder** requests and replies, sockets die
  silently, and runs of `startNostr` overlap. *Right when*: the links follow the
  host's newest reply, silence is announced only when it is real, waiting ends,
  a dead connection is noticed.
* **Tests and requests that outlive what they were started for**: a relay
  removed while it is tested, a window changed while its history is fetched, a
  session locked while a poll or a proof is under way.
* **One token, four ways to spend it** (the announced return, the link in its
  banner, the cards, the port form), and replies that replace it meanwhile.

`PROJECT.json` lists 40 hazards with their lines and the properties that cover
them, or why none does yet.

## 2. Modules

| module | what it is | proofs |
|---|---|---|
| `TunnelManager` | the manager: process, watcher, scanners, channel, incarnation table | |
| `TunnelDaemon` | extends it with `run()`: start-up, rotation, stop, crash, next life | `TunnelDaemonProofs` |
| `TunnelAdvert` | abstract: the advertised hostname only moves forward to hostnames seen | |
| `Auth` | both managers, the handlers, browsers, clock and restart | `AuthProofs` |
| `OneTimeAccess` | abstract: a token turns into access once, ended access stays ended | |
| `HealthMonitor` | rounds, probes, status map, reloads and discovery answers | `HealthMonitorProofs` |
| `ServiceReload` | files on disk, the reload closure in its two callers, start-up | `ServiceReloadProofs` |
| `VaultSession` | the browser's key vault, its session and its session card | `VaultSessionProofs` |
| `Discovery` | relay clients, requests, replies, timeout and watchdog of the browser | `RelayProofs` |
| `LiveTelemetry` | polling, history panels, step-up proof | `LiveTelemetryProofs` |
| `RelayBook` | the relay list, its tests, series and panel | `RelayProofs` |
| `ReturnTrip` | the remembered destination and the token's departures | `ReturnTripProofs` |
| `MC*` | the same modules with constants for TLC | |

Each action is one region that the code runs without another goroutine getting
in: a locked region, a transaction of the database, a channel operation. What
the code does outside a lock is a step boundary. In the browser, where one handler
runs at a time, it is the code between two awaits. Definitions named *Mutant of ...*
are deliberate bugs; no specification uses them. `RelayProofs` holds the proofs of
the two modules about the page's relays, which are specifications of their own: to let it
extend both, `RelayBook` calls its own `BookInit`, `BookNext`, `BookSpec`, `BookTypeOK`.

### TunnelManager and TunnelDaemon

Hostnames are numbered by launch: process *n* prints hostname *n*, since every
quick tunnel gets a fresh name. `lines[s]` counts what a scanner has still to
read, `scan[s]` says whether scanner *s* is between reading (`ScanLine`, the
locked comparison), recording (`RecordIncarnation`) and publishing (`Send`,
`Drain`: the two `select` statements of `publishURL`). `watch[n]` is the watcher of launch
*n*; `WatchExit` is the return of `cmd.Wait`, which closes the pipes, so any
suffix of the unread output may be lost. `Restart` and `RestartFails` are the
backoff timer with `Start` succeeding or failing. `main` is `run()`'s position
and `consumer` the rotation goroutine. `StopSignal`, `BeginStop`,
`CloseOpenTunnelIncarnation`, `CloseStore` and `Shutdown` are the deferred calls
in their order; `Crash` is a kill at any time; `Boot` the service manager's
restart, over the same `rows`.

`DrainBeforeRestart` names a timing assumption: the backoff of at least one
second is longer than the scanners need for what the dead process left. Both
runs make it; section 4 says what happens without.

### Auth

A slot is a handler goroutine. `Arrive` fixes the cookie, address and token a
request carries; `Handle` takes it through `ValidateSession`, then, for `/auth`,
the rate limiter (`Throttle`, a free choice), `ConsumeWithReason` and
`CreateSession`, and finally `Reply`, the Set-Cookie that arrives or is lost.
Telemetry's bearer path is `ValidateToken`. A deleted map entry is `"gone"`,
which the code cannot tell from one that never existed; the model keeps the
difference to state that nothing comes back. `maker` is history: the token a
session came from.

### HealthMonitor

`pc[c]` follows each caller of `probeAll`: the ticker or a discovery request.
`probes[c][id]` is one probe goroutine, from `StartRound` (dialling the target
in the copied list) through `Dial` (its result) to `Land` (the result in the
map). `Snapshot` follows `wg.Wait`. A request then copies the advertised list
and reads one status at a time. `UpdateServices` and `UpdateAdvertised` are two
calls of a reload and need not be together. `wasUp` and `overlaps` are history
for the freshness property.

### ServiceReload

A file is a version and what matters of its content. A config.yaml is good, or
"broken" (unreadable, malformed or invalid), or has an npub that does not decode
("badNpub"), or has a service under the prefix that a "claiming" services.d wants
too ("taken"); a services.d may be broken as well. `Loads` says which pairs
`LoadWithServicesDir` accepts. `job[c]` is one call of `reloadServices`: two reads,
either of which may end it, then four installations, each a step. `Sighup`
fills the channel of one or, before `signal.Notify`, kills the daemon, which is
started again. `overlapped` and `announced` are history: whether both callers have
ever been inside together, and whether the files have loaded together since the
daemon was last told to look (by its start, a signal, or an edit of services.d that
the watcher can see).

### VaultSession

`key` stands for `_sk`, `_npub` and `_relays`, which are always assigned
together; `vault`, `sidecar`, `cred` and `brute` are the entries of localStorage;
`screen` is the half of the session card that shows. A slot of `ops` is one
awaiting call, a record of where it is and what it has read before; `Begin` and
`Resume` are its two ends, and everything else may happen in between. What
resumes reads `key`, `vault` and `sidecar` afresh exactly where the code does.
`wrongs` (wrong PINs in a row) and `erased` (whether the last wipe met operations
in flight) are history.

### Discovery

`client` says whether `state.nostr` is there, `dialling` whether the run of
`startNostr` that made it still waits in `connect()`. `outrun` counts the runs whose
client was replaced or dropped while they waited; when one of them goes on, it does
so with the client that is there by then.
`sock` are the sockets of the current client, `connected` the relays it counts.
`request`, oldest first, are the requests whose publication is not confirmed yet, each
with who sent it, whether a relay took it, and whether a
reply was applied since it was sent: all that comparing the two generation
counters decides. `Reconnect` resets that bit, as the code resets its counter; the
history `heard` beside it is reset by nothing, it only notes that a reconnection came
after the reply ("severed"), and `verdict` is what it was when a confirmation armed
the timer. Replies are numbered by `created_at`; `seen` counts how often each
was delivered, since every subscription delivers stored replies again.
`active` are the relays switched on: `EditRelays` changes them at any time, and a
`startNostr` that finds none returns before it touches the client.

### LiveTelemetry, RelayBook, ReturnTrip

`LiveTelemetry` has one request of the poll and one of each panel, each with its
awaits (the GET, the proof, the GET again). A panel keeps the selected window, the
one the open request is for, the one the samples answer and the parked click;
`label` is the window the chart names. `stored` (a proof has come in since the last
lock), `quiet` (that lock met no request under way) and `shown` (the page became
visible after it) are history, set without looking at what a lock does to the
proof. `RelayBook` keeps the list in memory, the
stored one and what the panel shows apart, and a reading as whether its relay was
removed since its test began. `ReturnTrip` is a document in a tab: where the
destination is kept, the token held and how often each was sent, and a navigation
that takes time, during which the document goes on running.

## 3. Runs

| run | distinct states | what it shows |
|---|---|---|
| `tunnel_safety` | 547,607 | `OneOpenRow`, `OpenRowIsLatest`, `OneWatcher`, `AnswersOnlyChecked`, and the refinement `ImplementsAdvert` |
| `tunnel_liveness` | 133,569 | `DeadTunnelRestarts`, `LatestIsAdvertised`, with failing writes and refused launches |
| `auth` | 391,971 | `OneSessionPerToken`, `OnlyItsClientKeepsItAlive`, `NothingLiveIsSwept`, and the refinement `ImplementsAccess` |
| `health_answers` | 558,020 | `CompleteRows`, `FreshUnlessOverlapped` |
| `health_liveness` | 61,824 | `StatusConverges`, `RequestEnds`, with reloads |
| `reload` | 113,261 | `AgreeUnlessOverlapped`, and under fairness `AnnouncedIsServed` and `HupTakesEffect` |
| `vault` | 739,828 | `TimerArmed`, `NoGuessForgotten`, `ScreenMatchesSession`, `QuietWipeStands` |
| `vault_sidecar` | violated | `SidecarCarriesVault`: the finding of section 4 |
| `discovery` | 353,880 | `NewestStays`, `StatusIsTrue`, and under fairness `WaitingEnds` and `DeathIsNoticed` |
| `telemetry` | 75,100 | `ClicksAreAnswered`, `LiveZoneFollowsSession`, `ProofEndsWithSession` |
| `relays` | 1,842,029 | `PanelIsTrue`, `NoOldTrend` |
| `return_trip` | 118,446 | `DeparturesAccounted` |

Beside these the passing runs check the type invariants, but for that of
`HealthMonitor`, which is proved (section 5). Deadlock is not
checked where a daemon that was stopped, or a bounded environment with nothing
left to do, is a legitimate end; it is in `vault`, `telemetry`, `relays` and
`return_trip`, where the user can always do something.

### Bounds

* *Tunnel.* `MaxStarts = 3` launches over `MaxLives = 2` lives: a restart in
  place, a crash and a later life, in any order; three is the least number with
  a predecessor, a current and a next hostname. `MaxPrints = 2` lets the two
  scanners read the same hostname at once, `MaxFails = 1` refuses a launch
  between two that succeed. The liveness run has two launches and lets writes fail.
* *Auth.* One token and two session ids: tokens meet only in the slots, and
  two handlers are enough for one token to be presented twice at once; the
  second id is the session that must not exist. Three addresses give each case
  of `SameClient`: equal, one IPv6 network, different. Both TTLs are 1 and the
  clock reaches 3, so an entry can be before, at and after its boundary, and a
  renewed one again. Slots and session ids are symmetric.
* *Health.* Two services, two requests and the ticker on one target for
  answers, so that two rounds can overlap a third; one service with two
  targets, with reloads, for convergence.
* *Vault.* Two identities (the vault's and another), a right and a wrong PIN and
  two slots: an operation that waits and one that happens meanwhile, each of any
  kind. `MaxAttempts = 3` and `LockoutThreshold = 2` keep the order of the code's
  10 and 3: attempts before the lockout, one during it, and the last one.
  Two credentials, since the second enrolment is the one that loses the first's.
* *Discovery.* Two client objects, two requests, two replies and two
  subscriptions of one: the least numbers with an old and a new of each. One
  relay, which may be switched off; several differ in which of them delivers a
  reply, and each subscription may deliver every reply anyway. What tells a client
  that is alive from one that is not is whether it counts any relay at all.
* *Telemetry.* Three windows (what is shown, what is asked for, what was clicked
  meanwhile) and one panel; the theorems are for both panels.
* *Relays.* One relay of the built-in list and one of the configuration, two
  tests at once, series of one reading: readings are told apart only by age, so
  the second one already shows the shift.
* *Return trip.* Two destinations, so that a later one may replace an earlier;
  one that `sanitizeNext` refuses; three replies, each applied twice at most.
* *Reload.* Two edits of each file, so that one can be broken and repaired while the
  other is read; two signals, one that is being served and one that waits or is
  merged. `MaxEvents` allows four edits and signals in all: the traces against
  `EditsAreServed` and `AgreeAtRest` (section 4) take no more than three.

`CompleteRows` and `FreshUnlessOverlapped` are stated for a fixed list of
services (`Reloads = FALSE`). During a reload a row may lack the new service's
verdict and an answer may carry the verdict of a service's old target, which
the code intends (`monitor.go:112-124`); that it does not last is
`StatusConverges`.

### Fairness, and why the code justifies it

Weak fairness is put on what the Go runtime and its timers guarantee: a
goroutine that can run does; the restart backoff and the 15-second wait for the
first hostname fire; `awaitTunnelReady` returns within its budget; a dial ends
within its three-second timeout; the health and watcher tickers tick; a signal
in the channel is received. One fairness condition stands for one
goroutine, except where a goroutine's outcome is open (`MainGotURL` or
`MainTimeout`). In `tunnel_liveness` a refused launch is bounded by `MaxFails`,
which says that the operating system does not refuse for ever.
Nothing forces the environment: cloudflared need neither print nor exit, no
request, edit, signal, stop, crash or reboot has to come, and backends change as
they like. Liveness of the tunnel is therefore conditional on the daemon not
being stopped, and `AnnouncedIsServed` on the last edit staying.

In the browser (`Discovery` only) a dial and a publication settle, since both have
timeouts of their own (`nostr_client.js:79-125`, `:148-224`), and the answer
timer and the watchdog's interval fire. No reply has to come and no relay has
to stay. The other browser modules state safety only: a test of a relay, a
history request or an authenticator's prompt has no bound the code guarantees.

## 4. Findings and deviations

One run is listed as violated, against a sentence of the repository.

`vault_sidecar`. **The biometric sidecar may hold no key, or another one's.**
`session_manager.js:349-350` says that it "carries the same plaintext" as the PIN
vault. `enableBiometric` reads the key after the authenticator has answered: log
in, save, let the enrolment's prompt stay open, lock, then answer it. What is
sealed has no key, and the next biometric unlock opens a session without one.

These, too, contradict what the repository says. Where a property is named, its
module states it; naming it in the configuration in brackets lets TLC print the
trace.

* `PredecessorsRowIsClosed` (`TunnelDaemon_safety.cfg`): `history.go:157-159` says
  that the next start closes a killed daemon's row. The first hostname of a life is
  read before `run()` attaches the recorder (`main.go:90-91, 196`), so it gets no
  row and closes none; only that life's second hostname does.
* `CleanStopClosesRow` (`TunnelDaemon_safety.cfg`): a clean stop can leave an open
  row, which `main.go:189-192` says it does not. A scanner between the comparison
  and the recorder inserts its row after the close and before the database is closed.
* `LatestWins` (`TunnelDaemon_safety.cfg`, `DrainBeforeRestart = FALSE`): the
  channel is not always latest-wins, as `manager.go:293-294` says. A scanner of the
  dead process that is held up for longer than the backoff publishes the older
  hostname over the newer one.
* `RemovedIsCleared` (`HealthMonitor_liveness.cfg`): a probe in flight during a
  reload stores its verdict for a service that is gone, and every later row carries
  it; `monitor.go:112-113` says that removed services are cleared.
* `AgreeAtRest` (`ServiceReload.cfg`): the older configuration of two overlapping
  reloads can be the last one in one of the recipients, against the "concurrent
  and thread-safe" of `docs/okf/tasks/17-dropin-services-reload.md:38`.
  `AgreeUnlessOverlapped`, which holds and is proved, says that this is the only way.
  The same overlap can put an older allowlist back into effect, and with it an npub
  that was taken off; without it no reload does (`AllowlistForwardHolds`, proved).
* `EditsAreServed` (`ServiceReload.cfg`): `docs/runbook.md:301-303` says that changes
  of the directory are detected and loaded without any command. Two ways round it.
  The watcher notes the new fingerprint before it reloads (`main.go:783`); if that
  reload fails on config.yaml, repairing config.yaml changes no fingerprint, and a
  valid drop-in stays unserved until the directory is edited again or a SIGHUP comes.
  And the watcher's baseline is taken after the wait for the tunnel (`main.go:774`),
  the services were read before it: an edit in between is never loaded.
  `AnnouncedIsServed` says what is left of the promise.
* `SilenceIsReal` (`Discovery.cfg`): `app.js:350-355` says that the requests are
  numbered so that the host is not called silent for a request it has answered.
  `reconnectNostr` resets the number (`app.js:3512`), also for an answered request
  whose confirmation is still to come: a relay has taken it, another one lets it wait.
  That confirmation then finds it unanswered and arms the timeout. `StatusIsTrue`,
  which holds and is proved, says that a reconnection in between is the only way.
* A chart under the wrong name: `app.js:1656-1658` rules it out, and it happens
  after a failed request for a newly selected window, or by a click on a metric
  while one is under way. `ClicksAreAnswered` names exactly these cases.
* A destination resumed twice: `return_to.js:87` says that "once the trip is
  resumed, it must not repeat". The address keeps its `?next=`, so a reload captures
  it again, resumed or cancelled (`app.js:2258`). `DeparturesAccounted` counts per
  document for that reason.

What the models of the browser allow, and the code does, without a sentence
against it:

* *Vault.* A wipe during a decryption or a re-save ends with the vault stored again
  or the session open (`app.js:2753`); `QuietWipeStands` therefore speaks of a wipe
  that meets nothing in flight. The card goes blank when an enrolment ends after a
  lock (`app.js:2868`). The credential is stored before the sidecar, so one that is
  interrupted in between unlocks nothing (`webauthn_manager.js:126-137`). Saving
  a vault reopens a session locked meanwhile.
* *Discovery.* A socket that closes during `connect` and is counted afterwards keeps
  `isAlive` true. A failed reconnection is not tried again: the watchdog acts on
  the change only; and one that finds every relay switched off leaves `state.nostr`
  null, after which switching relays on again dials nothing until the user runs the
  diagnosis or unlocks again (`app.js:2971-2975`). `DeathIsNoticed` therefore ends
  there as well. A lock leaves a pending publication to arm its timer.
  A late reply to an older request marks the newer one answered. After a
  reconnection the links may go back to an older hostname, and the status
  keeps "Aguardando o host..." without a timer (`app.js:3026-3027`).
* *Telemetry.* Showing a hidden page starts the polling of a locked session
  (`app.js:2190-2194`); a request that is under way when a lock comes may fetch and
  store a proof after it (`api_client.js:264`), and the answer to such a poll takes the
  card out of hiding (`app.js:682`): `ProofEndsWithSession` says that nothing else
  does; a 401 with a stale proof is not tried again.
* *Relays.* Removing a relay during its test, or a reset, brings its old series back
  (`relay_manager.js:100-103, 115-129`); a save that throws leaves memory, storage and
  panel different (`:70`); the timer of the NIP-11 probe ends before the body does
  (`relay_tester.js:64-66`).
* *Return trip.* Lock and wipe keep the announced return and its token, which
  opens a new session after the old one was revoked (`app.js:2627`). A second
  click on the link while a redemption is under way replaces it by a bare
  navigation; a card that takes the token makes the return go bare (`app.js:3124`).

Seen by reading, without a run: `ServeHTTP` looks a service up under two
separate read locks and answers 500 if a reload falls between
(`router.go:320`); a broken drop-in also holds up an allowlist change sent by
SIGHUP, since both are loaded together (`HupTakesEffect` states it); the
resubscribe backoff ends at 32 s, not at the declared maximum (`client.go:218`);
`healthCheck` waits on its timer and not on the process, so quick restarts leave
goroutines behind (`manager.go:424`).

## 5. Theorems

All for every value of the constants, under the assumptions named in the
modules: `BoundsAssumption`, `LivesAssumption`, `Bounds`, `Thresholds`, `CredBound`
(bounds are numbers, flags are Boolean), `TTLAssumption`, `ActorAssumption` (TTLs
are numbers, there is a browser and an address), and that values which stand for
nothing are none of the others (`NoneAssumption`, `NoneIsNothing`,
`NoneIsNoEnvelope`, `NoWindowIsNone`, `NoTargetAssumption`, `TargetsAssumption`,
`UnsafeAssumption`, `NoListIsNone`); in `RelayBook`, that the built-in relays are
relays and a series has room for a reading (`KnownUrls`, `PointsPositive`).
`SameClient` is arbitrary, the sets need not be finite. Every safety invariant,
action property and refinement that a passing run checks is proved.

| theorem | establishes | inductive invariant |
|---|---|---|
| `TunnelDaemonProofs!TypeCorrect` | `TypeOK` | itself |
| `TunnelDaemonProofs!OneOpenRowHolds` | `OneOpenRow` | itself, with `TypeOK`; lemmas `ClosedTable` and `RecordedTable` say what the two transactions do to a table |
| `TunnelDaemonProofs!OneWatcherHolds` | `OneWatcher` | `WatcherInv`: a daemon that is not running has no watcher, no process, and `running` is reset |
| `TunnelDaemonProofs!AnswersOnlyCheckedHolds` | `AnswersOnlyChecked` | `AnswerInv`: before the serving goroutine starts, the only unchecked hostname in the handler is the start-up one, which that goroutine checks |
| `AuthProofs!TypeCorrect` | `TypeOK` | itself |
| `AuthProofs!OneSessionPerTokenHolds` | `OneSessionPerToken` | `RedeemInv`: a handler between `ConsumeWithReason` and `CreateSession` owns its token alone (`CreatorInv`), an id has a maker when it was drawn (`MakerInv`) |
| `AuthProofs!AccessImplemented` | `Auth` implements `OneTimeAccess` | `RedeemInv`: `CreateSession` is `Redeem`, every other step is an `End` of some set of sessions or a stutter (`EndStep`, `RedeemStep`) |
| `AuthProofs!OnlyItsClientKeepsItAliveHolds` | `OnlyItsClientKeepsItAlive` | `RedeemInv`; `SessionLife` says what a step can do to a live session: keep it, renew it for the client it is bound to, or end it |
| `AuthProofs!NothingLiveIsSweptHolds` | `NothingLiveIsSwept` | `TypeOK`; `SessionLife` and `TokenLife`: what ends was expired, logged out, used or lost in a restart |
| `TunnelDaemonProofs!OpenRowIsLatestHolds` | `DrainBeforeRestart` implies `OpenRowIsLatest` | `RowInv`: only the newest process has output to read, a scanner that records has what `latestURL` says, a life has no rows of its own before the recorder is attached |
| `TunnelDaemonProofs!AdvertImplemented` | `DrainBeforeRestart` implies that `TunnelDaemon` implements `TunnelAdvert` | `AdvertInv`: along scanner, channel, consumer and answers no hostname is newer than what is before it; then `ScanLine` is `See`, `Wire` and `ConsumerAdvertise` are `Advertise`, `Shutdown` and `Crash` begin anew, the rest stutters |
| `TunnelDaemonProofs!LatestWinsHolds` | `DrainBeforeRestart` implies `LatestWins` | `AdvertInv` |
| `TunnelDaemonProofs!NewestOnItsWayHolds` | `DrainBeforeRestart` implies that the newest hostname is advertised or in the hands of a scanner, the channel, `run()` or the consumer | itself, with `AdvertInv` |
| `HealthMonitorProofs!TypeCorrect` | `TypeOK` | itself, with `Stages`: what each caller holds at its place |
| `HealthMonitorProofs!CompleteRowsHolds` | `CompleteRows` | `Rounds`: a service that a round is done with has a verdict |
| `HealthMonitorProofs!FreshUnlessOverlappedHolds` | `FreshUnlessOverlapped` | `Noted`: for a request nobody overlapped, every "up" in a probe, in the map or already read belongs to a service noted as up since |
| `ServiceReloadProofs!TypeCorrect` | `TypeOK` | itself |
| `ServiceReloadProofs!AgreementHolds` | `AgreeUnlessOverlapped` | `ReloadInv`: without overlap one caller reloads at a time and has installed its configuration in all the recipients it has passed |
| `ServiceReloadProofs!EditOnItsWayHolds` | a services.d that loads together with config.yaml, and has since the daemon was last told to look, is served, or a tick, a signal or a reload to come has it | `EditInv`, with `ReloadInv`: a reload that fails, or hands out what it read before an edit, began before that edit or signal, which has left a fingerprint to find or a signal behind |
| `ServiceReloadProofs!AllowlistForwardHolds` | no reload puts an older allowlist into effect | `AllowInv`: a reload that has not set its allowlist read config.yaml after the one in effect was set |
| `VaultSessionProofs!TypeCorrect`, `TimerArmedHolds`, `ScreenMatchesSessionHolds` | `TypeOK`, `TimerArmed`, `ScreenMatchesSession` | their conjunction, with what an operation in flight can hold (`OpsTyped`) |
| `VaultSessionProofs!NoGuessForgottenHolds` | `NoGuessForgotten` | `Counted`: wrong PINs in a row never exceed the stored count, whatever is stored |
| `VaultSessionProofs!QuietWipeStandsHolds` | `QuietWipeStands` | `Quiet`: after such a wipe no operation is in flight and the card offers the login |
| `RelayProofs!TypeCorrect` | `TypeOK` of `Discovery` | itself |
| `RelayProofs!NewestStaysHolds` | `NewestStays` | `Newest`: nothing delivered is newer than the reply last applied, which is the one shown; the counter falls back only together with the deliveries |
| `RelayProofs!StatusIsTrueHolds` | `StatusIsTrue` | `Heard`: the bit the code compares says what the history says, a reconnection apart; `Silence`: a running timer was armed by a request no reply came for, but for one severed by a reconnection, and its end will say so |
| `RelayProofs!BookTypeCorrect`, `PanelIsTrueHolds` | `BookTypeOK`, `PanelIsTrue` | themselves (`BookInv`) |
| `RelayProofs!NoOldTrendHolds` | `NoOldTrend` | `NoTrace`: a relay that is not excused has no old reading, no series when it is off the list, and no test from before its removal |
| `LiveTelemetryProofs!TypeCorrect`, `ClicksAreAnsweredHolds`, `LiveZoneFollowsSessionHolds` | `TypeOK`, `ClicksAreAnswered`, `LiveZoneFollowsSession` | `PanelsKeep`: a click that is not parked is the one asked for, a window without its series is waited for or failed; `ActiveListens` |
| `LiveTelemetryProofs!ProofEndsWithSessionHolds` | `ProofEndsWithSession` | itself, with `LiveZoneFollowsSession`: no interval runs in a locked session whose page was not shown, so `StillStays`; only a lock begins such a time, and then nothing is under way (`StillBegins`) |
| `ReturnTripProofs!TypeCorrect`, `DeparturesAccountedHolds` | `TypeOK`, `DeparturesAccounted` | `Announced`: the destination is forgotten when the return is announced, and nothing is timed or cancelled before |

`DrainBeforeRestart` is a condition of four theorems and no assumption of the
module: without it the properties fail (section 4, `LatestWins`).

Liveness is out of the prover's reach, but a lost wake-up is a state, and so what a
liveness property says of states is proved: the second part of `OneWatcher` for
`DeadTunnelRestarts` (a daemon always has a watcher), `NewestOnItsWay` for
`LatestIsAdvertised`, `StatusIsTrue` for `WaitingEnds` (who waits has a timer or a
request) and `EditOnItsWay` for `AnnouncedIsServed`. What TLC alone shows of them is
that the steps they point at are taken. `LatestWins`, `NewestOnItsWay`,
`EditOnItsWay` and `AllowlistForward` are theorems and in no run's list; TLC found
no violation of them, nor of their inductive invariants, on the runs' constants.

`OneSessionPerToken` is not inductive alone because the token is marked used in
one step and the session created in another: the proof has to know that nobody
else is between the two with the same token. `AuthProofs` splits the steps by
what they disturb: `QuietStep` for those in which tokens only age and no handler
enters `create`, `LeaveStep` for a handler that ends, and the two critical
actions one by one. `VaultSessionProofs` does likewise: `Locked`, `Wiped`, `Opened`
and `Enrolled` say once what the shared parts of the handlers keep, and
`SafeStep` and `QuietStep` go through the actions.

## 6. Only model-checked

* Every liveness property (`DeadTunnelRestarts`, `LatestIsAdvertised`,
  `StatusConverges`, `RequestEnds`, `AnnouncedIsServed`, `HupTakesEffect`,
  `WaitingEnds`, `DeathIsNoticed`): fairness and ENABLED are out of the prover's
  reach. Section 5 says which part of them is proved.
* Induction over data is out of reach as well (the library's induction theorems
  take an operator as parameter), so the planned operator modules will be
  checked over bounded inputs, with lemmas only where one step of arithmetic
  suffices.

## 7. Not modelled, and why

* Cryptography, wire formats and parsing: pure functions of their input; a
  message that fails to parse changes no state.
* The HTTP mux, static files, headers and cookies' attributes, flags, logs and
  their rotation.
* `healthCheck` of the tunnel: it only logs.
* CSRF and Origin checks: they refuse before any state is touched.
* Stopping and killing the daemon in `ServiceReload` and, but for the cancelled
  context of a dial, in `HealthMonitor`: neither keeps anything on disk, and a
  new life starts in `Init`.
* Sensors, the NixOS module, the harness, vendored code.
* In the browser: drawing and layout (most of `app.js`), the user's own links
  (`custom_services.js`: read, changed and stored within one handler), the scales of
  the charts (`host_history.js`), the QR dialog, several tabs that share one
  localStorage, and the browser's cache of left pages.
* `ReturnTrip` takes the replies in the order that `Discovery` allows and does
  not repeat its sockets; whether a navigation lands or is bounced is a free choice,
  made by the daemon of `Auth`.
* Telemetry's cache, the daemon's relay loops and operator-like parts are in the
  plan.

## 8. Plan

Done: the tunnel, tokens and sessions, health, reload, then the browser's key
vault, discovery, live telemetry, relay list and return trip. Next, most
important first:

1. `Signaling` (`internal/nostr/client.go`, `handler.go`): one loop per relay,
   backoff, the channel of 16, duplicates of one event; every copy is answered,
   no token is issued without an answer, a relay that returns is used again.
   Composed with `Discovery`, whose host is now a free choice of replies.
2. A composition of `Discovery` with `TunnelAdvert`: the hostname a browser ends
   with is one the daemon advertised.
3. `TelemetryCache` and the two writers of `config.yaml` (`AddAuthorizedNpub`).
4. `Buckets`, `Windows`, `Prefixes`: bucketed queries, rate-limiter refill and
   step-up windows, prefix matching, each against a reference definition over
   bounded inputs.
5. Two tabs over one localStorage, in `VaultSession` and `RelayBook`.

Theorems, in order: the state part of the liveness properties that have none yet
(`HupTakesEffect`, which needs a history of the version each signal was sent for;
`RequestEnds`, `DeathIsNoticed`), an abstract specification of the vault's session
and its refinement, then whatever the modules above bring.
