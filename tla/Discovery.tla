------------------------------ MODULE Discovery ------------------------------
(***************************************************************************)
(* How the browser finds the daemon: NostrClient (web/js/nostr_client.js)  *)
(* and startNostr, the discovery requests, their timeout, the handling of  *)
(* replies and the reconnect watchdog of web/app.js.                       *)
(*                                                                         *)
(* A step is the code between two awaits.  startNostr waits in connect()   *)
(* and every request waits for its publish confirmation; what resumes      *)
(* works on state.nostr, which may be another client by then, or null.     *)
(*                                                                         *)
(* The request counters are kept as what they decide: answeredGeneration   *)
(* >= generation holds of a request when a reply was applied after it was  *)
(* sent and reconnectNostr has not reset the counter since, so each        *)
(* request in flight carries that bit.  Beside it, `heard` is history that *)
(* no code reads and no counter resets.  The host's replies are numbered in *)
(* the order of their created_at, each naming the tunnel of its moment; one *)
(* that is not delivered yet may as well not be sent yet.                   *)
(***************************************************************************)
EXTENDS Naturals

CONSTANTS
  Relays,      \* relays that can be in the relay list
  MaxClients,  \* bound: NostrClient objects alive or with a connect() pending
  MaxRequests, \* bound: requests whose publish is unconfirmed at once
  MaxReplies,  \* bound: replies that the host ever sends
  MaxSubs      \* bound: subscriptions of one client

ASSUME Bounds == /\ MaxClients \in Nat /\ MaxRequests \in Nat
                 /\ MaxReplies \in Nat /\ MaxSubs \in Nat

VARIABLES
  open,       \* the key session is unlocked
  hostKnown,  \* config.hostNpub is set
  active,     \* the relays that are listed and switched on
  client,     \* state.nostr is not null
  dialling,   \* the run of startNostr that made it waits in connect()
  sock,       \* its sockets
  connected,  \* its connectedRelays
  subs,       \* its subscriptions
  seen,       \* how many of them have delivered each reply
  outrun,     \* how many runs wait for a client that was replaced or dropped since
  request,    \* requests waiting for their publish confirmation, oldest first
  status,     \* the tunnel status line
  awaiting,   \* awaitingDiscovery
  timer,      \* discoveryTimer
  lastAt,     \* lastResponseAt
  shown,      \* the reply whose tunnel URL the links use, 0 for none
  watchdog,   \* debugWatchdog
  lastAlive,  \* lastWatchdogAlive
  verdict     \* history: what was heard since the request that armed the timer

connection == <<client, dialling, sock, connected, subs, seen>>
waiting    == <<awaiting, timer, verdict>>
applied    == <<lastAt, shown>>
guard      == <<watchdog, lastAlive>>
vars == <<open, hostKnown, active, connection, outrun, request, status, waiting, applied, guard>>

\* The clients that somebody holds: state.nostr and the runs that wait.
Clients  == IF client THEN outrun + 1 ELSE outrun
Requests == 1..MaxRequests
Replies  == 1..MaxReplies

\* History: whether a reply was applied since a request was sent, and whether a
\* reconnection, which starts the counting anew, came after it.
Hearing == {"no", "yes", "severed"}

Idle     == [from |-> "none", sent |-> FALSE, answered |-> FALSE, heard |-> "no"]
InFlight == [from : {"start", "refresh"}, sent : BOOLEAN, answered : BOOLEAN, heard : Hearing]

NoSockets == [r \in Relays |-> "none"]
NoneSeen  == [i \in Replies |-> 0]

\* Types; what is disconnected has no socket, no relay and no subscription.
TypeOK ==
  /\ open \in BOOLEAN /\ hostKnown \in BOOLEAN /\ active \subseteq Relays
  /\ client \in BOOLEAN /\ dialling \in BOOLEAN
  /\ sock \in [Relays -> {"none", "dialling", "open", "failed", "closed"}]
  /\ connected \subseteq Relays
  /\ subs \in 0..MaxSubs
  /\ seen \in [Replies -> 0..MaxSubs]
  /\ outrun \in Nat /\ Clients <= MaxClients
  /\ request \in [Requests -> InFlight \cup {Idle}]
  /\ status \in {"idle", "asking", "waiting", "silent", "tunnel", "failed"}
  /\ awaiting \in BOOLEAN /\ timer \in BOOLEAN /\ verdict \in Hearing
  /\ lastAt \in {0} \cup Replies /\ shown \in {0} \cup Replies
  /\ watchdog \in BOOLEAN /\ lastAlive \in BOOLEAN
  /\ ~client => ~dialling /\ sock = NoSockets /\ connected = {} /\ subs = 0

Init ==
  /\ open = FALSE /\ hostKnown \in BOOLEAN /\ active \in SUBSET Relays
  /\ client = FALSE /\ dialling = FALSE
  /\ sock = NoSockets /\ connected = {} /\ subs = 0 /\ seen = NoneSeen
  /\ outrun = 0 /\ request = [q \in Requests |-> Idle]
  /\ status = "idle" /\ awaiting = FALSE /\ timer = FALSE /\ verdict = "no"
  /\ lastAt = 0 /\ shown = 0
  /\ watchdog = FALSE /\ lastAlive = TRUE

------------------------------------------------------------------------------
(* Clients.                                                                 *)

\* A run that waits for a client which is gone goes on waiting.
ClientGone == outrun' = IF dialling THEN outrun + 1 ELSE outrun

\* Mutant of DropClient: the subscriptions are left open.
DropKeepsSubs ==
  /\ client' = FALSE /\ dialling' = FALSE /\ ClientGone
  /\ sock' = NoSockets /\ connected' = {}
  /\ UNCHANGED <<subs, seen>>

\* disconnect(), and nothing in its place.
DropClient ==
  /\ client' = FALSE /\ dialling' = FALSE /\ ClientGone
  /\ sock' = NoSockets /\ connected' = {}
  /\ subs' = 0 /\ seen' = NoneSeen

\* startNostr up to its await: the old client is disconnected, a new one
\* dials every active relay.  Without a key, a host npub or an active relay it
\* returns before that, and the old client stays.
StartNostr ==
  IF open' /\ hostKnown' /\ active # {}
  THEN /\ Clients < MaxClients
       /\ client' = TRUE /\ dialling' = TRUE /\ ClientGone
       /\ sock' = [r \in Relays |-> IF r \in active THEN "dialling" ELSE "none"]
       /\ connected' = {} /\ subs' = 0 /\ seen' = NoneSeen
  ELSE UNCHANGED <<connection, outrun>>

\* ensureRelay resolves or rejects.
RelayDials(r) ==
  /\ sock[r] = "dialling"
  /\ \E outcome \in {"open", "failed"} : sock' = [sock EXCEPT ![r] = outcome]
  /\ UNCHANGED <<open, hostKnown, active, client, dialling, connected, subs, seen, outrun,
                 request, status, waiting, applied, guard>>

\* The relay's onclose.
RelayCloses(r) ==
  /\ sock[r] = "open"
  /\ sock' = [sock EXCEPT ![r] = "closed"]
  /\ connected' = connected \ {r}
  /\ UNCHANGED <<open, hostKnown, active, client, dialling, subs, seen, outrun, request,
                 status, waiting, applied, guard>>

------------------------------------------------------------------------------
(* Requests.                                                                *)

Lowest(slots) == {q \in slots : \A p \in slots : q <= p}

\* sendDiscoverRequest up to its await, on the relays counted as connected.
Send(from, targets) ==
  /\ \E q \in Lowest({p \in Requests : request[p] = Idle}) :
       request' = [request EXCEPT ![q] =
         [from |-> from, sent |-> targets # {}, answered |-> FALSE, heard |-> "no"]]
  /\ status' = "asking"

\* The run goes on with state.nostr: it subscribes and asks.
SubscribeAndAsk ==
  /\ subs < MaxSubs
  /\ subs' = IF connected' = {} THEN subs ELSE subs + 1
  /\ Send("start", connected')
  /\ UNCHANGED watchdog

\* connect() settles: the client counts the relays that opened, whether or not
\* they closed since.
ConnectEnds ==
  /\ dialling /\ dialling' = FALSE
  /\ \A r \in Relays : sock[r] # "dialling"
  /\ connected' = {r \in Relays : sock[r] \in {"open", "closed"}}
  /\ IF connected' = {} THEN UNCHANGED <<subs, request, status, watchdog>>
                        ELSE SubscribeAndAsk
  /\ UNCHANGED <<open, hostKnown, active, client, sock, seen, outrun, waiting, applied,
                 lastAlive>>

\* connect() of a run whose client is gone settles; what that client counts is
\* anybody's guess.  The run goes on with the client that is there instead: null
\* throws, and the exception still starts the watchdog.
OutrunConnectEnds ==
  /\ outrun > 0 /\ outrun' = outrun - 1
  /\ UNCHANGED connected
  /\ \/ UNCHANGED <<subs, request, status, watchdog>>
     \/ ~client /\ watchdog' = TRUE /\ UNCHANGED <<subs, request, status>>
     \/ client /\ SubscribeAndAsk
  /\ UNCHANGED <<open, hostKnown, active, client, dialling, sock, seen, waiting, applied,
                 lastAlive>>

\* Mutant of StartDiscoveryTimeout: nothing is scheduled.
StartNoTimeout(q) ==
  /\ awaiting' = TRUE /\ verdict' = request[q].heard
  /\ UNCHANGED timer

\* startDiscoveryTimeout.
StartDiscoveryTimeout(q) ==
  /\ awaiting' = TRUE /\ timer' = TRUE
  /\ verdict' = request[q].heard

\* The requests without the one in slot q.
Without(q) == [p \in Requests |->
  IF p < q THEN request[p] ELSE IF p + 1 \in Requests THEN request[p + 1] ELSE Idle]

\* Mutant of Confirmed: the reply that came first is not looked for.
ConfirmedAlways(q) ==
  /\ request[q] # Idle
  /\ request' = Without(q)
  /\ status' = "waiting" /\ StartDiscoveryTimeout(q) /\ UNCHANGED watchdog
  /\ UNCHANGED <<open, hostKnown, active, connection, outrun, applied, lastAlive>>

\* The publish is accepted, rejected by every relay, or not confirmed within
\* ten seconds; only startNostr goes on to the watchdog, and only from here.
Confirmed(q) ==
  /\ request[q] # Idle
  /\ request' = Without(q)
  /\ \/ /\ request[q].answered
        /\ UNCHANGED <<status, waiting, watchdog>>
     \/ /\ ~request[q].answered
        /\ \/ /\ status' = "failed"
              /\ UNCHANGED <<waiting, watchdog>>
           \/ /\ request[q].sent
              /\ status' = "waiting" /\ StartDiscoveryTimeout(q)
              /\ watchdog' = (watchdog \/ request[q].from = "start")
  /\ UNCHANGED <<open, hostKnown, active, connection, outrun, applied, lastAlive>>

\* The thirty seconds are over.
DiscoveryTimeout ==
  /\ timer
  /\ timer' = FALSE /\ awaiting' = FALSE
  /\ status' = IF awaiting THEN "silent" ELSE status
  /\ UNCHANGED <<open, hostKnown, active, connection, outrun, request, verdict, applied,
                 guard>>

------------------------------------------------------------------------------
(* Replies.                                                                 *)

\* Mutant of Stale: every reply is applied.
NeverStale(i) == FALSE

\* onDiscoveryResponse drops what is older than the newest reply applied.
Stale(i) == i < lastAt

\* Every request sent so far counts as answered.
AllAnswered == [q \in Requests |->
  IF request[q] = Idle THEN Idle ELSE [request[q] EXCEPT !.answered = TRUE, !.heard = "yes"]]

\* Mutant of HandleNostrResponse: the timer of the answered request runs on.
HandleButKeepTimer(i) ==
  /\ lastAt' = i /\ shown' = i
  /\ request' = AllAnswered
  /\ status' = "tunnel" /\ verdict' = "yes"
  /\ UNCHANGED <<awaiting, timer>>

\* handleNostrResponse.
HandleNostrResponse(i) ==
  /\ lastAt' = i /\ shown' = i
  /\ awaiting' = FALSE /\ timer' = FALSE /\ verdict' = "yes"
  /\ request' = AllAnswered
  /\ status' = "tunnel"

\* A subscription delivers a reply it has not delivered yet, from whichever
\* relay has it, in any order, stored replies included.
Response(i) ==
  /\ seen[i] < subs
  /\ seen' = [seen EXCEPT ![i] = @ + 1]
  /\ IF Stale(i) THEN UNCHANGED <<applied, waiting, request, status>>
                 ELSE HandleNostrResponse(i)
  /\ UNCHANGED <<open, hostKnown, active, client, dialling, sock, connected, subs, outrun,
                 guard>>

------------------------------------------------------------------------------
(* The session, the user and the watchdog.                                  *)

\* "unlocked", also of a session that is unlocked already.
Unlock ==
  /\ open' = TRUE /\ UNCHANGED <<hostKnown, active>>
  /\ StartNostr
  /\ UNCHANGED <<request, status, waiting, applied, guard>>

\* onSaveHostNpub, shown while there is none.
SaveHostNpub ==
  /\ open /\ ~hostKnown
  /\ hostKnown' = TRUE /\ UNCHANGED <<open, active>>
  /\ StartNostr
  /\ UNCHANGED <<request, status, waiting, applied, guard>>

\* "locked": disconnect and clearLiveTimers, which leaves awaitingDiscovery.
Lock ==
  /\ open
  /\ open' = FALSE
  /\ DropClient
  /\ timer' = FALSE /\ watchdog' = FALSE
  /\ status' = "idle"
  /\ UNCHANGED <<hostKnown, active, request, awaiting, verdict, applied, lastAlive>>

\* The relay panel: relays are switched on or off, added, removed or reset, down
\* to none.  The client that runs keeps the relays it was made with.
EditRelays ==
  /\ active' \in SUBSET Relays
  /\ UNCHANGED <<open, hostKnown, connection, outrun, request, status, waiting, applied,
                 guard>>

\* answeredGeneration falls below every request; what was heard was heard.
NoneAnswered == [q \in Requests |->
  IF request[q] = Idle THEN Idle
  ELSE [request[q] EXCEPT !.answered = FALSE, !.heard = IF @ = "no" THEN "no" ELSE "severed"]]

\* reconnectNostr up to its await: the old client goes first, and startNostr
\* may find nothing to put in its place.
Reconnect ==
  /\ UNCHANGED <<open, hostKnown, active>>
  /\ IF open /\ hostKnown /\ active # {} THEN StartNostr ELSE DropClient
  /\ request' = NoneAnswered
  /\ lastAt' = 0
  /\ awaiting' = FALSE /\ timer' = FALSE
  /\ UNCHANGED <<shown, verdict>>

IsAlive == connected # {}

\* onRefreshServices.
RefreshServices ==
  /\ client /\ open
  /\ Send("refresh", connected)
  /\ UNCHANGED <<open, hostKnown, active, connection, outrun, waiting, applied, guard>>

\* runDiagnostics after its relay test: a dead client is replaced (a live one
\* is asked again, as RefreshServices).
Diagnose ==
  /\ ~client \/ ~IsAlive
  /\ Reconnect
  /\ UNCHANGED <<status, guard>>

\* Mutant of WatchdogTick: what was seen is noted before it is compared.
TickNotedFirst ==
  /\ watchdog
  /\ lastAlive' = IF ~client THEN TRUE ELSE IF open THEN IsAlive ELSE lastAlive
  /\ IF client /\ open /\ ~IsAlive /\ lastAlive'
     THEN Reconnect
     ELSE UNCHANGED <<open, hostKnown, active, connection, outrun, request, waiting, applied>>
  /\ UNCHANGED <<status, watchdog>>

\* The watchdog's interval: a live client that has died is replaced.
WatchdogTick ==
  /\ watchdog
  /\ lastAlive' = IF ~client THEN TRUE ELSE IF open THEN IsAlive ELSE lastAlive
  /\ IF client /\ open /\ ~IsAlive /\ lastAlive
     THEN Reconnect
     ELSE UNCHANGED <<open, hostKnown, active, connection, outrun, request, waiting, applied>>
  /\ UNCHANGED <<status, watchdog>>

------------------------------------------------------------------------------
Next ==
  \/ \E r \in Relays : RelayDials(r) \/ RelayCloses(r)
  \/ ConnectEnds \/ OutrunConnectEnds
  \/ \E q \in Requests : Confirmed(q)
  \/ DiscoveryTimeout
  \/ \E i \in Replies : Response(i)
  \/ EditRelays
  \/ Unlock \/ SaveHostNpub \/ Lock \/ RefreshServices \/ Diagnose
  \/ WatchdogTick

Spec == Init /\ [][Next]_vars

\* Dials and publishes end within their timeouts, timers and intervals fire.
\* Nobody has to answer, and no relay has to stay.
Fairness ==
  /\ \A r \in Relays : WF_vars(RelayDials(r))
  /\ WF_vars(ConnectEnds) /\ WF_vars(OutrunConnectEnds)
  /\ \A q \in Lowest(Requests) : WF_vars(Confirmed(q))
  /\ WF_vars(DiscoveryTimeout)
  /\ WF_vars(WatchdogTick)

FairSpec == Spec /\ Fairness

------------------------------------------------------------------------------
(* Properties.                                                              *)

\* The links use the tunnel of the newest reply that the client has delivered: no
\* earlier one replaces it, whatever the relays deliver when (app.js:359-366,
\* lastResponseAt).
NewestStays == \A i \in Replies : seen[i] > 0 => i <= shown

\* The status line is true.  The host is called silent only when no reply was
\* applied since the request that the timeout is for, unless a reconnection came
\* between that reply and the request's late confirmation (SilenceIsReal); who
\* reads that the page waits for the host has a timeout running that will end it,
\* as long as the client has a relay; and who reads that services are being asked
\* for has a request in flight that no reply has answered (app.js:347-355,
\* answeredGeneration, and 3025-3037, startDiscoveryTimeout).
StatusIsTrue ==
  /\ status = "silent" => verdict # "yes"
  /\ status = "waiting" /\ connected # {} => timer
  /\ status = "asking" => \E q \in Requests : request[q] # Idle /\ ~request[q].answered

\* What app.js:348-353 says the numbering of the requests is for: the host is
\* never reported as silent for a request it had already answered.  Not so in the
\* code (README, 4): reconnectNostr resets the number (app.js:3509).
SilenceIsReal == status = "silent" => verdict = "no"

\* A status that announces an answer does not stand for ever while the client
\* is connected (startDiscoveryTimeout, the ten-second publish timeout).
WaitingEnds ==
  (status \in {"asking", "waiting"} /\ connected # {})
    ~> (status \notin {"asking", "waiting"} \/ connected = {})

\* When the last relay of a client that was seen alive is gone, the watchdog
\* dials again (app.js:3561-3566); if no relay is switched on by then, it only
\* takes the dead client away (app.js:2971-2975).
DeathIsNoticed ==
  (open /\ watchdog /\ lastAlive /\ client /\ ~IsAlive)
    ~> (dialling \/ IsAlive \/ ~open \/ (~client /\ active = {}))

=============================================================================
