------------------------------ MODULE RelayProofs ------------------------------
(***************************************************************************)
(* Theorems of the two modules about the page's relays: Discovery, which   *)
(* talks to them, and RelayBook, which lists and tests them.  Each is      *)
(* proved of its own specification, for any relays, clients, requests,     *)
(* replies and tests, and histories of any length.                         *)
(***************************************************************************)
EXTENDS Discovery, RelayBook, TLAPS

------------------------------------------------------------------------------
(* Discovery.                                                               *)

\* The client with its sockets, and the rest.
ClientOK ==
  /\ client \in BOOLEAN /\ dialling \in BOOLEAN
  /\ sock \in [Relays -> {"none", "dialling", "open", "failed", "closed"}]
  /\ connected \subseteq Relays
  /\ subs \in 0..MaxSubs
  /\ seen \in [Replies -> 0..MaxSubs]
  /\ outrun \in Nat /\ Clients <= MaxClients
  /\ ~client => ~dialling /\ sock = NoSockets /\ connected = {} /\ subs = 0

RestOK ==
  /\ open \in BOOLEAN /\ hostKnown \in BOOLEAN /\ active \subseteq Relays
  /\ request \in [Requests -> InFlight \cup {Idle}]
  /\ status \in {"idle", "asking", "waiting", "silent", "tunnel", "failed"}
  /\ awaiting \in BOOLEAN /\ timer \in BOOLEAN /\ verdict \in Hearing
  /\ lastAt \in {0} \cup Replies /\ shown \in {0} \cup Replies
  /\ watchdog \in BOOLEAN /\ lastAlive \in BOOLEAN

LEMMA TypeParts == TypeOK <=> ClientOK /\ RestOK
BY DEF TypeOK, ClientOK, RestOK

\* Why no earlier reply replaces the newest: whatever this client has delivered
\* is no newer than the reply last applied, and that one is the one shown.
\* The counter may fall back only together with the deliveries.
Newest ==
  /\ lastAt # 0 => shown = lastAt
  /\ \A i \in Replies : seen[i] > 0 => i <= lastAt

\* Who was answered since the last reconnection knows it: the bit the code compares
\* and the history of what was heard agree, so a confirmation that finds its
\* request unanswered never arms the timeout of one that was answered but for a
\* reconnection in between; and the end of a running timeout says so.
Heard == \A q \in Requests : request[q].answered <=> request[q].heard = "yes"
Silence == StatusIsTrue /\ (timer => verdict # "yes" /\ awaiting)

\* A request that no reply has answered is in flight.
Unanswered == \E q \in Requests : request[q] # Idle /\ ~request[q].answered

IInv == TypeOK /\ Newest /\ Heard /\ Silence

LEMMA Numbers ==
  /\ Replies \subseteq Nat \ {0}
  /\ 0 \in 0..MaxSubs /\ MaxClients \in Nat
BY Bounds DEF Replies

LEMMA NoMore ==
  ASSUME NEW a \in Nat, NEW b \in Nat, NEW c \in Nat, a <= b, b + 1 <= c
  PROVE  a + 1 <= c
OBVIOUS

LEMMA Initially == Init => IInv
<1> SUFFICES ASSUME Init PROVE IInv
  OBVIOUS
<1>1. ClientOK
  <2>1. outrun \in Nat /\ Clients <= MaxClients
    BY Numbers DEF Init, Clients
  <2>2. QED
    BY <2>1, Numbers DEF Init, ClientOK, NoSockets, NoneSeen
<1>2. request \in [Requests -> InFlight \cup {Idle}]
  BY DEF Init
<1>3. /\ open = FALSE /\ hostKnown \in BOOLEAN /\ active \subseteq Relays /\ status = "idle"
      /\ awaiting = FALSE /\ timer = FALSE /\ verdict = "no" /\ lastAt = 0 /\ shown = 0
      /\ watchdog = FALSE /\ lastAlive = TRUE
  BY DEF Init
<1>4. RestOK
  BY <1>2, <1>3 DEF RestOK, Hearing
<1>5. Newest
  BY <1>3, Numbers DEF Init, NoneSeen, Newest
<1>6. Silence
  BY <1>3 DEF Silence, StatusIsTrue
<1>7. Heard
  BY DEF Init, Heard, Idle
<1>8. QED
  BY <1>1, <1>4, <1>5, <1>6, <1>7, TypeParts DEF IInv

------------------------------------------------------------------------------
(* The helpers.                                                             *)

LEMMA Dropped ==
  ASSUME ClientOK, DropClient
  PROVE  ClientOK' /\ \A i \in Replies : seen'[i] = 0
<1>1. outrun' \in Nat /\ outrun' <= Clients
  BY DEF ClientOK, DropClient, ClientGone, Clients
<1>2. client' = FALSE /\ Clients' = outrun' /\ Clients \in Nat
  BY <1>1 DEF ClientOK, DropClient, Clients
<1>3. Clients' <= MaxClients
  BY <1>1, <1>2, Numbers DEF ClientOK
<1>4. QED
  BY <1>1, <1>3, Numbers DEF ClientOK, DropClient, NoSockets, NoneSeen

\* A start leaves the client alone or brings a new one nothing was delivered to.
LEMMA Started ==
  ASSUME ClientOK, StartNostr
  PROVE  /\ ClientOK'
         /\ seen' = seen \/ \A i \in Replies : seen'[i] = 0
         /\ open' /\ hostKnown' /\ active # {} => \A i \in Replies : seen'[i] = 0
<1>1. CASE open' /\ hostKnown' /\ active # {}
  <2>1. /\ Clients < MaxClients /\ client' = TRUE /\ dialling' = TRUE /\ ClientGone
        /\ sock' = [r \in Relays |-> IF r \in active THEN "dialling" ELSE "none"]
        /\ connected' = {} /\ subs' = 0 /\ seen' = NoneSeen
    BY <1>1 DEF StartNostr
  <2>2. outrun' \in Nat /\ Clients' <= MaxClients
    <3>1. outrun' \in Nat /\ outrun' <= Clients
      BY <2>1 DEF ClientOK, ClientGone, Clients
    <3>2. Clients' = outrun' + 1 /\ Clients \in Nat
      BY <2>1, <3>1 DEF ClientOK, Clients
    <3>3. Clients + 1 <= MaxClients
      BY <2>1, <3>2, Bounds
    <3>4. outrun' + 1 <= MaxClients
      BY <3>1, <3>2, <3>3, Bounds, NoMore
    <3>5. QED
      BY <3>1, <3>2, <3>4
  <2>3. QED
    BY <2>1, <2>2, Numbers DEF ClientOK, NoneSeen
<1>2. CASE ~(open' /\ hostKnown' /\ active # {})
  BY <1>2 DEF StartNostr, connection, ClientOK, Clients
<1>3. QED
  BY <1>1, <1>2

LEMMA Sent ==
  ASSUME RestOK, Heard, NEW from \in {"start", "refresh"}, NEW targets, Send(from, targets)
  PROVE  /\ request' \in [Requests -> InFlight \cup {Idle}] /\ status' = "asking"
         /\ Unanswered' /\ Heard'
<1> DEFINE b == targets # {}
           new == [from |-> from, sent |-> b, answered |-> FALSE, heard |-> "no"]
<1>1. PICK q \in Lowest({p \in Requests : request[p] = Idle}) :
        request' = [request EXCEPT ![q] = new]
  BY DEF Send
<1>2. b \in BOOLEAN
  OBVIOUS
<1> HIDE DEF b
<1>3. new \in InFlight /\ ~new.answered /\ new.heard # "yes" /\ new # Idle
  BY <1>2 DEF InFlight, Hearing, Idle
<1> HIDE DEF new
<1>4. q \in Requests /\ request'[q] = new
  BY <1>1 DEF RestOK, Lowest
<1>5. Unanswered'
  BY <1>3, <1>4 DEF Unanswered
<1>6. Heard'
  BY <1>1, <1>3, <1>4 DEF Heard, RestOK
<1>7. QED
  BY <1>1, <1>3, <1>5, <1>6 DEF RestOK, Send, Lowest

\* A reply answers every request in flight, a reconnection none.
LEMMA Marked ==
  ASSUME RestOK, request' = AllAnswered \/ request' = NoneAnswered
  PROVE  request' \in [Requests -> InFlight \cup {Idle}] /\ Heard'
<1>1. ASSUME NEW q \in Requests, request[q] # Idle, request' = AllAnswered
      PROVE  /\ request'[q] \in InFlight
             /\ request'[q].answered = TRUE /\ request'[q].heard = "yes"
  <2>1. request[q] \in InFlight
    BY <1>1 DEF RestOK
  <2>2. request'[q] = [request[q] EXCEPT !.answered = TRUE, !.heard = "yes"]
    BY <1>1 DEF AllAnswered
  <2>3. QED
    BY <2>1, <2>2 DEF InFlight, Hearing
<1>2. ASSUME NEW q \in Requests, request[q] # Idle, request' = NoneAnswered
      PROVE  /\ request'[q] \in InFlight
             /\ request'[q].answered = FALSE /\ request'[q].heard \in {"no", "severed"}
  <2>1. request[q] \in InFlight
    BY <1>2 DEF RestOK
  <2>2. PICK x \in {"no", "severed"} :
          request'[q] = [request[q] EXCEPT !.answered = FALSE, !.heard = x]
    BY <1>2 DEF NoneAnswered
  <2>3. QED
    BY <2>1, <2>2 DEF InFlight, Hearing
<1>3. \A q \in Requests : request[q] = Idle => request'[q] = Idle
  BY DEF AllAnswered, NoneAnswered
<1>4. Idle.answered = FALSE /\ Idle.heard = "no"
  BY DEF Idle
<1>5. Heard'
  BY <1>1, <1>2, <1>3, <1>4 DEF Heard
<1>6. request' = [q \in Requests |-> request'[q]]
  BY DEF AllAnswered, NoneAnswered
<1>7. QED
  BY <1>1, <1>2, <1>3, <1>5, <1>6

\* A request that is confirmed leaves the others what they are.
LEMMA Freed ==
  ASSUME RestOK, Heard, NEW q \in Requests, request' = Without(q)
  PROVE  /\ request' \in [Requests -> InFlight \cup {Idle}] /\ Heard'
         /\ request[q].answered /\ Unanswered => Unanswered'
<1>1. Idle.answered = FALSE /\ Idle.heard = "no"
  BY DEF Idle
<1>2. /\ request' = [p \in Requests |-> request'[p]]
      /\ \A p \in Requests :
           request'[p] = IF p < q THEN request[p]
                         ELSE IF p + 1 \in Requests THEN request[p + 1] ELSE Idle
  BY DEF Without
<1>3. \A p \in Requests : request'[p] = Idle \/ \E o \in Requests : request'[p] = request[o]
  BY <1>2
<1>4. request' \in [Requests -> InFlight \cup {Idle}]
  BY <1>2, <1>3 DEF RestOK
<1>5. Heard'
  BY <1>1, <1>3 DEF Heard
<1>6. ASSUME request[q].answered, NEW o \in Requests, request[o] # Idle, ~request[o].answered
      PROVE  Unanswered'
  <2>1. o # q
    BY <1>6
  <2>2. CASE o < q
    <3>1. request'[o] = request[o]
      BY <1>2, <2>2
    <3>2. QED
      BY <1>6, <3>1 DEF Unanswered
  <2>3. CASE o > q
    <3>1. /\ o - 1 \in Requests /\ ~(o - 1 < q) /\ o - 1 + 1 = o
      BY <2>3, Bounds DEF Requests
    <3>2. request'[o - 1] = request[o]
      BY <1>2, <3>1
    <3>3. QED
      BY <1>6, <3>1, <3>2 DEF Unanswered
  <2>4. QED
    BY <2>1, <2>2, <2>3, Bounds DEF Requests
<1>7. QED
  BY <1>4, <1>5, <1>6 DEF Unanswered

\* A reconnection forgets what was applied together with what was delivered.
LEMMA Reconnected ==
  ASSUME IInv, Reconnect, UNCHANGED <<status, watchdog>>, lastAlive' \in BOOLEAN
  PROVE  IInv'
<1>0. ClientOK /\ RestOK
  BY TypeParts DEF IInv
<1>1. /\ UNCHANGED <<open, hostKnown, active, shown, verdict, status, watchdog>>
      /\ lastAt' = 0 /\ awaiting' = FALSE /\ timer' = FALSE
  BY DEF Reconnect
<1>2. ClientOK' /\ \A i \in Replies : seen'[i] = 0
  <2>1. CASE open /\ hostKnown /\ active # {}
    BY <1>0, <1>1, <2>1, Started DEF Reconnect
  <2>2. CASE ~(open /\ hostKnown /\ active # {})
    BY <1>0, <2>2, Dropped DEF Reconnect
  <2>3. QED
    BY <2>1, <2>2
<1>3. request' \in [Requests -> InFlight \cup {Idle}] /\ Heard'
  BY <1>0, Marked DEF Reconnect, IInv
<1>4. RestOK'
  BY <1>0, <1>1, <1>3 DEF RestOK
<1>5. Newest'
  BY <1>0, <1>1, <1>2, Numbers DEF RestOK, Newest
<1>6. Unanswered => Unanswered'
  <2> SUFFICES ASSUME NEW q \in Requests, request[q] # Idle
               PROVE  request'[q] # Idle /\ ~request'[q].answered
    BY DEF Unanswered
  <2>1. request[q] \in InFlight
    BY <1>0 DEF RestOK
  <2>2. request'[q].from # "none" /\ request'[q].answered = FALSE
    BY <2>1 DEF Reconnect, NoneAnswered, InFlight
  <2>3. QED
    BY <2>2 DEF Idle
<1>7. connected' = {}
  <2>1. CASE open /\ hostKnown /\ active # {}
    BY <1>1, <2>1 DEF Reconnect, StartNostr
  <2>2. CASE ~(open /\ hostKnown /\ active # {})
    BY <2>2 DEF Reconnect, DropClient
  <2>3. QED
    BY <2>1, <2>2
<1>8. Silence'
  BY <1>1, <1>6, <1>7 DEF IInv, Silence, StatusIsTrue, Unanswered
<1>9. QED
  BY <1>2, <1>3, <1>4, <1>5, <1>8 DEF IInv, TypeOK, ClientOK, RestOK

------------------------------------------------------------------------------
(* The steps.                                                               *)

LEMMA Inductive == IInv /\ [Next]_vars => IInv'
<1> SUFFICES ASSUME IInv, [Next]_vars PROVE IInv'
  OBVIOUS
<1>0. ClientOK /\ RestOK /\ Newest /\ Heard /\ Silence
  BY TypeParts DEF IInv
<1>a. ASSUME ClientOK', RestOK', Newest', Heard', Silence' PROVE IInv'
  BY <1>a DEF IInv, TypeOK, ClientOK, RestOK
<1>n. ASSUME UNCHANGED <<lastAt, shown>>,
             seen' = seen \/ \A i \in Replies : seen'[i] = 0
      PROVE  Newest'
  BY <1>0, <1>n, Numbers DEF Newest, RestOK
<1>h. ASSUME UNCHANGED request PROVE Heard'
  BY <1>0, <1>h DEF Heard
<1>s. ASSUME UNCHANGED <<awaiting, timer, verdict, status, request>>, connected' \subseteq connected
      PROVE  Silence'
  BY <1>0, <1>s DEF Silence, StatusIsTrue
<1>q. ASSUME UNCHANGED <<awaiting, timer, verdict>>, status' = "asking", Unanswered' PROVE Silence'
  BY <1>0, <1>q DEF Silence, StatusIsTrue, Unanswered
<1>1. ASSUME NEW r \in Relays, RelayDials(r) \/ RelayCloses(r) PROVE IInv'
  <2>1. /\ UNCHANGED <<open, hostKnown, active, client, dialling, subs, seen, outrun, request, status,
                       awaiting, timer, verdict, lastAt, shown, watchdog, lastAlive>>
        /\ connected' \subseteq connected
        /\ sock[r] # "none"
        /\ \E x \in {"open", "failed", "closed"} : sock' = [sock EXCEPT ![r] = x]
    BY <1>1 DEF RelayDials, RelayCloses, waiting, applied, guard
  <2>2. client
    BY <1>0, <2>1 DEF ClientOK, NoSockets
  <2>3. ClientOK'
    BY <1>0, <2>1, <2>2 DEF ClientOK, Clients
  <2>4. RestOK'
    BY <1>0, <2>1 DEF RestOK
  <2>5. QED
    BY <1>a, <1>h, <1>n, <1>s, <2>1, <2>3, <2>4
<1>2. CASE ConnectEnds \/ OutrunConnectEnds
  <2>1. /\ UNCHANGED <<open, hostKnown, active, client, sock, seen, awaiting, timer, verdict,
                       lastAt, shown, lastAlive>>
        /\ dialling' \in BOOLEAN /\ (~client => ~dialling')
        /\ outrun' \in Nat /\ outrun' <= outrun
        /\ connected' \subseteq Relays /\ (~client => connected' = {})
    <3>1. CASE ConnectEnds
      <4>1. dialling /\ client
        BY <1>0, <3>1 DEF ConnectEnds, ClientOK
      <4>2. connected' \subseteq Relays
        BY <3>1 DEF ConnectEnds
      <4>3. dialling' = FALSE /\ outrun' \in Nat /\ outrun' <= outrun
        BY <1>0, <3>1 DEF ConnectEnds, ClientOK
      <4>4. UNCHANGED <<open, hostKnown, active, client, sock, seen, awaiting, timer, verdict,
                        lastAt, shown, lastAlive>>
        BY <3>1 DEF ConnectEnds, waiting, applied
      <4>5. QED
        BY <4>1, <4>2, <4>3, <4>4
    <3>2. CASE OutrunConnectEnds
      BY <1>0, <3>2 DEF OutrunConnectEnds, waiting, applied, ClientOK
    <3>3. QED
      BY <1>2, <3>1, <3>2
  <2>2. Clients' <= MaxClients
    <3>1. CASE client
      <4>1. outrun' + 1 <= MaxClients
        <5>1. outrun \in Nat /\ outrun + 1 <= MaxClients
          BY <1>0, <3>1 DEF ClientOK, Clients
        <5>2. QED
          BY <2>1, <5>1, Bounds, NoMore
      <4>2. QED
        BY <2>1, <3>1, <4>1 DEF Clients
    <3>2. CASE ~client
      <4>1. outrun' <= MaxClients
        BY <1>0, <2>1, <3>2, Bounds DEF ClientOK, Clients
      <4>2. QED
        BY <2>1, <3>2, <4>1 DEF Clients
    <3>3. QED
      BY <3>1, <3>2
  <2>3. CASE /\ connected' \subseteq connected
             /\ UNCHANGED <<subs, request, status>> /\ (UNCHANGED watchdog \/ watchdog' = TRUE)
    <3>1. ClientOK'
      BY <1>0, <2>1, <2>2, <2>3 DEF ClientOK, Clients
    <3>2. watchdog' \in BOOLEAN
      BY <1>0, <2>3 DEF RestOK
    <3>3. RestOK'
      BY <1>0, <2>1, <2>3, <3>2 DEF RestOK
    <3>4. QED
      BY <1>a, <1>h, <1>n, <1>s, <2>1, <2>3, <3>1, <3>3
  <2>4. CASE client /\ SubscribeAndAsk
    <3>1. subs' \in 0..MaxSubs
      BY <1>0, <2>4, Bounds DEF ClientOK, SubscribeAndAsk
    <3>2. ClientOK'
      BY <1>0, <2>1, <2>2, <2>4, <3>1 DEF ClientOK, Clients
    <3>3. /\ request' \in [Requests -> InFlight \cup {Idle}] /\ status' = "asking"
          /\ Unanswered' /\ Heard' /\ UNCHANGED watchdog
      BY <1>0, <2>4, Sent DEF SubscribeAndAsk
    <3>4. RestOK'
      BY <1>0, <2>1, <3>3 DEF RestOK
    <3>5. QED
      BY <1>a, <1>n, <1>q, <2>1, <3>2, <3>3, <3>4
  <2>5. QED
    <3>1. CASE ConnectEnds
      <4>1. client
        BY <1>0, <3>1 DEF ConnectEnds, ClientOK
      <4>2. QED
        BY <2>3, <2>4, <3>1, <4>1 DEF ConnectEnds
    <3>2. CASE OutrunConnectEnds
      BY <2>3, <2>4, <3>2 DEF OutrunConnectEnds
    <3>3. QED
      BY <1>2, <3>1, <3>2
<1>3. ASSUME NEW q \in Requests, Confirmed(q) PROVE IInv'
  <2>1. /\ UNCHANGED <<open, hostKnown, active, client, dialling, sock, connected, subs, seen, outrun,
                       lastAt, shown, lastAlive>>
        /\ request' = Without(q)
    BY <1>3 DEF Confirmed, connection, applied
  <2>2. ClientOK'
    BY <1>0, <2>1 DEF ClientOK, Clients
  <2>3. request' \in [Requests -> InFlight \cup {Idle}] /\ Heard'
    BY <1>0, <2>1, Freed
  <2>4. CASE /\ UNCHANGED <<awaiting, timer, verdict, watchdog>>
             /\ (status' = status /\ request[q].answered) \/ status' = "failed"
    <3>1. RestOK'
      BY <1>0, <2>1, <2>3, <2>4 DEF RestOK
    <3>2. request[q].answered /\ Unanswered => Unanswered'
      BY <1>0, <2>1, Freed
    <3>3. Silence'
      BY <1>0, <2>1, <2>4, <3>2 DEF Silence, StatusIsTrue, Unanswered
    <3>4. QED
      BY <1>a, <1>n, <2>1, <2>2, <2>3, <3>1, <3>3
  <2>5. CASE /\ ~request[q].answered /\ status' = "waiting" /\ StartDiscoveryTimeout(q)
             /\ watchdog' = (watchdog \/ request[q].from = "start")
    <3>1. /\ status' = "waiting" /\ awaiting' = TRUE /\ timer' = TRUE
          /\ verdict' = request[q].heard /\ watchdog' \in BOOLEAN
      BY <2>5 DEF StartDiscoveryTimeout
    <3>2. verdict' # "yes" /\ verdict' \in Hearing
      BY <1>0, <1>3, <2>5, <3>1 DEF Heard, RestOK, InFlight, Confirmed
    <3>3. RestOK'
      BY <1>0, <2>1, <2>3, <3>1, <3>2 DEF RestOK
    <3>4. Silence'
      BY <3>1, <3>2 DEF Silence, StatusIsTrue
    <3>5. QED
      BY <1>a, <1>n, <2>1, <2>2, <2>3, <3>3, <3>4
  <2>6. QED
    BY <1>3, <2>4, <2>5 DEF Confirmed, waiting
<1>4. ASSUME DiscoveryTimeout PROVE IInv'
  <2>1. /\ timer /\ timer' = FALSE /\ awaiting' = FALSE
        /\ status' = (IF awaiting THEN "silent" ELSE status)
        /\ UNCHANGED <<open, hostKnown, active, client, dialling, sock, connected, subs, seen, outrun,
                       request, verdict, lastAt, shown, watchdog, lastAlive>>
    BY <1>4 DEF DiscoveryTimeout, connection, applied, guard
  <2>2. ClientOK'
    BY <1>0, <2>1 DEF ClientOK, Clients
  <2>3. RestOK'
    BY <1>0, <2>1 DEF RestOK
  <2>4. Silence'
    BY <1>0, <2>1 DEF Silence, StatusIsTrue
  <2>5. QED
    BY <1>a, <1>h, <1>n, <2>1, <2>2, <2>3, <2>4
<1>5. ASSUME NEW i \in Replies, Response(i) PROVE IInv'
  <2>1. /\ seen[i] < subs /\ seen' = [seen EXCEPT ![i] = @ + 1]
        /\ UNCHANGED <<open, hostKnown, active, client, dialling, sock, connected, subs, outrun,
                       watchdog, lastAlive>>
    BY <1>5 DEF Response, guard
  <2>2. seen' \in [Replies -> 0..MaxSubs]
    BY <1>0, <2>1, Bounds DEF ClientOK, Clients
  <2>3. ClientOK'
    BY <1>0, <2>1, <2>2 DEF ClientOK, Clients
  <2>4. \A j \in Replies : j # i => seen'[j] = seen[j]
    BY <1>0, <2>1 DEF ClientOK, Clients
  <2>5. CASE Stale(i)
    <3>1. UNCHANGED <<lastAt, shown, awaiting, timer, verdict, request, status>>
      BY <1>5, <2>5 DEF Response, applied, waiting
    <3>2. RestOK'
      BY <1>0, <2>1, <3>1 DEF RestOK
    <3>3. Newest'
      BY <1>0, <2>1, <2>4, <2>5, <3>1, Numbers DEF Newest, Stale, RestOK
    <3>4. Silence'
      BY <1>s, <2>1, <3>1
    <3>5. QED
      BY <1>a, <1>h, <2>3, <3>1, <3>2, <3>3, <3>4
  <2>6. CASE ~Stale(i)
    <3>1. /\ lastAt' = i /\ shown' = i /\ awaiting' = FALSE /\ timer' = FALSE /\ verdict' = "yes"
          /\ status' = "tunnel"
          /\ request' = AllAnswered
      BY <1>5, <2>6 DEF Response, HandleNostrResponse
    <3>2. request' \in [Requests -> InFlight \cup {Idle}] /\ Heard'
      BY <1>0, <3>1, Marked
    <3>3. RestOK'
      BY <1>0, <2>1, <3>1, <3>2 DEF RestOK, Hearing
    <3>4. Newest'
      BY <1>0, <2>1, <2>4, <2>6, <3>1, Numbers DEF Newest, Stale, RestOK
    <3>5. Silence'
      BY <3>1 DEF Silence, StatusIsTrue
    <3>6. QED
      BY <1>a, <2>3, <3>2, <3>3, <3>4, <3>5
  <2>7. QED
    BY <2>5, <2>6
<1>6. ASSUME Unlock \/ SaveHostNpub PROVE IInv'
  <2>1. /\ UNCHANGED <<active, request, status, awaiting, timer, verdict, lastAt, shown,
                       watchdog, lastAlive>>
        /\ open' \in BOOLEAN /\ hostKnown' \in BOOLEAN /\ StartNostr
    BY <1>0, <1>6 DEF Unlock, SaveHostNpub, waiting, applied, guard, RestOK
  <2>2. ClientOK' /\ (seen' = seen \/ \A i \in Replies : seen'[i] = 0)
    BY <1>0, <2>1, Started
  <2>3. RestOK'
    BY <1>0, <2>1 DEF RestOK
  <2>4. connected' \subseteq connected
    BY <2>1 DEF StartNostr, connection
  <2>5. QED
    BY <1>a, <1>h, <1>n, <1>s, <2>1, <2>2, <2>3, <2>4
<1>7. ASSUME Lock PROVE IInv'
  <2>1. /\ open' = FALSE /\ timer' = FALSE /\ watchdog' = FALSE /\ status' = "idle"
        /\ UNCHANGED <<hostKnown, active, request, awaiting, verdict, lastAt, shown,
                       lastAlive>>
        /\ DropClient
    BY <1>7 DEF Lock, applied
  <2>2. ClientOK' /\ \A i \in Replies : seen'[i] = 0
    BY <1>0, <2>1, Dropped
  <2>3. RestOK'
    BY <1>0, <2>1 DEF RestOK
  <2>4. Silence'
    BY <2>1 DEF Silence, StatusIsTrue
  <2>5. QED
    BY <1>a, <1>h, <1>n, <2>1, <2>2, <2>3, <2>4
<1>8. ASSUME RefreshServices PROVE IInv'
  <2>1. /\ UNCHANGED <<open, hostKnown, active, client, dialling, sock, connected, subs, seen, outrun,
                       awaiting, timer, verdict, lastAt, shown, watchdog, lastAlive>>
        /\ Send("refresh", connected)
    BY <1>8 DEF RefreshServices, connection, waiting, applied, guard
  <2>2. /\ request' \in [Requests -> InFlight \cup {Idle}] /\ status' = "asking"
          /\ Unanswered' /\ Heard'
    BY <1>0, <2>1, Sent
  <2>3. ClientOK'
    BY <1>0, <2>1 DEF ClientOK, Clients
  <2>4. RestOK'
    BY <1>0, <2>1, <2>2 DEF RestOK
  <2>5. QED
    BY <1>a, <1>n, <1>q, <2>1, <2>2, <2>3, <2>4
<1>9. ASSUME Diagnose PROVE IInv'
  <2>1. Reconnect /\ UNCHANGED <<status, watchdog>> /\ lastAlive' \in BOOLEAN
    BY <1>0, <1>9 DEF Diagnose, guard, RestOK
  <2>2. QED
    BY <2>1, Reconnected
<1>10. ASSUME WatchdogTick PROVE IInv'
  <2>1. lastAlive' \in BOOLEAN
    <3>1. \/ lastAlive' = TRUE \/ lastAlive' = lastAlive \/ lastAlive' = IsAlive
      BY <1>10 DEF WatchdogTick
    <3>2. QED
      BY <1>0, <3>1 DEF RestOK, IsAlive
  <2>2. CASE Reconnect
    BY <1>10, <2>1, <2>2, Reconnected DEF WatchdogTick
  <2>3. CASE UNCHANGED <<open, hostKnown, active, connection, outrun, request, waiting,
                         applied>>
    <3>1. UNCHANGED <<open, hostKnown, active, client, dialling, sock, connected, subs, seen, outrun,
                      request, awaiting, timer, verdict, lastAt, shown, status,
                      watchdog>>
      BY <1>10, <2>3 DEF WatchdogTick, connection, waiting, applied
    <3>2. ClientOK'
      BY <1>0, <3>1 DEF ClientOK, Clients
    <3>3. RestOK'
      BY <1>0, <2>1, <3>1 DEF RestOK
    <3>4. QED
      BY <1>a, <1>h, <1>n, <1>s, <3>1, <3>2, <3>3
  <2>4. QED
    BY <1>10, <2>2, <2>3 DEF WatchdogTick
<1>11. ASSUME EditRelays PROVE IInv'
  <2>1. /\ UNCHANGED <<open, hostKnown, client, dialling, sock, connected, subs, seen, outrun, request,
                       awaiting, timer, verdict, lastAt, shown, status, watchdog,
                       lastAlive>>
        /\ active' \subseteq Relays
    BY <1>11 DEF EditRelays, connection, waiting, applied, guard
  <2>2. ClientOK'
    BY <1>0, <2>1 DEF ClientOK, Clients
  <2>3. RestOK'
    BY <1>0, <2>1 DEF RestOK
  <2>4. QED
    BY <1>a, <1>h, <1>n, <1>s, <2>1, <2>2, <2>3
<1>12. CASE UNCHANGED vars
  <2>1. UNCHANGED <<open, hostKnown, active, client, dialling, sock, connected, subs, seen, outrun,
                    request, awaiting, timer, verdict, lastAt, shown, status,
                    watchdog, lastAlive>>
    BY <1>12 DEF vars, connection, waiting, applied, guard
  <2>2. ClientOK'
    BY <1>0, <2>1 DEF ClientOK, Clients
  <2>3. RestOK'
    BY <1>0, <2>1 DEF RestOK
  <2>4. QED
    BY <1>a, <1>h, <1>n, <1>s, <2>1, <2>2, <2>3
<1>13. QED
  BY <1>1, <1>2, <1>3, <1>4, <1>5, <1>6, <1>7, <1>8, <1>9, <1>10, <1>11, <1>12 DEF Next

LEMMA Invariance == Spec => []IInv
BY Initially, Inductive, PTL DEF Spec

------------------------------------------------------------------------------
(* The theorems.                                                            *)

\* Every reachable state of the browser's discovery is well typed; without a
\* client there is no socket, no relay and no subscription.
THEOREM TypeCorrect == Spec => []TypeOK
<1>1. IInv => TypeOK
  BY DEF IInv
<1>2. QED
  BY <1>1, Invariance, PTL

\* The links use the tunnel of the newest reply that the client has delivered,
\* whatever relays, subscriptions and requests deliver, and when.
THEOREM NewestStaysHolds == Spec => []NewestStays
<1>1. IInv => NewestStays
  BY Numbers DEF IInv, TypeOK, Newest, NewestStays
<1>2. QED
  BY <1>1, Invariance, PTL

\* The status line is true: "silent" only of a request no reply was applied for
\* since it was sent, unless a reconnection came between that reply and its late
\* confirmation; "waiting" with a timeout that will end it, and "asking" with an
\* unanswered request in flight (app.js:347-355, 3003-3037).
THEOREM StatusIsTrueHolds == Spec => []StatusIsTrue
<1>1. IInv => StatusIsTrue
  BY DEF IInv, Silence
<1>2. QED
  BY <1>1, Invariance, PTL

------------------------------------------------------------------------------
(* RelayBook.                                                               *)

\* A relay has left no trace of an earlier stay: no old reading, none at all
\* once it is off the list, and no test that was under way at its removal.
Traceless(u) ==
  /\ result[u] # "old" /\ \A i \in DOMAIN series[u] : series[u][i] # "old"
  /\ relays[u] = "absent" => series[u] = <<>>
  /\ \A t \in Tests : u \in test[t].urls => relays[u] # "absent" /\ u \notin test[t].old

\* What makes NoOldTrend inductive.
NoTrace == \A u \in Urls \ excused : Traceless(u)

BookInv == BookTypeOK /\ PanelIsTrue /\ NoTrace

\* What record returns is no longer than the history may be, ends in the new
\* reading and holds no other that was not there.
LEMMA Recorded ==
  ASSUME NEW s \in Seq(Readings), Len(s) <= Points, NEW reading \in Readings
  PROVE  /\ Record(s, reading) \in Seq(Readings)
         /\ Len(Record(s, reading)) <= Points
         /\ \A i \in DOMAIN Record(s, reading) :
              \/ Record(s, reading)[i] = reading
              \/ \E j \in DOMAIN s : Record(s, reading)[i] = s[j]
<1>1. CASE Len(s) < Points
  <2>1. Record(s, reading) = Append(s, reading)
    BY <1>1, PointsPositive DEF Record
  <2>2. QED
    BY <2>1, <1>1, PointsPositive
<1>2. CASE Len(s) >= Points
  <2> DEFINE kept == SubSeq(s, 2, Len(s))
  <2>1. Len(s) = Points /\ Len(s) - Points + 2 = 2
    BY <1>2, PointsPositive
  <2>2. Record(s, reading) = Append(kept, reading)
    BY <2>1, <1>2 DEF Record
  <2>3. /\ kept \in Seq(Readings) /\ Len(kept) = Points - 1
        /\ \A i \in 1..Len(kept) : kept[i] = s[i + 1]
    BY <2>1, PointsPositive
  <2> HIDE DEF kept
  <2>4. /\ Append(kept, reading) \in Seq(Readings) /\ Len(Append(kept, reading)) = Points
        /\ \A i \in 1..Points : Append(kept, reading)[i] =
              IF i = Points THEN reading ELSE kept[i]
    BY <2>3, PointsPositive
  <2>5. \A i \in 1..Len(kept) : i + 1 \in DOMAIN s
    BY <2>1, <2>3, PointsPositive
  <2>6. \A i \in DOMAIN Append(kept, reading) : i \in 1..Points
    BY <2>4
  <2>7. QED
    BY <2>2, <2>3, <2>4, <2>5, <2>6, PointsPositive
<1>3. QED
  BY <1>1, <1>2, PointsPositive

\* A history of which every reading has become old is as long as it was.
LEMMA Aged ==
  ASSUME NEW s \in Seq(Readings)
  PROVE  /\ [i \in DOMAIN s |-> "old"] \in Seq(Readings)
         /\ Len([i \in DOMAIN s |-> "old"]) = Len(s)
BY DEF Readings

\* What is on is a list, and so is what a page loads.
LEMMA ListsOn ==
  /\ \A urls : On(urls) \in Lists
  /\ \A urls : \A u \in Urls : On(urls)[u] = "absent" <=> u \notin urls
BY DEF On, Lists

\* Starting a test uses a free slot, for relays that are in the list.
LEMMA TestStarted ==
  ASSUME BookTypeOK, NEW who \in {"button", "page"}, NEW urls \in SUBSET Urls,
         Start(who, urls)
  PROVE  /\ test' \in [Tests -> TestKinds]
         /\ \A t \in Tests : test'[t] = test[t] \/ (test'[t].urls = urls /\ test'[t].old = {})
<1>1. PICK t \in Tests :
        test' = [test EXCEPT ![t] = [by |-> who, urls |-> urls, old |-> {}]]
  BY DEF Start
<1>2. [by |-> who, urls |-> urls, old |-> {}] \in TestKinds
  BY DEF TestKinds
<1>3. QED
  BY <1>1, <1>2 DEF BookTypeOK

\* The tests go on, with some of their readings grown old.
LEMMA AgedTests ==
  ASSUME BookTypeOK, NEW urls \in SUBSET Urls, Age(urls)
  PROVE  /\ test' \in [Tests -> TestKinds]
         /\ \A t \in Tests : /\ test'[t].urls = test[t].urls
                             /\ \A u \in Urls \ urls : u \in test'[t].old => u \in test[t].old
<1>1. \A t \in Tests :
        test'[t] = [test[t] EXCEPT !.old = test[t].old \cup (test[t].urls \cap urls)]
  BY DEF Age
<1>2. \A t \in Tests : test[t] \in TestKinds
  BY DEF BookTypeOK
<1>3. \A t \in Tests : test'[t] \in TestKinds
  <2> SUFFICES ASSUME NEW t \in Tests PROVE test'[t] \in TestKinds
    OBVIOUS
  <2> DEFINE old == test[t].old \cup (test[t].urls \cap urls)
  <2>1. old \in SUBSET Urls
    BY <1>2 DEF TestKinds
  <2> HIDE DEF old
  <2>2. [test[t] EXCEPT !.old = old] \in TestKinds
    BY <1>2, <2>1 DEF TestKinds
  <2>3. QED
    BY <1>1, <2>2 DEF old
<1>4. test' \in [Tests -> TestKinds]
  BY <1>3 DEF Age
<1>5. \A t \in Tests : /\ test'[t].urls = test[t].urls
                       /\ test'[t].old = test[t].old \cup (test[t].urls \cap urls)
  BY <1>1, <1>2 DEF TestKinds
<1>6. QED
  BY <1>4, <1>5

\* What a page loads and keeps is a list; the panel is true once it is drawn.
LEMMA Loaded ==
  ASSUME BookTypeOK, NEW saved \in Lists \cup {NoList}, Load(saved), Render
  PROVE  /\ relays' \in Lists /\ stored' \in Lists \cup {NoList} /\ unsaved' \in BOOLEAN
         /\ PanelIsTrue'
<1> DEFINE loaded == IF saved = NoList THEN On(Defaults) ELSE saved
           list   == IF Listed(loaded) = {} THEN On(ConfigRelays) ELSE loaded
<1>1. list \in Lists
  BY ListsOn
<1>2. PICK throws \in BOOLEAN :
        /\ relays' = list /\ stored' = IF throws THEN saved ELSE list
        /\ unsaved' = throws
  BY DEF Load
<1> HIDE DEF list
<1>3. QED
  BY <1>1, <1>2 DEF PanelIsTrue, Render

\* Saving a list leaves memory, storage and panel alike, or says that it threw.
LEMMA Saved ==
  ASSUME BookTypeOK, NEW list \in Lists, Save(list),
         result' \in [Urls -> Readings \cup {"none"}]
  PROVE  /\ relays' = list /\ stored' \in Lists \cup {NoList} /\ unsaved' \in BOOLEAN
         /\ rows' \in [list : Lists, result : [Urls -> Readings \cup {"none"}]]
         /\ PanelIsTrue'
<1>1. CASE stored' = list /\ Render /\ unsaved' = FALSE
  <2>1. relays' = list
    BY DEF Save
  <2>2. rows' = [list |-> list, result |-> result']
    BY <1>1, <2>1 DEF Render
  <2>3. QED
    BY <1>1, <2>1, <2>2 DEF PanelIsTrue
<1>2. CASE UNCHANGED <<stored, rows>> /\ unsaved' = TRUE
  BY <1>2 DEF Save, PanelIsTrue, BookTypeOK
<1>3. QED
  BY <1>1, <1>2 DEF Save

\* The switch, the bin, a reset and a reload keep the types.
LEMMA TypeStep == BookTypeOK /\ PanelIsTrue /\ [BookNext]_bookVars => BookTypeOK' /\ PanelIsTrue'
<1> SUFFICES ASSUME BookTypeOK, PanelIsTrue, [BookNext]_bookVars
             PROVE  BookTypeOK' /\ PanelIsTrue'
  OBVIOUS
<1>1. ASSUME NEW u \in Urls, Add(u) PROVE BookTypeOK' /\ PanelIsTrue'
  <2>1. [relays EXCEPT ![u] = "on"] \in Lists
    BY DEF BookTypeOK, Lists
  <2>2. test' \in [Tests -> TestKinds]
    <3>1. CASE unsaved'
      BY <1>1, <3>1 DEF Add, BookTypeOK
    <3>2. CASE ~unsaved'
      BY <1>1, <3>2, TestStarted DEF Add
    <3>3. QED
      BY <3>1, <3>2
  <2>3. UNCHANGED <<result, series, excused>> /\ Save([relays EXCEPT ![u] = "on"])
    BY <1>1 DEF Add
  <2>4. result' \in [Urls -> Readings \cup {"none"}]
    BY <2>3 DEF BookTypeOK
  <2>5. QED
    BY <2>1, <2>2, <2>3, <2>4, Saved DEF BookTypeOK
<1>2. ASSUME NEW u \in Urls, Toggle(u) PROVE BookTypeOK' /\ PanelIsTrue'
  <2> DEFINE list == [relays EXCEPT ![u] = IF @ = "on" THEN "off" ELSE "on"]
  <2>1. list \in Lists
    BY DEF BookTypeOK, Lists
  <2>2. UNCHANGED <<result, series, test, excused>> /\ Save(list)
    BY <1>2 DEF Toggle
  <2> HIDE DEF list
  <2>3. result' \in [Urls -> Readings \cup {"none"}]
    BY <2>2 DEF BookTypeOK
  <2>4. QED
    BY <2>1, <2>2, <2>3, Saved DEF BookTypeOK
<1>3. ASSUME NEW u \in Urls, Remove(u) PROVE BookTypeOK' /\ PanelIsTrue'
  <2>1. [relays EXCEPT ![u] = "absent"] \in Lists
    BY DEF BookTypeOK, Lists
  <2>2. /\ result' = [result EXCEPT ![u] = "none"] /\ series' = [series EXCEPT ![u] = <<>>]
        /\ Age({u}) /\ Save([relays EXCEPT ![u] = "absent"])
    BY <1>3 DEF Remove
  <2>3. result' \in [Urls -> Readings \cup {"none"}]
    BY <2>2 DEF BookTypeOK
  <2>4. series' \in [Urls -> Seq(Readings)] /\ \A v \in Urls : Len(series'[v]) <= Points
    BY <2>2, PointsPositive DEF BookTypeOK
  <2>5. excused' \subseteq Urls
    BY <1>3 DEF Remove, BookTypeOK
  <2>6. QED
    BY <2>1, <2>2, <2>3, <2>4, <2>5, Saved, AgedTests DEF BookTypeOK
<1>4. CASE Reset
  <2> DEFINE gone == Listed(relays) \ Defaults
  <2>1. /\ result' = [u \in Urls |-> "none"]
        /\ series' = [u \in Urls |->
             IF u \in gone THEN [i \in DOMAIN series[u] |-> "old"] ELSE series[u]]
        /\ Age(gone) /\ Save(On(Defaults)) /\ excused' \subseteq Urls
    BY <1>4 DEF Reset, BookTypeOK, Listed
  <2>2. gone \in SUBSET Urls
    BY DEF Listed
  <2> HIDE DEF gone
  <2>3. result' \in [Urls -> Readings \cup {"none"}]
    BY <2>1
  <2>4. series' \in [Urls -> Seq(Readings)] /\ \A v \in Urls : Len(series'[v]) <= Points
    <3>1. \A v \in Urls : /\ series[v] \in Seq(Readings) /\ Len(series[v]) <= Points
                          /\ [i \in DOMAIN series[v] |-> "old"] \in Seq(Readings)
                          /\ Len([i \in DOMAIN series[v] |-> "old"]) <= Points
      BY Aged DEF BookTypeOK
    <3>2. \A v \in Urls : series'[v] \in Seq(Readings) /\ Len(series'[v]) <= Points
      BY <2>1, <3>1
    <3>3. QED
      BY <2>1, <3>2
  <2>5. On(Defaults) \in Lists
    BY ListsOn
  <2>6. QED
    BY <2>1, <2>2, <2>3, <2>4, <2>5, Saved, AgedTests DEF BookTypeOK
<1>5. ASSUME NEW who \in {"button", "page"}, TestAll(who) PROVE BookTypeOK' /\ PanelIsTrue'
  <2>1. Active(relays) \in SUBSET Urls /\ Start(who, Active(relays))
    BY <1>5 DEF TestAll, Active
  <2>2. UNCHANGED <<relays, result, series, stored, rows, unsaved, excused>>
    BY <1>5 DEF TestAll
  <2>3. QED
    BY <2>1, <2>2, TestStarted DEF BookTypeOK, PanelIsTrue
<1>6. ASSUME NEW t \in Tests, TestEnds(t) PROVE BookTypeOK' /\ PanelIsTrue'
  <2> DEFINE Reading(u) == IF u \in test[t].old THEN "old" ELSE "current"
  <2>1. /\ test' = [test EXCEPT ![t] = NoTest]
        /\ result' = [u \in Urls |-> IF u \in test[t].urls THEN Reading(u) ELSE result[u]]
        /\ series' = [u \in Urls |->
             IF u \in test[t].urls THEN Record(series[u], Reading(u)) ELSE series[u]]
        /\ UNCHANGED <<relays, stored, unsaved, excused>> /\ Render
    BY <1>6 DEF TestEnds
  <2>2. \A u : Reading(u) \in Readings
    BY DEF Readings
  <2> HIDE DEF Reading
  <2>3. result' \in [Urls -> Readings \cup {"none"}]
    BY <2>1, <2>2 DEF BookTypeOK
  <2>4. series' \in [Urls -> Seq(Readings)] /\ \A v \in Urls : Len(series'[v]) <= Points
    <3>1. \A v \in Urls : series[v] \in Seq(Readings) /\ Len(series[v]) <= Points
      BY DEF BookTypeOK
    <3>2. \A v \in Urls : /\ Record(series[v], Reading(v)) \in Seq(Readings)
                          /\ Len(Record(series[v], Reading(v))) <= Points
      BY <2>2, <3>1, Recorded
    <3>3. \A v \in Urls : series'[v] \in Seq(Readings) /\ Len(series'[v]) <= Points
      BY <2>1, <3>1, <3>2
    <3>4. QED
      BY <2>1, <3>3
  <2>5. test' \in [Tests -> TestKinds]
    BY <2>1 DEF BookTypeOK, TestKinds, NoTest
  <2>6. QED
    BY <2>1, <2>3, <2>4, <2>5 DEF BookTypeOK, PanelIsTrue, Render
<1>7. CASE Reload
  <2>1. stored \in Lists \cup {NoList} /\ Load(stored) /\ Render
    BY <1>7 DEF Reload, BookTypeOK
  <2>2. result' \in [Urls -> Readings \cup {"none"}] /\ test' \in [Tests -> TestKinds]
    BY <1>7 DEF Reload, NoTest, TestKinds
  <2> DEFINE gone == Listed(relays) \ Listed(relays')
  <2>3. /\ series' = [u \in Urls |->
             IF u \in gone THEN [i \in DOMAIN series[u] |-> "old"] ELSE series[u]]
        /\ excused' \subseteq Urls
    BY <1>7 DEF Reload, BookTypeOK, Listed
  <2> HIDE DEF gone
  <2>4. series' \in [Urls -> Seq(Readings)] /\ \A v \in Urls : Len(series'[v]) <= Points
    <3>1. \A v \in Urls : /\ series[v] \in Seq(Readings) /\ Len(series[v]) <= Points
                          /\ [i \in DOMAIN series[v] |-> "old"] \in Seq(Readings)
                          /\ Len([i \in DOMAIN series[v] |-> "old"]) <= Points
      BY Aged DEF BookTypeOK
    <3>2. \A v \in Urls : series'[v] \in Seq(Readings) /\ Len(series'[v]) <= Points
      BY <2>3, <3>1
    <3>3. QED
      BY <2>3, <3>2
  <2>5. QED
    BY <2>1, <2>2, <2>3, <2>4, Loaded DEF BookTypeOK, Render
<1>8. CASE ClearAll
  <2>1. Load(NoList) /\ Render
    BY <1>8 DEF ClearAll
  <2>2. result' \in [Urls -> Readings \cup {"none"}] /\ test' \in [Tests -> TestKinds]
    BY <1>8 DEF ClearAll, NoTest, TestKinds
  <2>3. series' \in [Urls -> Seq(Readings)] /\ \A v \in Urls : Len(series'[v]) <= Points
    BY <1>8, PointsPositive DEF ClearAll
  <2>4. excused' \subseteq Urls
    BY <1>8 DEF ClearAll
  <2>5. QED
    BY <2>1, <2>2, <2>3, <2>4, Loaded DEF BookTypeOK, Render
<1>9. CASE UNCHANGED bookVars
  BY <1>9 DEF bookVars, BookTypeOK, PanelIsTrue
<1>10. QED
  BY <1>1, <1>2, <1>3, <1>4, <1>5, <1>6, <1>7, <1>8, <1>9 DEF BookNext

\* No step leaves a trace of an earlier stay without an excuse.
LEMMA TraceStep ==
  BookTypeOK /\ (\A u \in Urls \ excused : Traceless(u)) /\ [BookNext]_bookVars
    => (\A u \in Urls \ excused : Traceless(u))'
<1> SUFFICES ASSUME BookTypeOK, \A u \in Urls \ excused : Traceless(u), [BookNext]_bookVars,
                    NEW u \in Urls, u \notin excused'
             PROVE  Traceless(u)'
  OBVIOUS
<1>0. u \notin excused => Traceless(u)
  OBVIOUS
<1>1. ASSUME NEW v \in Urls, Add(v) PROVE Traceless(u)'
  <2>1. /\ relays[v] = "absent" /\ UNCHANGED <<result, series, excused>>
        /\ relays' = [relays EXCEPT ![v] = "on"]
    BY <1>1 DEF Add, Save
  <2>2. relays'[u] = "absent" => relays[u] = "absent"
    BY <2>1 DEF BookTypeOK, Lists
  <2>3. UNCHANGED test \/ (Start("page", {v}) /\ {v} \in SUBSET Urls)
    BY <1>1 DEF Add
  <2>4. \A t \in Tests : test'[t] = test[t] \/ (test'[t].urls = {v} /\ test'[t].old = {})
    BY <2>3, TestStarted
  <2>5. relays'[v] # "absent"
    BY <2>1 DEF BookTypeOK, Lists
  <2>6. QED
    BY <1>0, <2>1, <2>2, <2>4, <2>5 DEF Traceless
<1>2. ASSUME NEW v \in Urls, Toggle(v) PROVE Traceless(u)'
  <2>1. /\ relays[v] # "absent" /\ UNCHANGED <<result, series, test, excused>>
        /\ relays' = [relays EXCEPT ![v] = IF @ = "on" THEN "off" ELSE "on"]
    BY <1>2 DEF Toggle, Save
  <2>2. relays'[u] = "absent" <=> relays[u] = "absent"
    BY <2>1 DEF BookTypeOK, Lists
  <2>3. QED
    BY <1>0, <2>1, <2>2 DEF Traceless
<1>3. ASSUME NEW v \in Urls, Remove(v) PROVE Traceless(u)'
  <2>1. /\ result' = [result EXCEPT ![v] = "none"] /\ series' = [series EXCEPT ![v] = <<>>]
        /\ excused' = IF Testing(v) THEN excused \cup {v} ELSE excused \ {v}
        /\ relays' = [relays EXCEPT ![v] = "absent"] /\ Age({v})
    BY <1>3 DEF Remove, Save
  <2>2. \A t \in Tests : /\ test'[t].urls = test[t].urls
                         /\ u # v /\ u \in test'[t].old => u \in test[t].old
    BY <2>1, AgedTests
  <2>3. CASE u = v
    <3>1. ~Testing(u)
      BY <2>1, <2>3
    <3>2. \A t \in Tests : u \notin test'[t].urls
      BY <2>2, <3>1 DEF Testing
    <3>3. result'[u] = "none" /\ series'[u] = <<>>
      BY <2>1, <2>3 DEF BookTypeOK
    <3>4. QED
      BY <3>2, <3>3 DEF Traceless
  <2>4. CASE u # v
    <3>1. u \notin excused /\ result'[u] = result[u] /\ series'[u] = series[u]
          /\ relays'[u] = relays[u]
      BY <2>1, <2>4 DEF BookTypeOK, Lists
    <3>2. QED
      BY <1>0, <2>2, <2>4, <3>1 DEF Traceless
  <2>5. QED
    BY <2>3, <2>4
<1>4. CASE Reset
  <2> DEFINE gone == Listed(relays) \ Defaults
  <2>1. /\ result' = [v \in Urls |-> "none"]
        /\ series' = [v \in Urls |->
             IF v \in gone THEN [i \in DOMAIN series[v] |-> "old"] ELSE series[v]]
        /\ excused' = excused \cup {v \in gone : Testing(v) \/ series[v] # <<>>}
        /\ Age(gone) /\ relays' = On(Defaults)
    BY <1>4 DEF Reset, Save
  <2>2. gone \in SUBSET Urls /\ (u \in gone <=> relays[u] # "absent" /\ u \notin Defaults)
    BY DEF Listed
  <2>3. relays'[u] = "absent" <=> u \notin Defaults
    BY <2>1, ListsOn
  <2> HIDE DEF gone
  <2>4. \A t \in Tests : /\ test'[t].urls = test[t].urls
                         /\ u \notin gone /\ u \in test'[t].old => u \in test[t].old
    BY <2>1, <2>2, AgedTests
  <2>5. u \notin excused /\ result'[u] = "none"
    BY <2>1
  <2>6. CASE u \in gone
    <3>1. ~Testing(u) /\ series[u] = <<>>
      BY <2>1, <2>6
    <3>2. \A t \in Tests : u \notin test'[t].urls
      BY <2>4, <3>1 DEF Testing
    <3>3. series'[u] = [i \in DOMAIN series[u] |-> "old"]
      BY <2>1, <2>6
    <3>4. series'[u] = <<>>
      BY <3>1, <3>3
    <3>5. QED
      BY <2>5, <3>2, <3>4 DEF Traceless
  <2>7. CASE u \notin gone
    <3>1. series'[u] = series[u]
      BY <2>1, <2>7
    <3>2. QED
      BY <1>0, <2>2, <2>3, <2>4, <2>5, <2>7, <3>1 DEF Traceless
  <2>8. QED
    BY <2>6, <2>7
<1>5. ASSUME NEW who \in {"button", "page"}, TestAll(who) PROVE Traceless(u)'
  <2>1. Active(relays) \in SUBSET Urls /\ Start(who, Active(relays))
        /\ UNCHANGED <<relays, result, series, excused>>
    BY <1>5 DEF TestAll, Active
  <2>2. \A t \in Tests :
          test'[t] = test[t] \/ (test'[t].urls = Active(relays) /\ test'[t].old = {})
    BY <2>1, TestStarted
  <2>3. u \in Active(relays) => relays[u] # "absent"
    BY DEF Active
  <2>4. QED
    BY <1>0, <2>1, <2>2, <2>3 DEF Traceless
<1>6. ASSUME NEW t \in Tests, TestEnds(t) PROVE Traceless(u)'
  <2> DEFINE Reading(v) == IF v \in test[t].old THEN "old" ELSE "current"
  <2>1. /\ test' = [test EXCEPT ![t] = NoTest]
        /\ result' = [v \in Urls |-> IF v \in test[t].urls THEN Reading(v) ELSE result[v]]
        /\ series' = [v \in Urls |->
             IF v \in test[t].urls THEN Record(series[v], Reading(v)) ELSE series[v]]
        /\ UNCHANGED <<relays, excused>>
    BY <1>6 DEF TestEnds
  <2>2. \A x \in Tests : test'[x] = test[x] \/ test'[x].urls = {}
    BY <2>1 DEF BookTypeOK, NoTest
  <2>3. Traceless(u)
    BY <1>0, <2>1
  <2>4. CASE u \in test[t].urls
    <3>1. relays[u] # "absent" /\ Reading(u) = "current"
      BY <2>3, <2>4 DEF Traceless
    <3> HIDE DEF Reading
    <3>2. result'[u] = "current" /\ series'[u] = Record(series[u], "current")
      BY <2>1, <2>4, <3>1
    <3>3. series[u] \in Seq(Readings) /\ Len(series[u]) <= Points /\ "current" \in Readings
      BY DEF BookTypeOK, Readings
    <3>4. \A i \in DOMAIN series'[u] : series'[u][i] # "old"
      <4>1. \A i \in DOMAIN series[u] : series[u][i] # "old"
        BY <2>3 DEF Traceless
      <4>2. \A i \in DOMAIN Record(series[u], "current") :
              \/ Record(series[u], "current")[i] = "current"
              \/ \E j \in DOMAIN series[u] : Record(series[u], "current")[i] = series[u][j]
        BY <3>3, Recorded
      <4>3. QED
        BY <3>2, <4>1, <4>2
    <3>5. QED
      BY <2>1, <2>2, <2>3, <3>1, <3>2, <3>4 DEF Traceless
  <2>5. CASE u \notin test[t].urls
    <3>1. result'[u] = result[u] /\ series'[u] = series[u]
      BY <2>1, <2>5
    <3>2. QED
      BY <2>1, <2>2, <2>3, <3>1 DEF Traceless
  <2>6. QED
    BY <2>4, <2>5
<1>7. CASE Reload
  <2> DEFINE gone == Listed(relays) \ Listed(relays')
  <2>1. /\ result' = [v \in Urls |-> "none"] /\ test' = [t \in Tests |-> NoTest]
        /\ series' = [v \in Urls |->
             IF v \in gone THEN [i \in DOMAIN series[v] |-> "old"] ELSE series[v]]
        /\ excused' = excused \cup {v \in gone : series[v] # <<>>}
    BY <1>7 DEF Reload
  <2>2. u \in gone <=> relays[u] # "absent" /\ relays'[u] = "absent"
    BY DEF Listed
  <2> HIDE DEF gone
  <2>3. u \notin excused /\ result'[u] = "none" /\ \A t \in Tests : u \notin test'[t].urls
    BY <2>1 DEF NoTest
  <2>4. CASE u \in gone
    <3>1. series[u] = <<>> /\ series'[u] = [i \in DOMAIN series[u] |-> "old"]
      BY <2>1, <2>4
    <3>2. series'[u] = <<>>
      BY <3>1
    <3>3. QED
      BY <2>3, <3>2 DEF Traceless
  <2>5. CASE u \notin gone
    <3>1. series'[u] = series[u]
      BY <2>1, <2>5
    <3>2. QED
      BY <1>0, <2>2, <2>3, <2>5, <3>1 DEF Traceless
  <2>6. QED
    BY <2>4, <2>5
<1>8. CASE ClearAll
  <2>1. result'[u] = "none" /\ series'[u] = <<>> /\ \A t \in Tests : test'[t].urls = {}
    BY <1>8 DEF ClearAll, NoTest
  <2>2. QED
    BY <2>1 DEF Traceless
<1>9. CASE UNCHANGED bookVars
  BY <1>0, <1>9 DEF bookVars, Traceless
<1>10. QED
  BY <1>1, <1>2, <1>3, <1>4, <1>5, <1>6, <1>7, <1>8, <1>9 DEF BookNext

\* The page begins with the default relays and no readings.
LEMMA BookBegins == BookInit => BookInv
<1> SUFFICES ASSUME BookInit PROVE BookInv
  OBVIOUS
<1>1. relays \in Lists /\ PanelIsTrue
  BY ListsOn DEF BookInit, PanelIsTrue
<1>2. series \in [Urls -> Seq(Readings)] /\ \A u \in Urls : Len(series[u]) <= Points
  BY PointsPositive DEF BookInit
<1>3. NoTest \in TestKinds
  BY DEF NoTest, TestKinds
<1>4. BookTypeOK
  BY <1>1, <1>2, <1>3 DEF BookInit, BookTypeOK
<1>5. NoTrace
  <2> SUFFICES ASSUME NEW u \in Urls PROVE Traceless(u)
    BY DEF NoTrace
  <2>1. result[u] = "none" /\ series[u] = <<>> /\ \A t \in Tests : test[t].urls = {}
    BY DEF BookInit, NoTest
  <2>2. QED
    BY <2>1 DEF Traceless
<1>6. QED
  BY <1>1, <1>4, <1>5 DEF BookInv

LEMMA BookInvariant == BookSpec => []BookInv
<1>1. BookInv /\ [BookNext]_bookVars => BookInv'
  BY TypeStep, TraceStep DEF BookInv, NoTrace
<1>2. QED
  BY BookBegins, <1>1, PTL DEF BookSpec

\* Every reachable state is well typed, and no series is longer than
\* RTT_HISTORY_POINTS, whatever was recorded (relay_rtt_history.js:34-47).
THEOREM BookTypeCorrect == BookSpec => []BookTypeOK
BY BookInvariant, PTL DEF BookInv

\* Panel, memory and storage agree until a save throws (onRelayEvent, _save).
THEOREM PanelIsTrueHolds == BookSpec => []PanelIsTrue
BY BookInvariant, PTL DEF BookInv

\* A relay added anew shows nothing from before its removal but what a reset or
\* a test under way had left (relay_manager.js:100-103).
THEOREM NoOldTrendHolds == BookSpec => []NoOldTrend
<1>1. BookInv => NoOldTrend
  BY DEF BookInv, NoTrace, Traceless, NoOldTrend, Listed
<1>2. QED
  BY BookInvariant, <1>1, PTL

===============================================================================
