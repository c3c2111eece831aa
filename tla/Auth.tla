-------------------------------- MODULE Auth --------------------------------
(***************************************************************************)
(* internal/auth: the one-time tokens discovery answers carry, the         *)
(* sessions they are exchanged for, and the handlers that use both:        *)
(* POST/GET /auth, /auth/logout, and the routes that need a session        *)
(* (proxied ones) or a session or bearer token (telemetry).                *)
(*                                                                         *)
(* Every handler runs in a goroutine of its own (a slot) and takes the two *)
(* managers' locks one at a time, so whatever lies between two locked      *)
(* regions interleaves with every other request, with the two cleanup      *)
(* loops, with the clock and with a restart of the daemon, which loses     *)
(* both maps.                                                              *)
(***************************************************************************)
EXTENDS Naturals

CONSTANTS
  Tokens,      \* tokens that discovery may issue, one answer each
  SessionIds,  \* random session identifiers, drawn without repetition
  Browsers,    \* browsers that hold tokens and one cookie each
  Slots,       \* handler goroutines: how many requests run at once
  Addresses,   \* client addresses
  SameClient(_, _),  \* sameClient: equal, or in one IPv6 /64
  None,        \* no token, no cookie
  TokenTTL, SessionTTL,
  MaxTime      \* bound: the clock stops there

ASSUME NoneAssumption == None \notin Tokens \cup SessionIds
ASSUME TTLAssumption == TokenTTL \in Nat /\ SessionTTL \in Nat /\ MaxTime \in Nat
ASSUME ActorAssumption == Addresses # {} /\ Browsers # {}

VARIABLES
  now,      \* the wall clock
  token,    \* TokenManager.tokens, and what became of deleted ones
  session,  \* SessionManager.sessions, and what became of deleted ones
  maker,    \* the token each session was created from
  req,      \* the handler goroutines
  jar,      \* dl_conn_session cookie of each browser
  addr      \* address each browser calls from

vars == <<now, token, session, maker, req, jar, addr>>

Times   == 0..MaxTime
Token   == [state : {"none", "live", "used", "gone"}, at : Times]
Session == [state : {"none", "live", "gone"}, seen : Times, ip : Addresses]
Kinds   == {"auth", "logout", "use"}
Steps   == {"idle", "validate", "redeem", "create", "bearer", "invalidate", "reply"}
Request == [pc : Steps, kind : Kinds, from : Browsers, ip : Addresses,
            token : Tokens \cup {None}, cookie : SessionIds \cup {None}]

TypeOK ==
  /\ now \in Times
  /\ token \in [Tokens -> Token]
  /\ session \in [SessionIds -> Session]
  /\ maker \in [SessionIds -> Tokens \cup {None}]
  /\ req \in [Slots -> Request]
  /\ jar \in [Browsers -> SessionIds \cup {None}]
  /\ addr \in [Browsers -> Addresses]

SomeAddress == CHOOSE a \in Addresses : TRUE
SomeBrowser == CHOOSE b \in Browsers : TRUE

\* A handler goroutine that does not exist, and what is left of a deleted
\* entry of either map.
Idle == [pc |-> "idle", kind |-> "auth", from |-> SomeBrowser, ip |-> SomeAddress,
         token |-> None, cookie |-> None]
GoneToken   == [state |-> "gone", at |-> 0]
GoneSession == [state |-> "gone", seen |-> 0, ip |-> SomeAddress]

Init ==
  /\ now = 0
  /\ token = [t \in Tokens |-> [state |-> "none", at |-> 0]]
  /\ session = [id \in SessionIds |->
       [state |-> "none", seen |-> 0, ip |-> SomeAddress]]
  /\ maker = [id \in SessionIds |-> None]
  /\ req = [s \in Slots |-> Idle]
  /\ jar = [b \in Browsers |-> None]
  /\ addr \in [Browsers -> Addresses]

-----------------------------------------------------------------------------
(* The two managers.                                                       *)

TokenExpired(t)    == now - token[t].at > TokenTTL
SessionExpired(id) == now - session[id].seen > SessionTTL

\* A token ConsumeWithReason would accept.
Redeemable(t) == token[t].state = "live" /\ ~TokenExpired(t)

\* A session ValidateSession would find within its TTL.
Alive(id) == session[id].state = "live" /\ ~SessionExpired(id)

\* TokenManager.Issue, called for every answered discovery request.
Issue(t) ==
  /\ token[t].state = "none"
  /\ token' = [token EXCEPT ![t] = [state |-> "live", at |-> now]]
  /\ UNCHANGED <<now, session, maker, req, jar, addr>>

\* Mutant of CleanTokens: the boundary instant counts as expired.
CleanTokensEarly ==
  /\ token' = [t \in Tokens |->
       IF token[t].state \in {"live", "used"} /\ now - token[t].at >= TokenTTL
         THEN GoneToken ELSE token[t]]
  /\ token' # token
  /\ UNCHANGED <<now, session, maker, req, jar, addr>>

\* TokenManager.Cleanup, every minute.
CleanTokens ==
  /\ token' = [t \in Tokens |->
       IF token[t].state \in {"live", "used"} /\ TokenExpired(t)
         THEN GoneToken ELSE token[t]]
  /\ token' # token
  /\ UNCHANGED <<now, session, maker, req, jar, addr>>

\* SessionManager.Cleanup, every five minutes.
CleanSessions ==
  /\ session' = [id \in SessionIds |->
       IF session[id].state = "live" /\ SessionExpired(id)
         THEN GoneSession ELSE session[id]]
  /\ session' # session
  /\ UNCHANGED <<now, token, maker, req, jar, addr>>

\* Mutants of Validated: the renewed entry is written back although it was
\* deleted meanwhile; the expiry slides for any address.
ValidatedWriteBack(id, ip) ==
  IF session[id].state = "none" THEN session
  ELSE [session EXCEPT ![id] = [state |-> "live", seen |-> now, ip |-> ip]]
ValidatedAnyClient(id, ip) ==
  IF session[id].state # "live" THEN session
  ELSE IF SessionExpired(id) THEN [session EXCEPT ![id] = GoneSession]
  ELSE [session EXCEPT ![id].seen = now]

\* What ValidateSession does to the map for cookie id from address ip: an
\* expired session is deleted, another client's request changes nothing, and
\* an accepted one slides the expiry.
Validated(id, ip) ==
  IF session[id].state # "live" THEN session
  ELSE IF SessionExpired(id) THEN [session EXCEPT ![id] = GoneSession]
  ELSE IF ~SameClient(session[id].ip, ip) THEN session
  ELSE [session EXCEPT ![id].seen = now]

Accepted(id, ip) == id # None /\ Alive(id) /\ SameClient(session[id].ip, ip)

-----------------------------------------------------------------------------
(* The handlers.                                                           *)

\* A request arrives with whatever cookie the browser has now, and with an
\* issued token or none; "use" with a token is telemetry with a bearer.
Arrive(s, b, kind, t) ==
  /\ req[s].pc = "idle"
  /\ t # None => kind # "logout" /\ token[t].state # "none"
  /\ req' = [req EXCEPT ![s] =
       [pc |-> IF kind = "logout" THEN "invalidate" ELSE "validate",
        kind |-> kind, from |-> b, ip |-> addr[b], token |-> t,
        cookie |-> jar[b]]]
  /\ UNCHANGED <<now, token, session, maker, jar, addr>>

\* The handler goes on to its next locked region; it answers with nothing
\* the browser keeps (content, a redirect, an error) and returns; it answers
\* with a Set-Cookie: cookie is then the session it sets, None to clear it.
Goto(s, step)   == req' = [req EXCEPT ![s].pc = step]
Done(s)         == req' = [req EXCEPT ![s] = Idle]
SetCookie(s, c) == req' = [req EXCEPT ![s] =
                     [Idle EXCEPT !.pc = "reply", !.from = req[s].from, !.cookie = c]]

\* ValidateSession, the first thing every handler but logout does.  With a
\* live session /auth redirects and spends nothing, and the other routes serve;
\* without one they turn to the token, if there is one.
ValidateSession(s) ==
  LET r == req[s] IN
  /\ r.pc = "validate"
  /\ session' = IF r.cookie = None THEN session ELSE Validated(r.cookie, r.ip)
  /\ IF Accepted(r.cookie, r.ip) \/ r.token = None THEN Done(s)
     ELSE Goto(s, IF r.kind = "auth" THEN "redeem" ELSE "bearer")
  /\ UNCHANGED <<now, token, maker, jar, addr>>

\* The rate limiter refuses, depending on traffic that is not modelled here.
Throttle(s) ==
  /\ req[s].pc = "redeem"
  /\ Done(s)
  /\ UNCHANGED <<now, token, session, maker, jar, addr>>

\* Mutant of ConsumeWithReason: the token is not marked used.
ConsumeUnmarked(s) ==
  /\ req[s].pc = "redeem"
  /\ \/ Redeemable(req[s].token) /\ Goto(s, "create")
     \/ ~Redeemable(req[s].token) /\ Done(s)
  /\ UNCHANGED <<now, token, session, maker, jar, addr>>

\* ConsumeWithReason: a redeemable token is marked used, an expired one is
\* deleted, unknown and used ones are refused as they are.
ConsumeWithReason(s) ==
  LET t == req[s].token IN
  /\ req[s].pc = "redeem"
  /\ \/ /\ Redeemable(t)
        /\ token' = [token EXCEPT ![t].state = "used"]
        /\ Goto(s, "create")
     \/ /\ token[t].state = "live" /\ TokenExpired(t)
        /\ token' = [token EXCEPT ![t] = GoneToken]
        /\ Done(s)
     \/ /\ token[t].state # "live"
        /\ Done(s)
        /\ UNCHANGED token
  /\ UNCHANGED <<now, session, maker, jar, addr>>

\* Mutant of CreateSession: the deadline is stored where the renewal time
\* belongs.
CreateWithDeadline(s, id) ==
  /\ req[s].pc = "create"
  /\ session[id].state = "none"
  /\ session' = [session EXCEPT ![id] =
       [state |-> "live", seen |-> now + SessionTTL, ip |-> req[s].ip]]
  /\ maker' = [maker EXCEPT ![id] = req[s].token]
  /\ SetCookie(s, id)
  /\ UNCHANGED <<now, token, jar, addr>>

\* CreateSession, bound to the address of the request.
CreateSession(s, id) ==
  /\ req[s].pc = "create"
  /\ session[id].state = "none"
  /\ session' = [session EXCEPT ![id] = [state |-> "live", seen |-> now, ip |-> req[s].ip]]
  /\ maker' = [maker EXCEPT ![id] = req[s].token]
  /\ SetCookie(s, id)
  /\ UNCHANGED <<now, token, jar, addr>>

\* TokenManager.Validate: telemetry accepts the token as a bearer credential
\* until its TTL, spent or not, and deletes one it finds expired.
ValidateToken(s) ==
  LET t == req[s].token IN
  /\ req[s].pc = "bearer"
  /\ token' = IF token[t].state # "gone" /\ TokenExpired(t)
                THEN [token EXCEPT ![t] = GoneToken] ELSE token
  /\ Done(s)
  /\ UNCHANGED <<now, session, maker, jar, addr>>

\* HandleLogout: Invalidate deletes the session whatever its age.
Invalidate(s) ==
  LET id == req[s].cookie IN
  /\ req[s].pc = "invalidate"
  /\ session' = IF id # None /\ session[id].state = "live"
                  THEN [session EXCEPT ![id] = GoneSession] ELSE session
  /\ SetCookie(s, None)
  /\ UNCHANGED <<now, token, maker, jar, addr>>

\* The Set-Cookie reaches the browser, or is lost on the way.
Reply(s) ==
  /\ req[s].pc = "reply"
  /\ Done(s)
  /\ jar' = [jar EXCEPT ![req[s].from] = req[s].cookie] \/ UNCHANGED jar
  /\ UNCHANGED <<now, token, session, maker, addr>>

-----------------------------------------------------------------------------
(* The environment.                                                        *)

Tick ==
  /\ now < MaxTime
  /\ now' = now + 1
  /\ UNCHANGED <<token, session, maker, req, jar, addr>>

\* A browser changes networks.
Roam(b) ==
  /\ \E a \in Addresses : a # addr[b] /\ addr' = [addr EXCEPT ![b] = a]
  /\ UNCHANGED <<now, token, session, maker, req, jar>>

\* The daemon restarts: both maps and every handler are gone, the browsers
\* keep their cookies.
Restart ==
  /\ token' = [t \in Tokens |-> IF token[t].state = "none" THEN token[t]
                                ELSE GoneToken]
  /\ session' = [id \in SessionIds |-> IF session[id].state = "none" THEN session[id]
                                       ELSE GoneSession]
  /\ req' = [s \in Slots |-> Idle]
  /\ UNCHANGED <<now, maker, jar, addr>>

Handle(s) ==
  \/ ValidateSession(s) \/ Throttle(s) \/ ConsumeWithReason(s)
  \/ (\E id \in SessionIds : CreateSession(s, id))
  \/ ValidateToken(s) \/ Invalidate(s) \/ Reply(s)

Next ==
  \/ \E t \in Tokens : Issue(t)
  \/ CleanTokens \/ CleanSessions
  \/ \E s \in Slots, b \in Browsers, kind \in Kinds, t \in Tokens \cup {None} :
       Arrive(s, b, kind, t)
  \/ \E s \in Slots : Handle(s)
  \/ Tick \/ Restart
  \/ \E b \in Browsers : Roam(b)

Spec == Init /\ [][Next]_vars

-----------------------------------------------------------------------------
(* Properties.                                                             *)

\* A token becomes at most one session however many requests present it at
\* once, and a session exists only for a token that was taken out of
\* circulation (tokens.go:66, handler.go:121-151).
OneSessionPerToken ==
  \A i, j \in SessionIds :
    maker[i] # None =>
      /\ maker[i] = maker[j] => i = j
      /\ token[maker[i]].state \in {"used", "gone"}

\* A live session belongs to the address that redeemed its token: nothing a
\* request from elsewhere does, and no renewal, rebinds it or keeps it alive
\* (session.go:88-117).
OnlyItsClientKeepsItAlive ==
  [][\A id \in SessionIds :
       session[id].state = "live" /\ session'[id] # session[id]
         /\ session'[id].state = "live"
       => /\ session'[id].ip = session[id].ip
          /\ \E s \in Slots : /\ req[s].pc = "validate" /\ req[s].cookie = id
                              /\ SameClient(session[id].ip, req[s].ip)]_vars

\* Cleanup loops, failed validations and other requests never take away a
\* session still within its TTL nor a token that could still be redeemed:
\* only a logout with that session's cookie, a redemption or a restart does
\* (tokens.go:110, session.go:98-117, 244).
NothingLiveIsSwept ==
  [][/\ \A id \in SessionIds : Alive(id) /\ session'[id].state = "gone" =>
          Restart \/ \E s \in Slots : req[s].pc = "invalidate" /\ req[s].cookie = id
     /\ \A t \in Tokens : Redeemable(t) /\ token'[t].state # "live" =>
          Restart \/ \E s \in Slots : req'[s].pc = "create" /\ req[s].token = t]_vars

\* Redemption, logout, expiry, cleanup and restart together keep the one-time
\* promise, and a revoked or expired session is never revived by a request
\* that was already past its check.
Access == INSTANCE OneTimeAccess WITH
  spent  <- {maker[id] : id \in SessionIds} \ {None},
  access <- {id \in SessionIds : session[id].state = "live"},
  ended  <- {id \in SessionIds : session[id].state = "gone"}
ImplementsAccess == Access!Spec

=============================================================================
