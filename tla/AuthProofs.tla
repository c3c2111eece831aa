----------------------------- MODULE AuthProofs -----------------------------
(***************************************************************************)
(* Theorems of Auth, for every set of tokens, sessions, browsers, requests *)
(* and addresses and every TTL.                                            *)
(***************************************************************************)
EXTENDS Auth, TLAPS

\* What the prover needs of one request: a well-typed slot can move on, be
\* done, or answer with a cookie.
LEMMA SlotTypes ==
  ASSUME req \in [Slots -> Request], NEW s \in Slots
  PROVE  /\ \A step \in Steps : Goto(s, step) => req' \in [Slots -> Request]
         /\ Done(s) => req' \in [Slots -> Request]
         /\ \A c \in SessionIds \cup {None} :
               SetCookie(s, c) => req' \in [Slots -> Request]
<1>1. SomeAddress \in Addresses /\ SomeBrowser \in Browsers
  BY ActorAssumption DEF SomeAddress, SomeBrowser
<1>2. Idle \in Request
  BY <1>1 DEF Idle, Request, Steps, Kinds
<1>3. \A c \in SessionIds \cup {None} :
         [Idle EXCEPT !.pc = "reply", !.from = req[s].from, !.cookie = c] \in Request
  BY <1>1 DEF Idle, Request, Steps, Kinds
<1>4. \A step \in Steps : [req[s] EXCEPT !.pc = step] \in Request
  BY DEF Request
<1>5. ASSUME NEW step \in Steps, Goto(s, step) PROVE req' \in [Slots -> Request]
  BY <1>4, <1>5 DEF Goto
<1>6. ASSUME NEW c \in SessionIds \cup {None}, SetCookie(s, c)
      PROVE  req' \in [Slots -> Request]
  BY <1>3, <1>6 DEF SetCookie
<1>7. QED
  BY <1>2, <1>5, <1>6 DEF Done

\* Entries of the two maps, when they are made and when they are gone.
LEMMA EntryTypes ==
  ASSUME TypeOK
  PROVE  /\ GoneToken \in Token /\ GoneSession \in Session
         /\ \A state \in {"none", "live", "used", "gone"} :
               [state |-> state, at |-> now] \in Token
         /\ \A ip \in Addresses : [state |-> "live", seen |-> now, ip |-> ip] \in Session
         /\ 0 \in Times
<1>1. SomeAddress \in Addresses /\ 0 \in Times
  BY ActorAssumption, TTLAssumption DEF SomeAddress, Times
<1>2. QED
  BY <1>1 DEF TypeOK, Token, Session, GoneToken, GoneSession

\* Every state has its type (tokens.go:18, session.go:35).
THEOREM TypeCorrect == Spec => []TypeOK
<1>1. Init => TypeOK
  <2> SUFFICES ASSUME Init PROVE TypeOK
    OBVIOUS
  <2>1. SomeAddress \in Addresses /\ SomeBrowser \in Browsers /\ 0 \in Times
    BY ActorAssumption, TTLAssumption DEF SomeAddress, SomeBrowser, Times
  <2>2. Idle \in Request
    BY <2>1 DEF Idle, Request, Steps, Kinds
  <2>3. QED
    BY <2>1, <2>2 DEF Init, TypeOK, Token, Session
<1>2. TypeOK /\ [Next]_vars => TypeOK'
  <2> SUFFICES ASSUME TypeOK, [Next]_vars PROVE TypeOK'
    OBVIOUS
  <2> USE DEF TypeOK
  <2>1. ASSUME NEW t \in Tokens, Issue(t) PROVE TypeOK'
    BY <2>1, EntryTypes DEF Issue
  <2>2. CASE CleanTokens
    BY <2>2, EntryTypes DEF CleanTokens
  <2>3. CASE CleanSessions
    BY <2>3, EntryTypes DEF CleanSessions
  <2>4. ASSUME NEW s \in Slots, NEW b \in Browsers, NEW kind \in Kinds,
               NEW t \in Tokens \cup {None}, Arrive(s, b, kind, t)
        PROVE  TypeOK'
    <3>1. [pc |-> IF kind = "logout" THEN "invalidate" ELSE "validate",
           kind |-> kind, from |-> b, ip |-> addr[b], token |-> t,
           cookie |-> jar[b]] \in Request
      BY DEF Request, Steps
    <3>2. QED
      BY <2>4, <3>1 DEF Arrive
  <2>5. ASSUME NEW s \in Slots, ValidateSession(s) PROVE TypeOK'
    <3>1. req' \in [Slots -> Request]
      BY <2>5, SlotTypes DEF ValidateSession, Steps
    <3>2. session' \in [SessionIds -> Session]
      <4>1. req[s].cookie \in SessionIds \cup {None} /\ req[s].ip \in Addresses
        BY DEF Request
      <4>2. \A id \in SessionIds :
              [session EXCEPT ![id].seen = now] \in [SessionIds -> Session]
        BY DEF Session
      <4>3. QED
        BY <2>5, <4>1, <4>2, EntryTypes DEF ValidateSession, Validated
    <3>3. QED
      BY <2>5, <3>1, <3>2 DEF ValidateSession
  <2>6. ASSUME NEW s \in Slots, Throttle(s) PROVE TypeOK'
    BY <2>6, SlotTypes DEF Throttle
  <2>7. ASSUME NEW s \in Slots, ConsumeWithReason(s) PROVE TypeOK'
    <3>1. req' \in [Slots -> Request]
      BY <2>7, SlotTypes DEF ConsumeWithReason, Steps
    <3>2. token' \in [Tokens -> Token]
      <4>1. \A t \in Tokens : [token[t] EXCEPT !.state = "used"] \in Token
        BY DEF Token
      <4>2. QED
        BY <2>7, <4>1, EntryTypes DEF ConsumeWithReason
    <3>3. QED
      BY <2>7, <3>1, <3>2 DEF ConsumeWithReason
  <2>8. ASSUME NEW s \in Slots, NEW id \in SessionIds, CreateSession(s, id)
        PROVE  TypeOK'
    <3>1. req' \in [Slots -> Request]
      BY <2>8, SlotTypes DEF CreateSession
    <3>2. req[s].ip \in Addresses /\ req[s].token \in Tokens \cup {None}
      BY DEF Request
    <3>3. QED
      BY <2>8, <3>1, <3>2, EntryTypes DEF CreateSession
  <2>9. ASSUME NEW s \in Slots, ValidateToken(s) PROVE TypeOK'
    <3>1. req' \in [Slots -> Request]
      BY <2>9, SlotTypes DEF ValidateToken
    <3>2. QED
      BY <2>9, <3>1, EntryTypes DEF ValidateToken
  <2>10. ASSUME NEW s \in Slots, Invalidate(s) PROVE TypeOK'
    <3>1. req' \in [Slots -> Request]
      BY <2>10, SlotTypes DEF Invalidate
    <3>2. QED
      BY <2>10, <3>1, EntryTypes DEF Invalidate
  <2>11. ASSUME NEW s \in Slots, Reply(s) PROVE TypeOK'
    <3>1. req' \in [Slots -> Request] /\ req[s].cookie \in SessionIds \cup {None}
      BY <2>11, SlotTypes DEF Reply, Request
    <3>2. QED
      BY <2>11, <3>1 DEF Reply
  <2>12. CASE Tick
    BY <2>12, TTLAssumption DEF Tick, Times
  <2>13. CASE Restart
    <3>1. Idle \in Request
      BY ActorAssumption DEF Idle, Request, Steps, Kinds, SomeAddress, SomeBrowser
    <3>2. QED
      BY <2>13, <3>1, EntryTypes DEF Restart
  <2>14. ASSUME NEW b \in Browsers, Roam(b) PROVE TypeOK'
    BY <2>14 DEF Roam
  <2>15. CASE UNCHANGED vars
    BY <2>15 DEF vars
  <2>16. QED
    BY <2>1, <2>2, <2>3, <2>4, <2>5, <2>6, <2>7, <2>8, <2>9, <2>10, <2>11,
       <2>12, <2>13, <2>14, <2>15 DEF Next, Handle
<1>3. QED
  BY <1>1, <1>2, PTL DEF Spec

-----------------------------------------------------------------------------
(* One session per token.                                                  *)

\* What OneSessionPerToken needs to be inductive: a handler between
\* ConsumeWithReason and CreateSession owns its token alone -- no session was
\* made from it, no other handler is about to -- and an identifier not drawn
\* yet has no maker.
Creating(s) == req[s].pc = "create"

\* A request carries an issued token wherever it carries one, and does carry
\* one when it gets to the token map.
Presented(r) ==
  /\ r.token \in Tokens \cup {None}
  /\ r.token # None => token[r.token].state # "none"
  /\ r.pc \in {"redeem", "create", "bearer"} => r.token # None

CreatorInv ==
  /\ \A s \in Slots : Presented(req[s])
  /\ \A s \in Slots : Creating(s) =>
       /\ token[req[s].token].state \in {"used", "gone"}
       /\ \A id \in SessionIds : maker[id] # req[s].token
       /\ \A u \in Slots : Creating(u) /\ req[u].token = req[s].token => u = s

MakerInv ==
  \A id \in SessionIds : session[id].state = "none" <=> maker[id] = None

RedeemInv == OneSessionPerToken /\ CreatorInv /\ MakerInv

\* Only CreateSession makes sessions.
MadeOnlyByCreate ==
  /\ maker' = maker
  /\ \A id \in SessionIds : session'[id].state = "none" <=> session[id].state = "none"

\* A used or deleted token stays that way, an issued one stays issued.
TokensOnlyAge ==
  \A t \in Tokens :
    /\ token[t].state \in {"used", "gone"} => token'[t].state \in {"used", "gone"}
    /\ token[t].state # "none" => token'[t].state # "none"

\* A step in which tokens only age, no session is made and no handler enters
\* "create" keeps the invariant.
LEMMA QuietStep ==
  ASSUME TypeOK, RedeemInv, MadeOnlyByCreate, TokensOnlyAge,
         \A s \in Slots :
            /\ Presented(req'[s])
            /\ req'[s].pc = "create" => Creating(s) /\ req'[s].token = req[s].token
  PROVE  RedeemInv'
<1>1. OneSessionPerToken'
  BY DEF RedeemInv, OneSessionPerToken, MadeOnlyByCreate, TokensOnlyAge, TypeOK
<1>2. MakerInv'
  BY DEF RedeemInv, MakerInv, MadeOnlyByCreate
<1>3. ASSUME NEW s \in Slots PROVE Presented(req[s])'
  BY DEF Presented, TokensOnlyAge
<1>4. ASSUME NEW s \in Slots, Creating(s)'
      PROVE  /\ token'[req'[s].token].state \in {"used", "gone"}
             /\ \A id \in SessionIds : maker'[id] # req'[s].token
             /\ \A u \in Slots : Creating(u)' /\ req'[u].token = req'[s].token => u = s
  <2>1. Creating(s) /\ req'[s].token = req[s].token /\ req[s].token \in Tokens
    BY <1>4, NoneAssumption DEF Creating, Presented
  <2>2. QED
    BY <1>4, <2>1 DEF RedeemInv, CreatorInv, Creating, MadeOnlyByCreate, TokensOnlyAge
<1>5. QED
  BY <1>1, <1>2, <1>3, <1>4 DEF RedeemInv, CreatorInv

\* In particular a step in which one handler goes to a step other than
\* "create", with an issued token or none.
LEMMA OneSlotStep ==
  ASSUME TypeOK, RedeemInv, MadeOnlyByCreate, TokensOnlyAge, NEW s \in Slots,
         NEW r, Presented(r), r.pc # "create", req' = [req EXCEPT ![s] = r]
  PROVE  RedeemInv'
<1>1. \A u \in Slots : req'[u] = IF u = s THEN r ELSE req[u]
  BY DEF TypeOK
<1>2. QED
  BY <1>1, QuietStep DEF RedeemInv, CreatorInv, Creating

\* ... among which leaving, with or without a cookie to set.
LEMMA LeaveStep ==
  ASSUME TypeOK, RedeemInv, MadeOnlyByCreate, TokensOnlyAge, NEW s \in Slots,
         NEW c \in SessionIds \cup {None}, Done(s) \/ SetCookie(s, c)
  PROVE  RedeemInv'
<1>1. Presented(Idle) /\ Idle.pc # "create"
  BY DEF Presented, Idle
<1>2. CASE Done(s)
  BY <1>1, <1>2, OneSlotStep DEF Done
<1>3. CASE SetCookie(s, c)
  <2> DEFINE r == [Idle EXCEPT !.pc = "reply", !.from = req[s].from, !.cookie = c]
  <2>1. r.pc = "reply" /\ r.token = None
    BY DEF Idle
  <2>2. req' = [req EXCEPT ![s] = r]
    BY <1>3 DEF SetCookie
  <2>3. Presented(r)
    BY <2>1 DEF Presented
  <2> HIDE DEF r
  <2>4. QED
    BY <2>1, <2>2, <2>3, OneSlotStep
<1>4. QED
  BY <1>2, <1>3

LEMMA RedeemInvStep ==
  ASSUME TypeOK, RedeemInv, [Next]_vars
  PROVE  RedeemInv'
<1>0. /\ UNCHANGED token => TokensOnlyAge
      /\ UNCHANGED <<maker, session>> => MadeOnlyByCreate
      /\ \A s \in Slots : Presented(req[s])
  BY DEF TokensOnlyAge, MadeOnlyByCreate, RedeemInv, CreatorInv
<1>00. UNCHANGED req /\ MadeOnlyByCreate /\ TokensOnlyAge => RedeemInv'
  BY <1>0, QuietStep DEF Creating
<1>1. ASSUME NEW t \in Tokens, Issue(t) PROVE RedeemInv'
  BY <1>0, <1>00, <1>1 DEF Issue, TokensOnlyAge, TypeOK
<1>2. CASE CleanTokens
  BY <1>0, <1>00, <1>2 DEF CleanTokens, TokensOnlyAge, GoneToken
<1>3. CASE CleanSessions
  BY <1>0, <1>00, <1>3 DEF CleanSessions, MadeOnlyByCreate, GoneSession
<1>4. ASSUME NEW s \in Slots, NEW b \in Browsers, NEW kind \in Kinds,
             NEW t \in Tokens \cup {None}, Arrive(s, b, kind, t)
      PROVE  RedeemInv'
  <2> DEFINE r == [pc |-> IF kind = "logout" THEN "invalidate" ELSE "validate",
                   kind |-> kind, from |-> b, ip |-> addr[b], token |-> t,
                   cookie |-> jar[b]]
  <2>1. r.pc # "create" /\ req' = [req EXCEPT ![s] = r]
    BY <1>4 DEF Arrive
  <2>2. Presented(r)
    BY <1>4 DEF Arrive, Presented
  <2> HIDE DEF r
  <2>3. QED
    BY <1>0, <1>4, <2>1, <2>2, OneSlotStep DEF Arrive
<1>5. ASSUME NEW s \in Slots, ValidateSession(s) PROVE RedeemInv'
  <2>1. MadeOnlyByCreate /\ TokensOnlyAge
    BY <1>0, <1>5 DEF ValidateSession, Validated, MadeOnlyByCreate, GoneSession, TypeOK
  <2>2. CASE Done(s)
    BY <2>1, <2>2, LeaveStep
  <2>3. CASE req[s].token # None /\ \E step \in {"redeem", "bearer"} : Goto(s, step)
    <3>1. PICK step \in {"redeem", "bearer"} : Goto(s, step)
      BY <2>3
    <3>2. /\ Presented([req[s] EXCEPT !.pc = step])
          /\ [req[s] EXCEPT !.pc = step].pc # "create"
      BY <1>0, <2>3 DEF Presented, TypeOK, Request
    <3>3. req' = [req EXCEPT ![s] = [req[s] EXCEPT !.pc = step]]
      BY <3>1 DEF Goto
    <3>4. QED
      BY <2>1, <3>2, <3>3, OneSlotStep
  <2>4. QED
    BY <1>5, <2>2, <2>3 DEF ValidateSession
<1>6. ASSUME NEW s \in Slots, Throttle(s) PROVE RedeemInv'
  BY <1>0, <1>6, LeaveStep DEF Throttle
<1>7. ASSUME NEW s \in Slots, ConsumeWithReason(s) PROVE RedeemInv'
  <2> DEFINE t == req[s].token
  <2>0. t \in Tokens /\ MadeOnlyByCreate
    BY <1>0, <1>7 DEF ConsumeWithReason, Presented
  <2>1. CASE Redeemable(t) /\ token' = [token EXCEPT ![t].state = "used"] /\ Goto(s, "create")
    <3>1. /\ token'[t].state = "used"
          /\ \A x \in Tokens : x # t => token'[x] = token[x]
          /\ token[t].state = "live"
      BY <2>0, <2>1 DEF TypeOK, Redeemable, Token
    <3>2. /\ \A u \in Slots : u # s => req'[u] = req[u]
          /\ req'[s].pc = "create" /\ req'[s].token = t
      BY <2>1 DEF Goto, TypeOK, Request
    <3>3. \A id \in SessionIds : maker[id] # t
      BY <2>0, <3>1, NoneAssumption DEF RedeemInv, OneSessionPerToken
    <3>4. \A u \in Slots : Creating(u) => req[u].token # t
      BY <3>1 DEF RedeemInv, CreatorInv
    <3>5. TokensOnlyAge
      BY <3>1 DEF TokensOnlyAge
    <3>6. OneSessionPerToken' /\ MakerInv'
      BY <2>0, <3>5 DEF RedeemInv, OneSessionPerToken, MakerInv, MadeOnlyByCreate,
         TokensOnlyAge, TypeOK
    <3>7. \A u \in Slots : Presented(req[u])'
      BY <1>0, <2>0, <3>1, <3>2, NoneAssumption DEF Presented
    <3>8. ASSUME NEW u \in Slots, Creating(u)'
          PROVE  /\ token'[req'[u].token].state \in {"used", "gone"}
                 /\ \A id \in SessionIds : maker'[id] # req'[u].token
                 /\ \A v \in Slots : Creating(v)' /\ req'[v].token = req'[u].token => v = u
      <4>1. CASE u = s
        BY <2>0, <3>1, <3>2, <3>3, <3>4, <3>8, <4>1 DEF Creating, MadeOnlyByCreate
      <4>2. CASE u # s
        <5>1. Creating(u) /\ req'[u] = req[u] /\ req[u].token \in Tokens
          BY <1>0, <3>2, <3>8, <4>2 DEF Creating, Presented
        <5>2. QED
          BY <2>0, <3>1, <3>2, <3>4, <5>1
             DEF RedeemInv, CreatorInv, Creating, MadeOnlyByCreate
      <4>3. QED
        BY <4>1, <4>2
    <3>9. QED
      BY <3>6, <3>7, <3>8 DEF RedeemInv, CreatorInv
  <2>2. CASE token' = [token EXCEPT ![t] = GoneToken] /\ Done(s)
    <3>1. TokensOnlyAge
      BY <2>0, <2>2 DEF TokensOnlyAge, GoneToken, TypeOK
    <3>2. QED
      BY <2>0, <2>2, <3>1, LeaveStep
  <2>3. CASE UNCHANGED token /\ Done(s)
    BY <1>0, <2>0, <2>3, LeaveStep
  <2>4. QED
    BY <1>7, <2>1, <2>2, <2>3 DEF ConsumeWithReason
<1>8. ASSUME NEW s \in Slots, NEW id \in SessionIds, CreateSession(s, id)
      PROVE  RedeemInv'
  <2> DEFINE t == req[s].token
  <2>1. t \in Tokens /\ token[t].state \in {"used", "gone"} /\ Creating(s)
    BY <1>0, <1>8 DEF CreateSession, Presented, RedeemInv, CreatorInv, Creating
  <2>2. /\ maker'[id] = t /\ session'[id].state = "live" /\ token' = token
        /\ \A x \in SessionIds : x # id => maker'[x] = maker[x] /\ session'[x] = session[x]
    BY <1>8 DEF CreateSession, TypeOK
  <2>3. \A x \in SessionIds : maker[x] # t
    BY <2>1 DEF RedeemInv, CreatorInv
  <2>4. /\ \A u \in Slots : u # s => req'[u] = req[u]
        /\ req'[s].pc = "reply" /\ req'[s].token = None
    BY <1>8 DEF CreateSession, SetCookie, TypeOK, Idle
  <2>5. OneSessionPerToken' /\ MakerInv'
    BY <2>1, <2>2, <2>3, NoneAssumption DEF RedeemInv, OneSessionPerToken, MakerInv
  <2>6. \A u \in Slots : Presented(req[u])'
    BY <1>0, <2>2, <2>4 DEF Presented
  <2>7. \A u \in Slots : u # s /\ Creating(u) => req[u].token # t
    BY <2>1 DEF RedeemInv, CreatorInv
  <2>8. ASSUME NEW u \in Slots, Creating(u)'
        PROVE  /\ token'[req'[u].token].state \in {"used", "gone"}
               /\ \A x \in SessionIds : maker'[x] # req'[u].token
               /\ \A v \in Slots : Creating(v)' /\ req'[v].token = req'[u].token => v = u
    <3>1. u # s /\ Creating(u) /\ req'[u] = req[u]
      BY <2>4, <2>8 DEF Creating
    <3>2. QED
      BY <2>2, <2>4, <2>7, <3>1 DEF RedeemInv, CreatorInv, Creating
  <2>9. QED
    BY <2>5, <2>6, <2>8 DEF RedeemInv, CreatorInv
<1>9. ASSUME NEW s \in Slots, ValidateToken(s) PROVE RedeemInv'
  <2>1. TokensOnlyAge
    BY <1>0, <1>9 DEF ValidateToken, TokensOnlyAge, GoneToken, TypeOK
  <2>2. QED
    BY <1>0, <1>9, <2>1, LeaveStep DEF ValidateToken
<1>10. ASSUME NEW s \in Slots, Invalidate(s) PROVE RedeemInv'
  <2>1. MadeOnlyByCreate
    BY <1>10 DEF Invalidate, MadeOnlyByCreate, GoneSession, TypeOK
  <2>2. QED
    BY <1>0, <1>10, <2>1, LeaveStep DEF Invalidate
<1>11. ASSUME NEW s \in Slots, Reply(s) PROVE RedeemInv'
  BY <1>0, <1>11, LeaveStep DEF Reply
<1>12. CASE Restart
  <2>1. MadeOnlyByCreate /\ TokensOnlyAge
    BY <1>12 DEF Restart, MadeOnlyByCreate, TokensOnlyAge, GoneToken, GoneSession
  <2>2. \A s \in Slots : Presented(req'[s]) /\ req'[s].pc # "create"
    BY <1>12 DEF Restart, Presented, Idle
  <2>3. QED
    BY <2>1, <2>2, QuietStep
<1>13. CASE Tick \/ (\E b \in Browsers : Roam(b)) \/ UNCHANGED vars
  BY <1>0, <1>00, <1>13 DEF Tick, Roam, vars
<1>14. QED
  BY <1>1, <1>2, <1>3, <1>4, <1>5, <1>6, <1>7, <1>8, <1>9, <1>10, <1>11,
     <1>12, <1>13 DEF Next, Handle

LEMMA RedeemInvariant == Spec => []RedeemInv
<1>1. Init => RedeemInv
  BY DEF Init, RedeemInv, OneSessionPerToken, CreatorInv, Creating, Presented,
     MakerInv, Idle
<1>2. TypeOK /\ RedeemInv /\ [Next]_vars => RedeemInv'
  BY RedeemInvStep
<1>3. QED
  BY <1>1, <1>2, TypeCorrect, PTL DEF Spec

\* Whatever requests run at once, a token becomes at most one session, and a
\* session's token is out of circulation (tokens.go:66, handler.go:121-151).
THEOREM OneSessionPerTokenHolds == Spec => []OneSessionPerToken
BY RedeemInvariant, PTL DEF RedeemInv

-----------------------------------------------------------------------------
(* The one-time promise.                                                   *)

\* Every step but CreateSession leaves makers alone and takes sessions at most
\* from live to gone.
OnlyEnds ==
  /\ maker' = maker
  /\ \A id \in SessionIds :
       \/ session'[id].state = session[id].state
       \/ session[id].state = "live" /\ session'[id].state = "gone"

\* Such a step is End, of the sessions it takes.
LEMMA EndStep ==
  ASSUME OnlyEnds PROVE Access!Next
<1> DEFINE live == {id \in SessionIds : session[id].state = "live"}
           gone == {id \in SessionIds : session[id].state = "gone"}
           S == {id \in live : session'[id].state = "gone"}
<1>1. S \in SUBSET live
  OBVIOUS
<1>2. {id \in SessionIds : session'[id].state = "live"} = live \ S
  BY DEF OnlyEnds
<1>3. {id \in SessionIds : session'[id].state = "gone"} = gone \cup S
  BY DEF OnlyEnds
<1>4. ({maker[id] : id \in SessionIds} \ {None})' = {maker[id] : id \in SessionIds} \ {None}
  BY DEF OnlyEnds
<1> HIDE DEF S
<1>5. Access!End
  BY <1>1, <1>2, <1>3, <1>4 DEF Access!End
<1>6. QED
  BY <1>5 DEF Access!Next

\* CreateSession redeems the handler's token: nothing was made from it yet and
\* the identifier has never been used.
LEMMA RedeemStep ==
  ASSUME TypeOK, RedeemInv, NEW s \in Slots, NEW id \in SessionIds, CreateSession(s, id)
  PROVE  Access!Next
<1> DEFINE t == req[s].token
           spent == {maker[x] : x \in SessionIds} \ {None}
           live == {x \in SessionIds : session[x].state = "live"}
           gone == {x \in SessionIds : session[x].state = "gone"}
<1>1. Creating(s) /\ session[id].state = "none" /\ maker[id] = None
  BY DEF CreateSession, Creating, RedeemInv, MakerInv
<1>2. t \in Tokens /\ \A x \in SessionIds : maker[x] # t
  BY <1>1 DEF RedeemInv, CreatorInv, Creating, Presented
<1>3. /\ maker'[id] = t /\ session'[id].state = "live"
      /\ \A x \in SessionIds : x # id => maker'[x] = maker[x] /\ session'[x] = session[x]
  BY DEF CreateSession, TypeOK
<1>4. t \notin spent /\ id \notin live \cup gone
  BY <1>1, <1>2
<1>5. ({maker[x] : x \in SessionIds} \ {None})' = spent \cup {t}
  <2>1. ({maker[x] : x \in SessionIds} \ {None})' \subseteq spent \cup {t}
    BY <1>3
  <2>2. spent \subseteq ({maker[x] : x \in SessionIds} \ {None})'
    BY <1>1, <1>3
  <2>3. t \in ({maker[x] : x \in SessionIds} \ {None})'
    BY <1>2, <1>3, NoneAssumption
  <2>4. QED
    BY <2>1, <2>2, <2>3
<1>6. {x \in SessionIds : session'[x].state = "live"} = live \cup {id}
  BY <1>3
<1>7. {x \in SessionIds : session'[x].state = "gone"} = gone
  BY <1>1, <1>3
<1> HIDE DEF t
<1>8. Access!Redeem(t, id)
  BY <1>4, <1>5, <1>6, <1>7 DEF Access!Redeem
<1>9. QED
  BY <1>2, <1>8 DEF Access!Next

\* Redemption, logout, expiry, cleanup and restart, with any number of handlers,
\* implement one-time access: no token is redeemed twice, and no session that
\* ended gives access again (tokens.go:63, session.go:84-117, handler.go:286).
THEOREM AccessImplemented == Spec => ImplementsAccess
<1>1. Init => Access!Init
  BY DEF Init, Access!Init
<1>2. ASSUME TypeOK, RedeemInv, [Next]_vars PROVE [Access!Next]_(Access!accessVars)
  <2>1. ASSUME OnlyEnds PROVE Access!Next
    BY <2>1, EndStep
  <2>2. ASSUME UNCHANGED <<maker, session>> PROVE OnlyEnds
    BY <2>2 DEF OnlyEnds
  <2>3. CASE CleanSessions
    BY <2>1, <2>3 DEF CleanSessions, OnlyEnds, GoneSession
  <2>4. CASE Restart
    BY <1>2, <2>1, <2>4 DEF Restart, OnlyEnds, GoneSession, TypeOK, Session
  <2>5. ASSUME NEW s \in Slots, ValidateSession(s) PROVE OnlyEnds
    <3>1. req[s].cookie \in SessionIds \cup {None}
      BY <1>2 DEF TypeOK, Request
    <3>2. CASE req[s].cookie = None
      BY <2>5, <3>2 DEF ValidateSession, OnlyEnds
    <3>3. CASE req[s].cookie \in SessionIds
      <4>1. session' = session \/ session' = Validated(req[s].cookie, req[s].ip)
        BY <2>5 DEF ValidateSession
      <4>2. maker' = maker
        BY <2>5 DEF ValidateSession
      <4>3. QED
        BY <1>2, <3>3, <4>1, <4>2 DEF Validated, OnlyEnds, GoneSession, TypeOK, Session
    <3>4. QED
      BY <3>1, <3>2, <3>3
  <2>6. ASSUME NEW s \in Slots, Invalidate(s) PROVE OnlyEnds
    BY <1>2, <2>6 DEF Invalidate, OnlyEnds, GoneSession, TypeOK, Session
  <2>7. ASSUME NEW s \in Slots, NEW id \in SessionIds, CreateSession(s, id)
        PROVE  Access!Next
    BY <1>2, <2>7, RedeemStep
  <2>8. CASE \/ \E t \in Tokens : Issue(t)
             \/ CleanTokens \/ Tick \/ (\E b \in Browsers : Roam(b)) \/ UNCHANGED vars
    BY <2>1, <2>2, <2>8 DEF Issue, CleanTokens, Tick, Roam, vars
  <2>9. ASSUME NEW s \in Slots, NEW b \in Browsers, NEW kind \in Kinds,
               NEW t \in Tokens \cup {None}, Arrive(s, b, kind, t)
        PROVE  Access!Next
    BY <2>1, <2>2, <2>9 DEF Arrive
  <2>10. ASSUME NEW s \in Slots,
                Throttle(s) \/ ConsumeWithReason(s) \/ ValidateToken(s) \/ Reply(s)
         PROVE  Access!Next
    BY <2>1, <2>2, <2>10 DEF Throttle, ConsumeWithReason, ValidateToken, Reply
  <2>11. QED
    BY <1>2, <2>1, <2>3, <2>4, <2>5, <2>6, <2>7, <2>8, <2>9, <2>10 DEF Next, Handle
<1>3. QED
  BY <1>1, <1>2, RedeemInvariant, TypeCorrect, PTL DEF Spec, ImplementsAccess, Access!Spec

-----------------------------------------------------------------------------
(* What may happen to a live session and to a live token.                  *)

\* A live session is renewed, for a request of its client; or it goes, having
\* expired, at a restart or by a logout with its cookie.
SessionRenewed(id) ==
  /\ session'[id] = [session[id] EXCEPT !.seen = now]
  /\ \E s \in Slots : /\ req[s].pc = "validate" /\ req[s].cookie = id
                      /\ SameClient(session[id].ip, req[s].ip)
SessionGone(id) ==
  /\ session'[id] = GoneSession
  /\ \/ SessionExpired(id) \/ Restart
     \/ \E s \in Slots : req[s].pc = "invalidate" /\ req[s].cookie = id

LEMMA SessionLife ==
  ASSUME TypeOK, [Next]_vars, NEW id \in SessionIds, session[id].state = "live"
  PROVE  session'[id] = session[id] \/ SessionRenewed(id) \/ SessionGone(id)
<1> USE DEF SessionRenewed, SessionGone
<1>1. CASE CleanSessions
  BY <1>1 DEF CleanSessions
<1>2. CASE Restart
  BY <1>2 DEF Restart
<1>3. ASSUME NEW s \in Slots, ValidateSession(s)
      PROVE  session'[id] = session[id] \/ SessionRenewed(id) \/ SessionGone(id)
  <2> DEFINE r == req[s]
  <2>1. r.cookie \in SessionIds \cup {None} /\ r.pc = "validate"
    BY <1>3 DEF ValidateSession, TypeOK, Request
  <2>2. session' = IF r.cookie = None THEN session ELSE Validated(r.cookie, r.ip)
    BY <1>3 DEF ValidateSession
  <2>3. CASE r.cookie # id
    BY <2>1, <2>2, <2>3 DEF Validated, TypeOK
  <2>4. CASE r.cookie = id
    <3>1. session' = Validated(id, r.ip)
      BY <2>2, <2>4, NoneAssumption
    <3>2. CASE SessionExpired(id)
      <4>1. session' = [session EXCEPT ![id] = GoneSession]
        BY <3>1, <3>2 DEF Validated
      <4>2. QED
        BY <3>2, <4>1 DEF TypeOK
    <3>3. CASE ~SessionExpired(id) /\ ~SameClient(session[id].ip, r.ip)
      BY <3>1, <3>3 DEF Validated
    <3>4. CASE ~SessionExpired(id) /\ SameClient(session[id].ip, r.ip)
      <4>1. session' = [session EXCEPT ![id].seen = now]
        BY <3>1, <3>4 DEF Validated
      <4>2. session'[id] = [session[id] EXCEPT !.seen = now]
        BY <4>1 DEF TypeOK
      <4>3. QED
        BY <2>1, <2>4, <3>4, <4>2
    <3>5. QED
      BY <3>2, <3>3, <3>4
  <2>5. QED
    BY <2>3, <2>4
<1>4. ASSUME NEW s \in Slots, NEW x \in SessionIds, CreateSession(s, x)
      PROVE  session'[id] = session[id]
  BY <1>4 DEF CreateSession, TypeOK
<1>5. ASSUME NEW s \in Slots, Invalidate(s)
      PROVE  session'[id] = session[id] \/ SessionGone(id)
  BY <1>5 DEF Invalidate, TypeOK
<1>6. ASSUME NEW s \in Slots,
             Throttle(s) \/ ConsumeWithReason(s) \/ ValidateToken(s) \/ Reply(s)
      PROVE  session' = session
  BY <1>6 DEF Throttle, ConsumeWithReason, ValidateToken, Reply
<1>7. ASSUME NEW s \in Slots, NEW b \in Browsers, NEW kind \in Kinds,
             NEW t \in Tokens \cup {None}, Arrive(s, b, kind, t)
      PROVE  session' = session
  BY <1>7 DEF Arrive
<1>8. CASE \/ \E t \in Tokens : Issue(t)
           \/ CleanTokens \/ Tick \/ (\E b \in Browsers : Roam(b)) \/ UNCHANGED vars
  BY <1>8 DEF Issue, CleanTokens, Tick, Roam, vars
<1>9. QED
  BY <1>1, <1>2, <1>3, <1>4, <1>5, <1>6, <1>7, <1>8 DEF Next, Handle

\* A live token is redeemed, by a handler that goes on to make a session of it;
\* or it goes, having expired or at a restart.
TokenSpent(t) ==
  \E s \in Slots : req'[s].pc = "create" /\ req[s].token = t
TokenGone(t) == token'[t] = GoneToken /\ (TokenExpired(t) \/ Restart)

LEMMA TokenLife ==
  ASSUME TypeOK, RedeemInv, [Next]_vars, NEW t \in Tokens, token[t].state = "live"
  PROVE  token'[t] = token[t] \/ TokenSpent(t) \/ TokenGone(t)
<1> USE DEF TokenSpent, TokenGone
<1>1. ASSUME NEW x \in Tokens, Issue(x) PROVE token'[t] = token[t]
  BY <1>1 DEF Issue, TypeOK
<1>2. CASE CleanTokens \/ Restart
  BY <1>2 DEF CleanTokens, Restart
<1>3. ASSUME NEW s \in Slots, ConsumeWithReason(s)
      PROVE  token'[t] = token[t] \/ TokenSpent(t) \/ TokenGone(t)
  <2> DEFINE x == req[s].token
  <2>1. x \in Tokens
    BY <1>3 DEF ConsumeWithReason, RedeemInv, CreatorInv, Presented
  <2>2. CASE Redeemable(x) /\ token' = [token EXCEPT ![x].state = "used"] /\ Goto(s, "create")
    <3>1. req'[s].pc = "create"
      BY <2>2 DEF Goto, TypeOK, Request
    <3>2. QED
      BY <2>1, <2>2, <3>1 DEF TypeOK
  <2>3. CASE TokenExpired(x) /\ token' = [token EXCEPT ![x] = GoneToken]
    BY <2>1, <2>3 DEF TypeOK
  <2>4. QED
    BY <1>3, <2>2, <2>3 DEF ConsumeWithReason
<1>4. ASSUME NEW s \in Slots, ValidateToken(s) PROVE token'[t] = token[t] \/ TokenGone(t)
  BY <1>4 DEF ValidateToken, TypeOK
<1>5. ASSUME NEW s \in Slots,
             \/ ValidateSession(s) \/ Throttle(s) \/ Invalidate(s) \/ Reply(s)
             \/ \E id \in SessionIds : CreateSession(s, id)
      PROVE  token' = token
  BY <1>5 DEF ValidateSession, Throttle, Invalidate, Reply, CreateSession
<1>6. ASSUME NEW s \in Slots, NEW b \in Browsers, NEW kind \in Kinds,
             NEW x \in Tokens \cup {None}, Arrive(s, b, kind, x)
      PROVE  token' = token
  BY <1>6 DEF Arrive
<1>7. CASE CleanSessions \/ Tick \/ (\E b \in Browsers : Roam(b)) \/ UNCHANGED vars
  BY <1>7 DEF CleanSessions, Tick, Roam, vars
<1>8. QED
  BY <1>1, <1>2, <1>3, <1>4, <1>5, <1>6, <1>7 DEF Next, Handle

\* Whatever requests, renewals, roaming and cleanups run at once, a live session
\* keeps the address it was bound to, and only a request from the same client
\* changes it at all (session.go:88-117).
THEOREM OnlyItsClientKeepsItAliveHolds == Spec => OnlyItsClientKeepsItAlive
<1> DEFINE Kept ==
      \A id \in SessionIds :
        session[id].state = "live" /\ session'[id] # session[id]
          /\ session'[id].state = "live"
        => /\ session'[id].ip = session[id].ip
           /\ \E s \in Slots : /\ req[s].pc = "validate" /\ req[s].cookie = id
                               /\ SameClient(session[id].ip, req[s].ip)
<1>1. TypeOK /\ [Next]_vars => Kept
  <2> SUFFICES ASSUME TypeOK, [Next]_vars, NEW id \in SessionIds, session[id].state = "live",
                      session'[id] # session[id], session'[id].state = "live"
               PROVE  /\ session'[id].ip = session[id].ip
                      /\ \E s \in Slots : /\ req[s].pc = "validate" /\ req[s].cookie = id
                                          /\ SameClient(session[id].ip, req[s].ip)
    OBVIOUS
  <2>1. ~SessionGone(id)
    BY DEF SessionGone, GoneSession
  <2>2. SessionRenewed(id)
    BY <2>1, SessionLife
  <2>3. [session[id] EXCEPT !.seen = now].ip = session[id].ip
    BY DEF TypeOK, Session
  <2>4. QED
    BY <2>2, <2>3 DEF SessionRenewed
<1>2. QED
  BY <1>1, TypeCorrect, PTL DEF Spec, OnlyItsClientKeepsItAlive

\* No cleanup, failed check or request of somebody else takes a session within
\* its TTL, or a token that could be redeemed (tokens.go:110, session.go:98-117,
\* 244).
THEOREM NothingLiveIsSweptHolds == Spec => NothingLiveIsSwept
<1> DEFINE Stays ==
      /\ \A id \in SessionIds : Alive(id) /\ session'[id].state = "gone" =>
           Restart \/ \E s \in Slots : req[s].pc = "invalidate" /\ req[s].cookie = id
      /\ \A t \in Tokens : Redeemable(t) /\ token'[t].state # "live" =>
           Restart \/ \E s \in Slots : req'[s].pc = "create" /\ req[s].token = t
<1>1. TypeOK /\ RedeemInv /\ [Next]_vars => Stays
  <2> SUFFICES ASSUME TypeOK, RedeemInv, [Next]_vars PROVE Stays
    OBVIOUS
  <2>1. ASSUME NEW id \in SessionIds, Alive(id), session'[id].state = "gone"
        PROVE  Restart \/ \E s \in Slots : req[s].pc = "invalidate" /\ req[s].cookie = id
    <3>1. session[id].state = "live" /\ ~SessionExpired(id)
      BY <2>1 DEF Alive
    <3>2. [session[id] EXCEPT !.seen = now].state = "live"
      BY <3>1 DEF TypeOK, Session
    <3>3. SessionGone(id)
      BY <2>1, <3>1, <3>2, SessionLife DEF SessionRenewed
    <3>4. QED
      BY <3>1, <3>3 DEF SessionGone
  <2>2. ASSUME NEW t \in Tokens, Redeemable(t), token'[t].state # "live"
        PROVE  Restart \/ \E s \in Slots : req'[s].pc = "create" /\ req[s].token = t
    <3>1. token[t].state = "live" /\ ~TokenExpired(t)
      BY <2>2 DEF Redeemable
    <3>2. QED
      BY <2>2, <3>1, TokenLife DEF TokenSpent, TokenGone
  <2>3. QED
    BY <2>1, <2>2
<1>2. QED
  BY <1>1, TypeCorrect, RedeemInvariant, PTL DEF Spec, NothingLiveIsSwept

=============================================================================
