--------------------------- MODULE ReturnTripProofs ----------------------------
(***************************************************************************)
(* Theorems of ReturnTrip, for any destinations, any number of replies and *)
(* any number of times each is applied.                                    *)
(***************************************************************************)
EXTENDS ReturnTrip, TLAPS

\* What makes the departures inductive: the destination is forgotten when the
\* return is announced, and nothing is timed or cancelled before that.
Announced ==
  /\ trip = NoTarget => ~told /\ ~timer /\ autos = 0
  /\ trip # NoTarget => returnTo = NoTarget

IInv == TypeOK /\ Announced /\ DeparturesAccounted

\* A value of ?next= is reduced to a destination, and a destination to itself.
LEMMA Sanitized ==
  /\ \A next : SanitizeNext(next) \in Places
  /\ \A next \in Places : SanitizeNext(next) = next
BY NoTargetAssumption DEF SanitizeNext, Places

\* A new document remembers a destination at most, and has announced nothing.
LEMMA Loaded ==
  ASSUME IInv, NEW address \in Urls, NEW item \in Places, Load(address, item)
  PROVE  IInv'
<1>1. stored' \in Places /\ returnTo' \in Places
  BY Sanitized DEF Load, CaptureReturnTo, ReadReturnTo, SanitizeNext, Places
<1>2. TypeOK'
  BY <1>1 DEF IInv, TypeOK, Load, Places
<1>3. Announced'
  BY DEF Load, Announced
<1>4. DeparturesAccounted'
  <2>1. \A i \in Replies : sends[i] \in Nat /\ applied[i] \in Nat /\ sends[i] <= applied[i]
    BY Bounds DEF IInv, TypeOK, DeparturesAccounted
  <2>2. \A i \in Replies : i # 0
    BY Bounds DEF Replies
  <2>3. QED
    BY <2>1, <2>2 DEF Load, DeparturesAccounted
<1>5. QED
  BY <1>2, <1>3, <1>4 DEF IInv

\* Taking the token and sending it, or sending none, keeps the count.
LEMMA Spent ==
  ASSUME IInv, NEW to \in Places,
         RedeemToken(to, "this") \/ RedeemToken(to, "new") \/ (held = 0 /\ UNCHANGED tokens),
         UNCHANGED applied
  PROVE  /\ held' \in {0} \cup Replies /\ sends' \in [Replies -> Nat]
         /\ \A i \in Replies :
              sends'[i] + (IF held' = i THEN 1 ELSE 0) <= applied'[i]
<1>1. \A i \in Replies : sends[i] \in Nat /\ applied[i] \in Nat /\ i # 0
  BY Bounds DEF IInv, TypeOK, Replies
<1>2. \A i \in Replies : sends[i] + (IF held = i THEN 1 ELSE 0) <= applied[i]
  BY DEF IInv, DeparturesAccounted
<1>3. CASE held = 0 /\ UNCHANGED tokens
  BY <1>2, <1>3 DEF tokens, IInv, TypeOK
<1>4. CASE RedeemToken(to, "this") \/ RedeemToken(to, "new")
  <2>1. held \in Replies /\ held' = 0 /\ sends' = [sends EXCEPT ![held] = sends[held] + 1]
    BY <1>4 DEF RedeemToken, IInv, TypeOK
  <2>2. sends' \in [Replies -> Nat]
    BY <2>1, <1>1 DEF IInv, TypeOK
  <2>3. \A i \in Replies : sends'[i] = IF i = held THEN sends[i] + 1 ELSE sends[i]
    BY <2>1 DEF IInv, TypeOK
  <2>4. QED
    BY <1>1, <1>2, <2>1, <2>2, <2>3
<1>5. QED
  BY <1>3, <1>4

\* No step of the page, the user, the host or the tab breaks the invariant.
LEMMA Inductive == IInv /\ [Next]_vars => IInv'
<1> SUFFICES ASSUME IInv, [Next]_vars PROVE IInv'
  OBVIOUS
<1> USE DEF IInv
<1>1. ASSUME NEW to \in Targets, OpenService(to) PROVE IInv'
  <2>1. to \in Places
    BY DEF Places
  <2>2. RedeemToken(to, "this") \/ RedeemToken(to, "new") \/ (held = 0 /\ UNCHANGED tokens)
    BY <1>1 DEF OpenService, ServiceHref, tokens
  <2>3. nav' \in Places
    BY <1>1, <2>1 DEF OpenService, RedeemToken, ServiceHref, TypeOK
  <2>4. QED
    BY <1>1, <2>1, <2>2, <2>3, Spent
      DEF OpenService, TypeOK, Announced, DeparturesAccounted, remembered, session, banner
<1>2. ASSUME Go PROVE /\ nav' \in Places
                      /\ \/ RedeemToken(trip, "this") \/ RedeemToken(trip, "new")
                         \/ (held = 0 /\ UNCHANGED tokens)
  BY <1>2 DEF Go, RedeemToken, ServiceHref, TypeOK
<1>3. CASE ReturnTimer
  <2>1. trip \in Places /\ trip # NoTarget /\ autos' = 1 /\ ~told
    BY <1>3 DEF ReturnTimer, TypeOK, Announced, DeparturesAccounted
  <2>2. /\ held' \in {0} \cup Replies /\ sends' \in [Replies -> Nat] /\ nav' \in Places
        /\ \A i \in Replies :
             sends'[i] + (IF held' = i THEN 1 ELSE 0) <= applied'[i]
    BY <1>2, <1>3, <2>1, Spent DEF ReturnTimer
  <2>3. TypeOK'
    <3>1. /\ timer' = FALSE /\ autos' \in Nat
          /\ UNCHANGED <<page, url, keeps, stored, returnTo, open, cards, lastAt, trip, told,
                         replies, applied>>
      BY <1>3, <2>1 DEF ReturnTimer, remembered, session
    <3>2. QED
      BY <2>2, <3>1 DEF TypeOK
  <2>4. Announced' /\ DeparturesAccounted'
    BY <1>3, <2>1, <2>2 DEF ReturnTimer, Announced, DeparturesAccounted, remembered
  <2>5. QED
    BY <2>3, <2>4
<1>4. CASE GoNow
  <2>1. trip \in Places
    BY DEF TypeOK
  <2>2. QED
    BY <1>2, <1>4, <2>1, Spent
      DEF GoNow, TypeOK, Announced, DeparturesAccounted, remembered, session
<1>5. CASE CancelReturn
  BY <1>5 DEF CancelReturn, TypeOK, Announced, DeparturesAccounted, remembered, session, tokens
<1>6. ASSUME NEW i \in Replies, Response(i) PROVE IInv'
  <2>1. \A j \in Replies : sends[j] \in Nat /\ applied[j] \in 0..MaxApplied /\ j # 0
    BY Bounds DEF TypeOK, Replies
  <2>2. \A j \in Replies : applied'[j] = IF j = i THEN applied[j] + 1 ELSE applied[j]
    BY <1>6 DEF Response, TypeOK
  <2>3. applied' \in [Replies -> 0..MaxApplied]
    BY <1>6, <2>1, Bounds DEF Response, TypeOK
  <2>4. \A j \in Replies : sends'[j] + (IF held' = j THEN 1 ELSE 0) <= applied'[j]
    <3>1. \A j \in Replies : sends[j] <= applied[j]
      BY <2>1, Bounds DEF DeparturesAccounted
    <3>2. sends' = sends /\ held' = i
      BY <1>6 DEF Response
    <3>3. QED
      BY <2>1, <2>2, <3>1, <3>2, Bounds
  <2>5. CASE returnTo = NoTarget
    BY <1>6, <2>3, <2>4, <2>5
      DEF Response, ResumeReturnTo, TypeOK, Announced, DeparturesAccounted
  <2>6. CASE returnTo # NoTarget
    <3>1. ~told /\ autos = 0
      BY <2>6 DEF Announced
    <3>2. /\ trip' = returnTo /\ timer' = TRUE
          /\ returnTo' = NoTarget /\ stored' = NoTarget
      BY <1>6, <2>6 DEF Response, ResumeReturnTo, ClearReturnTo
    <3>3. TypeOK'
      BY <1>6, <2>3, <3>2 DEF Response, TypeOK, Places
    <3>4. QED
      BY <1>6, <2>4, <2>6, <3>1, <3>2, <3>3 DEF Response, Announced, DeparturesAccounted
  <2>7. QED
    BY <2>5, <2>6
<1>7. CASE HostAnswers
  <2>1. replies' \in {0} \cup Replies
    BY <1>7, Bounds DEF HostAnswers, TypeOK, Replies
  <2>2. QED
    BY <1>7, <2>1 DEF HostAnswers, TypeOK, Announced, DeparturesAccounted,
      remembered, session, banner, tokens
<1>8. CASE Reconnect \/ Unlock \/ Lock
  <2>1. TypeOK'
    <3>1. /\ lastAt' \in {0, lastAt} /\ open' \in BOOLEAN /\ cards' \in BOOLEAN
          /\ cards' => open'
      <4>1. CASE Reconnect
        BY <4>1 DEF Reconnect, TypeOK
      <4>2. CASE Unlock
        BY <4>2 DEF Unlock, TypeOK
      <4>3. CASE Lock
        BY <4>3 DEF Lock, TypeOK
      <4>4. QED
        BY <1>8, <4>1, <4>2, <4>3
    <3>2. UNCHANGED <<page, remembered, banner, tokens, nav, replies, applied>>
      BY <1>8 DEF Reconnect, Unlock, Lock
    <3>3. QED
      BY <3>1, <3>2 DEF TypeOK, remembered, banner, tokens
  <2>2. Announced' /\ DeparturesAccounted'
    BY <1>8 DEF Reconnect, Unlock, Lock, Announced, DeparturesAccounted,
      remembered, banner, tokens
  <2>3. QED
    BY <2>1, <2>2
<1>9. CASE ClearAll \/ Reload \/ Arrive
  <2>1. stored \in Places /\ NoTarget \in Places /\ url \in Urls
    BY DEF TypeOK, Places
  <2>2. QED
    BY <1>9, <2>1, Loaded DEF ClearAll, Reload, Arrive
<1>10. CASE NavEnds
  <2>1. stored \in Places /\ nav \in Urls
    BY DEF TypeOK, Places, Urls
  <2>2. CASE Load(nav, stored)
    BY <2>1, <2>2, Loaded
  <2>3. CASE ~Load(nav, stored)
    <3>1. \A j \in Replies : /\ sends[j] \in Nat /\ applied[j] \in Nat /\ j # 0
                             /\ sends[j] <= applied[j]
      BY Bounds DEF TypeOK, Replies, DeparturesAccounted
    <3>2. TypeOK'
      <4>1. /\ page' = "away" /\ nav' = NoTarget /\ returnTo' = NoTarget
            /\ open' = FALSE /\ cards' = FALSE /\ lastAt' = 0 /\ held' = 0
            /\ trip' = NoTarget /\ timer' = FALSE /\ told' = FALSE /\ autos' = 0
        BY <1>10, <2>3 DEF NavEnds
      <4>2. UNCHANGED <<url, keeps, stored, replies, applied, sends>>
        BY <1>10, <2>3 DEF NavEnds
      <4>3. NoTarget \in Places
        BY DEF Places
      <4>4. QED
        BY <4>1, <4>2, <4>3 DEF TypeOK
    <3>3. Announced'
      BY <1>10, <2>3 DEF NavEnds, Announced
    <3>4. DeparturesAccounted'
      BY <1>10, <2>3, <3>1 DEF NavEnds, DeparturesAccounted
    <3>5. QED
      BY <3>2, <3>3, <3>4
  <2>4. QED
    BY <2>2, <2>3
<1>11. CASE UNCHANGED vars
  BY <1>11 DEF vars, TypeOK, Announced, DeparturesAccounted,
    remembered, session, banner, tokens
<1>12. QED
  BY <1>1, <1>3, <1>4, <1>5, <1>6, <1>7, <1>8, <1>9, <1>10, <1>11 DEF Next

LEMMA Invariant == Spec => []IInv
<1>1. Init => IInv
  <2> SUFFICES ASSUME Init PROVE IInv
    OBVIOUS
  <2>1. returnTo \in Places /\ stored \in Places
    BY Sanitized DEF Init, Places
  <2>2. TypeOK
    <3>1. applied \in [Replies -> 0..MaxApplied] /\ sends \in [Replies -> Nat]
      BY Bounds DEF Init
    <3>2. NoTarget \in Places
      BY DEF Places
    <3>3. QED
      BY <2>1, <3>1, <3>2 DEF Init, TypeOK
  <2>3. \A i \in Replies : i # 0
    BY Bounds DEF Replies
  <2>4. QED
    BY <2>2, <2>3 DEF Init, IInv, Announced, DeparturesAccounted
<1>2. QED
  BY <1>1, Inductive, PTL DEF Spec

\* Every reachable state is well typed: whatever ?next= holds, only a path of
\* this origin is ever remembered, announced or navigated to, and the cards are
\* on screen only while the session is open (return_to.js:37-57).
THEOREM TypeCorrect == Spec => []TypeOK
BY Invariant, PTL DEF IInv

\* A page departs on its own at most once and never after it was told to stay;
\* a token is sent again only if its reply was applied again (app.js:3105-3161).
THEOREM DeparturesAccountedHolds == Spec => []DeparturesAccounted
BY Invariant, PTL DEF IInv

=============================================================================
