-------------------------- MODULE HealthMonitorProofs --------------------------
(***************************************************************************)
(* Theorems of HealthMonitor, for any services and targets and any number  *)
(* of discovery requests at once.                                          *)
(***************************************************************************)
EXTENDS HealthMonitor, TLAPS

\* What belongs to a round or an answer exists only while it is at that stage.
Stages ==
  /\ \A c \in Callers, id \in Ids : pc[c] # "probe" => probes[c][id] = "none"
  /\ \A r \in Requests : pc[r] # "read" => unread[r] = {}
  /\ \A r \in Requests, id \in Ids : pc[r] \notin {"read", "publish"} => answer[r][id] # "up"

\* Without reloads: a goroutine dials the target of its service, and every
\* service a round is done with has a verdict.
Rounds ==
  /\ \A id \in Ids : services[id] = None => status[id] = "absent"
  /\ \A c \in Callers, id \in Ids :
       /\ services[id] = None => probes[c][id] = "none"
       /\ probes[c][id] \in {"none", "up", "down", services[id]}
       /\ pc[c] = "probe" /\ probes[c][id] = "none" /\ services[id] # None
            => status[id] \in Verdicts
       /\ pc[c] = "insert" /\ services[id] # None => snap[c][id] \in Verdicts

\* Without reloads: since a request came in, what is reachable is noted for it;
\* if no round was in flight then, so is every "up" still to be stored, every
\* "up" stored once its own probe has landed, and every "up" it has read.
Noted ==
  \A r \in Requests : pc[r] # "idle" =>
    /\ Reachable(services, reach) \subseteq wasUp[r]
    /\ ~overlaps[r] =>
         /\ \A d \in Callers, id \in Ids : probes[d][id] = "up" => id \in wasUp[r]
         /\ \A id \in Ids : status[id] = "up" /\ probes[r][id] = "none" => id \in wasUp[r]
         /\ \A id \in Ids : answer[r][id] = "up" => id \in wasUp[r]

IInv == TypeOK /\ Stages /\ (~Reloads => Rounds /\ Noted)

LEMMA Initially == Init => IInv
<1> SUFFICES ASSUME Init PROVE IInv
  OBVIOUS
<1>1. TypeOK
  BY DEF Init, TypeOK, NoProbe, NoStatus, Statuses, Verdicts, Configured
<1>2. Stages
  BY DEF Init, Stages, NoProbe, NoStatus, Callers
<1>3. Rounds
  BY DEF Init, Rounds, NoProbe
<1>4. Noted
  BY DEF Init, Noted, Callers
<1>5. QED
  BY <1>1, <1>2, <1>3, <1>4 DEF IInv

------------------------------------------------------------------------------
LEMMA TypePreserved == TypeOK /\ [Next]_vars => TypeOK'
<1> SUFFICES ASSUME TypeOK, [Next]_vars PROVE TypeOK'
  OBVIOUS
<1> USE DEF TypeOK
<1>1. ASSUME NEW c \in Callers, StartRound(c) PROVE TypeOK'
  <2>1. [id \in Ids |-> IF services[id] = None THEN "none" ELSE services[id]]
          \in [Ids -> Targets \cup Verdicts \cup {"none"}]
    OBVIOUS
  <2>2. probes' \in [Callers -> [Ids -> Targets \cup Verdicts \cup {"none"}]]
    BY <1>1, <2>1 DEF StartRound
  <2>3. wasUp' \in [Requests -> SUBSET Ids]
    BY <1>1 DEF StartRound, Reachable, Configured
  <2> DEFINE b == \E d \in Callers : pc[d] = "probe"
  <2>4. b \in BOOLEAN /\ overlaps' = [r \in Requests |-> IF r = c THEN b ELSE overlaps[r]]
    BY <1>1 DEF StartRound
  <2> HIDE DEF b
  <2>5. overlaps' \in [Requests -> BOOLEAN]
    BY <2>4
  <2>6. pc' \in [Callers -> {"idle", "probe", "insert", "read", "publish"}]
    BY <1>1 DEF StartRound
  <2>7. UNCHANGED <<services, status, advertised, snap, unread, answer, reach, ctxDone>>
    BY <1>1 DEF StartRound, answerVars
  <2>8. QED
    BY <2>2, <2>3, <2>5, <2>6, <2>7
<1>2. ASSUME NEW c \in Callers, NEW id \in Ids, Dial(c, id) \/ Land(c, id) PROVE TypeOK'
  <2>1. \E x \in Verdicts \cup {"none"} : probes' = [probes EXCEPT ![c][id] = x]
    BY <1>2 DEF Dial, Land, Verdicts
  <2>2. probes' \in [Callers -> [Ids -> Targets \cup Verdicts \cup {"none"}]]
    BY <2>1
  <2>3. status' \in [Ids -> Statuses]
    BY <1>2 DEF Dial, Land, Statuses
  <2>4. UNCHANGED <<services, advertised, pc, snap, unread, answer, reach, wasUp, overlaps, ctxDone>>
    BY <1>2 DEF Dial, Land, answerVars, asked
  <2>5. QED
    BY <2>2, <2>3, <2>4
<1>3. ASSUME NEW c \in Callers, Snapshot(c) \/ RecordServiceHealth(c) PROVE TypeOK'
  <2>1. NoStatus \in [Ids -> Statuses]
    BY DEF NoStatus, Statuses
  <2>2. snap' \in [Callers -> [Ids -> Statuses]]
    BY <1>3, <2>1 DEF Snapshot, RecordServiceHealth
  <2>3. unread' \in [Requests -> SUBSET Ids]
    BY <1>3 DEF Snapshot, RecordServiceHealth, answerVars
  <2>4. pc' \in [Callers -> {"idle", "probe", "insert", "read", "publish"}]
    BY <1>3 DEF Snapshot, RecordServiceHealth
  <2>5. UNCHANGED <<services, status, advertised, probes, answer, reach, wasUp, overlaps, ctxDone>>
    BY <1>3 DEF Snapshot, RecordServiceHealth, answerVars, asked
  <2>6. QED
    BY <2>2, <2>3, <2>4, <2>5
<1>4. ASSUME NEW r \in Requests, NEW id \in Ids, Status(r, id) PROVE TypeOK'
  <2>1. (IF status[id] = "absent" THEN "unknown" ELSE status[id]) \in Statuses
    BY DEF Statuses
  <2>2. answer' \in [Requests -> [Ids -> Statuses]] /\ unread' \in [Requests -> SUBSET Ids]
    BY <1>4, <2>1 DEF Status
  <2>3. UNCHANGED <<services, status, advertised, pc, probes, snap, reach, wasUp, overlaps, ctxDone>>
    BY <1>4 DEF Status, roundVars, asked
  <2>4. QED
    BY <2>2, <2>3
<1>5. ASSUME NEW r \in Requests, ServicesWithStatus(r) \/ PublishResponse(r) PROVE TypeOK'
  <2>1. NoStatus \in [Ids -> Statuses]
    BY DEF NoStatus, Statuses
  <2>2. answer' \in [Requests -> [Ids -> Statuses]] /\ wasUp' \in [Requests -> SUBSET Ids]
          /\ overlaps' \in [Requests -> BOOLEAN]
    <3>1. CASE ServicesWithStatus(r)
      BY <3>1 DEF ServicesWithStatus, answerVars, asked
    <3>2. CASE PublishResponse(r)
      <4>1. /\ answer' = [answer EXCEPT ![r] = NoStatus] /\ wasUp' = [wasUp EXCEPT ![r] = {}]
            /\ overlaps' = [overlaps EXCEPT ![r] = FALSE]
        BY <3>2 DEF PublishResponse
      <4>2. overlaps' \in [Requests -> BOOLEAN]
        BY <4>1
      <4>3. QED
        BY <2>1, <4>1, <4>2
    <3>3. QED
      BY <1>5, <3>1, <3>2
  <2>3. pc' \in [Callers -> {"idle", "probe", "insert", "read", "publish"}]
    BY <1>5 DEF ServicesWithStatus, PublishResponse
  <2>4. UNCHANGED <<services, status, advertised, probes, snap, unread, reach, ctxDone>>
    BY <1>5 DEF ServicesWithStatus, PublishResponse, answerVars
  <2>5. QED
    BY <2>2, <2>3, <2>4
<1>6. ASSUME UpdateServices PROVE TypeOK'
  <2>1. status' \in [Ids -> Statuses]
    BY <1>6 DEF UpdateServices, Statuses
  <2>2. wasUp' \in [Requests -> SUBSET Ids] /\ services' \in [Ids -> Targets \cup {None}]
    BY <1>6 DEF UpdateServices, Reachable, Configured
  <2>3. UNCHANGED <<advertised, pc, probes, snap, unread, answer, reach, overlaps, ctxDone>>
    BY <1>6 DEF UpdateServices, roundVars, answerVars
  <2>4. QED
    BY <2>1, <2>2, <2>3
<1>7. ASSUME NEW t \in Targets, Flip(t) PROVE TypeOK'
  <2>1. wasUp' \in [Requests -> SUBSET Ids] /\ reach' \subseteq Targets
    BY <1>7 DEF Flip, Reachable, Configured
  <2>2. UNCHANGED <<services, status, advertised, pc, probes, snap, unread, answer, overlaps, ctxDone>>
    BY <1>7 DEF Flip, roundVars, answerVars
  <2>3. QED
    BY <2>1, <2>2
<1>8. ASSUME UpdateAdvertised \/ Stop \/ UNCHANGED vars PROVE TypeOK'
  <2>1. advertised' \subseteq Ids /\ ctxDone' \in BOOLEAN
    BY <1>8 DEF UpdateAdvertised, Stop, vars, Configured
  <2>2. UNCHANGED <<services, status, pc, probes, snap, unread, answer, reach, wasUp, overlaps>>
    BY <1>8 DEF UpdateAdvertised, Stop, vars, roundVars, answerVars, asked
  <2>3. QED
    BY <2>1, <2>2
<1>9. QED
  BY <1>1, <1>2, <1>3, <1>4, <1>5, <1>6, <1>7, <1>8 DEF Next, ProbeStep, AnswerStep

LEMMA StagesPreserved == TypeOK /\ Stages /\ [Next]_vars => Stages'
<1> SUFFICES ASSUME TypeOK, Stages, [Next]_vars PROVE Stages'
  OBVIOUS
<1> USE DEF TypeOK, Stages
<1>0. Requests \subseteq Callers /\ Ticker \notin Requests
  BY CallersAssumption DEF Callers
<1>1. ASSUME NEW c \in Callers, StartRound(c) PROVE Stages'
  BY <1>0, <1>1 DEF StartRound, answerVars
<1>2. ASSUME NEW c \in Callers, NEW id \in Ids, Dial(c, id) \/ Land(c, id) PROVE Stages'
  <2>1. pc[c] = "probe"
    BY <1>2, TargetsAssumption DEF Dial, Land, Verdicts
  <2>2. UNCHANGED <<pc, unread, answer>> /\ \A d \in Callers : d # c => probes'[d] = probes[d]
    BY <1>2 DEF Dial, Land, answerVars
  <2>3. \A d \in Callers, j \in Ids : pc'[d] # "probe" => probes'[d][j] = "none"
    <3> SUFFICES ASSUME NEW d \in Callers, NEW j \in Ids, pc'[d] # "probe"
                 PROVE  probes'[d][j] = "none"
      OBVIOUS
    <3>1. pc[d] # "probe" /\ d # c
      BY <2>1, <2>2
    <3>2. probes'[d] = probes[d]
      BY <2>2, <3>1
    <3>3. QED
      BY <3>1, <3>2
  <2>4. QED
    BY <2>2, <2>3
<1>3. ASSUME NEW c \in Callers, Snapshot(c) PROVE Stages'
  BY <1>0, <1>3 DEF Snapshot, NoProbe, answerVars
<1>4. ASSUME NEW c \in Callers, RecordServiceHealth(c) PROVE Stages'
  <2>1. /\ pc[c] = "insert" /\ UNCHANGED <<probes, answer>>
        /\ pc' = [pc EXCEPT ![c] = IF c = Ticker THEN "idle" ELSE "read"]
        /\ \A r \in Requests : r # c => unread'[r] = unread[r]
    BY <1>4 DEF RecordServiceHealth
  <2>2. \A d \in Callers : d # c => pc'[d] = pc[d]
    BY <2>1
  <2>3. pc'[c] # "probe" /\ (c \in Requests => pc'[c] = "read")
    BY <1>0, <2>1
  <2>4. QED
    BY <1>0, <2>1, <2>2, <2>3
<1>5. ASSUME NEW r \in Requests, NEW id \in Ids, Status(r, id) PROVE Stages'
  <2>1. pc[r] = "read" /\ UNCHANGED <<pc, probes>>
    BY <1>5 DEF Status, roundVars
  <2>2. \A q \in Requests : q # r => unread'[q] = unread[q] /\ answer'[q] = answer[q]
    BY <1>5 DEF Status
  <2>3. \A q \in Requests : pc'[q] # "read" => unread'[q] = {}
    BY <2>1, <2>2
  <2>4. \A q \in Requests, j \in Ids : pc'[q] \notin {"read", "publish"} => answer'[q][j] # "up"
    BY <2>1, <2>2
  <2>5. QED
    BY <2>1, <2>3, <2>4
<1>6. ASSUME NEW r \in Requests, ServicesWithStatus(r) PROVE Stages'
  BY <1>0, <1>6 DEF ServicesWithStatus, answerVars
<1>7. ASSUME NEW r \in Requests, PublishResponse(r) PROVE Stages'
  <2>1. /\ pc[r] = "publish" /\ pc' = [pc EXCEPT ![r] = "idle"] /\ UNCHANGED <<probes, unread>>
        /\ answer' = [answer EXCEPT ![r] = NoStatus]
    BY <1>7 DEF PublishResponse
  <2>2. \A id \in Ids : answer'[r][id] # "up"
    BY <2>1 DEF NoStatus
  <2>3. \A q \in Requests : q # r => answer'[q] = answer[q]
    BY <2>1
  <2>4. \A d \in Callers : d # r => pc'[d] = pc[d]
    BY <2>1
  <2>5. QED
    BY <1>0, <2>1, <2>2, <2>3, <2>4
<1>8. ASSUME UNCHANGED <<pc, probes, unread, answer>> PROVE Stages'
  BY <1>8
<1>9. ASSUME UpdateServices \/ UpdateAdvertised \/ (\E t \in Targets : Flip(t)) \/ Stop
               \/ UNCHANGED vars
      PROVE  Stages'
  BY <1>8, <1>9 DEF UpdateServices, UpdateAdvertised, Flip, Stop, vars, roundVars, answerVars
<1>10. QED
  BY <1>1, <1>2, <1>3, <1>4, <1>5, <1>6, <1>7, <1>9 DEF Next, ProbeStep, AnswerStep

\* A step that dials or lands, seen from every slot of the table of probes.
LEMMA OneProbe ==
  ASSUME TypeOK, NEW c \in Callers, NEW id \in Ids, NEW x,
         probes' = [probes EXCEPT ![c][id] = x]
  PROVE  /\ probes'[c][id] = x
         /\ \A d \in Callers, j \in Ids : d # c \/ j # id => probes'[d][j] = probes[d][j]
BY DEF TypeOK

LEMMA RoundsPreserved ==
  ~Reloads /\ TypeOK /\ Rounds /\ [Next]_vars => Rounds'
<1> SUFFICES ASSUME ~Reloads, TypeOK, Rounds, [Next]_vars PROVE Rounds'
  OBVIOUS
<1>0. Requests \subseteq Callers
  BY DEF Callers
<1>a. services' = services
  BY DEF Next, vars, ProbeStep, AnswerStep, StartRound, Snapshot, RecordServiceHealth, Dial, Land,
    Status, ServicesWithStatus, PublishResponse, UpdateServices, UpdateAdvertised, Flip, Stop
<1>1. ASSUME NEW c \in Callers, StartRound(c) PROVE Rounds'
  <2>1. /\ UNCHANGED <<status, snap>>
        /\ \A d \in Callers : d # c => pc'[d] = pc[d] /\ probes'[d] = probes[d]
        /\ pc'[c] = "probe"
        /\ \A id \in Ids : probes'[c][id] = IF services[id] = None THEN "none" ELSE services[id]
    BY <1>1 DEF StartRound, TypeOK
  <2>2. \A id \in Ids : services[id] # None => services[id] # "none"
    BY TargetsAssumption DEF TypeOK
  <2>3. QED
    BY <1>a, <2>1, <2>2 DEF Rounds
<1>2. ASSUME NEW c \in Callers, NEW id \in Ids, Dial(c, id) PROVE Rounds'
  <2>1. PICK x \in Verdicts : probes' = [probes EXCEPT ![c][id] = x]
    BY <1>2 DEF Dial, Verdicts
  <2>2. services[id] # None /\ x # "none" /\ UNCHANGED <<status, pc, snap>>
    BY <1>2, TargetsAssumption DEF Dial, Rounds, Verdicts
  <2>3. QED
    BY <1>a, <2>1, <2>2, OneProbe DEF Rounds, Verdicts
<1>3. ASSUME NEW c \in Callers, NEW id \in Ids, Land(c, id) PROVE Rounds'
  <2>1. /\ probes[c][id] \in Verdicts
        /\ probes' = [probes EXCEPT ![c][id] = "none"]
        /\ status' = [status EXCEPT ![id] = probes[c][id]]
        /\ UNCHANGED <<pc, snap>>
    BY <1>3 DEF Land
  <2>2. services[id] # None
    BY <2>1 DEF Rounds, Verdicts
  <2>3. status'[id] \in Verdicts /\ \A j \in Ids : j # id => status'[j] = status[j]
    BY <2>1 DEF TypeOK
  <2>4. QED
    BY <1>a, <2>1, <2>2, <2>3, OneProbe DEF Rounds
<1>4. ASSUME NEW c \in Callers, Snapshot(c) PROVE Rounds'
  <2>1. /\ pc[c] = "probe" /\ UNCHANGED <<status, probes>>
        /\ \A id \in Ids : probes[c][id] = "none"
        /\ pc'[c] = "insert" /\ snap'[c] = status
        /\ \A d \in Callers : d # c => pc'[d] = pc[d] /\ snap'[d] = snap[d]
    BY <1>4 DEF Snapshot, NoProbe, TypeOK
  <2>2. QED
    BY <1>a, <2>1 DEF Rounds
<1>5. ASSUME NEW c \in Callers, RecordServiceHealth(c) PROVE Rounds'
  <2>1. /\ UNCHANGED <<status, probes>> /\ pc'[c] \in {"idle", "read"}
        /\ \A d \in Callers : d # c => pc'[d] = pc[d] /\ snap'[d] = snap[d]
    BY <1>5 DEF RecordServiceHealth, TypeOK
  <2>2. QED
    BY <1>a, <2>1 DEF Rounds
<1>6. ASSUME NEW r \in Requests, ServicesWithStatus(r) \/ PublishResponse(r) PROVE Rounds'
  <2>1. /\ UNCHANGED <<status, probes, snap>> /\ pc'[r] \in {"publish", "idle"}
        /\ \A d \in Callers : d # r => pc'[d] = pc[d]
    BY <1>0, <1>6 DEF ServicesWithStatus, PublishResponse, TypeOK
  <2>2. QED
    BY <1>0, <1>a, <2>1 DEF Rounds
<1>7. ASSUME UNCHANGED <<status, probes, snap, pc>> PROVE Rounds'
  BY <1>7, <1>a DEF Rounds
<1>8. ASSUME \/ \E r \in Requests, id \in Ids : Status(r, id)
             \/ UpdateServices \/ UpdateAdvertised \/ (\E t \in Targets : Flip(t)) \/ Stop
             \/ UNCHANGED vars
      PROVE  Rounds'
  BY <1>7, <1>8 DEF Status, UpdateServices, UpdateAdvertised, Flip, Stop, vars, roundVars
<1>9. QED
  BY <1>1, <1>2, <1>3, <1>4, <1>5, <1>6, <1>8 DEF Next, ProbeStep, AnswerStep

LEMMA NotedPreserved ==
  ~Reloads /\ TypeOK /\ Stages /\ Rounds /\ Noted /\ [Next]_vars => Noted'
<1> SUFFICES ASSUME ~Reloads, TypeOK, Stages, Rounds, Noted, [Next]_vars PROVE Noted'
  OBVIOUS
<1>0. Requests \subseteq Callers /\ Ticker \notin Requests
  BY CallersAssumption DEF Callers
<1>a. services' = services
  BY DEF Next, vars, ProbeStep, AnswerStep, StartRound, Snapshot, RecordServiceHealth, Dial, Land,
    Status, ServicesWithStatus, PublishResponse, UpdateServices, UpdateAdvertised, Flip, Stop
<1>1. ASSUME NEW c \in Callers, StartRound(c) PROVE Noted'
  <2>1. /\ pc[c] = "idle" /\ UNCHANGED <<status, answer, reach>>
        /\ \A d \in Callers : d # c => pc'[d] = pc[d] /\ probes'[d] = probes[d]
        /\ \A id \in Ids : probes'[c][id] = IF services[id] = None THEN "none" ELSE services[id]
        /\ \A r \in Requests : r # c => wasUp'[r] = wasUp[r] /\ overlaps'[r] = overlaps[r]
        /\ c \in Requests => /\ wasUp'[c] = Reachable(services, reach)
                             /\ overlaps'[c] = \E d \in Callers : pc[d] = "probe"
    BY <1>1 DEF StartRound, TypeOK, answerVars
  <2>2. \A id \in Ids : probes'[c][id] # "up" /\ (services[id] # None => probes'[c][id] # "none")
    BY <2>1, TargetsAssumption DEF TypeOK
  <2>3. ASSUME NEW r \in Requests, r # c, pc'[r] # "idle"
        PROVE  /\ Reachable(services', reach') \subseteq wasUp'[r]
               /\ ~overlaps'[r] =>
                    /\ \A d \in Callers, id \in Ids : probes'[d][id] = "up" => id \in wasUp'[r]
                    /\ \A id \in Ids : status'[id] = "up" /\ probes'[r][id] = "none" => id \in wasUp'[r]
                    /\ \A id \in Ids : answer'[r][id] = "up" => id \in wasUp'[r]
    BY <1>0, <1>a, <2>1, <2>2, <2>3 DEF Noted
  <2>4. ASSUME c \in Requests
        PROVE  /\ Reachable(services', reach') \subseteq wasUp'[c]
               /\ ~overlaps'[c] =>
                    /\ \A d \in Callers, id \in Ids : probes'[d][id] = "up" => id \in wasUp'[c]
                    /\ \A id \in Ids : status'[id] = "up" /\ probes'[c][id] = "none" => id \in wasUp'[c]
                    /\ \A id \in Ids : answer'[c][id] = "up" => id \in wasUp'[c]
    <3>1. ASSUME ~overlaps'[c], NEW d \in Callers, NEW id \in Ids PROVE probes'[d][id] # "up"
      <4>1. CASE d = c
        BY <2>2, <4>1
      <4>2. CASE d # c
        <5>1. pc[d] # "probe"
          BY <2>1, <2>4, <3>1
        <5>2. QED
          BY <2>1, <4>2, <5>1 DEF Stages
      <4>3. QED
        BY <4>1, <4>2
    <3>2. \A id \in Ids : answer'[c][id] # "up"
      BY <2>1, <2>4 DEF Stages
    <3>3. \A id \in Ids : probes'[c][id] = "none" => status'[id] # "up"
      BY <2>1, <2>2 DEF Rounds
    <3>4. QED
      BY <1>a, <2>1, <2>4, <3>1, <3>2, <3>3
  <2>5. QED
    BY <2>3, <2>4 DEF Noted
<1>2. ASSUME NEW c \in Callers, NEW id \in Ids, Dial(c, id) PROVE Noted'
  <2>1. /\ probes[c][id] \in Targets
        /\ probes' = [probes EXCEPT ![c][id] =
             IF probes[c][id] \in reach /\ ~ctxDone THEN "up" ELSE "down"]
        /\ UNCHANGED <<status, pc, answer, reach, wasUp, overlaps>>
    BY <1>2 DEF Dial, answerVars, asked
  <2>2. probes'[c][id] = (IF probes[c][id] \in reach /\ ~ctxDone THEN "up" ELSE "down")
          /\ \A d \in Callers, j \in Ids : d # c \/ j # id => probes'[d][j] = probes[d][j]
    BY <2>1 DEF TypeOK
  <2>3. probes[c][id] = services[id] /\ services[id] # None
    BY <2>1, TargetsAssumption, NoTargetAssumption DEF Rounds
  <2>4. probes'[c][id] = "up" => id \in Reachable(services, reach)
    BY <2>2, <2>3 DEF Reachable, Configured
  <2>5. probes'[c][id] # "none"
    BY <2>2
  <2>6. QED
    BY <1>0, <1>a, <2>1, <2>2, <2>4, <2>5 DEF Noted
<1>3. ASSUME NEW c \in Callers, NEW id \in Ids, Land(c, id) PROVE Noted'
  <2>1. /\ probes' = [probes EXCEPT ![c][id] = "none"]
        /\ status' = [status EXCEPT ![id] = probes[c][id]]
        /\ UNCHANGED <<pc, answer, reach, wasUp, overlaps>>
    BY <1>3 DEF Land, answerVars, asked
  <2>2. probes'[c][id] = "none"
          /\ \A d \in Callers, j \in Ids : d # c \/ j # id => probes'[d][j] = probes[d][j]
    BY <2>1 DEF TypeOK
  <2>3. status'[id] = probes[c][id] /\ \A j \in Ids : j # id => status'[j] = status[j]
    BY <2>1 DEF TypeOK
  <2>4. QED
    BY <1>0, <1>a, <2>1, <2>2, <2>3 DEF Noted
<1>4. ASSUME NEW c \in Callers, Snapshot(c) \/ RecordServiceHealth(c) PROVE Noted'
  <2>1. /\ pc[c] # "idle" /\ UNCHANGED <<status, probes, answer, reach, wasUp, overlaps>>
        /\ \A d \in Callers : d # c => pc'[d] = pc[d]
    BY <1>4 DEF Snapshot, RecordServiceHealth, answerVars, asked, TypeOK
  <2>2. QED
    BY <1>0, <1>a, <2>1 DEF Noted
<1>5. ASSUME NEW r \in Requests, NEW id \in Ids, Status(r, id) PROVE Noted'
  <2>1. /\ id \in unread[r] /\ UNCHANGED <<status, pc, probes, reach, wasUp, overlaps>>
        /\ answer' = [answer EXCEPT ![r][id] =
             IF status[id] = "absent" THEN "unknown" ELSE status[id]]
    BY <1>5 DEF Status, roundVars, asked
  <2>2. pc[r] = "read" /\ probes[r][id] = "none"
    BY <1>0, <2>1 DEF Stages
  <2>3. answer'[r][id] = "up" => status[id] = "up"
    BY <2>1 DEF TypeOK
  <2>4. \A q \in Requests, j \in Ids : q # r \/ j # id => answer'[q][j] = answer[q][j]
    BY <2>1 DEF TypeOK
  <2>5. QED
    BY <1>a, <2>1, <2>2, <2>3, <2>4 DEF Noted
<1>6. ASSUME NEW r \in Requests, ServicesWithStatus(r) PROVE Noted'
  <2>1. /\ pc[r] = "read" /\ UNCHANGED <<status, probes, answer, reach, wasUp, overlaps>>
        /\ \A d \in Callers : d # r => pc'[d] = pc[d]
    BY <1>0, <1>6 DEF ServicesWithStatus, answerVars, asked, TypeOK
  <2>2. QED
    BY <1>0, <1>a, <2>1 DEF Noted
<1>7. ASSUME NEW r \in Requests, PublishResponse(r) PROVE Noted'
  <2>1. /\ pc'[r] = "idle" /\ UNCHANGED <<status, probes, reach>>
        /\ \A q \in Requests : q # r => /\ pc'[q] = pc[q] /\ answer'[q] = answer[q]
                                         /\ wasUp'[q] = wasUp[q] /\ overlaps'[q] = overlaps[q]
    BY <1>0, <1>7 DEF PublishResponse, TypeOK
  <2>2. QED
    BY <1>a, <2>1 DEF Noted
<1>8. ASSUME NEW t \in Targets, Flip(t) PROVE Noted'
  <2>1. /\ UNCHANGED <<status, pc, probes, answer, overlaps>>
        /\ \A r \in Requests :
             pc[r] # "idle" => wasUp'[r] = wasUp[r] \cup Reachable(services, reach')
    BY <1>8 DEF Flip, roundVars, answerVars
  <2>2. QED
    BY <1>a, <2>1 DEF Noted
<1>9. ASSUME UpdateServices PROVE Noted'
  BY <1>9 DEF UpdateServices
<1>10. ASSUME UpdateAdvertised \/ Stop \/ UNCHANGED vars PROVE Noted'
  <2>1. UNCHANGED <<status, pc, probes, answer, reach, wasUp, overlaps>>
    BY <1>10 DEF UpdateAdvertised, Stop, vars, roundVars, answerVars, asked
  <2>2. QED
    BY <1>a, <2>1 DEF Noted
<1>11. QED
  BY <1>1, <1>2, <1>3, <1>4, <1>5, <1>6, <1>7, <1>8, <1>9, <1>10 DEF Next, ProbeStep, AnswerStep

LEMMA Inductive == IInv /\ [Next]_vars => IInv'
BY TypePreserved, StagesPreserved, RoundsPreserved, NotedPreserved DEF IInv

LEMMA Invariance == Spec => []IInv
BY Initially, Inductive, PTL DEF Spec

------------------------------------------------------------------------------
(* The theorems.                                                            *)

\* Every reachable state of the monitor and the requests that use it is well
\* typed, reloads included.
THEOREM TypeCorrect == Spec => []TypeOK
<1>1. IInv => TypeOK
  BY DEF IInv
<1>2. QED
  BY <1>1, Invariance, PTL

\* A recorded round has a verdict for every service, however many rounds share
\* the status map.
THEOREM CompleteRowsHolds == Spec => []CompleteRows
<1>1. IInv => CompleteRows
  BY DEF IInv, Rounds, CompleteRows
<1>2. QED
  BY <1>1, Invariance, PTL

\* An answer calls a service up only if it was reachable at some time since the
\* request came in, unless another round was in flight at that moment.
THEOREM FreshUnlessOverlappedHolds == Spec => []FreshUnlessOverlapped
<1>1. IInv => FreshUnlessOverlapped
  BY DEF IInv, Noted, FreshUnlessOverlapped
<1>2. QED
  BY <1>1, Invariance, PTL

=============================================================================
