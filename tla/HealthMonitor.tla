---------------------------- MODULE HealthMonitor ----------------------------
(***************************************************************************)
(* internal/health/monitor.go with its two kinds of callers: Run, the      *)
(* periodic goroutine, and every discovery request, which probes all       *)
(* services before it reads their status for its answer                    *)
(* (internal/nostr/handler.go).                                            *)
(*                                                                         *)
(* A round reads the list of services, dials every target in a goroutine   *)
(* of its own, waits for all of them and records the whole status map.     *)
(* The list and the map are locked for single accesses only, so rounds     *)
(* overlap each other and the reloads that replace the list.               *)
(***************************************************************************)
EXTENDS FiniteSets

CONSTANTS
  Ids,       \* service identifiers
  Targets,   \* addresses a service can be configured with
  None,      \* no target: the service is not configured
  Ticker,    \* the goroutine of Run
  Requests,  \* discovery requests, how many run at once
  Reloads    \* TRUE: the configuration is reloaded while the daemon runs

ASSUME CallersAssumption == Ticker \notin Requests
ASSUME NoTargetAssumption == None \notin Targets
ASSUME TargetsAssumption == Targets \cap {"none", "up", "down"} = {}
ASSUME ReloadsAssumption == Reloads \in BOOLEAN

VARIABLES
  services,    \* Monitor.services: the target of each configured service
  status,      \* Monitor.status
  advertised,  \* Handler.services, the ids an answer lists
  pc,          \* where each caller of probeAll is
  probes,      \* its probe goroutines: dialling a target, holding a result
  snap,        \* its copy of the status map, to be recorded
  unread,      \* services whose status the request has not read yet
  answer,      \* the statuses it has read
  reach,       \* targets that accept connections
  wasUp,       \* services reachable at some time since the request came in
  overlaps,    \* another round was in flight when the request came in
  ctxDone      \* the daemon is stopping

roundVars  == <<pc, probes, snap>>
answerVars == <<unread, answer>>
asked      == <<wasUp, overlaps>>
vars == <<services, status, advertised, roundVars, answerVars, reach, asked, ctxDone>>

Callers  == Requests \cup {Ticker}
Verdicts == {"up", "down"}
Statuses == Verdicts \cup {"absent", "unknown"}
NoProbe  == [id \in Ids |-> "none"]
NoStatus == [id \in Ids |-> "absent"]

TypeOK ==
  /\ services \in [Ids -> Targets \cup {None}]
  /\ status \in [Ids -> Statuses]
  /\ advertised \subseteq Ids
  /\ pc \in [Callers -> {"idle", "probe", "insert", "read", "publish"}]
  /\ probes \in [Callers -> [Ids -> Targets \cup Verdicts \cup {"none"}]]
  /\ snap \in [Callers -> [Ids -> Statuses]]
  /\ unread \in [Requests -> SUBSET Ids]
  /\ answer \in [Requests -> [Ids -> Statuses]]
  /\ reach \subseteq Targets
  /\ wasUp \in [Requests -> SUBSET Ids]
  /\ overlaps \in [Requests -> BOOLEAN]
  /\ ctxDone \in BOOLEAN

Configured(list) == {id \in Ids : list[id] # None}
Reachable(list, answering) == {id \in Configured(list) : list[id] \in answering}

Init ==
  /\ services \in [Ids -> Targets \cup {None}]
  /\ status = [id \in Ids |-> IF services[id] = None THEN "absent" ELSE "unknown"]
  /\ advertised = Configured(services)
  /\ pc = [c \in Callers |-> "idle"]
  /\ probes = [c \in Callers |-> NoProbe]
  /\ snap = [c \in Callers |-> NoStatus]
  /\ unread = [r \in Requests |-> {}]
  /\ answer = [r \in Requests |-> NoStatus]
  /\ reach \in SUBSET Targets
  /\ wasUp = [r \in Requests |-> {}]
  /\ overlaps = [r \in Requests |-> FALSE]
  /\ ctxDone = FALSE

-----------------------------------------------------------------------------
(* probeAll *)

\* The tick fires, or a request comes in: the list is copied and a goroutine
\* dials each target.
StartRound(c) ==
  /\ pc[c] = "idle" /\ ~ctxDone
  /\ pc' = [pc EXCEPT ![c] = "probe"]
  /\ probes' = [probes EXCEPT ![c] =
       [id \in Ids |-> IF services[id] = None THEN "none" ELSE services[id]]]
  /\ wasUp' = [r \in Requests |->
       IF r = c THEN Reachable(services, reach) ELSE wasUp[r]]
  /\ overlaps' = [r \in Requests |->
       IF r = c THEN \E d \in Callers : pc[d] = "probe" ELSE overlaps[r]]
  /\ UNCHANGED <<services, status, advertised, snap, answerVars, reach, ctxDone>>

\* Mutant of Dial: no timeout, a target that does not answer is waited for.
DialForever(c, id) ==
  /\ probes[c][id] \in reach
  /\ probes' = [probes EXCEPT ![c][id] = "up"]
  /\ UNCHANGED <<services, status, advertised, pc, snap, answerVars, reach, asked, ctxDone>>

\* The dial succeeds, fails or times out; it fails in any case once the
\* daemon's context is cancelled.
Dial(c, id) ==
  /\ probes[c][id] \in Targets
  /\ probes' = [probes EXCEPT ![c][id] =
       IF probes[c][id] \in reach /\ ~ctxDone THEN "up" ELSE "down"]
  /\ UNCHANGED <<services, status, advertised, pc, snap, answerVars, reach, asked, ctxDone>>

\* Mutant of Land: a failed probe does not take "up" back.
LandUpOnly(c, id) ==
  /\ probes[c][id] \in Verdicts
  /\ status' = [status EXCEPT ![id] = IF @ = "up" THEN @ ELSE probes[c][id]]
  /\ probes' = [probes EXCEPT ![c][id] = "none"]
  /\ UNCHANGED <<services, advertised, pc, snap, answerVars, reach, asked, ctxDone>>

\* The probe's goroutine stores its result, whatever has happened to the list.
Land(c, id) ==
  /\ probes[c][id] \in Verdicts
  /\ status' = [status EXCEPT ![id] = probes[c][id]]
  /\ probes' = [probes EXCEPT ![c][id] = "none"]
  /\ UNCHANGED <<services, advertised, pc, snap, answerVars, reach, asked, ctxDone>>

\* Mutant of Snapshot: the probes are not waited for.
SnapshotAtOnce(c) ==
  /\ pc[c] = "probe"
  /\ pc' = [pc EXCEPT ![c] = "insert"]
  /\ snap' = [snap EXCEPT ![c] = status]
  /\ UNCHANGED <<services, status, advertised, probes, answerVars, reach, asked, ctxDone>>

\* All probes have landed: the map is copied for the recorder.
Snapshot(c) ==
  /\ pc[c] = "probe"
  /\ probes[c] = NoProbe
  /\ pc' = [pc EXCEPT ![c] = "insert"]
  /\ snap' = [snap EXCEPT ![c] = status]
  /\ UNCHANGED <<services, status, advertised, probes, answerVars, reach, asked, ctxDone>>

\* RecordServiceHealth writes the copy, or fails, and the round is over.  A
\* request goes on to copy the advertised services.
RecordServiceHealth(c) ==
  /\ pc[c] = "insert"
  /\ pc' = [pc EXCEPT ![c] = IF c = Ticker THEN "idle" ELSE "read"]
  /\ snap' = [snap EXCEPT ![c] = NoStatus]
  /\ unread' = [r \in Requests |-> IF r = c THEN advertised ELSE unread[r]]
  /\ UNCHANGED <<services, status, advertised, probes, answer, reach, asked, ctxDone>>

-----------------------------------------------------------------------------
(* The request's answer: servicesWithStatus and PublishResponse.           *)

\* Status, for one of the services.
Status(r, id) ==
  /\ id \in unread[r]
  /\ unread' = [unread EXCEPT ![r] = @ \ {id}]
  /\ answer' = [answer EXCEPT ![r][id] =
       IF status[id] = "absent" THEN "unknown" ELSE status[id]]
  /\ UNCHANGED <<services, status, advertised, roundVars, reach, asked, ctxDone>>

\* Every status is read and the answer is complete.
ServicesWithStatus(r) ==
  /\ pc[r] = "read" /\ unread[r] = {}
  /\ pc' = [pc EXCEPT ![r] = "publish"]
  /\ UNCHANGED <<services, status, advertised, probes, snap, answerVars, reach, asked, ctxDone>>

\* It is published, or no relay takes it; the request is over.
PublishResponse(r) ==
  /\ pc[r] = "publish"
  /\ pc' = [pc EXCEPT ![r] = "idle"]
  /\ answer' = [answer EXCEPT ![r] = NoStatus]
  /\ wasUp' = [wasUp EXCEPT ![r] = {}]
  /\ overlaps' = [overlaps EXCEPT ![r] = FALSE]
  /\ UNCHANGED <<services, status, advertised, probes, snap, unread, reach, ctxDone>>

-----------------------------------------------------------------------------
(* Reloads and the environment.                                            *)

\* Monitor.UpdateServices: a service that stays keeps its status, with
\* whatever target it has now.
UpdateServices ==
  /\ Reloads
  /\ services' \in [Ids -> Targets \cup {None}]
  /\ status' = [id \in Ids |->
       CASE services'[id] = None   -> "absent"
         [] status[id] = "absent"  -> "unknown"
         [] OTHER                  -> status[id]]
  /\ wasUp' = [r \in Requests |-> IF pc[r] = "idle" THEN {}
                                  ELSE wasUp[r] \cup Reachable(services', reach)]
  /\ UNCHANGED <<advertised, roundVars, answerVars, reach, overlaps, ctxDone>>

\* Handler.UpdateServices, the reload's next call.  It waits for the lock a
\* request holds while it reads statuses.
UpdateAdvertised ==
  /\ advertised # Configured(services)
  /\ \A r \in Requests : pc[r] # "read"
  /\ advertised' = Configured(services)
  /\ UNCHANGED <<services, status, roundVars, answerVars, reach, asked, ctxDone>>

\* A backend starts or stops listening.
Flip(t) ==
  /\ reach' = IF t \in reach THEN reach \ {t} ELSE reach \cup {t}
  /\ wasUp' = [r \in Requests |-> IF pc[r] = "idle" THEN {}
                                  ELSE wasUp[r] \cup Reachable(services, reach')]
  /\ UNCHANGED <<services, status, advertised, roundVars, answerVars, overlaps, ctxDone>>

\* SIGTERM cancels the context every dial runs under.
Stop ==
  /\ ~ctxDone
  /\ ctxDone' = TRUE
  /\ UNCHANGED <<services, status, advertised, roundVars, answerVars, reach, asked>>

ProbeStep(c) == Snapshot(c) \/ RecordServiceHealth(c) \/ \E id \in Ids : Dial(c, id) \/ Land(c, id)
AnswerStep(r) ==
  ServicesWithStatus(r) \/ PublishResponse(r) \/ \E id \in Ids : Status(r, id)

Next ==
  \/ \E c \in Callers : StartRound(c) \/ ProbeStep(c)
  \/ \E r \in Requests : AnswerStep(r)
  \/ UpdateServices \/ UpdateAdvertised
  \/ (\E t \in Targets : Flip(t)) \/ Stop

Spec == Init /\ [][Next]_vars

(* The ticker fires, dials end within their timeout and goroutines that can *)
(* run do; nothing makes a request arrive, a reload or a backend change.    *)
Fairness ==
  /\ WF_vars(StartRound(Ticker))
  /\ \A c \in Callers : WF_vars(Snapshot(c)) /\ WF_vars(RecordServiceHealth(c))
  /\ \A c \in Callers, id \in Ids : WF_vars(Dial(c, id) \/ Land(c, id))
  /\ \A r \in Requests : WF_vars(AnswerStep(r))

FairSpec == Spec /\ Fairness

-----------------------------------------------------------------------------
(* Properties.                                                             *)

\* A recorded round has a verdict for every service: it waits for all of its
\* own probes, and no other round takes a verdict back (monitor.go:157-160).
CompleteRows ==
  ~Reloads => \A c \in Callers, id \in Ids :
    pc[c] = "insert" /\ services[id] # None => snap[c][id] \in Verdicts

\* An answer says "up" only of a service that was reachable at some time since
\* the request came in, unless another round was in flight then: the probes the
\* request waits for come after it, and no later round brings an older result
\* (handler.go:186-195).
FreshUnlessOverlapped ==
  ~Reloads => \A r \in Requests, id \in Ids :
    pc[r] = "publish" /\ answer[r][id] = "up" /\ ~overlaps[r] => id \in wasUp[r]

\* However rounds, requests and reloads overlap, the status of a service that
\* stays configured and stays up, or stays down, ends up right and stays right.
StatusConverges ==
  \A id \in Ids, t \in Targets :
    /\ <>[](services[id] = t /\ t \in reach /\ ~ctxDone) => <>[](status[id] = "up")
    /\ <>[](services[id] = t /\ t \notin reach /\ ~ctxDone) => <>[](status[id] = "down")

\* A discovery request is never held up for good by the probes it waits for
\* (handler.go:186-195).
RequestEnds == \A r \in Requests : pc[r] # "idle" ~> pc[r] = "idle"

\* What monitor.go:112-113 says of a reload: removed services are cleared from
\* status.  Not so in the code (README, 4).
RemovedIsCleared ==
  \A id \in Ids : services[id] = None => status[id] = "absent"

=============================================================================
