---------------------------- MODULE LiveTelemetry ----------------------------
(***************************************************************************)
(* The live zone of web/app.js: the polling of the host's telemetry, the   *)
(* history panels with their window buttons, the step-up proof the         *)
(* requests carry (web/js/api_client.js), and what the session and the     *)
(* visibility of the page do to them.                                      *)
(*                                                                         *)
(* A request is telemetryGet: one GET; refused without a proof, one        *)
(* request for a proof and the same GET again.  Each of its awaits ends    *)
(* with any answer.  Cool-downs are choices.  A chart is the window its    *)
(* samples answer; the metric, the samples and the drawing are left out.   *)
(***************************************************************************)
EXTENDS Naturals

CONSTANTS
  Panels,   \* "history" (telemetry) and "availability" (host history)
  Windows,  \* the window buttons
  NoWindow  \* no series loaded

ASSUME PanelNames == Panels \subseteq {"history", "availability"}
ASSUME NoWindowIsNone == NoWindow \notin Windows

VARIABLES
  session,    \* locked, pending (open) or active (the host has answered)
  hidden,     \* document.hidden
  listening,  \* visibilityListenerAdded
  card,       \* the telemetry card, with the window buttons, is on screen
  handle,     \* telemetryTimer is set
  intervals,  \* history: the intervals that run, whoever holds their handle
  poll,       \* the live request, telemetryFetchInFlight while it is not idle
  panel,      \* historyState and hostHistoryState
  label,      \* the window named under the history chart
  proof,      \* stepUpValue is set
  stored,     \* history: a proof has come in since the last lock
  quiet,      \* history: the last lock met no request under way
  shown,      \* history: the page has become visible since the last lock
  unknown     \* history: the live route has answered 404 since polling (re)started

timers == <<handle, intervals>>
proofs == <<proof, stored>>
vars == <<session, hidden, listening, card, timers, poll, panel, label, proofs, quiet, shown,
          unknown>>

\* The awaits of telemetryGet.
Requests == {"idle", "get", "proof", "again"}

\* asked is the window of the request; wanted: the user's click is unanswered.
PanelStates ==
  [window : Windows, loaded : Windows \cup {NoWindow}, error : BOOLEAN,
   request : Requests, asked : Windows, pending : BOOLEAN, wanted : BOOLEAN]

\* Types; and the handle is that of the only interval there is.
TypeOK ==
  /\ session \in {"locked", "pending", "active"}
  /\ hidden \in BOOLEAN /\ listening \in BOOLEAN /\ card \in BOOLEAN
  /\ handle \in BOOLEAN
  /\ intervals = IF handle THEN 1 ELSE 0
  /\ poll \in Requests
  /\ panel \in [Panels -> PanelStates]
  /\ label \in Windows \cup {NoWindow}
  /\ proof \in BOOLEAN /\ stored \in BOOLEAN
  /\ quiet \in BOOLEAN /\ shown \in BOOLEAN /\ unknown \in BOOLEAN

Init ==
  /\ session = "locked"
  /\ hidden \in BOOLEAN /\ listening = FALSE /\ card = FALSE
  /\ handle = FALSE /\ intervals = 0
  /\ poll = "idle"
  /\ \E w \in Windows :
       panel = [p \in Panels |->
         [window |-> w, loaded |-> NoWindow, error |-> FALSE, request |-> "idle",
          asked |-> w, pending |-> FALSE, wanted |-> FALSE]]
  /\ label = NoWindow
  /\ proof = FALSE /\ stored = FALSE
  /\ quiet = TRUE /\ shown = FALSE /\ unknown = FALSE

------------------------------------------------------------------------------
(* Requests.                                                                *)

\* A GET is over unless it is to be repeated with a proof.
Final(request, answer) ==
  request = "again" \/ answer # "refused" \/ proof

Answers == {"ok", "refused", "unknown", "failed"}

\* fetchTelemetry up to its await, unless one is under way.
FetchTelemetry == poll' = IF poll = "idle" THEN "get" ELSE poll

\* Mutant of Ask: a forced call that meets an open request just returns.
AskUnlessOpen(h, force) ==
  IF h.request # "idle"
  THEN h
  ELSE [h EXCEPT !.request = "get", !.asked = h.window]

\* fetchHistory and fetchHostHistory up to their await.
Ask(h, force) ==
  IF h.request # "idle"
  THEN [h EXCEPT !.pending = @ \/ force]
  ELSE [h EXCEPT !.request = "get", !.asked = h.window]

\* Their end: an answer for another window than the selected one counts for
\* nothing, and the call parked meanwhile is made now.
Settled(h, answer) ==
  LET current == h.asked = h.window
      done == [h EXCEPT
        !.request = "idle",
        !.pending = FALSE,
        !.loaded = IF current /\ answer = "ok" THEN h.asked ELSE @,
        !.error  = IF current THEN answer # "ok" ELSE @,
        !.wanted = @ /\ ~current]
  IN  IF h.pending THEN Ask(done, TRUE) ELSE done

------------------------------------------------------------------------------
(* Polling.                                                                 *)

\* The live request is answered.
PollAnswered(answer) ==
  /\ poll \in {"get", "again"}
  /\ \/ /\ ~Final(poll, answer)
        /\ poll' = "proof"
        /\ UNCHANGED <<card, timers, panel, unknown>>
     \/ /\ Final(poll, answer)
        /\ poll' = "idle"
        /\ \/ /\ answer = "ok"
              /\ card' = TRUE
              /\ \E due \in SUBSET Panels :
                   panel' = [p \in Panels |->
                     IF p \in due THEN Ask(panel[p], FALSE) ELSE panel[p]]
              /\ UNCHANGED <<timers, unknown>>
           \/ /\ answer = "unknown"
              /\ handle' = FALSE
              /\ intervals' = IF handle THEN intervals - 1 ELSE intervals
              /\ unknown' = TRUE
              /\ UNCHANGED <<card, panel>>
           \/ /\ answer \in {"refused", "failed"}
              /\ UNCHANGED <<card, timers, panel, unknown>>
  /\ UNCHANGED <<session, hidden, listening, label, proofs, quiet, shown>>

\* A panel's request is answered; the chart is drawn if it is its window's turn.
PanelAnswered(p, answer) ==
  LET h == panel[p] IN
  /\ h.request \in {"get", "again"}
  /\ \/ /\ ~Final(h.request, answer)
        /\ panel' = [panel EXCEPT ![p].request = "proof"]
        /\ UNCHANGED label
     \/ /\ Final(h.request, answer)
        /\ panel' = [panel EXCEPT ![p] = Settled(h, answer)]
        /\ label' = IF p = "history" /\ h.asked = h.window THEN h.window ELSE label
  /\ UNCHANGED <<session, hidden, listening, card, timers, poll, proofs, quiet, shown,
                 unknown>>

\* requestStepUp ends; whatever it brings, and in whatever session, the GET is
\* made again.
ProofSettles ==
  \/ UNCHANGED proofs
  \/ proof' = TRUE /\ stored' = TRUE

PollProof ==
  /\ poll = "proof" /\ poll' = "again"
  /\ ProofSettles
  /\ UNCHANGED <<session, hidden, listening, card, timers, panel, label, quiet, shown,
                 unknown>>

PanelProof(p) ==
  /\ panel[p].request = "proof"
  /\ panel' = [panel EXCEPT ![p].request = "again"]
  /\ ProofSettles
  /\ UNCHANGED <<session, hidden, listening, card, timers, poll, label, quiet, shown,
                 unknown>>

\* getStepUpHeader finds the proof expired.
ProofExpires ==
  /\ proof /\ proof' = FALSE
  /\ UNCHANGED <<session, hidden, listening, card, timers, poll, panel, label, stored, quiet,
                 shown, unknown>>

\* The interval.
Tick ==
  /\ handle
  /\ FetchTelemetry
  /\ UNCHANGED <<session, hidden, listening, card, timers, panel, label, proofs, quiet, shown,
                 unknown>>

------------------------------------------------------------------------------
(* The session, the page and the user.                                      *)

Unlock ==
  /\ session = "locked"
  /\ session' = "pending"
  /\ UNCHANGED <<hidden, listening, card, timers, poll, panel, label, proofs, quiet, shown,
                 unknown>>

\* Mutant of StartPolling: the interval that runs is not cleared.
StartPollingAgain ==
  /\ handle' = TRUE /\ intervals' = intervals + 1
  /\ card' = TRUE /\ listening' = TRUE /\ unknown' = FALSE
  /\ FetchTelemetry

\* startTelemetryPolling.
StartPolling ==
  /\ handle' = TRUE
  /\ intervals' = (IF handle THEN intervals - 1 ELSE intervals) + 1
  /\ card' = TRUE /\ listening' = TRUE /\ unknown' = FALSE
  /\ FetchTelemetry

\* handleNostrResponse: the history is asked for again, and the first reply of
\* a session makes it active; a reply may carry a reading of the host.
Reply ==
  /\ session # "locked"
  /\ panel' = [p \in Panels |-> IF p = "history" THEN Ask(panel[p], TRUE) ELSE panel[p]]
  /\ session' = "active"
  /\ IF session = "pending"
     THEN StartPolling
     ELSE /\ card' \in {card, TRUE}
          /\ UNCHANGED <<timers, listening, poll, unknown>>
  /\ UNCHANGED <<hidden, label, proofs, quiet, shown>>

\* Mutant of Clear: clearLiveTimers forgets the polling.
ClearOthers == UNCHANGED timers

\* clearLiveTimers.
Clear == handle' = FALSE /\ intervals' = IF handle THEN intervals - 1 ELSE intervals

\* Mutant of ClearStepUp: the proof is kept.
KeepStepUp == UNCHANGED proof

\* clearStepUp.
ClearStepUp == proof' = FALSE

\* "locked": the requests under way are not recalled.
Lock ==
  /\ session # "locked"
  /\ session' = "locked" /\ card' = FALSE
  /\ Clear /\ ClearStepUp
  /\ stored' = FALSE /\ shown' = FALSE
  /\ quiet' = (poll = "idle" /\ \A p \in Panels : panel[p].request = "idle")
  /\ UNCHANGED <<hidden, listening, poll, panel, label, unknown>>

\* visibilitychange, heard once polling has begun.
Hide ==
  /\ ~hidden /\ hidden' = TRUE
  /\ IF listening THEN Clear ELSE UNCHANGED timers
  /\ UNCHANGED <<session, listening, card, poll, panel, label, proofs, quiet, shown, unknown>>

Show ==
  /\ hidden /\ hidden' = FALSE /\ shown' = TRUE
  /\ IF listening /\ ~handle
     THEN handle' = TRUE /\ intervals' = intervals + 1 /\ unknown' = FALSE /\ FetchTelemetry
     ELSE UNCHANGED <<timers, poll, unknown>>
  /\ UNCHANGED <<session, listening, card, panel, label, proofs, quiet>>

\* A window button.
ChooseWindow(p, w) ==
  /\ session # "locked" /\ card
  /\ panel' = [panel EXCEPT ![p] = Ask([@ EXCEPT !.window = w, !.wanted = TRUE], TRUE)]
  /\ UNCHANGED <<session, hidden, listening, card, timers, poll, label, proofs, quiet, shown,
                 unknown>>

\* A metric button draws what is there under the window that is selected.
ChooseMetric ==
  /\ session # "locked" /\ card /\ "history" \in Panels
  /\ label' = panel["history"].window
  /\ UNCHANGED <<session, hidden, listening, card, timers, poll, panel, proofs, quiet, shown,
                 unknown>>

------------------------------------------------------------------------------
Next ==
  \/ \E answer \in Answers :
       PollAnswered(answer) \/ \E p \in Panels : PanelAnswered(p, answer)
  \/ PollProof \/ \E p \in Panels : PanelProof(p)
  \/ ProofExpires \/ Tick
  \/ Unlock \/ Reply \/ Lock \/ Hide \/ Show
  \/ \E p \in Panels, w \in Windows : ChooseWindow(p, w)
  \/ ChooseMetric

Spec == Init /\ [][Next]_vars

------------------------------------------------------------------------------
(* Properties.                                                              *)

\* A window click is answered, with that window's series or with an error, as
\* soon as its panel is at rest (app.js:1635-1638, pendingReload); and the chart
\* shows a series under the name of another window only while the click on that
\* window is unanswered or after its request has failed (app.js:1656-1658 would
\* have it never do so).
ClicksAreAnswered ==
  /\ \A p \in Panels :
       panel[p].request = "idle" => ~panel[p].wanted /\ ~panel[p].pending
  /\ \A p \in Panels \cap {"history"} :
       panel[p].loaded # NoWindow /\ label # panel[p].loaded
         => panel[p].wanted \/ panel[p].error

\* The host is polled while the session is active and the page visible, unless
\* it has no such route (app.js:2173-2195).  A lock ends the polling
\* (app.js:433-440) until the page is hidden and shown again, which starts it
\* whatever the session.
LiveZoneFollowsSession ==
  /\ session = "active" /\ ~hidden => handle \/ unknown
  /\ session = "locked" /\ handle => shown

\* No proof outlives the session it came in (api_client.js:237): one that is
\* there has come in since the last lock.  And after a lock that met no request
\* under way nothing is asked, no proof is fetched (api_client.js:264) and the
\* card stays off the screen, until the page is shown again or the session
\* unlocked.
ProofEndsWithSession ==
  /\ proof => stored
  /\ session = "locked" /\ quiet /\ ~shown =>
       /\ ~proof /\ ~card /\ poll = "idle"
       /\ \A p \in Panels : panel[p].request = "idle"

=============================================================================
