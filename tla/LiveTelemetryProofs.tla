-------------------------- MODULE LiveTelemetryProofs --------------------------
(***************************************************************************)
(* Theorems of LiveTelemetry, for any windows and with either panel, both  *)
(* or none.                                                                *)
(***************************************************************************)
EXTENDS LiveTelemetry, TLAPS

\* What makes a panel's promises inductive: a click that is not parked is the
\* one the open request is for, and a window without its series is waited for
\* or has failed.
PanelKeeps(h) ==
  /\ h.request = "idle" => ~h.wanted /\ ~h.pending
  /\ h.wanted /\ ~h.pending => h.asked = h.window
  /\ h.loaded # NoWindow /\ h.loaded # h.window => h.wanted \/ h.error

\* The chart's label is another window's only while it is waited for or failed.
ChartKeeps(h, l) == h.loaded # NoWindow /\ l # h.loaded => h.wanted \/ h.error

PanelsKeep ==
  /\ \A p \in Panels : PanelKeeps(panel[p])
  /\ \A p \in Panels \cap {"history"} : ChartKeeps(panel[p], label)

\* An active session has installed the listener.
ActiveListens == session = "active" => listening

IInv == TypeOK /\ PanelsKeep /\ ActiveListens /\ LiveZoneFollowsSession

\* Asking changes the request, the window it is for and what is parked, only.
LEMMA Asked ==
  ASSUME NEW h \in PanelStates, NEW force \in BOOLEAN
  PROVE  /\ Ask(h, force) \in PanelStates
         /\ Ask(h, force).window = h.window /\ Ask(h, force).wanted = h.wanted
         /\ Ask(h, force).error = h.error /\ Ask(h, force).loaded = h.loaded
         /\ Ask(h, force).request # "idle"
         /\ h.request = "idle" =>
              Ask(h, force).asked = h.window /\ Ask(h, force).pending = h.pending
         /\ h.request # "idle" =>
              Ask(h, force).asked = h.asked /\ (Ask(h, force).pending <=> h.pending \/ force)
<1>1. CASE h.request = "idle"
  <2>1. Ask(h, force) = [h EXCEPT !.request = "get", !.asked = h.window]
    BY <1>1 DEF Ask
  <2>2. QED
    BY <1>1, <2>1 DEF PanelStates, Requests
<1>2. CASE h.request # "idle"
  <2>1. Ask(h, force) = [h EXCEPT !.pending = h.pending \/ force]
    BY <1>2 DEF Ask, PanelStates
  <2>2. QED
    BY <1>2, <2>1 DEF PanelStates
<1>3. QED
  BY <1>1, <1>2

\* So a panel that keeps its promises keeps them when it asks.
LEMMA AskKeeps ==
  ASSUME NEW h \in PanelStates, NEW force \in BOOLEAN, PanelKeeps(h)
  PROVE  /\ Ask(h, force) \in PanelStates /\ PanelKeeps(Ask(h, force))
         /\ \A l : ChartKeeps(h, l) => ChartKeeps(Ask(h, force), l)
<1> DEFINE g == Ask(h, force)
<1>1. /\ g \in PanelStates
      /\ g.window = h.window /\ g.wanted = h.wanted
      /\ g.error = h.error /\ g.loaded = h.loaded
      /\ g.request # "idle"
      /\ h.request = "idle" => g.asked = h.window
      /\ h.request # "idle" => g.asked = h.asked /\ (h.pending => g.pending)
  BY Asked
<1> HIDE DEF g
<1>2. g.loaded # NoWindow /\ g.loaded # g.window => g.wanted \/ g.error
  BY <1>1 DEF PanelKeeps
<1>3. g.wanted /\ ~g.pending => g.asked = g.window
  <2>1. CASE h.request = "idle"
    BY <1>1, <2>1
  <2>2. CASE h.request # "idle"
    BY <1>1, <2>2 DEF PanelKeeps
  <2>3. QED
    BY <2>1, <2>2
<1>4. PanelKeeps(g)
  BY <1>1, <1>2, <1>3 DEF PanelKeeps
<1>5. \A l : ChartKeeps(h, l) => ChartKeeps(g, l)
  BY <1>1 DEF ChartKeeps
<1>6. QED
  BY <1>1, <1>4, <1>5 DEF g

\* Choosing a window parks the click or asks for that window at once.
LEMMA ChoiceKeeps ==
  ASSUME NEW h \in PanelStates, NEW w \in Windows, PanelKeeps(h)
  PROVE  LET g == Ask([h EXCEPT !.window = w, !.wanted = TRUE], TRUE)
         IN  g \in PanelStates /\ PanelKeeps(g) /\ \A l : ChartKeeps(g, l)
<1> DEFINE f == [h EXCEPT !.window = w, !.wanted = TRUE]
<1>1. /\ f \in PanelStates /\ f.window = w /\ f.wanted = TRUE /\ f.request = h.request
      /\ f.pending = h.pending /\ f.asked = h.asked
  BY DEF PanelStates
<1> HIDE DEF f
<1>2. Ask(f, TRUE) \in PanelStates /\ Ask(f, TRUE).wanted = TRUE
      /\ Ask(f, TRUE).request # "idle" /\ Ask(f, TRUE).window = w
  BY <1>1, Asked
<1>3. Ask(f, TRUE).pending \/ Ask(f, TRUE).asked = w
  BY <1>1, Asked
<1>4. PanelKeeps(Ask(f, TRUE)) /\ \A l : ChartKeeps(Ask(f, TRUE), l)
  BY <1>2, <1>3 DEF PanelKeeps, ChartKeeps
<1>5. QED
  BY <1>2, <1>4 DEF f

\* The end of a request keeps the promises, and its label is accounted for.
LEMMA SettledKeeps ==
  ASSUME NEW h \in PanelStates, NEW answer \in Answers, PanelKeeps(h),
         h.request # "idle"
  PROVE  /\ Settled(h, answer) \in PanelStates /\ PanelKeeps(Settled(h, answer))
         /\ h.asked = h.window => ChartKeeps(Settled(h, answer), h.window)
         /\ h.asked # h.window =>
              \A l : ChartKeeps(h, l) => ChartKeeps(Settled(h, answer), l)
<1> DEFINE current == h.asked = h.window
           done == [h EXCEPT
             !.request = "idle",
             !.pending = FALSE,
             !.loaded = IF current /\ answer = "ok" THEN h.asked ELSE @,
             !.error  = IF current THEN answer # "ok" ELSE @,
             !.wanted = @ /\ ~current]
<1>1. /\ done \in PanelStates
      /\ done.window = h.window /\ done.request = "idle" /\ done.pending = FALSE
      /\ (done.wanted <=> h.wanted /\ ~current)
      /\ done.loaded = IF current /\ answer = "ok" THEN h.asked ELSE h.loaded
      /\ done.error = IF current THEN answer # "ok" ELSE h.error
  BY DEF PanelStates, Requests
<1>2. Settled(h, answer) = IF h.pending THEN Ask(done, TRUE) ELSE done
  BY DEF Settled
<1> HIDE DEF done
<1>3. /\ Settled(h, answer) \in PanelStates
      /\ Settled(h, answer).window = h.window /\ Settled(h, answer).wanted = done.wanted
      /\ Settled(h, answer).loaded = done.loaded /\ Settled(h, answer).error = done.error
      /\ Settled(h, answer).pending = FALSE
      /\ h.pending => Settled(h, answer).asked = h.window
                      /\ Settled(h, answer).request # "idle"
  <2>1. CASE h.pending
    <3>1. Settled(h, answer) = Ask(done, TRUE) /\ TRUE \in BOOLEAN
      BY <1>2, <2>1
    <3>2. /\ done \in PanelStates /\ done.window = h.window
          /\ done.request = "idle" /\ done.pending = FALSE
      BY <1>1
    <3>3. /\ Ask(done, TRUE) \in PanelStates
          /\ Ask(done, TRUE).window = done.window /\ Ask(done, TRUE).wanted = done.wanted
          /\ Ask(done, TRUE).error = done.error /\ Ask(done, TRUE).loaded = done.loaded
          /\ Ask(done, TRUE).request # "idle"
          /\ Ask(done, TRUE).asked = done.window
          /\ Ask(done, TRUE).pending = done.pending
      BY <3>1, <3>2, Asked
    <3>4. QED
      BY <3>1, <3>2, <3>3
  <2>2. CASE ~h.pending
    <3>1. Settled(h, answer) = done
      BY <1>2, <2>2
    <3>2. done \in PanelStates /\ done.window = h.window /\ done.pending = FALSE
      BY <1>1
    <3>3. QED
      BY <2>2, <3>1, <3>2
  <2>3. QED
    BY <2>1, <2>2
<1>4. done.loaded # NoWindow /\ done.loaded # h.window => done.wanted \/ done.error
  BY <1>1 DEF PanelKeeps
<1>5. ~h.pending => ~done.wanted
  BY <1>1 DEF PanelKeeps
<1>6. PanelKeeps(Settled(h, answer))
  BY <1>1, <1>3, <1>4, <1>5 DEF PanelKeeps
<1>7. h.asked = h.window => ChartKeeps(Settled(h, answer), h.window)
  BY <1>1, <1>3, <1>4 DEF ChartKeeps
<1>8. ASSUME h.asked # h.window, NEW l, ChartKeeps(h, l)
      PROVE  ChartKeeps(Settled(h, answer), l)
  BY <1>1, <1>3, <1>8 DEF ChartKeeps
<1>9. QED
  BY <1>3, <1>6, <1>7, <1>8


\* Clearing the interval, if there is one, leaves none.
LEMMA Cleared ==
  ASSUME TypeOK
  PROVE  (IF handle THEN intervals - 1 ELSE intervals) = 0
<1>1. CASE handle
  BY <1>1 DEF TypeOK
<1>2. CASE ~handle
  BY <1>2 DEF TypeOK
<1>3. QED
  BY <1>1, <1>2

\* Typed values put in one panel's place, or in every panel's, that keep the
\* promises.
LEMMA PanelChange ==
  ASSUME TypeOK, PanelsKeep, label' = label,
         panel' = [p \in Panels |-> panel'[p]],
         \A p \in Panels : panel'[p] \in PanelStates /\ PanelKeeps(panel'[p]),
         \A p \in Panels \cap {"history"} :
           ChartKeeps(panel[p], label) => ChartKeeps(panel'[p], label)
  PROVE  panel' \in [Panels -> PanelStates] /\ PanelsKeep'
BY DEF TypeOK, PanelsKeep, PanelKeeps, ChartKeeps

\* The steps that leave the panels alone.
LEMMA PollSteps ==
  ASSUME IInv,
         PollProof \/ ProofExpires \/ Tick \/ Unlock \/ Hide \/ Show
  PROVE  IInv'
<1>1. UNCHANGED <<panel, label>>
  BY DEF PollProof, ProofExpires, Tick, Unlock, Hide, Show
<1>2. PanelsKeep'
  BY <1>1 DEF IInv, PanelsKeep, PanelKeeps, ChartKeeps
<1>3. ASSUME FetchTelemetry PROVE poll' \in Requests
  BY <1>3 DEF FetchTelemetry, IInv, TypeOK, Requests
<1>4. CASE PollProof
  <2>1. poll' \in Requests
    BY <1>4 DEF PollProof, IInv, TypeOK, Requests
  <2>2. proof' \in BOOLEAN /\ stored' \in BOOLEAN
    BY <1>4 DEF PollProof, ProofSettles, proofs, IInv, TypeOK
  <2>3. QED
    BY <1>1, <1>2, <1>4, <2>1, <2>2
      DEF PollProof, IInv, TypeOK, ActiveListens, LiveZoneFollowsSession, timers, proofs
<1>5. CASE ProofExpires
  BY <1>2, <1>5
    DEF ProofExpires, IInv, TypeOK, ActiveListens, LiveZoneFollowsSession, timers, proofs
<1>6. CASE Tick
  BY <1>2, <1>3, <1>6
    DEF Tick, IInv, TypeOK, ActiveListens, LiveZoneFollowsSession, timers, proofs
<1>7. CASE Unlock
  BY <1>2, <1>7
    DEF Unlock, IInv, TypeOK, ActiveListens, LiveZoneFollowsSession, timers, proofs
<1>8. CASE Hide
  <2>1. /\ handle' \in BOOLEAN /\ intervals' = IF handle' THEN 1 ELSE 0
        /\ handle' => handle
    <3>1. CASE listening
      <4>1. handle' = FALSE /\ intervals' = 0
        BY <1>8, <3>1, Cleared DEF Hide, Clear, IInv
      <4>2. QED
        BY <4>1
    <3>2. CASE ~listening
      BY <1>8, <3>2 DEF Hide, timers, IInv, TypeOK
    <3>3. QED
      BY <3>1, <3>2
  <2>2. QED
    BY <1>2, <1>8, <2>1 DEF Hide, proofs, IInv, TypeOK, ActiveListens, LiveZoneFollowsSession
<1>9. CASE Show
  <2>1. CASE listening /\ ~handle
    <3>1. handle' = TRUE /\ intervals' = 1 /\ unknown' = FALSE /\ poll' \in Requests
      BY <1>3, <1>9, <2>1 DEF Show, IInv, TypeOK
    <3>2. QED
      BY <1>2, <1>9, <3>1
        DEF Show, proofs, IInv, TypeOK, ActiveListens, LiveZoneFollowsSession
  <2>2. CASE ~(listening /\ ~handle)
    <3>1. UNCHANGED <<handle, intervals, poll, unknown>>
      BY <1>9, <2>2 DEF Show, timers
    <3>2. QED
      BY <1>2, <1>9, <2>2, <3>1
        DEF Show, proofs, IInv, TypeOK, ActiveListens, LiveZoneFollowsSession
  <2>3. QED
    BY <2>1, <2>2
<1>10. QED
  BY <1>4, <1>5, <1>6, <1>7, <1>8, <1>9

\* A poll is answered: with what it brings, due panels ask.
LEMMA PollAnsweredKeeps ==
  ASSUME IInv, NEW answer \in Answers, PollAnswered(answer)
  PROVE  IInv'
<1>1. UNCHANGED <<session, hidden, listening, label, proof, stored, quiet, shown>>
  BY DEF PollAnswered, proofs
<1>2. poll' \in Requests
  BY DEF PollAnswered, IInv, TypeOK, Requests
<1>3. panel' \in [Panels -> PanelStates] /\ PanelsKeep'
  <2>1. CASE panel' = panel
    BY <1>1, <2>1 DEF IInv, TypeOK, PanelsKeep, PanelKeeps, ChartKeeps
  <2>2. ASSUME NEW due \in SUBSET Panels,
               panel' = [p \in Panels |-> IF p \in due THEN Ask(panel[p], FALSE) ELSE panel[p]]
        PROVE  panel' \in [Panels -> PanelStates] /\ PanelsKeep'
    <3>1. \A p \in Panels : panel'[p] = IF p \in due THEN Ask(panel[p], FALSE) ELSE panel[p]
      BY <2>2
    <3>2. \A p \in Panels : panel[p] \in PanelStates /\ PanelKeeps(panel[p])
      BY DEF IInv, TypeOK, PanelsKeep
    <3>3. \A p \in Panels :
            /\ panel'[p] \in PanelStates /\ PanelKeeps(panel'[p])
            /\ ChartKeeps(panel[p], label) => ChartKeeps(panel'[p], label)
      BY <3>1, <3>2, AskKeeps, FALSE \in BOOLEAN
    <3>4. panel' = [p \in Panels |-> panel'[p]]
      BY <2>2
    <3>5. QED
      BY <1>1, <3>3, <3>4, PanelChange DEF IInv
  <2>3. QED
    BY <2>1, <2>2 DEF PollAnswered
<1>4. /\ handle' \in BOOLEAN /\ intervals' = IF handle' THEN 1 ELSE 0
      /\ card' \in BOOLEAN /\ unknown' \in BOOLEAN
      /\ \/ handle' = handle /\ unknown' = unknown
         \/ handle' = FALSE /\ unknown' = TRUE
  <2>1. CASE UNCHANGED <<timers, unknown>>
    BY <2>1 DEF PollAnswered, timers, IInv, TypeOK
  <2>2. CASE handle' = FALSE /\ unknown' = TRUE
             /\ intervals' = IF handle THEN intervals - 1 ELSE intervals
    <3>1. intervals' = 0 /\ card' \in BOOLEAN
      BY <2>2, Cleared DEF PollAnswered, IInv, TypeOK
    <3>2. QED
      BY <2>2, <3>1
  <2>3. QED
    BY <2>1, <2>2 DEF PollAnswered
<1>5. TypeOK'
  BY <1>1, <1>2, <1>3, <1>4 DEF IInv, TypeOK
<1>6. ActiveListens' /\ LiveZoneFollowsSession'
  BY <1>1, <1>4 DEF IInv, ActiveListens, LiveZoneFollowsSession
<1>7. QED
  BY <1>3, <1>5, <1>6 DEF IInv

\* The steps of one panel.
LEMMA PanelSteps ==
  ASSUME IInv, NEW p \in Panels,
         \/ \E answer \in Answers : PanelAnswered(p, answer)
         \/ PanelProof(p)
         \/ \E w \in Windows : ChooseWindow(p, w)
  PROVE  IInv'
<1>1. /\ UNCHANGED <<session, hidden, listening, card, handle, intervals, poll, quiet, shown,
                     unknown>>
      /\ \A q \in Panels : panel[q] \in PanelStates /\ PanelKeeps(panel[q])
      /\ \A q \in Panels \cap {"history"} : ChartKeeps(panel[q], label)
  BY DEF PanelAnswered, PanelProof, ChooseWindow, timers, IInv, TypeOK, PanelsKeep
<1>2. SUFFICES /\ panel' \in [Panels -> PanelStates] /\ PanelsKeep'
               /\ label' \in Windows \cup {NoWindow}
               /\ proof' \in BOOLEAN /\ stored' \in BOOLEAN
  BY <1>1 DEF IInv, TypeOK, ActiveListens, LiveZoneFollowsSession
<1>3. panel[p] \in PanelStates /\ panel[p].window \in Windows
  BY <1>1 DEF PanelStates
<1>4. ASSUME NEW h \in PanelStates, panel' = [panel EXCEPT ![p] = h], PanelKeeps(h),
             ChartKeeps(panel[p], label) => ChartKeeps(h, label), label' = label
      PROVE  panel' \in [Panels -> PanelStates] /\ PanelsKeep'
  <2>1. \A q \in Panels : panel'[q] = IF q = p THEN h ELSE panel[q]
    BY <1>4 DEF IInv, TypeOK
  <2>2. panel' = [q \in Panels |-> panel'[q]]
    BY <1>4 DEF IInv, TypeOK
  <2>3. QED
    BY <1>1, <1>4, <2>1, <2>2, PanelChange DEF IInv
<1>5. ASSUME NEW answer \in Answers, PanelAnswered(p, answer)
      PROVE  /\ panel' \in [Panels -> PanelStates] /\ PanelsKeep'
             /\ label' \in Windows \cup {NoWindow}
             /\ UNCHANGED <<proof, stored>>
  <2>1. UNCHANGED <<proof, stored>> /\ panel[p].request # "idle"
    BY <1>5 DEF PanelAnswered, proofs
  <2>2. CASE ~Final(panel[p].request, answer)
    <3>1. panel' = [panel EXCEPT ![p] = [panel[p] EXCEPT !.request = "proof"]]
          /\ label' = label
      BY <1>5, <2>2 DEF PanelAnswered
    <3>2. [panel[p] EXCEPT !.request = "proof"] \in PanelStates
      BY <1>3 DEF PanelStates, Requests
    <3>3. /\ PanelKeeps([panel[p] EXCEPT !.request = "proof"])
          /\ ChartKeeps(panel[p], label) =>
               ChartKeeps([panel[p] EXCEPT !.request = "proof"], label)
      BY <1>1, <1>3 DEF PanelStates, Requests, PanelKeeps, ChartKeeps
    <3>4. QED
      BY <1>4, <2>1, <3>1, <3>2, <3>3 DEF IInv, TypeOK
  <2>3. CASE Final(panel[p].request, answer)
    <3> DEFINE h == Settled(panel[p], answer)
    <3>1. panel' = [panel EXCEPT ![p] = h]
          /\ label' = IF p = "history" /\ panel[p].asked = panel[p].window
                      THEN panel[p].window ELSE label
      BY <1>5, <2>3 DEF PanelAnswered
    <3>2. /\ h \in PanelStates /\ PanelKeeps(h)
          /\ panel[p].asked = panel[p].window => ChartKeeps(h, panel[p].window)
          /\ panel[p].asked # panel[p].window =>
               \A l : ChartKeeps(panel[p], l) => ChartKeeps(h, l)
      BY <1>1, <2>1, SettledKeeps
    <3> HIDE DEF h
    <3>3. \A q \in Panels : panel'[q] = IF q = p THEN h ELSE panel[q]
      BY <3>1 DEF IInv, TypeOK
    <3>4. panel' \in [Panels -> PanelStates]
      BY <3>1, <3>2 DEF IInv, TypeOK
    <3>5. \A q \in Panels : PanelKeeps(panel'[q])
      BY <1>1, <3>2, <3>3
    <3>6. ASSUME NEW q \in Panels \cap {"history"} PROVE ChartKeeps(panel'[q], label')
      <4>1. CASE q = p
        BY <1>1, <3>1, <3>2, <3>3, <4>1
      <4>2. CASE q # p
        BY <1>1, <3>1, <3>3, <4>2
      <4>3. QED
        BY <4>1, <4>2
    <3>7. label' \in Windows \cup {NoWindow}
      BY <1>3, <3>1 DEF IInv, TypeOK
    <3>8. PanelsKeep'
      BY <3>5, <3>6 DEF PanelsKeep, PanelKeeps, ChartKeeps
    <3>9. QED
      BY <2>1, <3>4, <3>7, <3>8
  <2>4. QED
    BY <2>2, <2>3
<1>6. CASE PanelProof(p)
  <2> DEFINE h == [panel[p] EXCEPT !.request = "again"]
  <2>1. panel' = [panel EXCEPT ![p] = h] /\ label' = label
    BY <1>6 DEF PanelProof, IInv, TypeOK
  <2>2. h \in PanelStates
    BY <1>3 DEF PanelStates, Requests
  <2>3. PanelKeeps(h) /\ (ChartKeeps(panel[p], label) => ChartKeeps(h, label))
    BY <1>1, <1>3, <1>6 DEF PanelProof, PanelStates, PanelKeeps, ChartKeeps
  <2>4. proof' \in BOOLEAN /\ stored' \in BOOLEAN
    BY <1>6 DEF PanelProof, ProofSettles, proofs, IInv, TypeOK
  <2> HIDE DEF h
  <2>5. QED
    BY <1>4, <2>1, <2>2, <2>3, <2>4 DEF IInv, TypeOK
<1>7. ASSUME NEW w \in Windows, ChooseWindow(p, w)
      PROVE  /\ panel' \in [Panels -> PanelStates] /\ PanelsKeep'
             /\ UNCHANGED <<label, proof, stored>>
  <2> DEFINE h == Ask([panel[p] EXCEPT !.window = w, !.wanted = TRUE], TRUE)
  <2>1. panel' = [panel EXCEPT ![p] = h] /\ UNCHANGED <<label, proof, stored>>
    BY <1>7 DEF ChooseWindow, proofs, IInv, TypeOK
  <2>2. h \in PanelStates /\ PanelKeeps(h) /\ \A l : ChartKeeps(h, l)
    BY <1>1, ChoiceKeeps
  <2> HIDE DEF h
  <2>3. QED
    BY <1>4, <2>1, <2>2
<1>8. QED
  BY <1>5, <1>6, <1>7 DEF IInv, TypeOK, LiveZoneFollowsSession

\* A reply asks the history again and may start the polling.
LEMMA ReplyKeeps ==
  ASSUME IInv, Reply
  PROVE  IInv'
<1>1. /\ session' = "active"
      /\ UNCHANGED <<hidden, label, proof, stored, quiet, shown>>
  BY DEF Reply, proofs
<1>2. panel' \in [Panels -> PanelStates] /\ PanelsKeep'
  <2>1. panel' = [p \in Panels |-> panel'[p]]
    BY DEF Reply
  <2>2. \A p \in Panels : panel'[p] = IF p = "history" THEN Ask(panel[p], TRUE) ELSE panel[p]
    BY DEF Reply
  <2>3. \A p \in Panels : panel[p] \in PanelStates /\ PanelKeeps(panel[p])
    BY DEF IInv, TypeOK, PanelsKeep
  <2>4. \A p \in Panels :
          /\ panel'[p] \in PanelStates /\ PanelKeeps(panel'[p])
          /\ ChartKeeps(panel[p], label) => ChartKeeps(panel'[p], label)
    BY <2>2, <2>3, AskKeeps, TRUE \in BOOLEAN
  <2>5. QED
    BY <1>1, <2>1, <2>4, PanelChange DEF IInv
<1>3. CASE session = "pending"
  <2>1. StartPolling
    BY <1>3 DEF Reply
  <2>2. /\ handle' = TRUE /\ card' = TRUE /\ listening' = TRUE /\ unknown' = FALSE
        /\ intervals' = 1
    BY <2>1, Cleared DEF StartPolling, IInv
  <2>3. poll' \in Requests
    BY <2>1 DEF StartPolling, FetchTelemetry, Requests, IInv, TypeOK
  <2>4. TypeOK'
    BY <1>1, <1>2, <2>2, <2>3 DEF IInv, TypeOK
  <2>5. ActiveListens' /\ LiveZoneFollowsSession'
    BY <1>1, <2>2 DEF IInv, ActiveListens, LiveZoneFollowsSession
  <2>6. QED
    BY <1>2, <2>4, <2>5 DEF IInv
<1>4. CASE session # "pending"
  <2>1. /\ session = "active" /\ card' \in BOOLEAN
        /\ UNCHANGED <<handle, intervals, listening, poll, unknown>>
    BY <1>4 DEF Reply, timers, IInv, TypeOK
  <2>2. QED
    BY <1>1, <1>2, <2>1 DEF IInv, TypeOK, ActiveListens, LiveZoneFollowsSession
<1>5. QED
  BY <1>3, <1>4

\* A lock ends the polling and the proof, and leaves the panels as they are.
LEMMA LockKeeps ==
  ASSUME IInv, Lock
  PROVE  IInv'
<1>1. /\ session' = "locked" /\ card' = FALSE /\ shown' = FALSE
      /\ handle' = FALSE /\ intervals' = 0
      /\ proof' = FALSE /\ stored' = FALSE /\ quiet' \in BOOLEAN
      /\ UNCHANGED <<hidden, listening, poll, panel, label, unknown>>
  BY Cleared DEF Lock, Clear, ClearStepUp, IInv
<1>2. PanelsKeep'
  BY <1>1 DEF IInv, PanelsKeep, PanelKeeps, ChartKeeps
<1>3. QED
  BY <1>1, <1>2 DEF IInv, TypeOK, ActiveListens, LiveZoneFollowsSession

\* A metric button names the selected window.
LEMMA MetricKeeps ==
  ASSUME IInv, ChooseMetric
  PROVE  IInv'
<1>1. /\ "history" \in Panels /\ label' = panel["history"].window
      /\ UNCHANGED <<session, hidden, listening, card, handle, intervals, poll, panel, proof,
                     stored, quiet, shown, unknown>>
  BY DEF ChooseMetric, timers, proofs
<1>2. panel["history"].window \in Windows
  BY <1>1 DEF IInv, TypeOK, PanelStates
<1>3. PanelsKeep'
  BY <1>1 DEF IInv, PanelsKeep, PanelKeeps, ChartKeeps
<1>4. QED
  BY <1>1, <1>2, <1>3 DEF IInv, TypeOK, ActiveListens, LiveZoneFollowsSession

LEMMA Inductive == IInv /\ [Next]_vars => IInv'
<1> SUFFICES ASSUME IInv, [Next]_vars PROVE IInv'
  OBVIOUS
<1>1. CASE UNCHANGED vars
  BY <1>1 DEF vars, timers, proofs, IInv, TypeOK, PanelsKeep, PanelKeeps, ChartKeeps,
    ActiveListens, LiveZoneFollowsSession
<1>2. CASE Next
  BY <1>2, PollSteps, PollAnsweredKeeps, PanelSteps, ReplyKeeps, LockKeeps, MetricKeeps
    DEF Next
<1>3. QED
  BY <1>1, <1>2

LEMMA Invariant == Spec => []IInv
<1>1. Init => IInv
  <2> SUFFICES ASSUME Init PROVE IInv
    OBVIOUS
  <2>1. PICK w \in Windows :
          panel = [p \in Panels |->
            [window |-> w, loaded |-> NoWindow, error |-> FALSE, request |-> "idle",
             asked |-> w, pending |-> FALSE, wanted |-> FALSE]]
    BY DEF Init
  <2>2. panel \in [Panels -> PanelStates]
    BY <2>1 DEF PanelStates, Requests
  <2>3. PanelsKeep
    BY <2>1 DEF PanelsKeep, PanelKeeps, ChartKeeps
  <2>4. QED
    BY <2>2, <2>3 DEF Init, Requests, IInv, TypeOK, ActiveListens, LiveZoneFollowsSession
<1>2. QED
  BY <1>1, Inductive, PTL DEF Spec

\* Every reachable state is well typed, and one interval at most polls the host,
\* however often polling is started and stopped (app.js:2173-2195).
THEOREM TypeCorrect == Spec => []TypeOK
BY Invariant, PTL DEF IInv

\* No click on a window button is lost and no chart stays under a wrong name
\* unaccounted for, in any number of windows and in both panels (app.js:1635-1700).
THEOREM ClicksAreAnsweredHolds == Spec => []ClicksAreAnswered
<1>1. IInv => ClicksAreAnswered
  BY DEF IInv, PanelsKeep, PanelKeeps, ChartKeeps, ClicksAreAnswered
<1>2. QED
  BY <1>1, Invariant, PTL

\* Polling follows the session, however locks, replies and the page's visibility
\* alternate (app.js:433-440, 2173-2195).
THEOREM LiveZoneFollowsSessionHolds == Spec => []LiveZoneFollowsSession
BY Invariant, PTL DEF IInv

\* A lock that met no request under way, and after which the page was not shown.
Still == session = "locked" /\ quiet /\ ~shown

AtRest == ~card /\ poll = "idle" /\ \A p \in Panels : panel[p].request = "idle"

\* No proof from before the last lock, whatever was under way when it came.
LEMMA NoOldProof ==
  ASSUME proof => stored, [Next]_vars
  PROVE  proof' => stored'
<1>1. CASE UNCHANGED proofs
  BY <1>1 DEF proofs
<1>2. CASE Lock
  BY <1>2 DEF Lock, ClearStepUp
<1>3. CASE ProofExpires
  BY <1>3 DEF ProofExpires
<1>4. CASE PollProof \/ \E p \in Panels : PanelProof(p)
  BY <1>4 DEF PollProof, PanelProof, ProofSettles, proofs
<1>5. QED
  BY <1>1, <1>2, <1>3, <1>4 DEF Next, vars, PollAnswered, PanelAnswered, Tick, Unlock, Reply,
    Hide, Show, ChooseWindow, ChooseMetric

\* A still page stays still: nothing under way can end, nothing starts.
LEMMA StillStays ==
  ASSUME IInv, Still, ~proof, AtRest, [Next]_vars, Still'
  PROVE  ~proof' /\ AtRest'
<1>1. ~handle
  BY DEF IInv, LiveZoneFollowsSession, Still
<1>2. CASE UNCHANGED <<card, poll, panel, proof>>
  BY <1>2 DEF AtRest
<1>3. ~PollProof /\ ~ProofExpires /\ ~Tick /\ ~Reply /\ ~Lock /\ ~Show /\ ~Unlock
  BY <1>1 DEF PollProof, ProofExpires, Tick, Reply, Lock, Show, Unlock, AtRest, Still
<1>4. \A answer \in Answers : ~PollAnswered(answer)
  BY DEF PollAnswered, AtRest
<1>5. \A p \in Panels :
        /\ \A answer \in Answers : ~PanelAnswered(p, answer)
        /\ ~PanelProof(p)
        /\ \A w \in Windows : ~ChooseWindow(p, w)
  BY DEF PanelAnswered, PanelProof, ChooseWindow, AtRest, Still
<1>6. QED
  BY <1>2, <1>3, <1>4, <1>5 DEF Next, vars, proofs, Hide, ChooseMetric

\* Only a lock makes a page still, and then nothing is under way.
LEMMA StillBegins ==
  ASSUME ~Still, [Next]_vars, Still'
  PROVE  ~proof' /\ AtRest'
<1>1. Lock
  BY DEF Still, Next, vars, PollAnswered, PanelAnswered, PollProof, PanelProof, ProofExpires,
    Tick, Unlock, Reply, Hide, Show, ChooseWindow, ChooseMetric
<1>2. QED
  BY <1>1 DEF Lock, ClearStepUp, AtRest, Still

\* No step-up proof outlives a lock, in any number of panels and windows, and
\* a lock that met no request under way leaves nothing that could fetch one
\* (app.js:2626-2645, api_client.js:237, 264).
THEOREM ProofEndsWithSessionHolds == Spec => []ProofEndsWithSession
<1>1. Init => ProofEndsWithSession
  BY DEF Init, ProofEndsWithSession
<1>2. ProofEndsWithSession <=> (proof => stored) /\ (Still => ~proof /\ AtRest)
  BY DEF ProofEndsWithSession, Still, AtRest
<1>3. ProofEndsWithSession' <=> (proof' => stored') /\ (Still' => ~proof' /\ AtRest')
  BY DEF ProofEndsWithSession, Still, AtRest
<1>4. IInv /\ ProofEndsWithSession /\ [Next]_vars => ProofEndsWithSession'
  BY <1>2, <1>3, NoOldProof, StillStays, StillBegins
<1>5. QED
  BY <1>1, <1>4, Invariant, PTL DEF Spec

=============================================================================
