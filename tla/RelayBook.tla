------------------------------ MODULE RelayBook ------------------------------
(***************************************************************************)
(* The relays of the browser: RelayManager (web/js/relay_manager.js), its  *)
(* RTT history (relay_rtt_history.js), the tests (relay_tester.js) and the *)
(* relay panel of web/app.js.                                              *)
(*                                                                         *)
(* A test awaits its probes, each under a timer of its own, and then       *)
(* writes the results of all its relays at once.  A reading is kept as     *)
(* what the properties tell apart: whether the relay was removed since the *)
(* test began.  Saving the list may throw (storage full); what cannot be   *)
(* saved of the history is not modelled.                                   *)
(*                                                                         *)
(* The names are apart from those of Discovery, so that one module of      *)
(* theorems can extend both.                                               *)
(***************************************************************************)
EXTENDS Naturals, Sequences

CONSTANTS
  Urls,         \* relay URLs, as _validateUrl leaves them
  Defaults,     \* DEFAULT_RELAYS
  ConfigRelays, \* the relays of the served configuration
  NoList,       \* no list in storage
  Points,       \* RTT_HISTORY_POINTS
  Tests         \* bound: tests under way at once

ASSUME KnownUrls == Defaults \subseteq Urls /\ ConfigRelays \subseteq Urls
ASSUME PointsPositive == Points \in Nat \ {0}

VARIABLES
  relays,  \* the list: each URL absent, on or off
  result,  \* the latest result
  series,  \* the RTT history, in storage as well
  stored,  \* the list in storage
  rows,    \* the panel: the list and the results it was drawn with
  test,    \* the tests under way
  unsaved, \* history: the latest save has thrown
  excused  \* history: a reading may have outlived the relay (see NoOldTrend)

bookVars == <<relays, result, series, stored, rows, test, unsaved, excused>>

Lists    == [Urls -> {"absent", "on", "off"}]
Readings == {"current", "old"}

ASSUME NoListIsNone == NoList \notin Lists

\* A test: what started it (the button, or adding a relay and the diagnosis),
\* what it probes, and what of that was removed since.
NoTest    == [by |-> "nobody", urls |-> {}, old |-> {}]
TestKinds == [by : {"nobody", "button", "page"}, urls : SUBSET Urls, old : SUBSET Urls]

\* Types; no series is longer than it may be.
BookTypeOK ==
  /\ relays \in Lists
  /\ result \in [Urls -> Readings \cup {"none"}]
  /\ series \in [Urls -> Seq(Readings)]
  /\ \A u \in Urls : Len(series[u]) <= Points
  /\ stored \in Lists \cup {NoList}
  /\ rows \in [list : Lists, result : [Urls -> Readings \cup {"none"}]]
  /\ test \in [Tests -> TestKinds]
  /\ unsaved \in BOOLEAN /\ excused \subseteq Urls

On(urls) == [u \in Urls |-> IF u \in urls THEN "on" ELSE "absent"]
Listed(list) == {u \in Urls : list[u] # "absent"}
Active(list) == {u \in Urls : list[u] = "on"}

\* The constructor's _load from what is in storage, and init's use of the
\* configured relays when that list is empty.
Load(saved) ==
  LET loaded == IF saved = NoList THEN On(Defaults) ELSE saved
      list   == IF Listed(loaded) = {} THEN On(ConfigRelays) ELSE loaded
  IN  \E throws \in BOOLEAN :
        /\ throws => list # saved
        /\ relays' = list
        /\ stored' = IF throws THEN saved ELSE list
        /\ unsaved' = throws

BookInit ==
  /\ relays = On(Defaults) /\ stored = relays
  /\ result = [u \in Urls |-> "none"] /\ series = [u \in Urls |-> <<>>]
  /\ rows = [list |-> relays, result |-> result]
  /\ test = [t \in Tests |-> NoTest]
  /\ unsaved = FALSE /\ excused = {}

------------------------------------------------------------------------------
(* The list.                                                                *)

\* renderRelayList.
Render == rows' = [list |-> relays', result |-> result']

\* _save and the drawing after it.  The list in memory has changed before; when
\* storage is full the exception leaves the handler there.
Save(list) ==
  /\ relays' = list
  /\ \/ stored' = list /\ Render /\ unsaved' = FALSE
     \/ UNCHANGED <<stored, rows>> /\ unsaved' = TRUE

\* Starting a test, with the first free slot.
Start(who, urls) ==
  \E t \in Tests :
    /\ test[t] = NoTest
    /\ test' = [test EXCEPT ![t] = [by |-> who, urls |-> urls, old |-> {}]]

Testing(u) == \E t \in Tests : u \in test[t].urls

\* The readings under way of relays that leave the list become old ones.
Age(urls) ==
  test' = [t \in Tests |-> [test[t] EXCEPT !.old = @ \cup (test[t].urls \cap urls)]]

\* onAddRelay: a relay that was saved is tested.
Add(u) ==
  /\ relays[u] = "absent"
  /\ UNCHANGED <<result, series, excused>>
  /\ Save([relays EXCEPT ![u] = "on"])
  /\ IF unsaved' THEN UNCHANGED test ELSE Start("page", {u})

\* A row's switch.
Toggle(u) ==
  /\ rows.list[u] # "absent" /\ relays[u] # "absent"
  /\ UNCHANGED <<result, series, test, excused>>
  /\ Save([relays EXCEPT ![u] = IF @ = "on" THEN "off" ELSE "on"])

\* Mutant of Remove: the history is kept.
RemoveKeepsSeries(u) ==
  /\ rows.list[u] # "absent" /\ relays[u] # "absent"
  /\ result' = [result EXCEPT ![u] = "none"]
  /\ series' = [series EXCEPT ![u] = [i \in DOMAIN @ |-> "old"]]
  /\ Age({u})
  /\ excused' = IF Testing(u) THEN excused \cup {u} ELSE excused \ {u}
  /\ Save([relays EXCEPT ![u] = "absent"])

\* A row's bin: the result and the series go before the list is saved.
Remove(u) ==
  /\ rows.list[u] # "absent" /\ relays[u] # "absent"
  /\ result' = [result EXCEPT ![u] = "none"]
  /\ series' = [series EXCEPT ![u] = <<>>]
  /\ Age({u})
  /\ excused' = IF Testing(u) THEN excused \cup {u} ELSE excused \ {u}
  /\ Save([relays EXCEPT ![u] = "absent"])

\* reset: all results go, no series does.
Reset ==
  LET gone == Listed(relays) \ Defaults IN
  /\ result' = [u \in Urls |-> "none"]
  /\ series' = [u \in Urls |->
       IF u \in gone THEN [i \in DOMAIN series[u] |-> "old"] ELSE series[u]]
  /\ Age(gone)
  /\ excused' = excused \cup {u \in gone : Testing(u) \/ series[u] # <<>>}
  /\ Save(On(Defaults))

------------------------------------------------------------------------------
(* Tests.                                                                   *)

\* onTestAllRelays, whose button is disabled meanwhile, and runDiagnostics; with
\* no relay on there is nothing to wait for or to write.
TestAll(who) ==
  /\ Active(relays) # {}
  /\ who = "button" => \A t \in Tests : test[t].by # "button"
  /\ Start(who, Active(relays))
  /\ UNCHANGED <<relays, result, series, stored, rows, unsaved, excused>>

\* Mutant of Record: one reading too many is kept.
RecordOneMore(samples, reading) ==
  IF Len(samples) > Points THEN Append(Tail(samples), reading) ELSE Append(samples, reading)

\* The history's record.
Record(samples, reading) ==
  IF Len(samples) >= Points
  THEN Append(SubSeq(samples, Len(samples) - Points + 2, Len(samples)), reading)
  ELSE Append(samples, reading)

\* Mutant of TestEnds: only the button draws the panel.
TestEndsUndrawn(t) ==
  LET Reading(u) == IF u \in test[t].old THEN "old" ELSE "current" IN
  /\ test[t] # NoTest
  /\ test' = [test EXCEPT ![t] = NoTest]
  /\ result' = [u \in Urls |-> IF u \in test[t].urls THEN Reading(u) ELSE result[u]]
  /\ series' = [u \in Urls |->
       IF u \in test[t].urls THEN Record(series[u], Reading(u)) ELSE series[u]]
  /\ UNCHANGED <<relays, stored, unsaved, excused>>
  /\ IF test[t].by = "page" THEN UNCHANGED rows ELSE Render

\* All probes of a test have ended: its results are written, for whatever relays
\* it was started with, and the panel is drawn.
TestEnds(t) ==
  LET Reading(u) == IF u \in test[t].old THEN "old" ELSE "current" IN
  /\ test[t] # NoTest
  /\ test' = [test EXCEPT ![t] = NoTest]
  /\ result' = [u \in Urls |-> IF u \in test[t].urls THEN Reading(u) ELSE result[u]]
  /\ series' = [u \in Urls |->
       IF u \in test[t].urls THEN Record(series[u], Reading(u)) ELSE series[u]]
  /\ UNCHANGED <<relays, stored, unsaved, excused>>
  /\ Render

------------------------------------------------------------------------------
(* The page.                                                                *)

Reload ==
  /\ Load(stored)
  /\ result' = [u \in Urls |-> "none"]
  /\ test' = [t \in Tests |-> NoTest]
  /\ Render
  /\ LET gone == Listed(relays) \ Listed(relays') IN
     /\ series' = [u \in Urls |->
          IF u \in gone THEN [i \in DOMAIN series[u] |-> "old"] ELSE series[u]]
     /\ excused' = excused \cup {u \in gone : series[u] # <<>>}

\* onClearAll removes every entry of the page from storage and reloads it.
ClearAll ==
  /\ Load(NoList)
  /\ result' = [u \in Urls |-> "none"] /\ series' = [u \in Urls |-> <<>>]
  /\ test' = [t \in Tests |-> NoTest]
  /\ Render /\ excused' = {}

------------------------------------------------------------------------------
BookNext ==
  \/ \E u \in Urls : Add(u) \/ Toggle(u) \/ Remove(u)
  \/ Reset
  \/ \E who \in {"button", "page"} : TestAll(who)
  \/ \E t \in Tests : TestEnds(t)
  \/ Reload \/ ClearAll

BookSpec == BookInit /\ [][BookNext]_bookVars

------------------------------------------------------------------------------
(* Properties.                                                              *)

\* The panel shows the list in memory, with the results in memory, and that is
\* the list a reload brings back; only after a save that threw do they differ
\* (onRelayEvent, _save).
PanelIsTrue ==
  ~unsaved => stored = relays /\ rows = [list |-> relays, result |-> result]

\* A listed relay shows no reading taken before it was last removed
\* (relay_manager.js:100-103), except after a reset, which leaves the series,
\* or when a test of it was under way at the removal.
NoOldTrend ==
  \A u \in Listed(relays) \ excused :
    result[u] # "old" /\ \A i \in DOMAIN series[u] : series[u][i] # "old"

=============================================================================
