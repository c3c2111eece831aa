------------------------------ MODULE ReturnTrip -------------------------------
(***************************************************************************)
(* How a browser that the daemon bounced to the login page gets back to    *)
(* where it was going: web/js/return_to.js, the redemption of one-time     *)
(* tokens in web/js/api_client.js, and their callers in web/app.js.        *)
(*                                                                         *)
(* The page and the tab it lives in: the destination is in the address     *)
(* bar, in sessionStorage and in a variable; a timer, the banner's link,   *)
(* the service cards and the local port form all spend the one token the   *)
(* page holds.  A navigation takes time, during which the page goes on     *)
(* running and may start another one instead.  Replies are numbered in the *)
(* order of their created_at, each with a token and the tunnel's URL; the  *)
(* order they are applied in is what module Discovery allows.  The daemon  *)
(* is outside: a navigation lands or is bounced, for whatever reason.      *)
(***************************************************************************)
EXTENDS Naturals

CONSTANTS
  Targets,    \* paths of this origin
  Unsafe,     \* other values of ?next=, which sanitizeNext turns down
  NoTarget,   \* null
  MaxReplies, \* bound: replies the host ever sends
  MaxApplied  \* bound: how often the page applies one reply

ASSUME NoTargetAssumption == NoTarget \notin Targets \cup Unsafe
ASSUME UnsafeAssumption == Targets \cap Unsafe = {}
ASSUME Bounds == MaxReplies \in Nat /\ MaxApplied \in Nat

VARIABLES
  page,     \* what the tab shows: the page, or something else
  url,      \* ?next= in the address bar
  keeps,    \* sessionStorage works in this browser
  stored,   \* its dl_conn_return_to
  returnTo, \* the destination remembered by the page
  open,     \* the key session is unlocked, so that replies are heard
  cards,    \* the service cards and the local port form are on screen
  held,     \* state.authToken: the reply it came with, 0 for none
  lastAt,   \* lastResponseAt
  trip,     \* the destination of the banner, NoTarget while it is hidden
  timer,    \* returnTimer
  nav,      \* where the tab is navigating to
  replies,  \* how many replies the host has sent
  told,     \* history: the user cancelled the return on this page
  autos,    \* history: automatic departures of this page
  applied,  \* history: how often each reply has been applied
  sends     \* history: how often each token has been sent to /auth

remembered == <<keeps, url, stored, returnTo>>
session    == <<open, cards, lastAt>>
banner     == <<trip, timer, told, autos>>
tokens     == <<held, sends>>
vars == <<page, remembered, session, banner, tokens, nav, replies, applied>>

Urls    == Targets \cup Unsafe \cup {NoTarget}
Replies == 1..MaxReplies
Places  == Targets \cup {NoTarget}

\* Types; the cards are shown by an unlocked page only.
TypeOK ==
  /\ page \in {"here", "away"}
  /\ url \in Urls /\ keeps \in BOOLEAN
  /\ stored \in Places /\ returnTo \in Places
  /\ open \in BOOLEAN /\ cards \in BOOLEAN
  /\ cards => open
  /\ held \in {0} \cup Replies /\ lastAt \in {0} \cup Replies
  /\ trip \in Places /\ timer \in BOOLEAN /\ nav \in Places
  /\ replies \in {0} \cup Replies
  /\ told \in BOOLEAN /\ autos \in Nat
  /\ applied \in [Replies -> 0..MaxApplied]
  /\ sends \in [Replies -> Nat]

------------------------------------------------------------------------------
(* The destination.                                                         *)

\* sanitizeNext: a path of this origin, or null.
SanitizeNext(next) == IF next \in Targets THEN next ELSE NoTarget

\* readReturnTo, of what is stored.
ReadReturnTo(item) == SanitizeNext(item)

\* captureReturnTo: the address bar first, then the storage.
CaptureReturnTo(address, item) ==
  LET next == SanitizeNext(address)
  IN  /\ stored' = IF next # NoTarget /\ keeps THEN next ELSE item
      /\ returnTo' = IF next # NoTarget THEN next ELSE ReadReturnTo(item)

\* clearReturnTo, with the variable beside it.
ClearReturnTo == returnTo' = NoTarget /\ stored' = NoTarget

\* A new document: init() at an address, with what the storage holds.
Load(address, item) ==
  /\ page' = "here" /\ url' = address
  /\ CaptureReturnTo(address, item)
  /\ open' = FALSE /\ cards' = FALSE /\ lastAt' = 0
  /\ held' = 0 /\ nav' = NoTarget
  /\ trip' = NoTarget /\ timer' = FALSE /\ told' = FALSE /\ autos' = 0
  /\ UNCHANGED <<keeps, replies, applied, sends>>

Init ==
  /\ page = "here" /\ url \in Urls /\ keeps \in BOOLEAN
  /\ returnTo = SanitizeNext(url)
  /\ stored = IF keeps THEN returnTo ELSE NoTarget
  /\ open = FALSE /\ cards = FALSE /\ lastAt = 0
  /\ held = 0 /\ nav = NoTarget
  /\ trip = NoTarget /\ timer = FALSE /\ told = FALSE /\ autos = 0
  /\ replies = 0
  /\ applied = [i \in Replies |-> 0] /\ sends = [i \in Replies |-> 0]

------------------------------------------------------------------------------
(* Departures.                                                              *)

\* serviceHref in this tab: no credential.
ServiceHref(to) == nav' = to /\ UNCHANGED tokens

\* redeemToken, by the callers that have taken the token: the form navigates
\* this tab or the new one.
RedeemToken(to, tab) ==
  /\ held # 0
  /\ sends' = [sends EXCEPT ![held] = @ + 1]
  /\ held' = 0
  /\ nav' = IF tab = "this" THEN to ELSE nav

\* The banner's go().
Go ==
  \/ RedeemToken(trip, "this")
  \/ held = 0 /\ ServiceHref(trip)

\* openService: a new tab, or this one where the browser refuses it.
OpenService(to) ==
  /\ page = "here" /\ cards
  /\ \/ \E tab \in {"new", "this"} : RedeemToken(to, tab)
     \/ held = 0 /\ (ServiceHref(to) \/ UNCHANGED <<nav, tokens>>)
  /\ UNCHANGED <<page, remembered, session, banner, replies, applied>>

\* The timer of the announced return fires.
ReturnTimer ==
  /\ page = "here" /\ timer
  /\ timer' = FALSE /\ autos' = autos + 1
  /\ Go
  /\ UNCHANGED <<page, remembered, session, trip, told, replies, applied>>

\* "Ir agora", on a locked page too, and as often as the user likes.
GoNow ==
  /\ page = "here" /\ trip # NoTarget
  /\ timer' = FALSE
  /\ Go
  /\ UNCHANGED <<page, remembered, session, trip, told, autos, replies, applied>>

\* cancelReturn, "Ficar aqui".
CancelReturn ==
  /\ page = "here" /\ trip # NoTarget /\ ~told
  /\ timer' = FALSE /\ told' = TRUE
  /\ UNCHANGED <<page, remembered, session, trip, autos, tokens, nav, replies, applied>>

------------------------------------------------------------------------------
(* Replies and the session.                                                 *)

\* Mutant of ResumeReturnTo: the destination is not forgotten.
ResumeAndRemember ==
  /\ IF returnTo = NoTarget
     THEN UNCHANGED <<trip, timer>>
     ELSE trip' = returnTo /\ timer' = TRUE
  /\ UNCHANGED <<stored, returnTo>>

\* resumeReturnTo, once the token is there: the return is announced and the
\* destination forgotten.
ResumeReturnTo ==
  IF returnTo = NoTarget
  THEN UNCHANGED <<trip, timer, stored, returnTo>>
  ELSE trip' = returnTo /\ timer' = TRUE /\ ClearReturnTo

\* onDiscoveryResponse and handleNostrResponse, of a reply that is not older
\* than the last one; the same reply comes again from another subscription.
Response(i) ==
  /\ page = "here" /\ open
  /\ i <= replies /\ i >= lastAt /\ applied[i] < MaxApplied
  /\ applied' = [applied EXCEPT ![i] = @ + 1]
  /\ lastAt' = i /\ held' = i /\ cards' = TRUE
  /\ ResumeReturnTo
  /\ UNCHANGED <<page, url, keeps, open, told, autos, sends, nav, replies>>

HostAnswers ==
  /\ replies < MaxReplies
  /\ replies' = replies + 1
  /\ UNCHANGED <<page, remembered, session, banner, tokens, nav, applied>>

\* reconnectNostr forgets how new the last reply was.
Reconnect ==
  /\ page = "here" /\ lastAt # 0
  /\ lastAt' = 0
  /\ UNCHANGED <<page, remembered, open, cards, banner, tokens, nav, replies, applied>>

Unlock ==
  /\ page = "here" /\ ~open
  /\ open' = TRUE
  /\ UNCHANGED <<page, remembered, cards, lastAt, banner, tokens, nav, replies, applied>>

\* Mutant of Lock: the cards stay.
LockKeepsCards ==
  /\ page = "here" /\ open
  /\ open' = FALSE
  /\ UNCHANGED <<page, remembered, cards, lastAt, banner, tokens, nav, replies, applied>>

\* "locked" and "wiped" leave token, banner and timer as they are.
Lock ==
  /\ page = "here" /\ open
  /\ open' = FALSE /\ cards' = FALSE
  /\ UNCHANGED <<page, remembered, lastAt, banner, tokens, nav, replies, applied>>

\* onClearAll: everything is removed and the page reloaded, at its address.
ClearAll == page = "here" /\ Load(url, NoTarget)

------------------------------------------------------------------------------
(* The tab.                                                                 *)

\* The navigation ends: the daemon has let it pass or the browser shows an
\* error, or the daemon has bounced it back.
NavEnds ==
  /\ page = "here" /\ nav # NoTarget
  /\ \/ Load(nav, stored)
     \/ /\ page' = "away" /\ nav' = NoTarget
        /\ returnTo' = NoTarget /\ open' = FALSE /\ cards' = FALSE /\ lastAt' = 0
        /\ held' = 0 /\ trip' = NoTarget /\ timer' = FALSE /\ told' = FALSE /\ autos' = 0
        /\ UNCHANGED <<url, keeps, stored, replies, applied, sends>>

\* The user reloads the page.
Reload == page = "here" /\ Load(url, stored)

\* The user goes back to the page or opens a link to it, or the daemon bounces
\* what the tab shows.
Arrive == page = "away" /\ \E address \in Urls : Load(address, stored)

------------------------------------------------------------------------------
Next ==
  \/ \E to \in Targets : OpenService(to)
  \/ ReturnTimer \/ GoNow \/ CancelReturn
  \/ \E i \in Replies : Response(i)
  \/ HostAnswers \/ Reconnect
  \/ Unlock \/ Lock \/ ClearAll
  \/ NavEnds \/ Reload \/ Arrive

Spec == Init /\ [][Next]_vars

------------------------------------------------------------------------------
(* Properties.                                                              *)

\* A page leaves on its own at most once and never after the user chose to
\* stay, however many replies come (app.js:3110-3114, 3154-3161); and a token
\* is sent again only if its reply was applied again, whichever of the timer,
\* the link and the cards gets to it first (app.js:3124-3125, 3273-3274).
DeparturesAccounted ==
  /\ told => ~timer
  /\ timer => autos = 0
  /\ autos <= 1
  /\ \A i \in Replies : sends[i] + (IF held = i THEN 1 ELSE 0) <= applied[i]

=============================================================================
