--------------------------- MODULE OneTimeAccess ---------------------------
(***************************************************************************)
(* What token redemption promises, whatever requests run at the same time: *)
(* a token turns into access once; access that ended never comes back.     *)
(***************************************************************************)
CONSTANTS Tokens, SessionIds

VARIABLES
  spent,   \* tokens that were turned into access
  access,  \* sessions that give access
  ended    \* sessions that gave access and no longer do

accessVars == <<spent, access, ended>>

Init == spent = {} /\ access = {} /\ ended = {}

Redeem(t, id) ==
  /\ t \notin spent
  /\ id \notin access \cup ended
  /\ spent' = spent \cup {t}
  /\ access' = access \cup {id}
  /\ UNCHANGED ended

\* Logout, idle expiry, or the end of the daemon.
End ==
  /\ \E S \in SUBSET access :
       access' = access \ S /\ ended' = ended \cup S
  /\ UNCHANGED spent

Next == End \/ \E t \in Tokens, id \in SessionIds : Redeem(t, id)

Spec == Init /\ [][Next]_accessVars

=============================================================================
