-------------------------- MODULE VaultSessionProofs --------------------------
(***************************************************************************)
(* Theorems of VaultSession, for any identities and PINs, any number of    *)
(* operations awaiting something at once, any thresholds and credentials.  *)
(***************************************************************************)
EXTENDS VaultSession, TLAPS

------------------------------------------------------------------------------
(* Type correctness.  The slots hold records of several shapes, told apart  *)
(* by the await they are at.                                                *)

OpsOK == ops \in [Slots -> Ops]

RestOK ==
  /\ key \in Ids \cup {None} /\ unsaved \in Ids \cup {None}
  /\ locked \in BOOLEAN /\ pending \in BOOLEAN /\ timer \in BOOLEAN
  /\ autoLock \in BOOLEAN
  /\ bioPin \in Pins \cup {None}
  /\ screen \in {"login", "unlock", "save", "live", "blank"}
  /\ vault \in Envelopes \cup {None}
  /\ sidecar \in Sidecars \cup {None}
  /\ cred \in Creds \cup {None}
  /\ brute \in [attempts : 0..(MaxAttempts - 1), waiting : BOOLEAN]
  /\ nextCred \in 1..(MaxCreds + 1)
  /\ wrongs \in Nat /\ erased \in {"no", "busy", "quiet"}

LEMMA TypeParts == TypeOK <=> OpsOK /\ RestOK
BY DEF TypeOK, OpsOK, RestOK

EnrolStages == {"available", "capable", "createPrf", "createLegacy"}

\* What the record of an operation holds at each await.
LEMMA OpShapes ==
  ASSUME NEW op \in Ops
  PROVE  /\ op.at = "decrypt" => op.env \in Envelopes /\ op.pin \in Pins
         /\ op.at = "assert" => op.cred \in CredIds
         /\ op.at = "decryptPrf" => op.env \in Sidecars /\ op.cred \in CredIds
         /\ op.at = "encrypt" => op.id \in Ids /\ op.pin \in Pins
         /\ op.at \in EnrolStages =>
              op \in [at : EnrolStages, pin : Pins \cup {None}, save : BOOLEAN]
         /\ op.at = "seal" => op.id \in Ids \cup {None} /\ op.cred \in CredIds
<1>1. CASE op = Idle
  BY <1>1 DEF Idle, EnrolStages
<1>2. CASE op \in [at : {"decrypt"}, env : Envelopes, pin : Pins]
  BY <1>2 DEF EnrolStages
<1>3. CASE op \in [at : {"assert"}, cred : CredIds, sealed : BOOLEAN]
  BY <1>3 DEF EnrolStages
<1>4. CASE op \in [at : {"decryptPrf"}, env : Sidecars, cred : CredIds]
  BY <1>4 DEF EnrolStages
<1>5. CASE op \in [at : {"encrypt"}, id : Ids, pin : Pins, resave : BOOLEAN]
  BY <1>5 DEF EnrolStages
<1>6. CASE op \in [at : EnrolStages, pin : Pins \cup {None}, save : BOOLEAN]
  BY <1>6 DEF EnrolStages
<1>7. CASE op \in [at : {"seal"}, id : Ids \cup {None}, cred : CredIds,
                   pin : Pins \cup {None}, save : BOOLEAN]
  BY <1>7 DEF EnrolStages
<1>8. QED
  BY <1>1, <1>2, <1>3, <1>4, <1>5, <1>6, <1>7 DEF Ops, EnrolStages

\* The records the handlers put into a slot.
LEMMA OpsMade ==
  /\ Idle \in Ops
  /\ \A env \in Envelopes, pin \in Pins :
       [at |-> "decrypt", env |-> env, pin |-> pin] \in Ops
  /\ \A n \in CredIds, b \in BOOLEAN : [at |-> "assert", cred |-> n, sealed |-> b] \in Ops
  /\ \A env \in Sidecars, n \in CredIds :
       [at |-> "decryptPrf", env |-> env, cred |-> n] \in Ops
  /\ \A id \in Ids, pin \in Pins, b \in BOOLEAN :
       [at |-> "encrypt", id |-> id, pin |-> pin, resave |-> b] \in Ops
  /\ \A stage \in EnrolStages, pin \in Pins \cup {None}, b \in BOOLEAN :
       [at |-> stage, pin |-> pin, save |-> b] \in Ops
  /\ \A id \in Ids \cup {None}, n \in CredIds, pin \in Pins \cup {None}, b \in BOOLEAN :
       [at |-> "seal", id |-> id, cred |-> n, pin |-> pin, save |-> b] \in Ops
<1>1. Idle \in Ops
  BY DEF Ops
<1>2. \A env \in Envelopes, pin \in Pins :
        [at |-> "decrypt", env |-> env, pin |-> pin] \in Ops
  BY DEF Ops
<1>3. \A n \in CredIds, b \in BOOLEAN : [at |-> "assert", cred |-> n, sealed |-> b] \in Ops
  BY DEF Ops
<1>4. \A env \in Sidecars, n \in CredIds :
        [at |-> "decryptPrf", env |-> env, cred |-> n] \in Ops
  BY DEF Ops
<1>5. \A id \in Ids, pin \in Pins, b \in BOOLEAN :
        [at |-> "encrypt", id |-> id, pin |-> pin, resave |-> b] \in Ops
  BY DEF Ops
<1>6. \A stage \in EnrolStages, pin \in Pins \cup {None}, b \in BOOLEAN :
        [at |-> stage, pin |-> pin, save |-> b] \in Ops
  BY DEF Ops, EnrolStages
<1>7. \A id \in Ids \cup {None}, n \in CredIds, pin \in Pins \cup {None}, b \in BOOLEAN :
        [at |-> "seal", id |-> id, cred |-> n, pin |-> pin, save |-> b] \in Ops
  BY DEF Ops
<1>8. QED
  BY <1>1, <1>2, <1>3, <1>4, <1>5, <1>6, <1>7

\* An enrolment moves to another stage with its PIN and its caller.
LEMMA StageMoved ==
  ASSUME NEW op \in [at : EnrolStages, pin : Pins \cup {None}, save : BOOLEAN],
         NEW stage \in EnrolStages
  PROVE  [op EXCEPT !.at = stage] \in Ops
BY OpsMade DEF EnrolStages, Ops

LEMMA SlotSet ==
  ASSUME OpsOK, NEW s \in Slots, NEW op \in Ops, Await(s, op)
  PROVE  /\ OpsOK'
         /\ ops'[s] = op
         /\ \A t \in Slots \ {s} : ops'[t] = ops[t]
BY DEF OpsOK, Await

LEMMA SlotFreed ==
  ASSUME OpsOK, NEW s \in Slots, Finish(s)
  PROVE  OpsOK' /\ ops'[s] = Idle /\ \A t \in Slots \ {s} : ops'[t] = ops[t]
BY SlotSet, OpsMade DEF Finish

LEMMA OpsTyped ==
  ASSUME TypeOK, [Next]_vars PROVE OpsOK'
<1> USE TypeParts
<1> USE DEF EnrolStages
<1>a. OpsOK /\ RestOK
  OBVIOUS
<1>1. ASSUME UNCHANGED ops PROVE OpsOK'
  BY <1>1, <1>a DEF OpsOK
<1>2. ASSUME ops' = [s \in Slots |-> Idle] PROVE OpsOK'
  BY <1>2, OpsMade DEF OpsOK
<1>3. ASSUME NEW s \in Slots, Begin(s) PROVE OpsOK'
  <2>1. ASSUME NEW pin \in Pins, BeginSave(s, pin) PROVE OpsOK'
    <3>1. unsaved \in Ids
      BY <2>1 DEF BeginSave, RestOK
    <3>2. [at |-> "encrypt", id |-> unsaved, pin |-> pin, resave |-> FALSE] \in Ops
      BY <3>1, OpsMade
    <3>3. QED
      BY <2>1, <3>2, SlotSet DEF BeginSave
  <2>2. ASSUME NEW pin \in Pins, BeginPin(s, pin) PROVE OpsOK'
    <3>1. vault \in Envelopes
      BY <2>2 DEF BeginPin, CanTryPin, RestOK
    <3>2. Decrypting(pin) \in Ops
      BY <3>1, OpsMade DEF Decrypting
    <3>3. QED
      BY <2>2, <3>2, SlotSet DEF BeginPin
  <2>3. ASSUME BeginBiometric(s) PROVE OpsOK'
    <3> DEFINE b == sidecar # None /\ cred.prf
    <3>1. cred \in Creds /\ cred.n \in CredIds /\ b \in BOOLEAN
      BY <2>3 DEF BeginBiometric, RestOK, Creds
    <3>2. Await(s, [at |-> "assert", cred |-> cred.n, sealed |-> b])
      BY <2>3 DEF BeginBiometric
    <3> HIDE DEF b
    <3>3. QED
      BY <3>1, <3>2, SlotSet, OpsMade
  <2>4. ASSUME NEW pin \in Pins \cup {None}, BeginEnrol(s, pin) PROVE OpsOK'
    BY <2>4, SlotSet, OpsMade DEF BeginEnrol
  <2>5. QED
    BY <1>3, <2>1, <2>2, <2>3, <2>4 DEF Begin
<1>4. ASSUME NEW s \in Slots, Resume(s) PROVE OpsOK'
  <2> DEFINE op == ops[s]
  <2>0. op \in Ops
    BY DEF OpsOK
  <2>1. ASSUME Finish(s) PROVE OpsOK'
    BY <2>1, SlotFreed
  <2>2. ASSUME EndEncrypt(s) PROVE OpsOK'
    <3>1. op.pin \in Pins
      BY <2>0, <2>2, OpShapes DEF EndEncrypt
    <3>2. [at |-> "available", pin |-> op.pin, save |-> TRUE] \in Ops
      BY <3>1, OpsMade
    <3>3. Finish(s) \/ Await(s, [at |-> "available", pin |-> op.pin, save |-> TRUE])
      BY <2>2 DEF EndEncrypt
    <3>4. QED
      BY <2>1, <3>2, <3>3, SlotSet
  <2>3. ASSUME PinOpens(s) PROVE OpsOK'
    <3>1. op.env.id \in Ids /\ op.pin \in Pins
      BY <2>0, <2>3, OpShapes DEF PinOpens, Envelopes
    <3>2. [at |-> "encrypt", id |-> op.env.id, pin |-> op.pin, resave |-> TRUE] \in Ops
      BY <3>1, OpsMade
    <3>3. Await(s, Idle)
            \/ Await(s, [at |-> "encrypt", id |-> op.env.id, pin |-> op.pin, resave |-> TRUE])
      BY <2>3 DEF PinOpens
    <3>4. QED
      BY <3>2, <3>3, SlotSet, OpsMade
  <2>4. ASSUME PinFails(s) \/ AssertFails(s) \/ PrfOpens(s) \/ PrfRejects(s) \/ CreateFails(s)
                 \/ Sealed(s) \/ CreatedLegacy(s)
        PROVE  OpsOK'
    BY <2>1, <2>4 DEF PinFails, AssertFails, PrfOpens, PrfRejects, CreateFails, Sealed,
                      CreatedLegacy, EndEnrolment
  <2>5. ASSUME AssertPrf(s) PROVE OpsOK'
    <3>1. op.cred \in CredIds
      BY <2>0, <2>5, OpShapes DEF AssertPrf
    <3>2. CASE sidecar = None
      BY <2>1, <2>5, <3>2 DEF AssertPrf
    <3>3. CASE sidecar # None
      <4>1. [at |-> "decryptPrf", env |-> sidecar, cred |-> op.cred] \in Ops
        BY <3>1, <3>3, OpsMade DEF RestOK
      <4>2. QED
        BY <2>5, <3>3, <4>1, SlotSet DEF AssertPrf
    <3>4. QED
      BY <3>2, <3>3
  <2>6. ASSUME AssertLegacy(s) PROVE OpsOK'
    <3>1. CASE bioPin # None /\ CanTryPin
      <4>1. bioPin \in Pins /\ vault \in Envelopes
        BY <3>1 DEF CanTryPin, RestOK
      <4>2. Decrypting(bioPin) \in Ops
        BY <4>1, OpsMade DEF Decrypting
      <4>3. QED
        BY <2>6, <3>1, <4>2, SlotSet DEF AssertLegacy
    <3>2. CASE ~(bioPin # None /\ CanTryPin)
      BY <2>1, <2>6, <3>2 DEF AssertLegacy
    <3>3. QED
      BY <3>1, <3>2
  <2>7. ASSUME EnrolAvailable(s) PROVE OpsOK'
    <3>1. [op EXCEPT !.at = "capable"] \in Ops
      BY <2>0, <2>7, OpShapes, StageMoved DEF EnrolAvailable
    <3>2. Await(s, [op EXCEPT !.at = "capable"]) \/ Finish(s)
      BY <2>7 DEF EnrolAvailable, EndEnrolment
    <3>3. QED
      BY <2>1, <3>1, <3>2, SlotSet
  <2>8. ASSUME EnrolCapable(s) PROVE OpsOK'
    <3>1. \A kind \in {"createPrf", "createLegacy"} : [op EXCEPT !.at = kind] \in Ops
      BY <2>0, <2>8, OpShapes, StageMoved DEF EnrolCapable
    <3>2. (\E kind \in {"createPrf", "createLegacy"} : Await(s, [op EXCEPT !.at = kind]))
            \/ Finish(s)
      BY <2>8 DEF EnrolCapable, EndEnrolment
    <3>3. QED
      BY <2>1, <3>1, <3>2, SlotSet
  <2>9. ASSUME CreatedPrf(s) PROVE OpsOK'
    <3>1. op.pin \in Pins \cup {None} /\ op.save \in BOOLEAN
      BY <2>0, <2>9, OpShapes DEF CreatedPrf
    <3>2. key \in Ids \cup {None} /\ nextCred \in CredIds
      BY <2>9, CredBound DEF CreatedPrf, RestOK, CredIds
    <3>3. [at |-> "seal", id |-> key, cred |-> nextCred, pin |-> op.pin, save |-> op.save] \in Ops
      BY <3>1, <3>2, OpsMade
    <3>4. QED
      BY <2>9, <3>3, SlotSet DEF CreatedPrf
  <2>10. ASSUME CreatedBare(s) PROVE OpsOK'
    <3>1. [op EXCEPT !.at = "createLegacy"] \in Ops
      BY <2>0, <2>10, OpShapes, StageMoved DEF CreatedBare
    <3>2. Await(s, [op EXCEPT !.at = "createLegacy"]) \/ Finish(s)
      BY <2>10 DEF CreatedBare, EndEnrolment
    <3>3. QED
      BY <2>1, <3>1, <3>2, SlotSet
  <2>11. QED
    BY <1>4, <2>2, <2>3, <2>4, <2>5, <2>6, <2>7, <2>8, <2>9, <2>10 DEF Resume
<1>5. CASE User \/ AutoLock \/ LockoutEnds \/ BackendActive
  BY <1>1, <1>2, <1>5 DEF User, LoginNsec, SkipSave, Lock, SetAutoLock, OnWipe, ClearAll, Reload,
                          AutoLock, LockoutEnds, BackendActive, storage, memory
<1>6. CASE UNCHANGED vars
  BY <1>1, <1>6 DEF vars
<1>7. QED
  BY <1>3, <1>4, <1>5, <1>6 DEF Next

------------------------------------------------------------------------------
(* The invariant.  A quiet wipe stands because nothing is left that could   *)
(* resume and the login screen offers nothing but a login.                  *)

Quiet ==
  erased = "quiet" =>
    /\ vault = None /\ sidecar = None /\ cred = None
    /\ locked /\ unsaved = None /\ screen = "login"
    /\ \A s \in Slots : ops[s] = Idle

Counted == wrongs <= brute.attempts

IInv == TypeOK /\ TimerArmed /\ Counted /\ ScreenMatchesSession /\ Quiet

Safe == RestOK /\ TimerArmed /\ Counted /\ ScreenMatchesSession

LEMMA Initially == Init => IInv
<1> SUFFICES ASSUME Init PROVE IInv
  OBVIOUS
<1>1. NoFailures \in [attempts : 0..(MaxAttempts - 1), waiting : BOOLEAN]
  BY Thresholds DEF NoFailures
<1>2. RestOK
  <2>1. brute \in [attempts : 0..(MaxAttempts - 1), waiting : BOOLEAN]
          /\ nextCred \in 1..(MaxCreds + 1)
    BY <1>1, CredBound DEF Init
  <2>2. screen \in {"login", "unlock", "save", "live", "blank"}
    BY DEF Init, EntryScreen
  <2>3. /\ key = None /\ unsaved = None /\ bioPin = None /\ sidecar = None /\ cred = None
        /\ locked = TRUE /\ pending = FALSE /\ timer = FALSE /\ autoLock = TRUE
        /\ vault \in Envelopes \cup {None} /\ wrongs = 0 /\ erased = "no"
    BY DEF Init
  <2>4. QED
    BY <2>1, <2>2, <2>3 DEF RestOK
<1>3. OpsOK
  BY OpsMade DEF Init, OpsOK
<1>4. TimerArmed /\ Counted /\ ScreenMatchesSession /\ Quiet
  BY DEF Init, TimerArmed, Counted, NoFailures, ScreenMatchesSession, EntryScreen, Quiet
<1>5. QED
  BY <1>2, <1>3, <1>4, TypeParts DEF IInv

\* A lock leaves a consistent session whatever else the step does to storage.
LEMMA Locked ==
  ASSUME NEW v \in Envelopes \cup {None}, LockWith(v), vault' = v
  PROVE  /\ TimerArmed' /\ ScreenMatchesSession'
         /\ key' = None /\ unsaved' = None
         /\ locked' = TRUE /\ pending' = FALSE /\ timer' = FALSE
         /\ screen' \in {"login", "unlock"}
         /\ v = None => screen' = "login"
BY DEF LockWith, EntryScreen, TimerArmed, ScreenMatchesSession

\* A wipe, whoever asks for it.
LEMMA Wiped ==
  ASSUME IInv, NEW others \in SUBSET Slots, Wipe(others),
         autoLock' \in BOOLEAN, nextCred' = nextCred
  PROVE  /\ Safe'
         /\ vault' = None /\ sidecar' = None /\ cred' = None
         /\ locked' /\ unsaved' = None /\ screen' = "login"
         /\ erased' = "quiet" => \A s \in others : ops[s] = Idle
<1>1. LockWith(None) /\ vault' = None
  BY DEF Wipe
<1>2. NoFailures \in [attempts : 0..(MaxAttempts - 1), waiting : BOOLEAN]
  BY Thresholds DEF NoFailures
<1>3. brute' = NoFailures /\ wrongs' = 0 /\ bioPin' = None /\ sidecar' = None /\ cred' = None
  BY DEF Wipe
<1>4. erased' \in {"quiet", "busy"} /\ (erased' = "quiet" => \A s \in others : ops[s] = Idle)
  BY DEF Wipe
<1>5. RestOK'
  BY <1>1, <1>2, <1>3, <1>4, Locked, TypeParts DEF IInv, RestOK
<1>6. Counted'
  BY <1>3 DEF Counted, NoFailures
<1>7. QED
  BY <1>1, <1>3, <1>4, <1>5, <1>6, Locked DEF Safe

\* A session opens under an identity of an envelope.
LEMMA Opened ==
  ASSUME IInv, NEW id \in Ids \cup {None}, Open(id),
         brute' = NoFailures, wrongs' = 0,
         UNCHANGED <<bioPin, unsaved, vault, sidecar, cred, autoLock, nextCred, erased>>
  PROVE  Safe'
<1>1. NoFailures \in [attempts : 0..(MaxAttempts - 1), waiting : BOOLEAN]
  BY Thresholds DEF NoFailures
<1>2. screen' = IF unsaved = None THEN "live" ELSE screen
  BY DEF Open
<1>3. RestOK'
  BY <1>1, TypeParts DEF IInv, Open, RestOK
<1>4. TimerArmed'
  BY DEF Open, TimerArmed
<1>5. Counted'
  BY DEF Counted, NoFailures
<1>6. ScreenMatchesSession'
  BY <1>2 DEF IInv, ScreenMatchesSession, Open
<1>7. QED
  BY <1>3, <1>4, <1>5, <1>6 DEF Safe

\* Nothing but a slot, and perhaps the bookkeeping of a stored credential,
\* changes.
LEMMA Untouched ==
  ASSUME IInv, UNCHANGED <<memory, vault, brute, autoLock, history>>,
         sidecar' \in Sidecars \cup {None}, cred' \in Creds \cup {None},
         nextCred' \in 1..(MaxCreds + 1)
  PROVE  Safe'
<1>0. UNCHANGED <<key, locked, pending, timer, bioPin, unsaved, screen, vault, brute, autoLock,
                  wrongs, erased>>
  BY DEF memory, history
<1>1. RestOK'
  BY <1>0, TypeParts DEF IInv, RestOK
<1>2. QED
  BY <1>0, <1>1 DEF IInv, Safe, TimerArmed, Counted, ScreenMatchesSession

\* An enrolment ends.
LEMMA Enrolled ==
  ASSUME IInv, NEW s \in Slots, EndEnrolment(s), bioPin' \in Pins \cup {None},
         UNCHANGED <<vault, brute, autoLock, history>>,
         sidecar' \in Sidecars \cup {None}, cred' \in Creds \cup {None},
         nextCred' \in 1..(MaxCreds + 1)
  PROVE  Safe'
<1>0. UNCHANGED <<key, locked, pending, timer, vault, brute, autoLock, wrongs, erased>>
  BY DEF EndEnrolment, history
<1>1. \/ UNCHANGED <<unsaved, screen>>
      \/ unsaved' = None /\ screen' = IF locked THEN "blank" ELSE "live"
  BY DEF EndEnrolment, Dismiss
<1>2. RestOK'
  BY <1>0, <1>1, TypeParts DEF IInv, RestOK
<1>3. QED
  BY <1>0, <1>1, <1>2 DEF IInv, Safe, TimerArmed, Counted, ScreenMatchesSession

LEMMA SafeStep ==
  ASSUME IInv, [Next]_vars PROVE Safe'
<1>a. OpsOK /\ RestOK
  BY TypeParts DEF IInv
<1>b. sidecar \in Sidecars \cup {None} /\ cred \in Creds \cup {None} /\ bioPin \in Pins \cup {None}
        /\ nextCred \in 1..(MaxCreds + 1) /\ vault \in Envelopes \cup {None}
        /\ wrongs \in Nat /\ autoLock \in BOOLEAN
  BY <1>a DEF RestOK
<1>1. ASSUME UNCHANGED <<memory, storage, history, nextCred>> PROVE Safe'
  BY <1>b, <1>1, Untouched DEF storage
<1>2. ASSUME NEW s \in Slots, Begin(s) PROVE Safe'
  BY <1>1, <1>2 DEF Begin, BeginSave, BeginPin, BeginBiometric, BeginEnrol
<1>3. ASSUME NEW s \in Slots, Resume(s) PROVE Safe'
  <2>0. ops[s] \in Ops
    BY <1>a DEF OpsOK
  <2>1. ASSUME AssertFails(s) \/ AssertPrf(s) \/ AssertLegacy(s) \/ PrfRejects(s) PROVE Safe'
    BY <1>1, <2>1 DEF AssertFails, AssertPrf, AssertLegacy, PrfRejects
  <2>2. ASSUME EndEncrypt(s) PROVE Safe'
    <3>1. ops[s].id \in Ids /\ ops[s].pin \in Pins
      BY <2>0, <2>2, OpShapes DEF EndEncrypt
    <3>2. vault' \in Envelopes /\ wrongs' = 0
            /\ UNCHANGED <<sidecar, cred, brute, autoLock, nextCred, erased>>
      BY <2>2, <3>1 DEF EndEncrypt, Envelopes
    <3>3. vault' # None
      BY <3>2, NoneIsNoEnvelope
    <3>4. CASE UNCHANGED memory
      <4>0. UNCHANGED <<key, locked, pending, timer, bioPin, unsaved, screen>>
        BY <3>4 DEF memory
      <4>1. RestOK'
        BY <1>a, <3>2, <4>0 DEF RestOK
      <4>2. TimerArmed' /\ Counted'
        BY <1>a, <3>2, <4>0 DEF IInv, RestOK, TimerArmed, Counted
      <4>3. ScreenMatchesSession'
        BY <3>3, <4>0 DEF IInv, ScreenMatchesSession
      <4>4. QED
        BY <4>1, <4>2, <4>3 DEF Safe
    <3>5. CASE /\ IF locked THEN key' = ops[s].id /\ pending' = TRUE /\ timer' = autoLock
                            ELSE UNCHANGED <<key, pending, timer>>
               /\ locked' = FALSE
               /\ UNCHANGED bioPin
               /\ \/ unsaved' = None /\ screen' = "live"
                  \/ screen' = (IF locked THEN "live" ELSE screen) /\ UNCHANGED unsaved
      <4>0. /\ key' \in Ids \cup {None} /\ unsaved' \in Ids \cup {None}
            /\ pending' \in BOOLEAN /\ timer' \in BOOLEAN /\ locked' \in BOOLEAN
            /\ screen' \in {"login", "unlock", "save", "live", "blank"}
            /\ bioPin' \in Pins \cup {None}
        <5>1. CASE locked
          BY <1>a, <3>1, <3>5, <5>1 DEF RestOK
        <5>2. CASE ~locked
          BY <1>a, <3>5, <5>2 DEF RestOK
        <5>3. QED
          BY <5>1, <5>2
      <4>1. RestOK'
        BY <1>a, <3>2, <4>0 DEF RestOK
      <4>2. TimerArmed' /\ Counted'
        BY <1>a, <3>2, <3>5 DEF IInv, RestOK, TimerArmed, Counted
      <4>3. ScreenMatchesSession'
        BY <3>3, <3>5 DEF IInv, ScreenMatchesSession
      <4>4. QED
        BY <4>1, <4>2, <4>3 DEF Safe
    <3>6. QED
      BY <2>2, <3>4, <3>5 DEF EndEncrypt
  <2>3. ASSUME PinOpens(s) PROVE Safe'
    <3>1. ops[s].env.id \in Ids
      BY <2>0, <2>3, OpShapes DEF PinOpens, Envelopes
    <3>2. QED
      BY <2>3, <3>1, Opened DEF PinOpens
  <2>4. ASSUME PinFails(s) PROVE Safe'
    <3>1. CASE brute.attempts + 1 >= MaxAttempts
      BY <1>b, <2>4, <3>1, Wiped DEF PinFails, FailedAttempt
    <3>2. CASE ~(brute.attempts + 1 >= MaxAttempts)
      <4> DEFINE b == brute.attempts + 1 >= LockoutThreshold
      <4>1. brute' = [attempts |-> brute.attempts + 1, waiting |-> b] /\ wrongs' = wrongs + 1
              /\ UNCHANGED <<memory, vault, sidecar, cred, autoLock, erased, nextCred>>
        BY <2>4, <3>2 DEF PinFails, FailedAttempt
      <4>2. b \in BOOLEAN
        OBVIOUS
      <4> HIDE DEF b
      <4>3. brute.attempts \in 0..(MaxAttempts - 1)
        BY <1>a DEF RestOK
      <4>4. brute.attempts + 1 \in 0..(MaxAttempts - 1)
        BY <3>2, <4>3, Thresholds
      <4>5. brute' \in [attempts : 0..(MaxAttempts - 1), waiting : BOOLEAN]
        BY <4>1, <4>2, <4>4
      <4>6. UNCHANGED <<key, locked, pending, timer, bioPin, unsaved, screen, vault, sidecar,
                        cred, autoLock, erased, nextCred>>
        BY <4>1 DEF memory
      <4>7. RestOK'
        BY <1>a, <4>1, <4>5, <4>6 DEF RestOK
      <4>8. Counted'
        BY <1>b, <4>1, <4>3, Thresholds DEF IInv, Counted
      <4>9. QED
        BY <4>6, <4>7, <4>8 DEF IInv, Safe, TimerArmed, ScreenMatchesSession
    <3>3. QED
      BY <3>1, <3>2
  <2>5. ASSUME PrfOpens(s) PROVE Safe'
    <3>1. ops[s].env.id \in Ids \cup {None}
      BY <2>0, <2>5, OpShapes DEF PrfOpens, Sidecars
    <3>2. QED
      BY <2>5, <3>1, Opened DEF PrfOpens
  <2>6. ASSUME EnrolAvailable(s) \/ EnrolCapable(s) \/ CreatedBare(s) PROVE Safe'
    <3>1. UNCHANGED storage /\ UNCHANGED <<nextCred, history>>
      BY <2>6 DEF EnrolAvailable, EnrolCapable, CreatedBare
    <3>2. UNCHANGED memory \/ (EndEnrolment(s) /\ UNCHANGED bioPin)
      BY <2>6 DEF EnrolAvailable, EnrolCapable, CreatedBare
    <3>3. QED
      BY <1>1, <1>b, <3>1, <3>2, Enrolled DEF storage
  <2>7. ASSUME CreateFails(s) PROVE Safe'
    BY <1>b, <2>7, Enrolled DEF CreateFails, storage
  <2>8. ASSUME CreatedPrf(s) PROVE Safe'
    <3>1. cred' \in Creds /\ nextCred' \in 1..(MaxCreds + 1)
      BY <1>b, <2>8, CredBound DEF CreatedPrf, Creds, CredIds
    <3>2. QED
      BY <1>b, <2>8, <3>1, Untouched DEF CreatedPrf
  <2>9. ASSUME Sealed(s) PROVE Safe'
    <3>1. sidecar' \in Sidecars
      BY <2>0, <2>9, OpShapes DEF Sealed, Sidecars
    <3>2. QED
      BY <1>b, <2>9, <3>1, Enrolled DEF Sealed
  <2>10. ASSUME CreatedLegacy(s) PROVE Safe'
    <3>1. cred' \in Creds /\ nextCred' \in 1..(MaxCreds + 1)
      BY <1>b, <2>10, CredBound DEF CreatedLegacy, Creds, CredIds
    <3>2. bioPin' \in Pins \cup {None}
      BY <2>0, <2>10, OpShapes DEF CreatedLegacy, EnrolStages
    <3>3. QED
      BY <1>b, <2>10, <3>1, <3>2, Enrolled DEF CreatedLegacy
  <2>11. QED
    BY <1>3, <2>1, <2>2, <2>3, <2>4, <2>5, <2>6, <2>7, <2>8, <2>9, <2>10 DEF Resume
<1>4. ASSUME NEW id \in Ids, LoginNsec(id) PROVE Safe'
  <2>0. /\ unsaved' = id /\ key' = id /\ locked' = FALSE /\ pending' = TRUE
        /\ timer' = autoLock /\ screen' = "save" /\ erased' = "no"
        /\ UNCHANGED <<bioPin, vault, sidecar, cred, brute, autoLock, nextCred, wrongs>>
    BY <1>4 DEF LoginNsec, storage
  <2>1. RestOK'
    BY <1>a, <2>0 DEF RestOK
  <2>2. QED
    BY <2>0, <2>1, NoneIsNothing DEF IInv, Safe, TimerArmed, Counted, ScreenMatchesSession
<1>5. ASSUME SkipSave PROVE Safe'
  <2>0. /\ unsaved' = None /\ screen' = (IF locked THEN "blank" ELSE "live")
        /\ UNCHANGED <<key, locked, pending, timer, bioPin, vault, sidecar, cred, brute, autoLock,
                       nextCred, wrongs, erased>>
    BY <1>5 DEF SkipSave, Dismiss, storage, history
  <2>1. RestOK'
    BY <1>a, <2>0 DEF RestOK
  <2>2. QED
    BY <2>0, <2>1 DEF IInv, Safe, TimerArmed, Counted, ScreenMatchesSession
<1>6. ASSUME Lock \/ AutoLock \/ Reload PROVE Safe'
  <2>1. LockWith(vault) /\ vault' = vault /\ bioPin' \in Pins \cup {None}
    BY <1>b, <1>6 DEF Lock, AutoLock, Reload, storage
  <2>2. UNCHANGED <<vault, sidecar, cred, brute, autoLock, nextCred, wrongs, erased>>
    BY <1>6 DEF Lock, AutoLock, Reload, storage, history
  <2>3. RestOK'
    BY <1>a, <1>b, <2>1, <2>2, Locked DEF RestOK
  <2>4. QED
    BY <1>b, <2>1, <2>2, <2>3, Locked DEF IInv, Safe, Counted
<1>7. ASSUME SetAutoLock PROVE Safe'
  <2>0. /\ ~locked /\ autoLock' = ~autoLock /\ timer' = ~autoLock
        /\ UNCHANGED <<key, locked, pending, bioPin, unsaved, screen, vault, sidecar, cred, brute,
                       nextCred, wrongs, erased>>
    BY <1>7 DEF SetAutoLock, history
  <2>1. RestOK'
    BY <1>a, <2>0 DEF RestOK
  <2>2. QED
    BY <2>0, <2>1 DEF IInv, Safe, TimerArmed, Counted, ScreenMatchesSession
<1>8. ASSUME BackendActive PROVE Safe'
  <2>0. /\ pending' = FALSE
        /\ UNCHANGED <<key, locked, timer, bioPin, unsaved, screen, vault, sidecar, cred, brute,
                       autoLock, nextCred, wrongs, erased>>
    BY <1>8 DEF BackendActive, storage, history
  <2>1. pending' \in BOOLEAN
    BY <2>0
  <2>2. RestOK'
    BY <1>a, <2>0, <2>1 DEF RestOK
  <2>3. QED
    BY <2>0, <2>2 DEF IInv, Safe, TimerArmed, Counted, ScreenMatchesSession
<1>9. ASSUME LockoutEnds PROVE Safe'
  <2>0. /\ brute' = [brute EXCEPT !.waiting = FALSE]
        /\ UNCHANGED <<key, locked, pending, timer, bioPin, unsaved, screen, vault, sidecar, cred,
                       autoLock, nextCred, wrongs, erased>>
    BY <1>9 DEF LockoutEnds, memory, history
  <2>1. brute' \in [attempts : 0..(MaxAttempts - 1), waiting : BOOLEAN]
          /\ brute'.attempts = brute.attempts
    BY <1>a, <2>0 DEF RestOK
  <2>2. RestOK'
    BY <1>a, <2>0, <2>1 DEF RestOK
  <2>3. QED
    BY <2>0, <2>1, <2>2 DEF IInv, Safe, TimerArmed, Counted, ScreenMatchesSession
<1>10. ASSUME OnWipe \/ ClearAll PROVE Safe'
  <2>1. CASE OnWipe
    BY <1>b, <2>1, Wiped DEF OnWipe
  <2>2. CASE ClearAll
    BY <2>2, Wiped DEF ClearAll
  <2>3. QED
    BY <1>10, <2>1, <2>2
<1>11. CASE UNCHANGED vars
  BY <1>1, <1>11 DEF vars
<1>12. QED
  BY <1>2, <1>3, <1>4, <1>5, <1>6, <1>7, <1>8, <1>9, <1>10, <1>11 DEF Next, User

\* Only a wipe makes the device quiet, and then nothing but a login can follow.
LEMMA QuietStep ==
  ASSUME IInv, [Next]_vars PROVE Quiet'
<1>a. OpsOK /\ RestOK
  BY TypeParts DEF IInv
<1>b. CASE UNCHANGED <<vault, sidecar, cred, locked, unsaved, screen, ops, erased>>
  BY <1>b DEF IInv, Quiet
<1>1. ASSUME erased' = erased, erased # "quiet" PROVE Quiet'
  BY <1>1 DEF Quiet
<1>2. ASSUME NEW s \in Slots, PinFails(s) PROVE Quiet'
  <2>1. CASE brute.attempts + 1 >= MaxAttempts
    <3>1. Wipe(Slots \ {s}) /\ UNCHANGED autoLock /\ Finish(s) /\ nextCred' = nextCred
      BY <1>2, <2>1 DEF PinFails, FailedAttempt
    <3>2. ops'[s] = Idle /\ \A t \in Slots \ {s} : ops'[t] = ops[t]
      BY <1>a, <3>1, SlotFreed
    <3>3. autoLock' \in BOOLEAN
      BY <1>a, <3>1 DEF RestOK
    <3>4. /\ vault' = None /\ sidecar' = None /\ cred' = None
          /\ locked' /\ unsaved' = None /\ screen' = "login"
          /\ erased' = "quiet" => \A t \in Slots \ {s} : ops[t] = Idle
      BY <3>1, <3>3, Wiped
    <3>5. QED
      BY <3>2, <3>4 DEF Quiet
  <2>2. CASE ~(brute.attempts + 1 >= MaxAttempts)
    <3>1. erased' = erased /\ ops[s].at = "decrypt"
      BY <1>2, <2>2 DEF PinFails, FailedAttempt
    <3>2. erased # "quiet"
      BY <3>1 DEF IInv, Quiet, Idle
    <3>3. QED
      BY <1>1, <3>1, <3>2
  <2>3. QED
    BY <2>1, <2>2
<1>3. ASSUME NEW s \in Slots, Begin(s) \/ (Resume(s) /\ ~PinFails(s)) PROVE Quiet'
  <2>1. erased' = erased
    BY <1>3 DEF Begin, BeginSave, BeginPin, BeginBiometric, BeginEnrol, Resume, EndEncrypt, PinOpens,
      AssertFails, AssertPrf, AssertLegacy, PrfOpens, PrfRejects, EnrolAvailable, EnrolCapable,
      CreateFails, CreatedPrf, CreatedBare, Sealed, CreatedLegacy, history
  <2>2. ASSUME erased = "quiet" PROVE FALSE
    <3>1. locked /\ screen = "login" /\ ops[s].at = "idle"
      BY <2>2 DEF IInv, Quiet, Idle
    <3>2. QED
      BY <1>3, <3>1 DEF Begin, BeginSave, BeginPin, BeginBiometric, BeginEnrol, Resume, EndEncrypt,
        PinOpens, AssertFails, AssertPrf, AssertLegacy, PrfOpens, PrfRejects, EnrolAvailable,
        EnrolCapable, CreateFails, CreatedPrf, CreatedBare, Sealed, CreatedLegacy
  <2>3. QED
    BY <1>1, <2>1, <2>2
<1>4. ASSUME NEW id \in Ids, LoginNsec(id) PROVE Quiet'
  BY <1>4 DEF LoginNsec, Quiet
<1>5. ASSUME SkipSave \/ Lock \/ AutoLock \/ SetAutoLock PROVE Quiet'
  BY <1>1, <1>5 DEF IInv, Quiet, TimerArmed, SkipSave, Lock, AutoLock, SetAutoLock, history
<1>6. ASSUME LockoutEnds \/ BackendActive PROVE Quiet'
  BY <1>b, <1>6 DEF LockoutEnds, BackendActive, memory, storage, history
<1>7. ASSUME OnWipe PROVE Quiet'
  <2>1. autoLock' \in BOOLEAN
    BY <1>a, <1>7 DEF OnWipe, RestOK
  <2>2. QED
    BY <1>7, <2>1, Wiped DEF OnWipe, Quiet
<1>8. ASSUME ClearAll PROVE Quiet'
  <2>1. \A s \in Slots : ops'[s] = Idle
    BY <1>8 DEF ClearAll
  <2>2. QED
    BY <1>8, <2>1, Wiped DEF ClearAll, Quiet
<1>9. ASSUME Reload PROVE Quiet'
  <2>1. \A s \in Slots : ops'[s] = Idle
    BY <1>9 DEF Reload
  <2>2. UNCHANGED <<vault, sidecar, cred, erased>> /\ LockWith(vault)
    BY <1>9 DEF Reload, storage, history
  <2>3. QED
    BY <2>1, <2>2 DEF IInv, Quiet, LockWith, EntryScreen
<1>10. CASE UNCHANGED vars
  BY <1>b, <1>10 DEF vars, memory, storage, history
<1>11. QED
  BY <1>2, <1>3, <1>4, <1>5, <1>6, <1>7, <1>8, <1>9, <1>10 DEF Next, User

LEMMA Inductive == IInv /\ [Next]_vars => IInv'
<1> SUFFICES ASSUME IInv, [Next]_vars PROVE IInv'
  OBVIOUS
<1>1. TypeOK
  BY DEF IInv
<1>2. OpsOK' /\ Safe' /\ Quiet'
  BY <1>1, OpsTyped, SafeStep, QuietStep
<1>3. TypeOK'
  BY <1>2 DEF Safe, OpsOK, RestOK, TypeOK
<1>4. QED
  BY <1>2, <1>3 DEF IInv, Safe

LEMMA Invariance == Spec => []IInv
BY Initially, Inductive, PTL DEF Spec

------------------------------------------------------------------------------
(* The theorems.                                                            *)

\* Every reachable state of the key vault is well typed; in particular the
\* stored failures stay below MAX_ATTEMPTS.
THEOREM TypeCorrect == Spec => []TypeOK
<1>1. IInv => TypeOK
  BY DEF IInv
<1>2. QED
  BY <1>1, Invariance, PTL

\* The inactivity timer runs exactly while an unlocked session wants it,
\* through every way to open, reopen, lock and wipe a session.
THEOREM TimerArmedHolds == Spec => []TimerArmed
<1>1. IInv => TimerArmed
  BY DEF IInv
<1>2. QED
  BY <1>1, Invariance, PTL

\* No wrong PIN is forgotten, whatever overlaps: a stored vault has seen fewer
\* than MAX_ATTEMPTS of them in a row.
THEOREM NoGuessForgottenHolds == Spec => []NoGuessForgotten
<1>1. IInv => NoGuessForgotten
  BY Thresholds, TypeParts DEF IInv, RestOK, Counted, NoGuessForgotten
<1>2. QED
  BY <1>1, Invariance, PTL

\* The session card never shows a live session that is locked away, or a
\* prompt with nothing behind it.
THEOREM ScreenMatchesSessionHolds == Spec => []ScreenMatchesSession
<1>1. IInv => ScreenMatchesSession
  BY DEF IInv
<1>2. QED
  BY <1>1, Invariance, PTL

\* A wipe that meets nothing in flight stands until somebody logs in.
THEOREM QuietWipeStandsHolds == Spec => []QuietWipeStands
<1>1. IInv => QuietWipeStands
  BY DEF IInv, Quiet, QuietWipeStands
<1>2. QED
  BY <1>1, Invariance, PTL

=============================================================================
