---------------------------- MODULE VaultSession ----------------------------
(***************************************************************************)
(* The browser's key custody: web/js/session_manager.js (the session in    *)
(* memory, auto-lock, brute-force counter), web/js/crypto_vault.js (the    *)
(* two envelopes in localStorage), web/js/webauthn_manager.js (the         *)
(* platform credential), and the handlers of web/app.js that drive them.   *)
(*                                                                         *)
(* JavaScript runs one handler at a time, so a step is the code between    *)
(* two awaits.  Whatever is awaited (key derivation, encryption, an        *)
(* authenticator's prompt, which stays open for up to a minute) is an      *)
(* operation in a slot, and everything else may happen before it resumes:  *)
(* another click, the auto-lock timer, a wipe, a reload of the page.       *)
(*                                                                         *)
(* _sk, _npub and _relays are always assigned together: `key` is the       *)
(* identity they belong to.  An envelope is what it was sealed from.       *)
(***************************************************************************)
EXTENDS Naturals

CONSTANTS
  Ids,               \* identities (npub and key) a user may type
  Pins,              \* PINs a user may type
  None,              \* null
  MaxAttempts,       \* MAX_ATTEMPTS
  LockoutThreshold,  \* LOCKOUT_THRESHOLD
  Slots,             \* operations awaiting something at once
  MaxCreds           \* bound: credentials ever registered

ASSUME NoneIsNothing == None \notin Ids \cup Pins
ASSUME Thresholds == LockoutThreshold \in Nat /\ MaxAttempts \in Nat \ {0}
ASSUME CredBound == MaxCreds \in Nat

VARIABLES
  key,      \* the identity in memory: _sk, _npub
  locked,   \* _locked
  pending,  \* _pendingBackend
  timer,    \* _timer is armed
  autoLock, \* the inactivity timeout is not 0
  bioPin,   \* _bioPin
  unsaved,  \* state.pendingIdentity of app.js
  screen,   \* what the session card shows
  vault,    \* dl_conn_vault
  sidecar,  \* the biometric (PRF) vault
  cred,     \* the registered credential and whether a PRF salt goes with it
  brute,    \* dl_conn_brute_force
  ops,      \* operations awaiting their promise
  nextCred, \* the next credential the authenticator creates
  wrongs,   \* history: wrong PINs in a row tried on the stored vault
  erased    \* history: the device was wiped, nobody logged in since

memory  == <<key, locked, pending, timer, bioPin, unsaved, screen>>
storage == <<vault, sidecar, cred, brute, autoLock>>
history == <<wrongs, erased>>
vars == <<memory, storage, ops, nextCred, history>>

Envelopes == [id : Ids, pin : Pins, hex : BOOLEAN]
CredIds   == 1..MaxCreds
Sidecars  == [id : Ids \cup {None}, cred : CredIds]
Creds     == [n : CredIds, prf : BOOLEAN]

ASSUME NoneIsNoEnvelope == None \notin Envelopes

\* An idle slot, and one record per await an operation can be at.
Idle == [at |-> "idle"]
Ops ==
  {Idle}
    \cup [at : {"decrypt"}, env : Envelopes, pin : Pins]
    \cup [at : {"assert"}, cred : CredIds, sealed : BOOLEAN]
    \cup [at : {"decryptPrf"}, env : Sidecars, cred : CredIds]
    \cup [at : {"encrypt"}, id : Ids, pin : Pins, resave : BOOLEAN]
    \cup [at : {"available", "capable", "createPrf", "createLegacy"},
          pin : Pins \cup {None}, save : BOOLEAN]
    \cup [at : {"seal"}, id : Ids \cup {None}, cred : CredIds,
          pin : Pins \cup {None}, save : BOOLEAN]

TypeOK ==
  /\ key \in Ids \cup {None} /\ unsaved \in Ids \cup {None}
  /\ locked \in BOOLEAN /\ pending \in BOOLEAN /\ timer \in BOOLEAN
  /\ autoLock \in BOOLEAN
  /\ bioPin \in Pins \cup {None}
  /\ screen \in {"login", "unlock", "save", "live", "blank"}
  /\ vault \in Envelopes \cup {None}
  /\ sidecar \in Sidecars \cup {None}
  /\ cred \in Creds \cup {None}
  /\ brute \in [attempts : 0..(MaxAttempts - 1), waiting : BOOLEAN]
  /\ ops \in [Slots -> Ops]
  /\ nextCred \in 1..(MaxCreds + 1)
  /\ wrongs \in Nat /\ erased \in {"no", "busy", "quiet"}

NoFailures == [attempts |-> 0, waiting |-> FALSE]

\* checkVaultState after a lock or at start-up.
EntryScreen(v) == IF v = None THEN "login" ELSE "unlock"

Init ==
  /\ key = None /\ locked = TRUE /\ pending = FALSE /\ timer = FALSE
  /\ bioPin = None /\ unsaved = None
  /\ vault \in Envelopes \cup {None}
  /\ screen = EntryScreen(vault)
  /\ sidecar = None /\ cred = None /\ brute = NoFailures
  /\ autoLock = TRUE
  /\ ops = [s \in Slots |-> Idle]
  /\ nextCred = 1
  /\ wrongs = 0 /\ erased = "no"

------------------------------------------------------------------------------
(* What the handlers are built from.                                        *)

Await(s, op) == ops' = [ops EXCEPT ![s] = op]
Finish(s)    == Await(s, Idle)

\* A platform authenticator shows one prompt; a second call is refused.
PromptOpen == \E s \in Slots : ops[s].at \in {"assert", "createPrf", "createLegacy"}

\* The assignments every way of opening a session makes, and what
\* onSessionEvent does on "unlocked": the setup half of the card steps aside
\* unless an identity still waits to be saved.
\* Mutant of Open: _resetTimer forgotten.
OpenUntimed(id) ==
  /\ key' = id /\ locked' = FALSE /\ pending' = TRUE
  /\ UNCHANGED timer
  /\ screen' = IF unsaved = None THEN "live" ELSE screen

Open(id) ==
  /\ key' = id /\ locked' = FALSE /\ pending' = TRUE
  /\ timer' = autoLock
  /\ screen' = IF unsaved = None THEN "live" ELSE screen

\* Mutant of LockWith: the identity that waits to be saved is kept.
LockKeepsUnsaved(v) ==
  /\ key' = None /\ locked' = TRUE /\ pending' = FALSE /\ timer' = FALSE
  /\ UNCHANGED unsaved
  /\ screen' = EntryScreen(v)

\* lock() and the "locked" event.
LockWith(v) ==
  /\ key' = None /\ locked' = TRUE /\ pending' = FALSE /\ timer' = FALSE
  /\ unsaved' = None
  /\ screen' = EntryScreen(v)

\* Mutant of Wipe: the biometric vault is left behind.
WipeKeepsSidecar(others) ==
  /\ LockWith(None)
  /\ vault' = None /\ cred' = None
  /\ bioPin' = None /\ brute' = NoFailures
  /\ wrongs' = 0
  /\ erased' = IF \A s \in others : ops[s] = Idle THEN "quiet" ELSE "busy"
  /\ UNCHANGED sidecar

\* wipe(): lock, remove both vaults and the credential, forget the PIN and
\* the failures; the "wiped" event ends on the login screen.
Wipe(others) ==
  /\ LockWith(None)
  /\ vault' = None /\ sidecar' = None /\ cred' = None
  /\ bioPin' = None /\ brute' = NoFailures
  /\ wrongs' = 0
  /\ erased' = IF \A s \in others : ops[s] = Idle THEN "quiet" ELSE "busy"

\* Mutant of FailedAttempt: one attempt too many before the wipe.
FailedAttemptLate(s) ==
  IF brute.attempts + 1 > MaxAttempts
  THEN Wipe(Slots \ {s}) /\ UNCHANGED autoLock
  ELSE /\ brute' = [attempts |-> brute.attempts + 1,
                    waiting |-> brute.attempts + 1 >= LockoutThreshold]
       /\ wrongs' = wrongs + 1
       /\ UNCHANGED <<memory, vault, sidecar, cred, autoLock, erased>>

\* Mutant of FailedAttempt: the count read before the decryption is written
\* back after it, so overlapping attempts count once.
FailedAttemptStale(s) ==
  LET seen == IF brute.attempts > 0 /\ \E t \in Slots \ {s} : ops[t].at = "decrypt"
              THEN brute.attempts - 1 ELSE brute.attempts
  IN  IF seen + 1 >= MaxAttempts
      THEN Wipe(Slots \ {s}) /\ UNCHANGED autoLock
      ELSE /\ brute' = [attempts |-> seen + 1, waiting |-> seen + 1 >= LockoutThreshold]
           /\ wrongs' = wrongs + 1
           /\ UNCHANGED <<memory, vault, sidecar, cred, autoLock, erased>>

\* _recordFailedAttempt in the slot of the failed attempt.
FailedAttempt(s) ==
  IF brute.attempts + 1 >= MaxAttempts
  THEN Wipe(Slots \ {s}) /\ UNCHANGED autoLock
  ELSE /\ brute' = [attempts |-> brute.attempts + 1,
                    waiting |-> brute.attempts + 1 >= LockoutThreshold]
       /\ wrongs' = wrongs + 1
       /\ UNCHANGED <<memory, vault, sidecar, cred, autoLock, erased>>

\* dismissSavePrompt: the identity is no longer pending and the setup half of
\* the card is hidden, whatever the session's state.
Dismiss ==
  /\ unsaved' = None
  /\ screen' = IF locked THEN "blank" ELSE "live"

------------------------------------------------------------------------------
(* The login screen and the save prompt.                                    *)

\* onLoginNsec: a session without a vault, and the offer to save it.
LoginNsec(id) ==
  /\ screen = "login"
  /\ unsaved' = id
  /\ key' = id /\ locked' = FALSE /\ pending' = TRUE /\ timer' = autoLock
  /\ screen' = "save"
  /\ erased' = "no"
  /\ UNCHANGED <<bioPin, storage, ops, nextCred, wrongs>>

\* "Agora nao" under the save prompt.
SkipSave == screen = "save" /\ Dismiss
            /\ UNCHANGED <<key, locked, pending, timer, bioPin, storage, ops, nextCred, history>>

\* onSaveVault: createVault -> saveVault -> encryptVault.
BeginSave(s, pin) ==
  /\ ops[s] = Idle /\ screen = "save" /\ unsaved # None
  /\ Await(s, [at |-> "encrypt", id |-> unsaved, pin |-> pin, resave |-> FALSE])
  /\ UNCHANGED <<memory, storage, nextCred, history>>

\* encryptVault resolves: the envelope is stored.  After createVault the
\* session is opened if it is locked by now, and either the biometric
\* enrolment follows or the prompt is dismissed.
EndEncrypt(s) ==
  /\ ops[s].at = "encrypt"
  /\ vault' = [id |-> ops[s].id, pin |-> ops[s].pin, hex |-> FALSE]
  /\ wrongs' = 0
  /\ \/ /\ ops[s].resave
        /\ Finish(s)
        /\ UNCHANGED memory
     \/ /\ ~ops[s].resave
        /\ IF locked THEN key' = ops[s].id /\ pending' = TRUE /\ timer' = autoLock
                     ELSE UNCHANGED <<key, pending, timer>>
        /\ locked' = FALSE
        /\ UNCHANGED bioPin
        /\ \/ /\ Finish(s)
              /\ unsaved' = None /\ screen' = "live"
           \/ /\ Await(s, [at |-> "available", pin |-> ops[s].pin, save |-> TRUE])
              /\ screen' = IF locked THEN "live" ELSE screen
              /\ UNCHANGED unsaved
  /\ UNCHANGED <<sidecar, cred, brute, autoLock, nextCred, erased>>

------------------------------------------------------------------------------
(* The unlock screen.                                                       *)

\* unlockWithPin up to decryptVault, from the PIN field or replayed by the
\* legacy biometric path.
CanTryPin == vault # None /\ ~brute.waiting
Decrypting(pin) == [at |-> "decrypt", env |-> vault, pin |-> pin]

BeginPin(s, pin) ==
  /\ ops[s] = Idle /\ screen = "unlock" /\ CanTryPin
  /\ Await(s, Decrypting(pin))
  /\ UNCHANGED <<memory, storage, nextCred, history>>

\* decryptVault resolves: the session opens, and a vault that still holds a
\* raw hex pubkey is sealed again under the same PIN without being awaited.
PinOpens(s) ==
  /\ ops[s].at = "decrypt" /\ ops[s].pin = ops[s].env.pin
  /\ Open(ops[s].env.id)
  /\ brute' = NoFailures /\ wrongs' = 0
  /\ Await(s, IF ops[s].env.hex
              THEN [at |-> "encrypt", id |-> ops[s].env.id, pin |-> ops[s].pin, resave |-> TRUE]
              ELSE Idle)
  /\ UNCHANGED <<bioPin, unsaved, vault, sidecar, cred, autoLock, nextCred, erased>>

\* decryptVault rejects.
PinFails(s) ==
  /\ ops[s].at = "decrypt" /\ ops[s].pin # ops[s].env.pin
  /\ FailedAttempt(s)
  /\ Finish(s)
  /\ UNCHANGED nextCred

\* The attempt cooldown runs out.
LockoutEnds ==
  /\ brute.waiting
  /\ brute' = [brute EXCEPT !.waiting = FALSE]
  /\ UNCHANGED <<memory, vault, sidecar, cred, autoLock, ops, nextCred, history>>

\* unlockWithBiometric up to the authenticator's prompt; `sealed` is the test
\* of the PRF path, made before the prompt.
BeginBiometric(s) ==
  /\ ops[s] = Idle /\ screen = "unlock"
  /\ vault # None /\ cred # None /\ ~PromptOpen
  /\ Await(s, [at |-> "assert", cred |-> cred.n, sealed |-> sidecar # None /\ cred.prf])
  /\ UNCHANGED <<memory, storage, nextCred, history>>

\* The user cancels, the prompt times out, or the authenticator gives no PRF
\* output on the PRF path.
AssertFails(s) ==
  /\ ops[s].at = "assert"
  /\ Finish(s)
  /\ UNCHANGED <<memory, storage, nextCred, history>>

\* Verified with a PRF output: _openWithPrf reads the sidecar afresh.
AssertPrf(s) ==
  /\ ops[s].at = "assert" /\ ops[s].sealed
  /\ IF sidecar = None THEN Finish(s)
     ELSE Await(s, [at |-> "decryptPrf", env |-> sidecar, cred |-> ops[s].cred])
  /\ UNCHANGED <<memory, storage, nextCred, history>>

\* Verified on the legacy path: the PIN kept in memory is replayed.
AssertLegacy(s) ==
  /\ ops[s].at = "assert" /\ ~ops[s].sealed
  /\ IF bioPin # None /\ CanTryPin THEN Await(s, Decrypting(bioPin)) ELSE Finish(s)
  /\ UNCHANGED <<memory, storage, nextCred, history>>

\* decryptVaultPrf: the PRF output of the credential the sidecar was sealed
\* with opens it; any other rejects, and counts as no attempt.
PrfOpens(s) ==
  /\ ops[s].at = "decryptPrf" /\ ops[s].cred = ops[s].env.cred
  /\ Open(ops[s].env.id)
  /\ brute' = NoFailures /\ wrongs' = 0
  /\ Finish(s)
  /\ UNCHANGED <<bioPin, unsaved, vault, sidecar, cred, autoLock, nextCred, erased>>

PrfRejects(s) ==
  /\ ops[s].at = "decryptPrf" /\ ops[s].cred # ops[s].env.cred
  /\ Finish(s)
  /\ UNCHANGED <<memory, storage, nextCred, history>>

------------------------------------------------------------------------------
(* Enabling biometrics: enableBiometric, from the offer under a live session *)
(* (onEnableBiometricLater) or at the end of onSaveVault.                   *)

\* The enrolment ends; one that began in onSaveVault dismisses the prompt,
\* whether it succeeded or not.
EndEnrolment(s) ==
  /\ Finish(s)
  /\ IF ops[s].save THEN Dismiss ELSE UNCHANGED <<unsaved, screen>>
  /\ UNCHANGED <<key, locked, pending, timer>>

\* The offer is shown to a live session with a vault and no credential; the
\* PIN is asked for only where the platform has no PRF.
BeginEnrol(s, pin) ==
  /\ ops[s] = Idle /\ ~locked /\ vault # None /\ cred = None
  /\ Await(s, [at |-> "available", pin |-> pin, save |-> FALSE])
  /\ UNCHANGED <<memory, storage, nextCred, history>>

\* isBiometricAvailable answers; the key must be in memory.
EnrolAvailable(s) ==
  /\ ops[s].at = "available"
  /\ \/ key # None /\ Await(s, [ops[s] EXCEPT !.at = "capable"]) /\ UNCHANGED memory
     \/ EndEnrolment(s) /\ UNCHANGED bioPin
  /\ UNCHANGED <<storage, nextCred, history>>

\* isPrfAvailable answers, and registerCredential prompts.  A lock in between
\* leaves no npub to register, and a prompt already open refuses this one.
EnrolCapable(s) ==
  /\ ops[s].at = "capable"
  /\ IF key # None /\ ~PromptOpen /\ nextCred <= MaxCreds
     THEN /\ \E kind \in {"createPrf", "createLegacy"} :
               Await(s, [ops[s] EXCEPT !.at = kind])
          /\ UNCHANGED memory
     ELSE EndEnrolment(s) /\ UNCHANGED bioPin
  /\ UNCHANGED <<storage, nextCred, history>>

\* The prompt fails or is cancelled.
CreateFails(s) ==
  /\ ops[s].at \in {"createPrf", "createLegacy"}
  /\ EndEnrolment(s)
  /\ UNCHANGED <<bioPin, storage, nextCred, history>>

\* A credential with a PRF output: it is stored, and the identity in memory
\* by now is sealed under it.
CreatedPrf(s) ==
  /\ ops[s].at = "createPrf" /\ nextCred <= MaxCreds
  /\ cred' = [n |-> nextCred, prf |-> TRUE]
  /\ nextCred' = nextCred + 1
  /\ Await(s, [at |-> "seal", id |-> key, cred |-> nextCred,
               pin |-> ops[s].pin, save |-> ops[s].save])
  /\ UNCHANGED <<memory, vault, sidecar, brute, autoLock, history>>

\* A credential without a PRF output is not stored: the legacy registration
\* follows, for the npub in memory by now.
CreatedBare(s) ==
  /\ ops[s].at = "createPrf"
  /\ IF key # None
     THEN Await(s, [ops[s] EXCEPT !.at = "createLegacy"]) /\ UNCHANGED memory
     ELSE EndEnrolment(s) /\ UNCHANGED bioPin
  /\ UNCHANGED <<storage, nextCred, history>>

\* encryptVaultPrf resolves: the sidecar is stored.
Sealed(s) ==
  /\ ops[s].at = "seal"
  /\ sidecar' = [id |-> ops[s].id, cred |-> ops[s].cred]
  /\ bioPin' = None
  /\ EndEnrolment(s)
  /\ UNCHANGED <<vault, cred, brute, autoLock, nextCred, history>>

\* The legacy registration: credential without salt, PIN kept in memory.
CreatedLegacy(s) ==
  /\ ops[s].at = "createLegacy" /\ nextCred <= MaxCreds
  /\ cred' = [n |-> nextCred, prf |-> FALSE]
  /\ nextCred' = nextCred + 1
  /\ bioPin' = ops[s].pin
  /\ EndEnrolment(s)
  /\ UNCHANGED <<vault, sidecar, brute, autoLock, history>>

------------------------------------------------------------------------------
(* Locking, wiping, reloading.                                              *)

\* The lock button, and the inactivity timer.
Lock ==
  /\ ~locked
  /\ LockWith(vault)
  /\ UNCHANGED <<bioPin, storage, ops, nextCred, history>>

AutoLock ==
  /\ timer
  /\ LockWith(vault)
  /\ UNCHANGED <<bioPin, storage, ops, nextCred, history>>

\* setInactivityTimeout: 0 disarms, anything else arms an unlocked session.
SetAutoLock ==
  /\ ~locked
  /\ autoLock' = ~autoLock
  /\ timer' = ~autoLock
  /\ UNCHANGED <<key, locked, pending, bioPin, unsaved, screen, vault, sidecar, cred, brute,
                 ops, nextCred, history>>

\* setBackendActive, on the first discovery reply: only a session with a key
\* ever asks.
BackendActive ==
  /\ pending /\ key # None
  /\ pending' = FALSE
  /\ UNCHANGED <<key, locked, timer, bioPin, unsaved, screen, storage, ops, nextCred, history>>

\* "Esqueci o PIN / usar outra conta".
OnWipe ==
  /\ screen = "unlock"
  /\ Wipe(Slots)
  /\ UNCHANGED <<autoLock, ops, nextCred>>

\* onClearAll: wipe, remove the other settings, reload.  A reload ends every
\* operation in flight.
ClearAll ==
  /\ screen \in {"login", "unlock", "save"}
  /\ Wipe({})
  /\ autoLock' = TRUE
  /\ ops' = [s \in Slots |-> Idle]
  /\ UNCHANGED nextCred

\* The page is reloaded or closed and opened again: memory is gone.
Reload ==
  /\ LockWith(vault)
  /\ bioPin' = None
  /\ ops' = [s \in Slots |-> Idle]
  /\ UNCHANGED <<storage, nextCred, history>>

------------------------------------------------------------------------------
Begin(s) ==
  \/ \E pin \in Pins : BeginSave(s, pin) \/ BeginPin(s, pin)
  \/ BeginBiometric(s)
  \/ \E pin \in Pins \cup {None} : BeginEnrol(s, pin)

Resume(s) ==
  \/ EndEncrypt(s) \/ PinOpens(s) \/ PinFails(s)
  \/ AssertFails(s) \/ AssertPrf(s) \/ AssertLegacy(s)
  \/ PrfOpens(s) \/ PrfRejects(s)
  \/ EnrolAvailable(s) \/ EnrolCapable(s)
  \/ CreateFails(s) \/ CreatedPrf(s) \/ CreatedBare(s) \/ Sealed(s) \/ CreatedLegacy(s)

User ==
  \/ \E id \in Ids : LoginNsec(id)
  \/ SkipSave \/ Lock \/ SetAutoLock \/ OnWipe \/ ClearAll \/ Reload

Next ==
  \/ \E s \in Slots : Begin(s) \/ Resume(s)
  \/ User
  \/ AutoLock \/ LockoutEnds \/ BackendActive

Spec == Init /\ [][Next]_vars

------------------------------------------------------------------------------
(* Properties.                                                              *)

\* The inactivity timer runs exactly while an unlocked session has auto-lock
\* on: none of the ways to open a session, to reopen it after a save or to
\* change the timeout leaves a key in memory with no timer to remove it
\* (_resetTimer, _clearTimer at every call site).
TimerArmed == timer <=> (~locked /\ autoLock)

\* Brute force: the persisted counter never falls behind the wrong PINs tried
\* in a row, whatever overlaps, locks or reloads, so no stored vault survives
\* MaxAttempts of them (_recordFailedAttempt, _resetBruteForce).
NoGuessForgotten ==
  vault # None => wrongs <= brute.attempts /\ brute.attempts < MaxAttempts

\* The session card shows what the session is: the live half only when it is
\* unlocked, the save prompt only with an identity to save, the PIN field
\* only when there is a vault to open (onSessionEvent, checkVaultState).
ScreenMatchesSession ==
  /\ ~locked => screen \in {"live", "save"}
  /\ screen = "save" => unsaved # None
  /\ screen = "unlock" => vault # None
  /\ unsaved # None => ~locked

\* A wipe that met no operation in flight stands until somebody logs in:
\* neither envelope, no credential, no key (wipe, removeVaultFromStorage,
\* removeCredential, onClearAll).
QuietWipeStands ==
  erased = "quiet" => vault = None /\ sidecar = None /\ cred = None /\ locked

\* While both vaults are stored they hold one key: session_manager.js:349,
\* "The biometric sidecar carries the same plaintext".  Violated: the sidecar
\* is sealed with what is in memory when the authenticator answers.
SidecarCarriesVault ==
  vault # None /\ sidecar # None => sidecar.id = vault.id

=============================================================================
