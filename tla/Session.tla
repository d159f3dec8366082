------------------------------- MODULE Session -------------------------------
(***************************************************************************)
(* Which screen the till shows, renderer/app.js: evaluateAppState with its *)
(* four awaited requests, and what starts it: the sign-in and sign-out of  *)
(* a cashier, the idle timer, the activation of the device, the shift      *)
(* forms, and the configuration being read again.  The page is one thread; *)
(* runs of evaluateAppState overlap at their awaits.  The manager's        *)
(* session, which only unlocks panels of the activation screen, is left    *)
(* out, and what the forms send is of PosQueue.                            *)
(***************************************************************************)
EXTENDS Requests

CONSTANT Checks  \* runs of evaluateAppState that can overlap (bound)

VARIABLES config,     \* state.config is there; it is complete then (setConfigMissing shows
                      \* the same screen for an incomplete one)
          stored,     \* the file of the configuration holds a cashier's token
          token,      \* config.jwt is there
          tokenValid, \* state.deviceTokenValid
          online,     \* state.online
          cashier,    \* state.cashierToken is set
          openShift,  \* state.openShift is set
          idleTimer,  \* the timer of startIdleTimer is running
          view,       \* state.view
          checks,     \* per run of evaluateAppState: what it awaits
          failed,     \* history: a run ended with an error after the last one
                      \* that came to its end
          sent        \* the form or button whose request is under way

session == <<stored, config, token, tokenValid, online, cashier, openShift, idleTimer,
             view, checks, failed, sent>>

(* updateTokenStatus; whether the token has expired by now is left open.   *)
TokenStatus(now) == tokenValid' \in {FALSE, token' /\ now}

(* evaluateAppState up to its first await, in each of runs.                *)
Await(e, what) == checks' = [checks EXCEPT ![e] = what]
Evaluate(runs) ==
  /\ \A e \in runs : checks[e] = "none"
  /\ IF config'
     THEN /\ checks' = [e \in Checks |-> IF e \in runs THEN "health" ELSE checks[e]]
          /\ UNCHANGED <<view, failed>>
     ELSE view' = "configMissing" /\ failed' = FALSE /\ UNCHANGED checks

(* setCashierSession and clearCashierSession with the configuration as it  *)
(* is now: saveConfig reads the file again, and may throw.                 *)
Saved(now, signedIn) ==
  /\ cashier' = signedIn
  /\ config' = now
  /\ stored' = IF now THEN signedIn ELSE stored
SaveThrows(now, signedIn) ==
  /\ now
  /\ cashier' = signedIn
  /\ config' = now
  /\ failed' = TRUE
  /\ UNCHANGED <<stored, view, checks>>

(* The till is switched off; its configuration holds neither a token of    *)
(* the device nor one of a cashier.                                        *)
SessionInit ==
  /\ config = FALSE /\ stored = FALSE /\ token = FALSE /\ cashier = FALSE
  /\ tokenValid = FALSE /\ online = FALSE /\ openShift = FALSE /\ idleTimer = FALSE
  /\ view = "off" /\ checks = [e \in Checks |-> "none"] /\ failed = FALSE /\ sent = None

(* bootstrap, after a start, or after a restart because a run ended with   *)
(* an error (a bound: a restart at another time leads to the same states). *)
Bootstrap(e) ==
  /\ view = "off" \/ failed
  /\ config' \in BOOLEAN
  /\ cashier' = (stored /\ config')
  /\ online' = FALSE /\ openShift' = FALSE /\ idleTimer' = FALSE
  /\ checks' = [c \in Checks |-> IF c = e /\ config' THEN "health" ELSE "none"]
  /\ view' = IF config' THEN "loading" ELSE "configMissing"
  /\ failed' = FALSE /\ sent' = None
  /\ UNCHANGED <<stored, token>>
  /\ TokenStatus(config')

-----------------------------------------------------------------------------
(* The last lines of evaluateAppState.  state is read after the awaits.    *)
Show(e, shift) ==
  /\ Await(e, "none")
  /\ failed' = FALSE
  /\ openShift' = shift
  /\ view' = IF ~cashier THEN "cashier" ELSE IF ~shift THEN "shift" ELSE "checkout"

Refused(e) ==  \* the device has to be activated
  /\ Await(e, "none")
  /\ failed' = FALSE
  /\ openShift' = FALSE
  /\ view' = "activation"

GoOn(e, what) == Await(e, what) /\ UNCHANGED <<view, failed>>

(* checkHealth, which hides a failure, updateTokenStatus, and the part of  *)
(* validateDeviceToken before its request.                                 *)
HealthAnswered(e) ==
  /\ checks[e] = "health"
  /\ online' \in BOOLEAN
  /\ UNCHANGED <<stored, config, token, cashier, idleTimer, sent>>
  /\ TokenStatus(config)
  /\ LET provisioned == token /\ config IN
     \/ provisioned /\ online' /\ GoOn(e, "device") /\ UNCHANGED openShift
     \/ provisioned /\ ~online' /\ tokenValid' /\ Show(e, openShift)
     \/ ~(provisioned /\ (online' \/ tokenValid')) /\ Refused(e)

(* The answer on the device: valid, or refused, unknown or an error.       *)
DeviceAnswered(e) ==
  /\ checks[e] = "device"
  /\ \/ tokenValid /\ online /\ GoOn(e, "shift") /\ UNCHANGED openShift
     \/ tokenValid /\ ~online /\ Show(e, openShift)
     \/ Refused(e)
  /\ UNCHANGED <<stored, config, token, tokenValid, online, cashier, idleTimer, sent>>

(* refreshOpenShift keeps what it has when the answer is an error, and     *)
(* waits for the summary only of an open shift.                            *)
ShiftAnswered(e) ==
  /\ checks[e] = "shift"
  /\ \/ Show(e, openShift)
     \/ Show(e, FALSE)
     \/ online /\ openShift' = TRUE /\ GoOn(e, "summary")
     \/ ~online /\ Show(e, TRUE)
  /\ UNCHANGED <<stored, config, token, tokenValid, online, cashier, idleTimer, sent>>

SummaryAnswered(e) ==
  /\ checks[e] = "summary"
  /\ Show(e, openShift)
  /\ UNCHANGED <<stored, config, token, tokenValid, online, cashier, idleTimer, sent>>

(* No request but the first is inside a try: the run ends without setView. *)
CheckThrows(e) ==
  /\ checks[e] \in {"device", "shift", "summary"}
  /\ Await(e, "none")
  /\ failed' = TRUE
  /\ UNCHANGED <<stored, config, token, tokenValid, online, cashier, openShift, idleTimer,
                 view, sent>>

-----------------------------------------------------------------------------
(* The forms and buttons that wait for an answer, one at a time and sent   *)
(* while evaluateAppState is at rest (bounds).  The forms of a shift want  *)
(* a cashier.                                                              *)
SubmitForm ==
  /\ sent = None /\ \A e \in Checks : checks[e] = "none"
  /\ \/ view = "cashier" /\ config /\ sent' = "login"
     \/ view = "activation" /\ config /\ online /\ sent' = "activate"
     \/ view = "shift" /\ cashier /\ sent' = "shift"
     \/ view = "shift" /\ sent' = "refresh"
  /\ UNCHANGED <<stored, config, token, tokenValid, online, cashier, openShift, idleTimer,
                 view, checks, failed>>

Answered(what) == sent = what /\ sent' = None

(* The answer is an error, the request throws, or a shift was queued.      *)
FormFails ==
  /\ sent # None /\ sent' = None
  /\ UNCHANGED <<stored, config, token, tokenValid, online, cashier, openShift, idleTimer,
                 view, checks, failed>>

Login(e) ==
  /\ Answered("login")
  /\ UNCHANGED <<token, tokenValid, online, openShift>>
  /\ \/ Saved(config, TRUE) /\ idleTimer' = TRUE /\ Evaluate({e})
     \/ SaveThrows(config, TRUE) /\ UNCHANGED idleTimer

(* The device token is saved, then the cashier signed out.                 *)
Activate(e) ==
  /\ Answered("activate")
  /\ token' = TRUE /\ TokenStatus(TRUE)
  /\ UNCHANGED <<online, openShift, idleTimer>>
  /\ \/ Saved(TRUE, FALSE) /\ Evaluate({e})
     \/ SaveThrows(TRUE, FALSE)

(* A shift was opened or closed: refreshOpenShift and evaluateAppState.    *)
ShiftChanged(e) ==
  /\ Answered("shift")
  /\ openShift' \in BOOLEAN
  /\ UNCHANGED <<stored, config, token, tokenValid, online, cashier, idleTimer>>
  /\ Evaluate({e})

(* The buttons that look again and set no screen, a shift form whose       *)
(* refreshOpenShift throws at its end, and the timer of updateTokenStatus. *)
RefreshAnswered ==
  /\ Answered("refresh") \/ Answered("shift")
  /\ openShift' \in BOOLEAN
  /\ UNCHANGED <<stored, config, token, tokenValid, online, cashier, idleTimer, view, checks,
                 failed>>
LookAgain ==
  /\ online' \in BOOLEAN
  /\ UNCHANGED <<stored, config, token, cashier, openShift, idleTimer, view, checks, failed, sent>>
  /\ TokenStatus(config)

-----------------------------------------------------------------------------
MutantEndSession(runs) ==  \* without evaluateAppState
  /\ Saved(config, FALSE)
  /\ UNCHANGED <<view, checks, failed>>
EndSession(runs) ==
  \/ Saved(config, FALSE) /\ Evaluate(runs)
  \/ SaveThrows(config, FALSE)

SignOut(e) ==
  /\ UNCHANGED <<token, tokenValid, online, openShift, idleTimer, sent>>
  /\ EndSession({e})

(* The user moves, or the till has started: the timer is started again.    *)
Moves ==
  /\ cashier /\ view # "loading"
  /\ idleTimer' = TRUE
  /\ UNCHANGED <<stored, config, token, tokenValid, online, cashier, openShift, view, checks,
                 failed, sent>>

(* The idle timer, which a sign-out does not stop, evaluates twice.        *)
IdleTimeout(e, f) ==
  /\ idleTimer /\ idleTimer' = FALSE
  /\ e # f
  /\ UNCHANGED <<token, tokenValid, online, openShift, sent>>
  /\ EndSession({e, f})

(* loadConfig keeps what it has when the file cannot be read.              *)
ReloadConfig(e) ==
  /\ UNCHANGED <<stored, token, online, openShift, idleTimer, sent>>
  /\ \/ config' = FALSE /\ UNCHANGED <<cashier, tokenValid>>
     \/ config' = TRUE /\ cashier' = stored /\ TokenStatus(TRUE)
  /\ Evaluate({e})

(* The buttons between the screens.                                        *)
Navigate ==
  /\ \/ cashier /\ view' = "shift"
     \/ view' = IF config THEN "activation" ELSE "configMissing"
     \/ ~cashier /\ view' = "cashier"
     \/ cashier /\ openShift /\ view' = "checkout"
  /\ UNCHANGED <<stored, config, token, tokenValid, online, cashier, openShift, idleTimer,
                 checks, failed, sent>>

SessionNext ==
  \/ \E e \in Checks : Bootstrap(e)
  \/ /\ view # "off"
     /\ \/ SubmitForm \/ FormFails \/ RefreshAnswered \/ LookAgain \/ Moves \/ Navigate
        \/ \E e \in Checks :
             \/ HealthAnswered(e) \/ DeviceAnswered(e) \/ ShiftAnswered(e) \/ SummaryAnswered(e)
             \/ CheckThrows(e) \/ Login(e) \/ Activate(e) \/ ShiftChanged(e)
             \/ SignOut(e) \/ ReloadConfig(e)
             \/ \E f \in Checks : IdleTimeout(e, f)

(* However the runs of evaluateAppState overlap: once nobody is signed in, *)
(* the screens that sell and that handle the shift are left, unless a run  *)
(* is still to come to its end, the last one ended with an error, or       *)
(* saving the configuration threw, as it may in the sign-out itself        *)
(* (clearCashierSession), so that none began.                              *)
SignedOutLeaves ==
  view \in {"shift", "checkout"} /\ ~cashier => failed \/ \E e \in Checks : checks[e] # "none"
===============================================================================
