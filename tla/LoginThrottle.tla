---------------------------- MODULE LoginThrottle ----------------------------
(***************************************************************************)
(* The sign-in form of one browser tab and its brake on failed attempts:   *)
(* some are free, then each must wait longer, then the form is locked.     *)
(* What failed is kept in the tab and forgotten after a window of time.    *)
(***************************************************************************)
EXTENDS Integers, Sequences, FiniteSets, FiniteSetsExt

CONSTANTS FREE_ATTEMPTS, LOCKOUT_THRESHOLD, LOCKOUT, WINDOW,
          BACKOFF_CAP,   \* the longest wait before the lockout
          MaxInstant     \* bound on time

ASSUME ThrottleAssumption ==
    /\ {FREE_ATTEMPTS, LOCKOUT_THRESHOLD, LOCKOUT, WINDOW, BACKOFF_CAP, MaxInstant} \subseteq Nat
    /\ FREE_ATTEMPTS < LOCKOUT_THRESHOLD /\ 0 < LOCKOUT /\ LOCKOUT < WINDOW

VARIABLES instant,      \* Date.now()
          failures,     \* the instants of failed attempts that are kept
          lockedUntil,  \* 0, or when the lockout ends
          pending,      \* an attempt waits for its answer
          throttle,     \* the form lets the user submit
          heard         \* history: the failures answered since the last success

throttleVars == <<instant, failures, lockedUntil, pending, throttle, heard>>

(* read: what is too old is forgotten.                                     *)
Recent ==
    LET kept[n \in 0..Len(failures)] ==
            IF n = 0 THEN <<>>
            ELSE IF instant - failures[n] < WINDOW THEN Append(kept[n - 1], failures[n]) ELSE kept[n - 1]
    IN  kept[Len(failures)]
Locked == lockedUntil > instant

backoffFor(n) == IF n <= FREE_ATTEMPTS THEN 0 ELSE Min({BACKOFF_CAP, 2 ^ (n - FREE_ATTEMPTS - 1)})

(* checkThrottle, allowed.                                                 *)
Allows(kept, until) ==
    /\ until <= instant
    /\ kept # <<>> => instant - Max(Range(kept)) >= backoffFor(Len(kept))
checkThrottle == Allows(Recent, lockedUntil)

ThrottleTypeOK ==
    /\ instant \in 0..MaxInstant /\ lockedUntil \in 0..MaxInstant + LOCKOUT
    /\ Range(failures) \cup Range(heard) \subseteq 0..instant
    /\ pending \in BOOLEAN /\ throttle \in BOOLEAN

ThrottleInit == /\ instant = 0 /\ failures = <<>> /\ lockedUntil = 0
                /\ pending = FALSE /\ throttle = TRUE /\ heard = <<>>

Tick == /\ instant < MaxInstant /\ instant' = instant + 1
        /\ UNCHANGED <<failures, lockedUntil, pending, throttle, heard>>

(* The countdown of the form.                                              *)
Countdown == /\ ~throttle /\ throttle' = checkThrottle
             /\ UNCHANGED <<instant, failures, lockedUntil, pending, heard>>

(* onSubmit checks once more: the countdown may not have run.              *)
AttemptLogin ==
    /\ ~pending /\ throttle
    /\ throttle' = checkThrottle /\ pending' = checkThrottle
    /\ UNCHANGED <<instant, failures, lockedUntil, heard>>

(* recordFailure, whatever went wrong.                                     *)
recordFailureMutant ==
    LET kept == Append(Recent, instant)
    IN /\ failures' = kept
       /\ lockedUntil' = IF Len(kept) > LOCKOUT_THRESHOLD THEN instant + LOCKOUT
                         ELSE IF Locked THEN lockedUntil ELSE 0
       /\ throttle' = Allows(kept, lockedUntil')
recordFailure ==
    LET kept == Append(Recent, instant)
    IN /\ failures' = kept
       /\ lockedUntil' = IF Len(kept) >= LOCKOUT_THRESHOLD THEN instant + LOCKOUT
                         ELSE IF Locked THEN lockedUntil ELSE 0
       /\ throttle' = Allows(kept, lockedUntil')

LoginFails == /\ pending /\ pending' = FALSE
              /\ recordFailure
              /\ heard' = Append(heard, instant)
              /\ UNCHANGED instant

(* clearAttempts; then the user signs out and is back at the form.         *)
LoginSucceeds == /\ pending /\ pending' = FALSE
                 /\ failures' = <<>> /\ lockedUntil' = 0 /\ heard' = <<>> /\ throttle' = TRUE
                 /\ UNCHANGED instant

(* The page is loaded anew: an attempt on its way leaves no trace.         *)
ReloadLogin == /\ pending' = FALSE /\ throttle' = checkThrottle
               /\ UNCHANGED <<instant, failures, lockedUntil, heard>>

ThrottleNext == Tick \/ Countdown \/ AttemptLogin \/ LoginFails \/ LoginSucceeds \/ ReloadLogin
ThrottleSpec == ThrottleInit /\ [][ThrottleNext]_throttleVars

-----------------------------------------------------------------------------
(* However a guesser times the attempts, no window of time holds more      *)
(* answered failures than the threshold and one for every lockout that     *)
(* ended within it.                                                        *)
GuessesAreBounded ==
    \A t \in Range(heard) :
        Cardinality({i \in DOMAIN heard : t <= heard[i] /\ heard[i] < t + WINDOW})
            <= LOCKOUT_THRESHOLD + (WINDOW - 1) \div LOCKOUT
=============================================================================
