------------------------------ MODULE Backoff -------------------------------
(***************************************************************************)
(* How long waitBackoff waits (internal/ecs/client.go): the loop that      *)
(* doubles the pause, the Retry-After of the response and the jitter, for  *)
(* any settings.  A duration is a machine integer.                         *)
(***************************************************************************)
EXTENDS Integers, MachineInt

CONSTANT MaxAttempt   \* bound: config allows 10 attempts

ASSUME AttemptAssumption == MaxAttempt \in Nat \ {0}

VARIABLES
  step,                           \* "loop", "retryAfter", "jitter" or "wait"
  InitialBackoff, MaxBackoff,   \* config: retry
  attempt, retryAfter,          \* the arguments
  current, delay, jitter        \* waitBackoff

arguments == <<InitialBackoff, MaxBackoff, attempt, retryAfter>>
backoffVars == <<step, arguments, current, delay, jitter>>

-----------------------------------------------------------------------------
\* NewClient refuses other settings; parseRetryAfter returns no negative duration.
BackoffInit ==
  /\ step = "loop"
  /\ MaxBackoff \in 1..MaxInt
  /\ InitialBackoff \in 1..MaxBackoff
  /\ attempt \in 1..MaxAttempt
  /\ retryAfter \in 0..MaxInt
  /\ current = 1
  /\ delay = InitialBackoff
  /\ jitter = 0

\* Deviation: the pause is doubled first and cut afterwards.
DoubleThenCut ==
  /\ step = "loop"
  /\ IF current < attempt /\ delay < MaxBackoff
     THEN /\ delay' = Least(Wrapped(2 * delay), MaxBackoff)
          /\ current' = current + 1
          /\ UNCHANGED step
     ELSE step' = "retryAfter" /\ UNCHANGED <<delay, current>>
  /\ UNCHANGED <<arguments, jitter>>

Double ==
  /\ step = "loop"
  /\ IF current < attempt /\ delay < MaxBackoff
     THEN IF delay > MaxBackoff \div 2
          THEN delay' = MaxBackoff /\ step' = "retryAfter" /\ UNCHANGED current
          ELSE delay' = Wrapped(2 * delay) /\ current' = current + 1 /\ UNCHANGED step
     ELSE step' = "retryAfter" /\ UNCHANGED <<delay, current>>
  /\ UNCHANGED <<arguments, jitter>>

RetryAfter ==
  /\ step = "retryAfter"
  /\ step' = "jitter"
  /\ delay' = IF retryAfter > delay THEN Least(retryAfter, MaxBackoff) ELSE delay
  /\ UNCHANGED <<arguments, current, jitter>>

\* A random part of up to a fifth that the timer can hold.
Jitter ==
  LET limit == Least(delay \div 5, Wrapped(MaxInt - delay))
  IN  /\ step = "jitter"
      /\ step' = "wait"
      /\ jitter' \in IF limit > 0 THEN 0..(limit - 1) ELSE {0}
      /\ UNCHANGED <<arguments, current, delay>>

BackoffNext == Double \/ RetryAfter \/ Jitter

BackoffSpec == BackoffInit /\ [][BackoffNext]_backoffVars

-----------------------------------------------------------------------------
(* Properties *)

\* The pause before an attempt, without a limit; what the pause is to be.
Doubled(n) == InitialBackoff * 2 ^ (n - 1)
Asked == Least(Greatest(Doubled(attempt), retryAfter), MaxBackoff)

\* The timer is set to the doubled pause or what ECS asked for, whichever is longer, within
\* the configured limit, plus at most a fifth, for any settings up to the longest duration
\* and any attempt (waitBackoff).
PauseIsRight ==
  step = "wait" =>
    LET pause == Wrapped(delay + jitter)
    IN  Asked <= pause /\ pause <= Asked + Asked \div 5

-----------------------------------------------------------------------------
(* The inductive invariant *)

BackoffTypeOK ==
  /\ step \in {"loop", "retryAfter", "jitter", "wait"}
  /\ MaxBackoff \in 1..MaxInt /\ InitialBackoff \in 1..MaxBackoff
  /\ attempt \in 1..MaxAttempt /\ current \in 1..attempt
  /\ retryAfter \in 0..MaxInt
  /\ delay \in 1..MaxBackoff /\ jitter \in 0..MaxInt

BackoffInv ==
  /\ BackoffTypeOK
  /\ step = "loop" => delay = Doubled(current)
  /\ step = "retryAfter" => delay = Least(Doubled(attempt), MaxBackoff)
  /\ step \in {"jitter", "wait"} => delay = Asked
  /\ step = "wait" => jitter <= delay \div 5 /\ jitter <= MaxInt - delay

=============================================================================
