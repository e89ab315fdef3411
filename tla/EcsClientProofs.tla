-------------------------- MODULE EcsClientProofs ---------------------------
(***************************************************************************)
(* Theorems about EcsClient, for every number of callers and slots, every  *)
(* retry.maxAttempts and every threshold of the breaker.                   *)
(***************************************************************************)
EXTENDS EcsClient, FiniteSetTheorems, TLAPS

USE DEF Labels

Inside == {c \in Callers : InSlot(c)}

\* The calls that hold a slot can be counted.
LEMMA InsideFinite == IsFiniteSet(Inside) /\ IsFiniteSet(Inside')
<1>1. Inside \subseteq Callers /\ Inside' \subseteq Callers
  BY DEF Inside
<1>2. QED
  BY <1>1, CallersAssumption, FS_Subset

\* A call that enters or leaves its slot changes their number by one.
LEMMA InsideSteps ==
  ASSUME NEW c \in Callers,
         \A d \in Callers \ {c} : InSlot(d)' = InSlot(d)
  PROVE  /\ InSlot(c)' = InSlot(c) => Cardinality(Inside') = Cardinality(Inside)
         /\ ~InSlot(c) /\ InSlot(c)' => Cardinality(Inside') = Cardinality(Inside) + 1
         /\ InSlot(c) /\ ~InSlot(c)' =>
              /\ Cardinality(Inside') = Cardinality(Inside) - 1
              /\ Cardinality(Inside) >= 1
<1>1. CASE InSlot(c)' = InSlot(c)
  <2>1. Inside' = Inside
    BY <1>1 DEF Inside
  <2>2. QED
    BY <1>1, <2>1
<1>2. CASE ~InSlot(c) /\ InSlot(c)'
  <2>1. Inside' = Inside \cup {c} /\ c \notin Inside
    BY <1>2 DEF Inside
  <2>2. QED
    BY <1>2, <2>1, InsideFinite, FS_AddElement
<1>3. CASE InSlot(c) /\ ~InSlot(c)'
  <2>1. Inside' = Inside \ {c} /\ c \in Inside
    BY <1>3 DEF Inside
  <2>2. Cardinality(Inside') = Cardinality(Inside) - 1
    BY <2>1, InsideFinite, FS_RemoveElement
  <2>3. Cardinality(Inside) \in Nat /\ Cardinality(Inside') \in Nat
    BY InsideFinite, FS_CardinalityType
  <2>4. QED
    BY <1>3, <2>2, <2>3 DEF InSlot
<1>4. QED
  BY <1>1, <1>2, <1>3

\* A call in its slot has put an element into the semaphore.
LEMMA SlotTaken ==
  ASSUME SlotsAreReturned, NEW c \in Callers, InSlot(c), inUse \in Nat
  PROVE  inUse >= 1
<1>1. c \in Inside
  BY DEF Inside
<1>2. Cardinality(Inside) # 0
  BY <1>1, InsideFinite, FS_EmptySet
<1>3. QED
  BY <1>2 DEF SlotsAreReturned, Inside

-----------------------------------------------------------------------------

\* The inductive invariant holds of a new Client.
LEMMA InitIInv == Init => IInv
<1> SUFFICES ASSUME Init
             PROVE  IInv
  OBVIOUS
<1>1. TypeOK
  <2>1. 0 \in 0 .. MaxAttempts /\ 0 \in 0 .. Slots /\ 0 \in 0 .. MaxTokens
        /\ 0 \in 0 .. OpenTicks
    BY AttemptsAssumption, SlotsAssumption, BoundsAssumption
  <2>2. valid \subseteq 1 .. issued /\ opened \in BOOLEAN /\ failures \in Nat
    BY DEF Init
  <2>3. QED
    BY <2>1, <2>2 DEF Init, TypeOK
<1>2. CallInv
  BY DEF Init, CallInv, InSlot
<1>3. AuthInv
  BY NobodyAssumption DEF Init, AuthInv
<1>4. SlotsAreReturned
  <2>1. Inside = {}
    BY DEF Init, Inside, InSlot
  <2>2. QED
    BY <2>1, FS_EmptySet DEF Init, SlotsAreReturned, Inside
<1>5. BreakerAgrees
  BY ThresholdAssumption DEF Init, BreakerAgrees
<1>6. LoginInv
  <2>1. Lost = {} /\ Pending = {}
    BY DEF Init, Lost, Pending
  <2>2. Cardinality(Callers) \in Nat
    BY CallersAssumption, FS_CardinalityType
  <2>3. LoginBudget
    BY <2>1, <2>2, FS_EmptySet DEF Init, LoginBudget
  <2> QED
    BY <2>3 DEF Init, LoginInv
<1>7. QED
  BY <1>1, <1>2, <1>3, <1>4, <1>5, <1>6 DEF IInv

\* What the end of a call leaves of its types.
LEMMA ReturnType ==
  ASSUME TypeOK, SlotsAreReturned, NEW c \in Callers, InSlot(c), NEW ok, Return(c, ok)
  PROVE  /\ pc' \in [Callers -> Labels]
         /\ attempt' \in [Callers -> 0 .. MaxAttempts]
         /\ httpAttempt' \in [Callers -> Nat]
         /\ reauthenticated' \in [Callers -> BOOLEAN]
         /\ held' \in [Callers -> 0 .. issued]
         /\ late' \in [Callers -> BOOLEAN]
         /\ inUse' \in 0 .. Slots
<1>1. inUse \in Nat /\ inUse <= Slots /\ Slots \in Nat /\ issued \in Nat /\ MaxAttempts \in Nat
  BY SlotsAssumption, AttemptsAssumption, BoundsAssumption DEF TypeOK
<1>2. inUse >= 1
  BY <1>1, SlotTaken
<1>3. 0 \in 0 .. MaxAttempts /\ 0 \in 0 .. issued
  BY <1>1
<1>4. inUse' \in 0 .. Slots
  BY <1>1, <1>2 DEF Return
<1>5. QED
  BY <1>3, <1>4 DEF TypeOK, Return, Goto

\* A counted failure leaves the breaker well typed.
LEMMA FailureType ==
  ASSUME TypeOK, Failure
  PROVE  failures' \in Nat /\ opened' \in BOOLEAN /\ openFor' \in 0 .. OpenTicks
<1>1. OpenTicks \in 0 .. OpenTicks
  BY BoundsAssumption
<1>2. (opened' = TRUE /\ openFor' = OpenTicks) \/ UNCHANGED <<opened, openFor>>
  BY DEF Failure
<1>3. opened' \in BOOLEAN /\ openFor' \in 0 .. OpenTicks
  BY <1>1, <1>2 DEF TypeOK
<1>4. failures' \in Nat
  BY DEF TypeOK, Failure
<1>5. QED
  BY <1>3, <1>4

\* What a failed request leaves of a call is well typed, repeated or returned.
LEMMA RetryType ==
  ASSUME TypeOK, SlotsAreReturned, NEW c \in Callers, InSlot(c),
         NEW retryable \in BOOLEAN, Retry(c, retryable)
  PROVE  /\ pc' \in [Callers -> Labels]
         /\ attempt' \in [Callers -> 0 .. MaxAttempts]
         /\ httpAttempt' \in [Callers -> Nat]
         /\ reauthenticated' \in [Callers -> BOOLEAN]
         /\ held' \in [Callers -> 0 .. issued]
         /\ late' \in [Callers -> BOOLEAN]
         /\ inUse' \in 0 .. Slots
         /\ failures' \in Nat /\ opened' \in BOOLEAN /\ openFor' \in 0 .. OpenTicks
<1>1. CASE retryable /\ attempt[c] < MaxAttempts
  BY <1>1 DEF TypeOK, Retry, Goto, locals, breaker
<1>2. CASE ~(retryable /\ attempt[c] < MaxAttempts)
  <2>1. Return(c, FALSE) /\ (Failure \/ UNCHANGED breaker)
    BY <1>2 DEF Retry
  <2>2. failures' \in Nat /\ opened' \in BOOLEAN /\ openFor' \in 0 .. OpenTicks
    BY <2>1, FailureType DEF TypeOK, breaker
  <2>3. QED
    BY <2>1, <2>2, ReturnType
<1>3. QED
  BY <1>1, <1>2

\* Every step of the client keeps the types.
LEMMA TypeStep == TypeOK /\ CallInv /\ SlotsAreReturned /\ [Next]_vars => TypeOK'
<1> SUFFICES ASSUME TypeOK, CallInv, SlotsAreReturned, [Next]_vars
             PROVE  TypeOK'
  OBVIOUS
<1> USE DEF TypeOK, Goto, locals, auth, breaker
<1>1. CASE Cancel
  BY <1>1 DEF Cancel
<1>2. CASE Logout
  <2>1. token' \in 0 .. issued' /\ valid' \subseteq 1 .. issued'
    BY <1>2, BoundsAssumption DEF Logout
  <2>2. QED
    BY <1>2, <2>1 DEF Logout
<1>3. CASE Tick
  <2>1. openFor' \in 0 .. OpenTicks
    BY <1>3, BoundsAssumption DEF Tick
  <2>2. QED
    BY <1>3, <2>1 DEF Tick
<1>4. CASE Revoke
  BY <1>4 DEF Revoke
<1>5. CASE Closed
  BY <1>5 DEF Closed, vars
<1>6. CASE UNCHANGED vars
  BY <1>6 DEF vars
<1>7. ASSUME NEW c \in Callers, Expire(c) \/ Allow(c) \/ Lock(c) \/ Proceed(c)
      PROVE  TypeOK'
  <2>1. CASE Expire(c)
    BY <2>1 DEF Expire
  <2>2. CASE Allow(c)
    <3>1. failures' \in Nat
      BY <2>2 DEF Allow
    <3>2. opened' \in BOOLEAN
      BY <2>2 DEF Allow
    <3>3. QED
      BY <2>2, <3>1, <3>2 DEF Allow
  <2>3. CASE TakeSlot(c)
    <3>1. inUse' \in 0 .. Slots /\ 1 \in 0 .. MaxAttempts
      BY <2>3, SlotsAssumption, AttemptsAssumption DEF TakeSlot
    <3>2. QED
      BY <2>3, <3>1 DEF TakeSlot
  <2>4. CASE LockToken(c)
    <3>1. httpAttempt' \in [Callers -> Nat]
      BY <2>4 DEF LockToken
    <3>2. QED
      BY <2>4, <3>1 DEF LockToken
  <2>5. CASE Invalidate(c)
    <3>1. token' \in 0 .. issued
      BY <2>5, BoundsAssumption DEF Invalidate
    <3>2. QED
      BY <2>5, <3>1 DEF Invalidate
  <2>6. CASE GiveUp(c)
    BY <2>6 DEF GiveUp
  <2>7. CASE Login(c)
    <3>1. issued' \in 0 .. MaxTokens /\ token' \in 0 .. issued' /\ valid' \subseteq 1 .. issued'
      BY <2>7, BoundsAssumption DEF Login
    <3>2. \A d \in Callers : held[d] \in 0 .. issued'
      BY <2>7, BoundsAssumption DEF Login
    <3>3. held' \in [Callers -> 0 .. issued']
      BY <2>7, <3>1, <3>2 DEF Login
    <3>4. httpAttempt' \in [Callers -> Nat]
      BY <2>7 DEF Login
    <3>5. QED
      BY <2>7, <3>1, <3>3, <3>4 DEF Login
  <2>8. CASE LoginError(c)
    BY <2>8, RetryType DEF LoginError, InSlot
  <2>9. CASE Succeed(c)
    <3>1. openFor' \in 0 .. OpenTicks
      BY <2>9, BoundsAssumption DEF Succeed
    <3>2. QED
      BY <2>9, <3>1, ReturnType DEF Succeed, InSlot
  <2>10. CASE Unauthorized(c)
    <3>1. CASE reauthenticated[c]
      BY <2>10, <3>1, ReturnType DEF Unauthorized, InSlot
    <3>2. CASE ~reauthenticated[c]
      BY <2>10, <3>2 DEF Unauthorized
    <3>3. QED
      BY <3>1, <3>2
  <2>11. CASE SendError(c)
    BY <2>11, RetryType DEF SendError, InSlot
  <2>12. CASE Backoff(c)
    <3>1. CASE Return(c, FALSE)
      BY <2>12, <3>1, ReturnType DEF Backoff, InSlot
    <3>2. CASE attempt' = [attempt EXCEPT ![c] = attempt[c] + 1]
      <4>1. attempt[c] + 1 \in 0 .. MaxAttempts
        BY <2>12, AttemptsAssumption DEF Backoff, CallInv
      <4>2. QED
        BY <2>12, <3>2, <4>1, ReturnType DEF Backoff, InSlot
    <3>3. QED
      BY <2>12, <3>1, <3>2 DEF Backoff
  <2>13. QED
    BY <1>7, <2>1, <2>2, <2>3, <2>4, <2>5, <2>6, <2>7, <2>8, <2>9, <2>10, <2>11, <2>12
       DEF Lock, Proceed
<1>8. QED
  BY <1>1, <1>2, <1>3, <1>4, <1>5, <1>6, <1>7 DEF Next

\* Every step keeps AuthManager.mu with the call that is logging in.
LEMMA AuthStep == TypeOK /\ AuthInv /\ [Next]_vars => AuthInv'
<1> SUFFICES ASSUME TypeOK, AuthInv, [Next]_vars
             PROVE  AuthInv'
  OBVIOUS
<1> USE NobodyAssumption DEF TypeOK, AuthInv, Goto, locals, auth, breaker
<1>1. CASE Cancel
  BY <1>1 DEF Cancel
<1>2. CASE Logout
  BY <1>2 DEF Logout
<1>3. CASE Tick
  BY <1>3 DEF Tick
<1>4. CASE Revoke
  BY <1>4 DEF Revoke
<1>5. CASE Closed
  BY <1>5 DEF Closed, vars
<1>6. CASE UNCHANGED vars
  BY <1>6 DEF vars
<1>7. ASSUME NEW c \in Callers, Expire(c) \/ Allow(c) \/ Lock(c) \/ Proceed(c)
      PROVE  AuthInv'
  <2>1. CASE Expire(c)
    BY <2>1 DEF Expire
  <2>2. CASE Allow(c)
    BY <2>2 DEF Allow
  <2>3. CASE TakeSlot(c)
    BY <2>3 DEF TakeSlot
  <2>4. CASE LockToken(c)
    BY <2>4 DEF LockToken
  <2>5. CASE Invalidate(c)
    BY <2>5 DEF Invalidate
  <2>6. CASE GiveUp(c)
    BY <2>6 DEF GiveUp
  <2>7. CASE Login(c)
    BY <2>7 DEF Login
  <2>8. CASE LoginError(c)
    BY <2>8 DEF LoginError, Return, Retry
  <2>9. CASE Succeed(c)
    BY <2>9 DEF Succeed, Return, Retry
  <2>10. CASE Unauthorized(c)
    BY <2>10 DEF Unauthorized, Return, Retry
  <2>11. CASE SendError(c)
    BY <2>11 DEF SendError, Return, Retry
  <2>12. CASE Backoff(c)
    BY <2>12 DEF Backoff, Return, Retry
  <2>13. QED
    BY <1>7, <2>1, <2>2, <2>3, <2>4, <2>5, <2>6, <2>7, <2>8, <2>9, <2>10, <2>11, <2>12
       DEF Lock, Proceed
<1>8. QED
  BY <1>1, <1>2, <1>3, <1>4, <1>5, <1>6, <1>7 DEF Next

\* Every step keeps the breaker open exactly while the failures reach the threshold.
LEMMA BreakerStep == TypeOK /\ BreakerAgrees /\ [Next]_vars => BreakerAgrees'
<1> SUFFICES ASSUME TypeOK, BreakerAgrees, [Next]_vars
             PROVE  BreakerAgrees'
  OBVIOUS
<1> USE ThresholdAssumption DEF TypeOK, BreakerAgrees, locals, auth, breaker
<1>1. CASE Cancel
  BY <1>1 DEF Cancel
<1>2. CASE Logout
  BY <1>2 DEF Logout
<1>3. CASE Tick
  BY <1>3 DEF Tick
<1>4. CASE Revoke
  BY <1>4 DEF Revoke
<1>5. CASE Closed
  BY <1>5 DEF Closed, vars
<1>6. CASE UNCHANGED vars
  BY <1>6 DEF vars
<1>7. ASSUME NEW c \in Callers, Expire(c) \/ Allow(c) \/ Lock(c) \/ Proceed(c)
      PROVE  BreakerAgrees'
  <2>1. CASE Expire(c)
    BY <2>1 DEF Expire
  <2>2. CASE Allow(c)
    BY <2>2 DEF Allow
  <2>3. CASE TakeSlot(c)
    BY <2>3 DEF TakeSlot
  <2>4. CASE LockToken(c)
    BY <2>4 DEF LockToken
  <2>5. CASE Invalidate(c)
    BY <2>5 DEF Invalidate
  <2>6. CASE GiveUp(c)
    BY <2>6 DEF GiveUp
  <2>7. CASE Login(c)
    BY <2>7 DEF Login
  <2>8. CASE LoginError(c)
    BY <2>8 DEF LoginError, Return, Retry, Failure
  <2>9. CASE Succeed(c)
    BY <2>9 DEF Succeed, Return, Retry, Failure
  <2>10. CASE Unauthorized(c)
    BY <2>10 DEF Unauthorized, Return, Retry, Failure
  <2>11. CASE SendError(c)
    BY <2>11 DEF SendError, Return, Retry, Failure
  <2>12. CASE Backoff(c)
    BY <2>12 DEF Backoff, Return, Retry, Failure
  <2>13. QED
    BY <1>7, <2>1, <2>2, <2>3, <2>4, <2>5, <2>6, <2>7, <2>8, <2>9, <2>10, <2>11, <2>12
       DEF Lock, Proceed
<1>8. QED
  BY <1>1, <1>2, <1>3, <1>4, <1>5, <1>6, <1>7 DEF Next

\* Every step keeps the requests of a call within its attempts.
LEMMA CallStep == TypeOK /\ CallInv /\ [Next]_vars => CallInv'
<1> SUFFICES ASSUME TypeOK, CallInv, [Next]_vars
             PROVE  CallInv'
  OBVIOUS
<1> USE AttemptsAssumption DEF TypeOK, CallInv, InSlot, Extra, Goto, locals, auth, breaker
<1>1. CASE Cancel
  BY <1>1 DEF Cancel
<1>2. CASE Logout
  BY <1>2 DEF Logout
<1>3. CASE Tick
  BY <1>3 DEF Tick
<1>4. CASE Revoke
  BY <1>4 DEF Revoke
<1>5. CASE Closed
  BY <1>5 DEF Closed, vars
<1>6. CASE UNCHANGED vars
  BY <1>6 DEF vars
<1>7. ASSUME NEW c \in Callers, Expire(c) \/ Allow(c) \/ Lock(c) \/ Proceed(c)
      PROVE  CallInv'
  <2>1. CASE Expire(c)
    BY <2>1 DEF Expire
  <2>2. CASE Allow(c)
    BY <2>2 DEF Allow
  <2>3. CASE TakeSlot(c)
    BY <2>3 DEF TakeSlot
  <2>4. CASE LockToken(c)
    BY <2>4 DEF LockToken
  <2>5. CASE Invalidate(c)
    BY <2>5 DEF Invalidate
  <2>6. CASE GiveUp(c)
    BY <2>6 DEF GiveUp
  <2>7. CASE Login(c)
    BY <2>7 DEF Login
  <2>8. CASE LoginError(c)
    BY <2>8 DEF LoginError, Return, Retry
  <2>9. CASE Succeed(c)
    BY <2>9 DEF Succeed, Return, Retry
  <2>10. CASE Unauthorized(c)
    BY <2>10 DEF Unauthorized, Return, Retry
  <2>11. CASE SendError(c)
    BY <2>11 DEF SendError, Return, Retry
  <2>12. CASE Backoff(c)
    BY <2>12 DEF Backoff, Return, Retry
  <2>13. QED
    BY <1>7, <2>1, <2>2, <2>3, <2>4, <2>5, <2>6, <2>7, <2>8, <2>9, <2>10, <2>11, <2>12
       DEF Lock, Proceed
<1>8. QED
  BY <1>1, <1>2, <1>3, <1>4, <1>5, <1>6, <1>7 DEF Next

\* Every step keeps the semaphore equal to the number of calls inside.
LEMMA SlotsStep == TypeOK /\ SlotsAreReturned /\ [Next]_vars => SlotsAreReturned'
<1> SUFFICES ASSUME TypeOK, SlotsAreReturned, [Next]_vars
             PROVE  SlotsAreReturned'
  OBVIOUS
<1> USE DEF TypeOK, InSlot, Goto, locals, auth, breaker
<1>1. CASE Cancel
  BY <1>1 DEF Cancel, SlotsAreReturned
<1>2. CASE Logout
  BY <1>2 DEF Logout, SlotsAreReturned
<1>3. CASE Tick
  BY <1>3 DEF Tick, SlotsAreReturned
<1>4. CASE Revoke
  BY <1>4 DEF Revoke, SlotsAreReturned
<1>5. CASE Closed
  BY <1>5 DEF Closed, vars, SlotsAreReturned
<1>6. CASE UNCHANGED vars
  BY <1>6 DEF vars, SlotsAreReturned
<1>7. ASSUME NEW c \in Callers, Expire(c) \/ Allow(c) \/ Lock(c) \/ Proceed(c)
      PROVE  SlotsAreReturned'
  <2>1. CASE Expire(c)
    BY <2>1, InsideSteps DEF Expire, Return, Retry, SlotsAreReturned, Inside
  <2>2. CASE Allow(c)
    BY <2>2, InsideSteps DEF Allow, Return, Retry, SlotsAreReturned, Inside
  <2>3. CASE TakeSlot(c)
    BY <2>3, InsideSteps DEF TakeSlot, Return, Retry, SlotsAreReturned, Inside
  <2>4. CASE LockToken(c)
    BY <2>4, InsideSteps DEF LockToken, Return, Retry, SlotsAreReturned, Inside
  <2>5. CASE Invalidate(c)
    BY <2>5, InsideSteps DEF Invalidate, Return, Retry, SlotsAreReturned, Inside
  <2>6. CASE GiveUp(c)
    BY <2>6, InsideSteps DEF GiveUp, Return, Retry, SlotsAreReturned, Inside
  <2>7. CASE Login(c)
    BY <2>7, InsideSteps DEF Login, Return, Retry, SlotsAreReturned, Inside
  <2>8. CASE LoginError(c)
    BY <2>8, InsideSteps DEF LoginError, Return, Retry, SlotsAreReturned, Inside
  <2>9. CASE Succeed(c)
    BY <2>9, InsideSteps DEF Succeed, Return, Retry, SlotsAreReturned, Inside
  <2>10. CASE Unauthorized(c)
    BY <2>10, InsideSteps DEF Unauthorized, Return, Retry, SlotsAreReturned, Inside
  <2>11. CASE SendError(c)
    BY <2>11, InsideSteps DEF SendError, Return, Retry, SlotsAreReturned, Inside
  <2>12. CASE Backoff(c)
    BY <2>12, InsideSteps DEF Backoff, Return, Retry, SlotsAreReturned, Inside
  <2>13. QED
    BY <1>7, <2>1, <2>2, <2>3, <2>4, <2>5, <2>6, <2>7, <2>8, <2>9, <2>10, <2>11, <2>12
       DEF Lock, Proceed
<1>8. QED
  BY <1>1, <1>2, <1>3, <1>4, <1>5, <1>6, <1>7 DEF Next

-----------------------------------------------------------------------------
(* The budget of logins *)

\* Lost tokens, and pairs of callers and lost tokens, can be counted.
LEMMA PairsCounted ==
  ASSUME NEW last \in Nat, NEW lost \in SUBSET (1 .. last),
         NEW pairs \in SUBSET (Callers \X lost)
  PROVE  /\ IsFiniteSet(lost) /\ IsFiniteSet(pairs)
         /\ Cardinality(lost) \in Nat /\ Cardinality(Callers) \in Nat
         /\ Cardinality(pairs) \in Nat
         /\ Cardinality(Callers) * Cardinality(lost) \in Nat
<1>1. IsFiniteSet(1 .. last)
  BY FS_Interval
<1>2. IsFiniteSet(lost)
  BY <1>1, FS_Subset
<1>3. IsFiniteSet(Callers \X lost)
      /\ Cardinality(Callers \X lost) = Cardinality(Callers) * Cardinality(lost)
  BY <1>2, CallersAssumption, FS_Product
<1>4. IsFiniteSet(pairs)
  BY <1>3, FS_Subset
<1>5. /\ Cardinality(lost) \in Nat /\ Cardinality(Callers) \in Nat
      /\ Cardinality(pairs) \in Nat
      /\ Cardinality(Callers \X lost) \in Nat
  BY <1>2, <1>3, <1>4, CallersAssumption, FS_CardinalityType
<1> QED
  BY <1>2, <1>3, <1>4, <1>5

\* Of a typed state: the numbers in the budget are numbers.
LEMMA BudgetCounted ==
  ASSUME TypeOK
  PROVE  /\ issued \in Nat
         /\ Lost \in SUBSET (1 .. issued) /\ Pending \in SUBSET (Callers \X Lost)
         /\ IsFiniteSet(Lost) /\ IsFiniteSet(Pending)
         /\ Cardinality(Lost) \in Nat /\ Cardinality(Callers) \in Nat
         /\ Cardinality(Pending) \in Nat
         /\ Cardinality(Callers) * Cardinality(Lost) \in Nat
<1>1. issued \in Nat
  BY BoundsAssumption DEF TypeOK
<1>2. Lost \in SUBSET (1 .. issued) /\ Pending \in SUBSET (Callers \X Lost)
  BY DEF Lost, Pending
<1> QED
  BY <1>1, <1>2, PairsCounted

\* A step that neither logs in nor loses or drops a token keeps the budget if no caller
\* comes to send a token other than the cached one.
LEMMA BudgetKept ==
  ASSUME TypeOK, TypeOK', LoginBudget,
         UNCHANGED auth, life = "closed" => life' = "closed",
         \A d \in Callers :
           pc'[d] \in {"send", "invalidate"} =>
             \/ held'[d] = token
             \/ pc[d] \in {"send", "invalidate"} /\ held'[d] = held[d]
  PROVE  LoginBudget'
<1>1. Lost' = Lost /\ token' = token /\ issued' = issued
  BY DEF Lost, auth
<1>2. Pending' \in SUBSET Pending
  <2> SUFFICES ASSUME NEW p \in Pending' PROVE p \in Pending
    OBVIOUS
  <2>1. p \in Callers \X Lost /\ p[1] \in Callers
    BY <1>1 DEF Pending
  <2>2. \/ p[2] = token
        \/ pc'[p[1]] \in {"send", "invalidate"} /\ held'[p[1]] = p[2]
    BY <1>1 DEF Pending
  <2> QED
    BY <2>1, <2>2 DEF Pending
<1>3. /\ Cardinality(Pending') <= Cardinality(Pending)
      /\ Cardinality(Pending') \in Nat
  BY <1>2, BudgetCounted, FS_Subset, FS_CardinalityType
<1> QED
  BY <1>1, <1>3, BudgetCounted DEF LoginBudget

\* Another lost token allows for one more login of every caller.
LEMMA BudgetRevoke ==
  ASSUME TypeOK, TypeOK', LoginBudget, Revoke
  PROVE  LoginBudget'
<1>1. PICK t \in valid : valid' = valid \ {t}
  BY DEF Revoke
<1>2. /\ t \in 1 .. issued /\ t \notin Lost
      /\ Lost' = Lost \cup {t}
  BY <1>1 DEF Revoke, TypeOK, Lost
<1>3. Cardinality(Lost') = Cardinality(Lost) + 1
  BY <1>2, BudgetCounted, FS_AddElement
<1> DEFINE others == Callers \X {t}
<1>4. /\ IsFiniteSet(others)
      /\ Cardinality(others) = Cardinality(Callers)
  <2>1. IsFiniteSet({t}) /\ Cardinality({t}) = 1
    BY FS_Singleton
  <2>2. IsFiniteSet(others) /\ Cardinality(others) = Cardinality(Callers) * 1
    BY <2>1, CallersAssumption, FS_Product
  <2> QED
    BY <2>2, BudgetCounted
<1>5. Pending' \subseteq Pending \cup others
  <2> SUFFICES ASSUME NEW p \in Pending', p \notin others PROVE p \in Pending
    OBVIOUS
  <2>1. p \in Callers \X Lost
    BY <1>2 DEF Pending
  <2> QED
    BY <2>1 DEF Pending, Revoke, locals
<1>6. Cardinality(Pending') <= Cardinality(Pending) + Cardinality(Callers)
  <2> HIDE DEF others
  <2>1. /\ IsFiniteSet(Pending \cup others)
        /\ Cardinality(Pending \cup others) =
             Cardinality(Pending) + Cardinality(others) - Cardinality(Pending \cap others)
    BY <1>4, BudgetCounted, FS_Union
  <2>2. Cardinality(Pending \cap others) \in Nat
    BY BudgetCounted, FS_Intersection, FS_CardinalityType
  <2>3. Cardinality(Pending') <= Cardinality(Pending \cup others)
    BY <1>5, <2>1, FS_Subset
  <2>4. Cardinality(Pending') \in Nat /\ Cardinality(Pending \cup others) \in Nat
    BY <1>5, <2>1, FS_Subset, FS_CardinalityType
  <2> QED
    BY <1>4, <2>1, <2>2, <2>3, <2>4, BudgetCounted
<1>7. Cardinality(Callers) * Cardinality(Lost') =
        Cardinality(Callers) * Cardinality(Lost) + Cardinality(Callers)
  BY <1>3, BudgetCounted
<1>8. Cardinality(Pending') \in Nat
  <2>1. Pending' \subseteq Callers \X Lost' /\ Lost' \in SUBSET (1 .. issued)
    BY <1>2, BudgetCounted DEF Pending
  <2> QED
    BY <2>1, BudgetCounted, PairsCounted
<1> QED
  BY <1>6, <1>7, <1>8, BudgetCounted DEF LoginBudget, Revoke

\* A login uses up what the last Invalidate left.
LEMMA BudgetLogin ==
  ASSUME TypeOK, TypeOK', AuthInv, LoginInv, NEW c \in Callers, Login(c)
  PROVE  LoginBudget'
<1>1. token = 0 /\ life # "closed"
  BY NobodyAssumption DEF AuthInv, LoginInv, Login
<1>2. issued \in Nat /\ valid \subseteq 1 .. issued
  BY BudgetCounted DEF TypeOK
<1>3. Lost' = Lost
  BY <1>2 DEF Lost, Login
<1>4. Pending' \in SUBSET Pending
  <2> SUFFICES ASSUME NEW p \in Pending' PROVE p \in Pending
    OBVIOUS
  <2>1. p \in Callers \X Lost /\ p[1] \in Callers /\ p[2] \in 1 .. issued
    BY <1>3 DEF Pending, Lost
  <2>2. p[2] # token' /\ p[2] # issued + 1
    BY <1>2, <2>1 DEF Login
  <2>3. pc'[p[1]] \in {"send", "invalidate"} /\ held'[p[1]] = p[2]
    BY <2>2 DEF Pending
  <2>4. p[1] # c
    BY <2>2, <2>3 DEF Login, TypeOK
  <2> QED
    BY <2>1, <2>3, <2>4 DEF Pending, Login, Goto, TypeOK
<1>5. /\ Cardinality(Pending') <= Cardinality(Pending)
      /\ Cardinality(Pending') \in Nat
  BY <1>4, BudgetCounted, FS_Subset, FS_CardinalityType
<1>6. issued' = issued + 1 /\ token' # 0
  BY <1>2 DEF Login
<1>7. issued + Cardinality(Pending) <= Cardinality(Callers) * Cardinality(Lost)
  BY <1>1, BudgetCounted DEF LoginInv, LoginBudget
<1> QED
  BY <1>3, <1>5, <1>6, <1>7, BudgetCounted DEF LoginBudget

\* A caller that answers a 401 gives up its own pending answer for the cached token.
LEMMA BudgetInvalidate ==
  ASSUME TypeOK, TypeOK', LoginInv, NEW c \in Callers, Invalidate(c)
  PROVE  LoginBudget'
<1>1. Lost' = Lost /\ issued' = issued /\ token' = 0 /\ life' = life
  BY DEF Lost, Invalidate
<1> DEFINE mine == <<c, held[c]>>
<1>2. mine \in Pending
  <2>1. held[c] \in Lost
    BY BudgetCounted DEF LoginInv, Invalidate, TypeOK, Lost
  <2> QED
    BY <2>1 DEF Pending, Invalidate
<1>3. Pending' \in SUBSET (Pending \ {mine})
  <2> SUFFICES ASSUME NEW p \in Pending' PROVE p \in Pending \ {mine}
    OBVIOUS
  <2>1. p \in Callers \X Lost /\ p[1] \in Callers /\ p[2] # 0
    BY <1>1, BudgetCounted DEF Pending, Lost
  <2>2. pc'[p[1]] \in {"send", "invalidate"} /\ held[p[1]] = p[2]
    BY <1>1, <2>1 DEF Pending, Invalidate
  <2>3. p[1] # c
    BY <2>2 DEF Invalidate, Goto, TypeOK
  <2>4. p \in Pending
    BY <2>1, <2>2, <2>3 DEF Pending, Invalidate, Goto, TypeOK
  <2> QED
    BY <2>3, <2>4
<1>4. /\ Cardinality(Pending') <= Cardinality(Pending) - 1
      /\ Cardinality(Pending') \in Nat
  <2> HIDE DEF mine
  <2>1. /\ IsFiniteSet(Pending \ {mine})
        /\ Cardinality(Pending \ {mine}) = Cardinality(Pending) - 1
    BY <1>2, BudgetCounted, FS_RemoveElement
  <2> QED
    BY <1>3, <2>1, FS_Subset, FS_CardinalityType
<1>5. issued + Cardinality(Pending) <= Cardinality(Callers) * Cardinality(Lost) + 1
  BY BudgetCounted DEF LoginInv, LoginBudget
<1> QED
  BY <1>1, <1>4, <1>5, BudgetCounted DEF LoginBudget

\* Nobody is left to log in after Logout.
LEMMA BudgetLogout ==
  ASSUME TypeOK, TypeOK', LoginInv, Logout
  PROVE  LoginBudget'
<1>1. /\ issued' = issued /\ life' = "closed" /\ token' = 0
      /\ valid' \subseteq valid
      /\ \A c \in Callers : pc'[c] = "idle"
  BY DEF Logout
<1>2. Pending' = {}
  <2> SUFFICES ASSUME NEW p \in Pending' PROVE FALSE
    OBVIOUS
  <2>1. p[1] \in Callers /\ p[2] \in 1 .. issued /\ issued \in Nat
    BY <1>1, BudgetCounted DEF Pending, Lost
  <2> QED
    BY <1>1, <2>1 DEF Pending
<1>3. Lost' \in SUBSET (1 .. issued) /\ Lost \in SUBSET Lost'
  BY <1>1 DEF Lost
<1>4. Cardinality(Lost) <= Cardinality(Lost') /\ Cardinality(Lost') \in Nat
  <2>1. IsFiniteSet(Lost')
    BY <1>3, BudgetCounted, PairsCounted
  <2> QED
    BY <1>3, <2>1, FS_Subset, FS_CardinalityType
<1>5. Cardinality(Callers) * Cardinality(Lost) <= Cardinality(Callers) * Cardinality(Lost')
  BY <1>4, BudgetCounted
<1>6. issued <= Cardinality(Callers) * Cardinality(Lost) + 1
  BY BudgetCounted DEF LoginInv, LoginBudget
<1>7. Cardinality(Callers) * Cardinality(Lost') \in Nat
  BY <1>4, BudgetCounted
<1>8. issued <= Cardinality(Callers) * Cardinality(Lost') + 1
  BY <1>5, <1>6, <1>7, BudgetCounted
<1>9. Cardinality(Pending') = 0
  BY <1>2, FS_EmptySet
<1> QED
  BY <1>1, <1>7, <1>8, <1>9, BudgetCounted DEF LoginBudget

\* Every step keeps the budget of logins.
LEMMA LoginStep ==
  TypeOK /\ TypeOK' /\ AuthInv /\ LoginInv /\ [Next]_vars => LoginInv'
<1> SUFFICES ASSUME TypeOK, TypeOK', AuthInv, LoginInv, [Next]_vars
             PROVE  LoginInv'
  OBVIOUS
<1> DEFINE Rest ==
             /\ authMu # Nobody => token = 0
             /\ life = "closed" => \A c \in Callers : pc[c] = "idle"
             /\ \A c \in Callers :
                  /\ pc[c] \in {"send", "invalidate"} => held[c] # 0
                  /\ pc[c] = "invalidate" => held[c] \notin valid
<1>0. Rest /\ LoginBudget /\ (Rest' /\ LoginBudget' => LoginInv')
  BY DEF LoginInv
<1> USE NobodyAssumption DEF Goto, locals, auth, breaker
<1>1. CASE Cancel
  <2>1. Rest'
    BY <1>0, <1>1 DEF Cancel
  <2> QED
    BY <1>0, <1>1, <2>1, BudgetKept DEF Cancel
<1>2. CASE Logout
  <2>1. Rest'
    BY <1>0, <1>2 DEF Logout, AuthInv, TypeOK
  <2> QED
    BY <1>0, <1>2, <2>1, BudgetLogout
<1>3. CASE Tick
  <2>1. Rest'
    BY <1>0, <1>3 DEF Tick
  <2> QED
    BY <1>0, <1>3, <2>1, BudgetKept DEF Tick
<1>4. CASE Revoke
  <2>1. Rest'
    BY <1>0, <1>4 DEF Revoke
  <2> QED
    BY <1>0, <1>4, <2>1, BudgetRevoke
<1>5. CASE Closed \/ UNCHANGED vars
  <2>1. UNCHANGED vars
    BY <1>5 DEF Closed
  <2>2. Rest'
    BY <1>0, <2>1 DEF vars
  <2> QED
    BY <1>0, <2>1, <2>2, BudgetKept DEF vars
<1>6. ASSUME NEW c \in Callers, Expire(c) \/ Allow(c) \/ Lock(c) \/ Proceed(c)
      PROVE  LoginInv'
  <2> USE DEF TypeOK
  <2>1. CASE Expire(c)
    <3>1. Rest'
      BY <1>0, <2>1 DEF Expire
    <3> QED
      BY <1>0, <2>1, <3>1, BudgetKept DEF Expire
  <2>2. CASE Allow(c)
    <3>1. Rest'
      BY <1>0, <2>2 DEF Allow
    <3> QED
      BY <1>0, <2>2, <3>1, BudgetKept DEF Allow
  <2>3. CASE TakeSlot(c)
    <3>1. Rest'
      BY <1>0, <2>3 DEF TakeSlot
    <3> QED
      BY <1>0, <2>3, <3>1, BudgetKept DEF TakeSlot
  <2>4. CASE LockToken(c)
    <3>1. Rest'
      BY <1>0, <2>4 DEF LockToken
    <3> QED
      BY <1>0, <2>4, <3>1, BudgetKept DEF LockToken
  <2>5. CASE Invalidate(c)
    <3>1. Rest'
      BY <1>0, <2>5 DEF Invalidate
    <3> QED
      BY <1>0, <2>5, <3>1, BudgetInvalidate
  <2>6. CASE GiveUp(c)
    <3>1. Rest'
      BY <1>0, <2>6 DEF GiveUp
    <3> QED
      BY <1>0, <2>6, <3>1, BudgetKept DEF GiveUp
  <2>7. CASE Login(c)
    <3>1. life # "closed" /\ life' = life /\ authMu' = Nobody
      BY <1>0, <2>7 DEF Login
    <3>2. issued \in Nat
      BY BudgetCounted
    <3>3. \A d \in Callers \ {c} :
            /\ pc'[d] = pc[d] /\ held'[d] = held[d]
            /\ pc[d] = "invalidate" => held[d] \notin valid'
      BY <1>0, <2>7, <3>2 DEF Login
    <3>4. pc'[c] = "send" /\ held'[c] # 0
      BY <2>7, <3>2 DEF Login
    <3>5. Rest'
      BY <1>0, <3>1, <3>3, <3>4
    <3> QED
      BY <1>0, <2>7, <3>5, BudgetLogin
  <2>8. CASE LoginError(c)
    <3>1. Rest'
      BY <1>0, <2>8 DEF LoginError, Retry, Return
    <3> QED
      BY <1>0, <2>8, <3>1, BudgetKept DEF LoginError, Retry, Return
  <2>9. CASE Succeed(c)
    <3>1. Rest'
      BY <1>0, <2>9 DEF Succeed, Return
    <3> QED
      BY <1>0, <2>9, <3>1, BudgetKept DEF Succeed, Return
  <2>10. CASE Unauthorized(c)
    <3>1. Rest'
      BY <1>0, <2>10 DEF Unauthorized, Return
    <3> QED
      BY <1>0, <2>10, <3>1, BudgetKept DEF Unauthorized, Return
  <2>11. CASE SendError(c)
    <3>1. Rest'
      BY <1>0, <2>11 DEF SendError, Retry, Return
    <3> QED
      BY <1>0, <2>11, <3>1, BudgetKept DEF SendError, Retry, Return
  <2>12. CASE Backoff(c)
    <3>1. Rest'
      BY <1>0, <2>12 DEF Backoff, Return
    <3> QED
      BY <1>0, <2>12, <3>1, BudgetKept DEF Backoff, Return
  <2> QED
    BY <1>6, <2>1, <2>2, <2>3, <2>4, <2>5, <2>6, <2>7, <2>8, <2>9, <2>10, <2>11, <2>12
       DEF Lock, Proceed
<1> QED
  BY <1>1, <1>2, <1>3, <1>4, <1>5, <1>6 DEF Next

\* Every step keeps the inductive invariant.
LEMMA StepIInv == IInv /\ [Next]_vars => IInv'
BY TypeStep, AuthStep, BreakerStep, CallStep, SlotsStep, LoginStep DEF IInv

-----------------------------------------------------------------------------
(* The theorems *)

\* The inductive invariant: types, the progress of every call, the mutex of the
\* session token, the semaphore and the breaker.
THEOREM Invariance == Spec => []IInv
BY InitIInv, StepIInv, PTL DEF Spec

\* No path through DoJSON loses a slot of the semaphore or gives one back twice.
THEOREM SlotsCorrect == Spec => []SlotsAreReturned
<1>1. IInv => SlotsAreReturned
  BY DEF IInv
<1>2. QED
  BY <1>1, Invariance, PTL

\* The retry loop with its attempt-- sends at most one request more than
\* retry.maxAttempts, for every setting of it.
THEOREM RequestsBounded == Spec => []RequestsAreBounded
<1>1. IInv => RequestsAreBounded
  <2> SUFFICES ASSUME IInv, NEW c \in Callers
               PROVE  httpAttempt[c] <= MaxAttempts + Extra(c)
    BY DEF RequestsAreBounded, Extra
  <2>1. attempt[c] \in Nat /\ httpAttempt[c] \in Nat /\ MaxAttempts \in Nat
        /\ attempt[c] <= MaxAttempts
    BY AttemptsAssumption DEF IInv, TypeOK
  <2>2. \/ httpAttempt[c] <= attempt[c] + Extra(c)
        \/ httpAttempt[c] = 0
    BY <2>1 DEF IInv, TypeOK, CallInv, InSlot, Extra
  <2>3. Extra(c) \in Nat
    BY DEF Extra
  <2>4. QED
    BY <2>1, <2>2, <2>3
<1>2. QED
  BY <1>1, Invariance, PTL

\* However late a 401 arrives and whatever token Invalidate then throws away, a lost session
\* costs each caller one login at most.
THEOREM LoginsBounded == Spec => []LoginsAreBounded
<1>1. IInv => LoginsAreBounded
  <2> SUFFICES ASSUME IInv PROVE LoginsAreBounded
    OBVIOUS
  <2>1. TypeOK /\ LoginBudget
    BY DEF IInv, LoginInv
  <2> QED
    BY <2>1, BudgetCounted DEF LoginsAreBounded, LoginBudget
<1>2. QED
  BY <1>1, Invariance, PTL

\* The breaker is open exactly when its failures have reached the threshold.
THEOREM BreakerCorrect == Spec => []BreakerAgrees
<1>1. IInv => BreakerAgrees
  BY DEF IInv
<1>2. QED
  BY <1>1, Invariance, PTL

=============================================================================
