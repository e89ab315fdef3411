----------------------------- MODULE EcsClient ------------------------------
(***************************************************************************)
(* The client of one cluster's ECS API (internal/ecs/client.go): the       *)
(* collectors and the bucket workers call DoJSON concurrently, and share   *)
(* its semaphore, the session token of AuthManager and the circuit breaker.*)
(*                                                                         *)
(* A response is reduced to what DoJSON does with it: success, 401, an     *)
(* error to be retried, an error that is final.  Tokens are numbered in    *)
(* the order in which ECS issues them, 0 being the empty token.            *)
(***************************************************************************)
EXTENDS Naturals, FiniteSets

CONSTANTS
  Callers,           \* goroutines that call DoJSON
  Nobody,            \* a mutex without an owner
  Slots,             \* capacity of Client.semaphore
  MaxAttempts,       \* config: retry.maxAttempts
  Threshold,         \* failures that open the breaker (5 in the code)
  OpenTicks,         \* how long it stays open (30 s in the code)
  MaxTokens          \* bound: tokens ECS issues

ASSUME CallersAssumption == IsFiniteSet(Callers)
ASSUME NobodyAssumption == Nobody \notin Callers
ASSUME SlotsAssumption == Slots \in Nat \ {0}
ASSUME AttemptsAssumption == MaxAttempts \in Nat \ {0}
ASSUME ThresholdAssumption == Threshold \in Nat \ {0}
ASSUME BoundsAssumption == OpenTicks \in Nat \ {0} /\ MaxTokens \in Nat

VARIABLES
  pc,                \* where each caller stands in DoJSON
  attempt,           \* the loop variable of DoJSON
  httpAttempt,       \* requests sent for the call
  reauthenticated,   \* the call has answered a 401 with a new login
  held,              \* the token the call sends
  late,              \* the request context of the call has expired
  inUse,             \* number of elements in Client.semaphore
  authMu,            \* owner of AuthManager.mu
  token,             \* AuthManager.token
  issued,            \* the last token ECS issued
  valid,             \* the tokens ECS accepts
  failures,          \* circuitBreaker.failures
  opened,            \* circuitBreaker.openUntil is not zero
  openFor,           \* ticks until openUntil
  life               \* of the process: running, cancelled, closed

locals == <<attempt, httpAttempt, reauthenticated, held, late>>
auth == <<token, issued, valid>>
breaker == <<failures, opened, openFor>>
vars == <<pc, locals, inUse, authMu, auth, breaker, life>>

-----------------------------------------------------------------------------
Labels == {"idle", "slot", "token", "login", "send", "invalidate", "backoff"}

\* A call between taking and giving back its slot.
InSlot(c) == pc[c] \notin {"idle", "slot"}

Init ==
  /\ pc = [c \in Callers |-> "idle"]
  /\ attempt = [c \in Callers |-> 0]
  /\ httpAttempt = [c \in Callers |-> 0]
  /\ reauthenticated = [c \in Callers |-> FALSE]
  /\ held = [c \in Callers |-> 0]
  /\ late = [c \in Callers |-> FALSE]
  /\ inUse = 0
  /\ authMu = Nobody
  /\ token = 0
  /\ issued = 0
  /\ valid = {}
  /\ failures = 0
  /\ opened = FALSE
  /\ openFor = 0
  /\ life = "running"

Goto(c, label) == pc' = [pc EXCEPT ![c] = label]

\* The request context, or the context it is derived from, is done.
Done(c) == late[c] \/ life # "running"

\* Deviation: the slot of a call that fails is not given back.
ReturnKeepingSlot(c, ok) ==
  /\ Goto(c, "idle")
  /\ attempt' = [attempt EXCEPT ![c] = 0]
  /\ httpAttempt' = [httpAttempt EXCEPT ![c] = 0]
  /\ reauthenticated' = [reauthenticated EXCEPT ![c] = FALSE]
  /\ held' = [held EXCEPT ![c] = 0]
  /\ late' = [late EXCEPT ![c] = FALSE]
  /\ inUse' = IF ok THEN inUse - 1 ELSE inUse

\* DoJSON returns: its locals go, its deferred functions run.
Return(c, ok) ==
  /\ Goto(c, "idle")
  /\ attempt' = [attempt EXCEPT ![c] = 0]
  /\ httpAttempt' = [httpAttempt EXCEPT ![c] = 0]
  /\ reauthenticated' = [reauthenticated EXCEPT ![c] = FALSE]
  /\ held' = [held EXCEPT ![c] = 0]
  /\ late' = [late EXCEPT ![c] = FALSE]
  /\ inUse' = inUse - 1

\* Deviation: one failure too many.
FailureOffByOne ==
  /\ failures' = failures + 1
  /\ IF failures > Threshold
     THEN opened' = TRUE /\ openFor' = OpenTicks
     ELSE UNCHANGED <<opened, openFor>>

\* circuitBreaker.Failure.
Failure ==
  /\ failures' = failures + 1
  /\ IF failures + 1 >= Threshold
     THEN opened' = TRUE /\ openFor' = OpenTicks
     ELSE UNCHANGED <<opened, openFor>>

\* Deviation: the loop goes on after the last attempt.
RetryForever(c, retryable) ==
  IF retryable
  THEN Goto(c, "backoff") /\ UNCHANGED <<locals, inUse, breaker>>
  ELSE Return(c, FALSE) /\ UNCHANGED breaker

\* What DoJSON does with an error: another attempt, or the end of the call, which
\* counts against the breaker if the error was a passing one.
Retry(c, retryable) ==
  IF retryable /\ attempt[c] < MaxAttempts
  THEN Goto(c, "backoff") /\ UNCHANGED <<locals, inUse, breaker>>
  ELSE Return(c, FALSE) /\ IF retryable THEN Failure ELSE UNCHANGED breaker

-----------------------------------------------------------------------------
(* The environment *)

\* The signal context is cancelled; the scheduler waits for its goroutines; Logout.
Cancel ==
  /\ life = "running"
  /\ life' = "cancelled"
  /\ UNCHANGED <<pc, locals, inUse, authMu, auth, breaker>>

Logout ==
  /\ life = "cancelled"
  /\ \A c \in Callers : pc[c] = "idle"
  /\ life' = "closed"
  /\ token' = 0
  /\ \E done \in BOOLEAN : valid' = IF done THEN valid \ {token} ELSE valid
  /\ UNCHANGED <<pc, locals, inUse, authMu, issued, breaker>>

Tick ==
  /\ openFor > 0
  /\ openFor' = openFor - 1
  /\ UNCHANGED <<pc, locals, inUse, authMu, auth, failures, opened, life>>

\* ECS ends a session.
Revoke ==
  /\ \E t \in valid : valid' = valid \ {t}
  /\ UNCHANGED <<pc, locals, inUse, authMu, token, issued, breaker, life>>

Expire(c) ==
  /\ InSlot(c)
  /\ ~late[c]
  /\ late' = [late EXCEPT ![c] = TRUE]
  /\ UNCHANGED <<pc, attempt, httpAttempt, reauthenticated, held, inUse, authMu, auth,
                 breaker, life>>

-----------------------------------------------------------------------------
(* DoJSON *)

\* circuitBreaker.Allow; a call it refuses returns at once.
Allow(c) ==
  /\ pc[c] = "idle"
  /\ life # "closed"
  /\ ~(opened /\ openFor > 0)
  /\ IF opened
     THEN opened' = FALSE /\ failures' = 0
     ELSE UNCHANGED <<opened, failures>>
  /\ Goto(c, "slot")
  /\ UNCHANGED <<locals, inUse, authMu, auth, openFor, life>>

TakeSlot(c) ==
  /\ pc[c] = "slot"
  /\ inUse < Slots
  /\ inUse' = inUse + 1
  /\ attempt' = [attempt EXCEPT ![c] = 1]
  /\ Goto(c, "token")
  /\ UNCHANGED <<httpAttempt, reauthenticated, held, late, authMu, auth, breaker, life>>

GiveUp(c) ==
  /\ pc[c] = "slot"
  /\ life # "running"
  /\ Goto(c, "idle")
  /\ UNCHANGED <<locals, inUse, authMu, auth, breaker, life>>

\* Deviation: the cached token is not looked at again under the mutex.
LoginAlways(c) ==
  /\ pc[c] = "token"
  /\ authMu = Nobody
  /\ authMu' = c
  /\ Goto(c, "login")
  /\ UNCHANGED <<locals, inUse, auth, breaker, life>>

\* AuthManager.Token with the mutex: the cached token, or a login that keeps it.
LockToken(c) ==
  /\ pc[c] = "token"
  /\ authMu = Nobody
  /\ IF token # 0
     THEN /\ held' = [held EXCEPT ![c] = token]
          /\ httpAttempt' = [httpAttempt EXCEPT ![c] = @ + 1]
          /\ Goto(c, "send")
          /\ UNCHANGED authMu
     ELSE /\ authMu' = c
          /\ Goto(c, "login")
          /\ UNCHANGED <<held, httpAttempt>>
  /\ UNCHANGED <<attempt, reauthenticated, late, inUse, auth, breaker, life>>

Login(c) ==
  /\ pc[c] = "login"
  /\ issued < MaxTokens
  /\ issued' = issued + 1
  /\ valid' = valid \cup {issued + 1}
  /\ token' = issued + 1
  /\ held' = [held EXCEPT ![c] = issued + 1]
  /\ httpAttempt' = [httpAttempt EXCEPT ![c] = @ + 1]
  /\ authMu' = Nobody
  /\ Goto(c, "send")
  /\ UNCHANGED <<attempt, reauthenticated, late, inUse, breaker, life>>

\* Deviation: a failed login keeps the mutex.
LoginErrorLocked(c) ==
  /\ pc[c] = "login"
  /\ \E retryable \in BOOLEAN : Retry(c, retryable)
  /\ UNCHANGED <<authMu, auth, life>>

LoginError(c) ==
  /\ pc[c] = "login"
  /\ \E retryable \in BOOLEAN : Retry(c, retryable)
  /\ authMu' = Nobody
  /\ UNCHANGED <<auth, life>>

\* A 2xx response that decodes; circuitBreaker.Success.
Succeed(c) ==
  /\ pc[c] = "send"
  /\ held[c] \in valid
  /\ ~Done(c)
  /\ failures' = 0 /\ opened' = FALSE /\ openFor' = 0
  /\ Return(c, TRUE)
  /\ UNCHANGED <<authMu, auth, life>>

\* A 401: the first one of a call leads to Invalidate, the second one is final.
Unauthorized(c) ==
  /\ pc[c] = "send"
  /\ held[c] \notin valid
  /\ IF reauthenticated[c]
     THEN Return(c, FALSE)
     ELSE Goto(c, "invalidate") /\ UNCHANGED <<locals, inUse>>
  /\ UNCHANGED <<authMu, auth, breaker, life>>

\* Every other outcome of the request: 429 and 5xx and transport errors are passing
\* ones; other statuses, a body that is too long or not JSON and a done context not.
SendError(c) ==
  /\ pc[c] = "send"
  /\ \E retryable \in BOOLEAN : Retry(c, retryable)
  /\ UNCHANGED <<authMu, auth, life>>

\* AuthManager.Invalidate, whatever token is cached by now, and the repeated attempt.
Invalidate(c) ==
  /\ pc[c] = "invalidate"
  /\ authMu = Nobody
  /\ token' = 0
  /\ reauthenticated' = [reauthenticated EXCEPT ![c] = TRUE]
  /\ Goto(c, "token")
  /\ UNCHANGED <<attempt, httpAttempt, held, late, inUse, authMu, issued, valid, breaker,
                 life>>

\* waitBackoff: the timer, or the context.
Backoff(c) ==
  /\ pc[c] = "backoff"
  /\ \/ /\ attempt' = [attempt EXCEPT ![c] = @ + 1]
        /\ Goto(c, "token")
        /\ UNCHANGED <<httpAttempt, reauthenticated, held, late, inUse>>
     \/ Done(c) /\ Return(c, FALSE)
  /\ UNCHANGED <<authMu, auth, breaker, life>>

\* Between two locks the call goes on by itself: connect, read and request timeouts
\* bound every wait.
Proceed(c) ==
  \/ GiveUp(c) \/ Login(c) \/ LoginError(c)
  \/ Succeed(c) \/ Unauthorized(c) \/ SendError(c) \/ Backoff(c)

Lock(c) == TakeSlot(c) \/ LockToken(c) \/ Invalidate(c)

Closed == life = "closed" /\ UNCHANGED vars

Next ==
  \/ Cancel \/ Logout \/ Tick \/ Revoke \/ Closed
  \/ \E c \in Callers : Expire(c) \/ Allow(c) \/ Lock(c) \/ Proceed(c)

Spec == Init /\ [][Next]_vars

\* Goroutines that wait for a mutex or for a channel are served in turn.
Fairness == \A c \in Callers : WF_vars(Proceed(c)) /\ SF_vars(Lock(c))

FairSpec == Spec /\ Fairness

-----------------------------------------------------------------------------
(* Properties *)

TypeOK ==
  /\ pc \in [Callers -> Labels]
  /\ attempt \in [Callers -> 0 .. MaxAttempts]
  /\ httpAttempt \in [Callers -> Nat]
  /\ reauthenticated \in [Callers -> BOOLEAN]
  /\ held \in [Callers -> 0 .. issued]
  /\ late \in [Callers -> BOOLEAN]
  /\ inUse \in 0 .. Slots
  /\ authMu \in Callers \cup {Nobody}
  /\ token \in 0 .. issued
  /\ issued \in 0 .. MaxTokens
  /\ valid \subseteq 1 .. issued
  /\ failures \in Nat
  /\ opened \in BOOLEAN
  /\ openFor \in 0 .. OpenTicks
  /\ life \in {"running", "cancelled", "closed"}

\* Every path out of DoJSON gives the slot back, once.
SlotsAreReturned == inUse = Cardinality({c \in Callers : InSlot(c)})

\* attempt-- after a 401 buys a call exactly one request more than retry.maxAttempts.
RequestsAreBounded ==
  \A c \in Callers : httpAttempt[c] <= MaxAttempts + (IF reauthenticated[c] THEN 1 ELSE 0)

Lost == (1 .. issued) \ valid

\* A session that ECS ended costs each caller one login at most, although Invalidate
\* throws away whatever token is cached when a late 401 arrives.
LoginsAreBounded == issued <= 1 + Cardinality(Callers) * Cardinality(Lost)

\* The breaker counts towards its threshold and is open from there on: failures that
\* reach it are never left without an opening, and an open breaker has them.
BreakerAgrees == opened <=> failures >= Threshold

\* Every call returns.
CallsReturn == \A c \in Callers : pc[c] # "idle" ~> pc[c] = "idle"

-----------------------------------------------------------------------------
(* The inductive invariant *)

Extra(c) == IF reauthenticated[c] THEN 1 ELSE 0

\* How far a call is, against the requests it has sent.
CallInv ==
  \A c \in Callers :
    /\ ~InSlot(c) => attempt[c] = 0 /\ httpAttempt[c] = 0 /\ ~reauthenticated[c]
    /\ InSlot(c) => attempt[c] \in 1 .. MaxAttempts
    /\ pc[c] \in {"token", "login"} => httpAttempt[c] <= attempt[c] - 1 + Extra(c)
    /\ pc[c] \in {"send", "backoff"} => httpAttempt[c] <= attempt[c] + Extra(c)
    /\ pc[c] = "backoff" => attempt[c] < MaxAttempts
    /\ pc[c] = "invalidate" => ~reauthenticated[c] /\ httpAttempt[c] <= attempt[c]

\* AuthManager.mu is held over the HTTP request of a login.
AuthInv == \A c \in Callers : authMu = c <=> pc[c] = "login"

\* Callers that may still answer the loss of a token with Invalidate: all of them while it is
\* cached, afterwards those that have sent it.
Pending ==
  {p \in Callers \X Lost :
     \/ p[2] = token
     \/ pc[p[1]] \in {"send", "invalidate"} /\ held[p[1]] = p[2]}

\* Logins so far and those that pending answers may lead to, against one login for every
\* caller and lost token, and the login that the cached token is from.
LoginBudget ==
  issued + Cardinality(Pending) <=
    Cardinality(Callers) * Cardinality(Lost) + (IF token # 0 \/ life = "closed" THEN 1 ELSE 0)

\* What keeps the budget: nobody logs in over a cached token or after Logout, a call that
\* sends has a token, and one that comes to Invalidate has lost it.
LoginInv ==
  /\ authMu # Nobody => token = 0
  /\ life = "closed" => \A c \in Callers : pc[c] = "idle"
  /\ \A c \in Callers :
       /\ pc[c] \in {"send", "invalidate"} => held[c] # 0
       /\ pc[c] = "invalidate" => held[c] \notin valid
  /\ LoginBudget

IInv ==
  /\ TypeOK /\ CallInv /\ AuthInv /\ LoginInv
  /\ SlotsAreReturned /\ BreakerAgrees

=============================================================================
