------------------------------ MODULE Limiter -------------------------------
(***************************************************************************)
(* The requestLimiter that the calls, logins and logouts of one Client     *)
(* share (internal/ecs/client.go).  Wait is one step for what it does      *)
(* under the mutex; it sleeps outside of it and looks again when its timer *)
(* has fired.                                                              *)
(*                                                                         *)
(* Time is counted in ticks of the clock, a request costs Unit tokens, and *)
(* Rate tokens come with a tick: the code has fractions of a request per   *)
(* second.                                                                 *)
(***************************************************************************)
EXTENDS Integers

CONSTANTS
  Callers,
  Unit, Rate,    \* config: rateLimit.requestsPerSecond is Rate / Unit per tick
  Burst,         \* config: rateLimit.burst
  MaxTime        \* bound: the clock

\* NewClient refuses other settings.
ASSUME SettingsAssumption ==
  /\ Unit \in Nat \ {0} /\ Rate \in Nat \ {0} /\ Burst \in Nat \ {0}
  /\ MaxTime \in Nat

VARIABLES
  now,           \* the clock
  tokens, last,  \* requestLimiter
  caller,        \* where each caller is
  until,         \* when the timer of a sleeping caller fires
  admitted,      \* how many requests have been let through
  before         \* and how many before the clock came to a time

limiterVars == <<now, tokens, last, caller, until, admitted, before>>

-----------------------------------------------------------------------------
Capacity == Burst * Unit

LimiterInit ==
  /\ now = 0
  /\ tokens = Capacity
  /\ last = 0
  /\ caller = [c \in Callers |-> "idle"]
  /\ until = [c \in Callers |-> 0]
  /\ admitted = 0
  /\ before = [t \in 0..MaxTime |-> 0]

Tick ==
  /\ now < MaxTime
  /\ now' = now + 1
  /\ before' = [before EXCEPT ![now + 1] = admitted]
  /\ UNCHANGED <<tokens, last, caller, until, admitted>>

\* Deviation: tokens pile up while nobody calls.
CreditUncapped == tokens + (now - last) * Rate

\* The tokens there are once the time since the last look is counted.
Credit ==
  IF tokens + (now - last) * Rate < Capacity THEN tokens + (now - last) * Rate ELSE Capacity

\* Until the tokens of a request are there, at least a tick.
Delay == IF Unit - Credit < Rate THEN 1 ELSE (Unit - Credit) \div Rate

Call(c) ==
  /\ caller[c] = "idle"
  /\ caller' = [caller EXCEPT ![c] = "look"]
  /\ UNCHANGED <<now, tokens, last, until, admitted, before>>

\* Wait under the mutex.
Admit(c) ==
  /\ caller[c] = "look"
  /\ Credit >= Unit
  /\ tokens' = Credit - Unit
  /\ last' = now
  /\ admitted' = admitted + 1
  /\ caller' = [caller EXCEPT ![c] = "idle"]
  /\ UNCHANGED <<now, until, before>>

\* Deviation: every sleeper waits for a whole request's worth of time.
SleepFull(c) ==
  /\ caller[c] = "look"
  /\ Credit < Unit
  /\ tokens' = Credit
  /\ last' = now
  /\ until' = [until EXCEPT ![c] = now + Unit]
  /\ caller' = [caller EXCEPT ![c] = "sleep"]
  /\ UNCHANGED <<now, admitted, before>>

Sleep(c) ==
  /\ caller[c] = "look"
  /\ Credit < Unit
  /\ tokens' = Credit
  /\ last' = now
  /\ until' = [until EXCEPT ![c] = now + Delay]
  /\ caller' = [caller EXCEPT ![c] = "sleep"]
  /\ UNCHANGED <<now, admitted, before>>

\* The timer has fired; another caller may have taken the tokens.
Wake(c) ==
  /\ caller[c] = "sleep"
  /\ until[c] <= now
  /\ caller' = [caller EXCEPT ![c] = "look"]
  /\ UNCHANGED <<now, tokens, last, until, admitted, before>>

\* The context of the call is done.
GiveUp(c) ==
  /\ caller[c] = "sleep"
  /\ caller' = [caller EXCEPT ![c] = "idle"]
  /\ UNCHANGED <<now, tokens, last, until, admitted, before>>

LimiterNext ==
  \/ Tick
  \/ \E c \in Callers : Call(c) \/ Admit(c) \/ Sleep(c) \/ Wake(c) \/ GiveUp(c)

LimiterSpec == LimiterInit /\ [][LimiterNext]_limiterVars

-----------------------------------------------------------------------------
(* Properties *)

LimiterTypeOK ==
  /\ now \in 0..MaxTime
  /\ tokens \in 0..Capacity
  /\ last \in 0..now
  /\ caller \in [Callers -> {"idle", "look", "sleep"}]
  /\ until \in [Callers -> Nat]
  /\ admitted \in Nat
  /\ before \in [0..MaxTime -> Nat]

\* In no stretch of time does ECS get more requests than the burst and what the rate
\* adds, however the callers' sleeps and looks interleave (Wait).
RateIsBounded ==
  \A s \in 0..now : (admitted - before[s]) * Unit <= Capacity + (now - s) * Rate

\* A caller sleeps only as long as there are not enough tokens for it, although others
\* take some and give up meanwhile (Wait).
NobodySleepsForNothing ==
  \A c \in Callers : caller[c] = "sleep" /\ until[c] > now => Credit < Unit

-----------------------------------------------------------------------------
(* The inductive invariant *)

\* The tokens are part of what a stretch of time allows.
RateInv ==
  \A s \in 0..now :
    /\ before[s] <= admitted
    /\ s > last => before[s] = admitted
    /\ s <= last =>
         (admitted - before[s]) * Unit + tokens <= Capacity + (last - s) * Rate

\* One tick before a timer fires there are too few tokens.
SleepInv ==
  \A c \in Callers :
    caller[c] = "sleep" /\ until[c] > last =>
      tokens + (until[c] - 1 - last) * Rate < Unit

LimiterInv == LimiterTypeOK /\ RateInv /\ SleepInv

=============================================================================
