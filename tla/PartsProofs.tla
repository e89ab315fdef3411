----------------------------- MODULE PartsProofs -----------------------------
(***************************************************************************)
(* Theorems about three parts of small state, for any settings, and about  *)
(* the composition of the five.  The Limiter keeps its rate and lets       *)
(* nobody sleep for nothing; the Backoff waits neither too short nor too   *)
(* long; the Inventory's pages are the list that was asked for, and none   *)
(* is sliced out of bounds.                                                *)
(***************************************************************************)
EXTENDS MCParts, FluxResourcesProofs, FluxPerformanceProofs,
        FiniteSetTheorems, FunctionTheorems, SequenceTheorems, TLAPS

-----------------------------------------------------------------------------
(* Numbers *)

\* Products distribute.
LEMMA Distribute ==
  ASSUME NEW a \in Int, NEW b \in Int, NEW k \in Int
  PROVE  (a + b) * k = a * k + b * k
OBVIOUS

\* Products grow with their factors.
LEMMA Monotone ==
  ASSUME NEW a \in Int, NEW b \in Int, NEW k \in Nat, a <= b
  PROVE  a * k <= b * k
<1>1. b * k = a * k + (b - a) * k
  <2>1. b = a + (b - a)
    OBVIOUS
  <2> QED BY <2>1, Distribute
<1>2. (b - a) \in Nat
  OBVIOUS
<1>3. (b - a) * k >= 0
  BY <1>2
<1>4. a * k \in Int /\ (b - a) * k \in Int
  OBVIOUS
<1> QED BY <1>1, <1>3, <1>4

\* The whole part of a quotient.
LEMMA Quotient ==
  ASSUME NEW a \in Nat, NEW b \in Nat \ {0}
  PROVE  /\ a \div b \in Nat
         /\ (a \div b) * b \in Nat /\ (a \div b) * b <= a
         /\ a < (a \div b) * b + b
<1> DEFINE q == a \div b
<1>1. q \in Nat /\ q * b <= a
  OBVIOUS
<1>2. a < q * b + b
  OBVIOUS
<1>3. q * b \in Nat
  BY <1>1
<1> QED BY <1>1, <1>2, <1>3

\* A power of two is the number of the sets of as many numbers.
Sets(n) == SUBSET (1..n)

\* The powers of two are numbers.
LEMMA PowerCounts ==
  ASSUME NEW n \in Nat
  PROVE  IsFiniteSet(Sets(n)) /\ Cardinality(Sets(n)) = 2 ^ n /\ 2 ^ n \in Nat
<1>1. IsFiniteSet(1..n) /\ Cardinality(1..n) = n
  BY FS_Interval
<1>2. IsFiniteSet(Sets(n)) /\ Cardinality(Sets(n)) = 2 ^ Cardinality(1..n)
  BY <1>1, FS_SUBSET, Zenon DEF Sets
<1>3. Cardinality(Sets(n)) \in Nat
  BY <1>2, FS_CardinalityType, Zenon
<1>4. Cardinality(Sets(n)) = 2 ^ n
  BY <1>1, <1>2, Zenon
<1>5. 2 ^ n \in Nat
  BY <1>3, <1>4, Zenon
<1> QED BY <1>2, <1>4, <1>5, Zenon

\* A power is twice the one before: the sets without the last number and those with it.
LEMMA PowerDoubles ==
  ASSUME NEW n \in Nat
  PROVE  2 ^ (n + 1) = 2 * 2 ^ n
<1> DEFINE with == {s \cup {n + 1} : s \in Sets(n)}
           map == [s \in Sets(n) |-> s \cup {n + 1}]
<1>1. /\ IsFiniteSet(Sets(n)) /\ Cardinality(Sets(n)) = 2 ^ n /\ 2 ^ n \in Nat
      /\ Cardinality(Sets(n + 1)) = 2 ^ (n + 1)
  <2>1. n + 1 \in Nat
    OBVIOUS
  <2> QED BY <2>1, PowerCounts, Zenon
<1>2. \A s \in Sets(n) : n + 1 \notin s
  BY DEF Sets
<1>3. map \in Bijection(Sets(n), with)
  <2>1. \A s, t \in Sets(n) : map[s] = map[t] => s = t
    <3> SUFFICES ASSUME NEW s \in Sets(n), NEW t \in Sets(n), s \cup {n + 1} = t \cup {n + 1}
                 PROVE  s = t
      OBVIOUS
    <3>1. n + 1 \notin s /\ n + 1 \notin t
      BY <1>2
    <3> QED BY <3>1
  <2>2. \A w \in with : \E s \in Sets(n) : map[s] = w
    OBVIOUS
  <2>3. map \in [Sets(n) -> with]
    OBVIOUS
  <2> HIDE DEF map, with
  <2> QED BY <2>1, <2>2, <2>3, Fun_IsBij
<1>4. IsFiniteSet(with) /\ Cardinality(with) = Cardinality(Sets(n))
  <2>1. ExistsBijection(Sets(n), with)
    BY <1>3, Zenon DEF ExistsBijection
  <2> HIDE DEF with
  <2> QED BY <1>1, <2>1, FS_Bijection
<1>5. Sets(n) \cap with = {}
  BY <1>2
<1>6. Sets(n + 1) = Sets(n) \cup with
  <2>1. 1..(n + 1) = (1..n) \cup {n + 1}
    OBVIOUS
  <2>2. ASSUME NEW s \in Sets(n + 1) PROVE s \in Sets(n) \cup with
    <3>1. CASE n + 1 \in s
      <4>1. s \ {n + 1} \in Sets(n) /\ s = (s \ {n + 1}) \cup {n + 1}
        BY <2>1, <3>1 DEF Sets
      <4> QED BY <4>1
    <3>2. CASE n + 1 \notin s
      BY <2>1, <3>2 DEF Sets
    <3> QED BY <3>1, <3>2
  <2>3. Sets(n) \subseteq Sets(n + 1) /\ with \subseteq Sets(n + 1)
    BY <2>1 DEF Sets
  <2> QED BY <2>2, <2>3
<1>7. Cardinality(Sets(n + 1)) = Cardinality(Sets(n)) + Cardinality(with) - Cardinality({})
  <2> HIDE DEF with
  <2> QED BY <1>1, <1>4, <1>5, <1>6, FS_Union
<1>8. Cardinality({}) = 0
  BY FS_EmptySet
<1> HIDE DEF with
<1> QED BY <1>1, <1>4, <1>7, <1>8

\* A power is at least one that comes before it.
LEMMA PowerGrows ==
  ASSUME NEW m \in Nat, NEW n \in Nat, m <= n
  PROVE  2 ^ m <= 2 ^ n
<1>1. Sets(m) \subseteq Sets(n)
  BY DEF Sets
<1>2. /\ IsFiniteSet(Sets(n)) /\ Cardinality(Sets(n)) = 2 ^ n
      /\ Cardinality(Sets(m)) = 2 ^ m
  BY PowerCounts, Zenon
<1>3. Cardinality(Sets(m)) <= Cardinality(Sets(n))
  BY <1>1, <1>2, FS_Subset
<1> QED BY <1>2, <1>3, Zenon

\* Numbers a machine integer can hold do not wrap around.
LEMMA NotWrapped ==
  ASSUME NEW x \in 0..MaxInt
  PROVE  Wrapped(x) = x
<1> DEFINE m == MaxInt + 1
<1>1. MaxInt \in Nat
  BY MaxIntAssumption
<1>2. x + m \in Int /\ 2 * m \in Int /\ 2 * m > 0 /\ 0 <= x + m /\ x + m < 2 * m
  BY <1>1
<1>3. ASSUME NEW a \in Int, NEW b \in Int, b > 0, 0 <= a, a < b PROVE a % b = a
  BY <1>3
<1>4. (x + m) % (2 * m) = x + m
  BY <1>2, <1>3
<1>5. Wrapped(x) = ((x + MaxInt + 1) % (2 * (MaxInt + 1))) - (MaxInt + 1)
  BY DEF Wrapped
<1>6. x + MaxInt + 1 = x + m
  BY <1>1
<1>7. Wrapped(x) = (x + m) - m
  BY <1>4, <1>5, <1>6
<1> QED BY <1>1, <1>7

\* A set of natural numbers has a least element.
LEMMA LeastNatural ==
  ASSUME NEW T \in SUBSET Nat, T # {}
  PROVE  \E m \in T : \A n \in T : m <= n
<1>1. PICK m \in T : \A n \in T : <<n, m>> \notin OpToRel(<, Nat)
  BY NatLessThanWellFounded, WFMin
<1>2. ASSUME NEW n \in T, n < m PROVE FALSE
  <2>1. <<n, m>> \in Nat \X Nat /\ <<n, m>>[1] < <<n, m>>[2]
    BY <1>2
  <2>2. <<n, m>> \in OpToRel(<, Nat)
    BY <2>1 DEF OpToRel
  <2> QED BY <1>1, <2>2
<1>3. \A n \in T : m <= n
  BY <1>2
<1> QED BY <1>3

-----------------------------------------------------------------------------
(* Limiter *)

\* The time since the last look is counted to its end (Wait).
LEMMA CreditFacts ==
  ASSUME LimiterTypeOK
  PROVE  /\ Capacity \in Nat /\ Credit \in 0..Capacity
         /\ (now - last) * Rate \in Nat
         /\ Credit <= tokens + (now - last) * Rate
         /\ tokens + (now - last) * Rate < Unit => Credit < Unit
<1>1. Capacity \in Nat
  BY SettingsAssumption DEF Capacity
<1>2. now - last \in Nat /\ Rate \in Nat
  BY SettingsAssumption DEF LimiterTypeOK
<1>3. (now - last) * Rate \in Nat
  BY <1>2
<1>4. tokens \in 0..Capacity /\ Unit \in Nat
  BY SettingsAssumption DEF LimiterTypeOK
<1> HIDE DEF Capacity
<1> QED BY <1>1, <1>3, <1>4 DEF Credit

\* The pause is a tick, or ends before there are enough tokens and a tick's worth more.
LEMMA DelayFacts ==
  ASSUME LimiterTypeOK, Credit < Unit
  PROVE  Delay \in Nat /\ Credit + (Delay - 1) * Rate < Unit
<1>1. Credit \in Nat /\ Unit \in Nat /\ Rate \in Nat \ {0}
  BY CreditFacts, SettingsAssumption
<1>2. CASE Unit - Credit < Rate
  <2>1. Delay = 1 /\ (1 - 1) * Rate = 0
    BY <1>1, <1>2 DEF Delay
  <2> QED BY <1>1, <2>1
<1>3. CASE ~(Unit - Credit < Rate)
  <2> DEFINE m == Unit - Credit
             d == m \div Rate
  <2>1. Delay = d
    BY <1>3 DEF Delay
  <2>2. m \in Nat
    BY <1>1
  <2> HIDE DEF m
  <2>3. d \in Nat /\ d * Rate <= m
    BY <1>1, <2>2
  <2> HIDE DEF d
  <2>4. (d - 1) * Rate = d * Rate - Rate
    BY <1>1, <2>3, Distribute
  <2>5. d * Rate \in Nat
    BY <1>1, <2>3
  <2> QED BY <1>1, <2>1, <2>3, <2>4, <2>5 DEF m
<1> QED BY <1>2, <1>3

\* The tokens of two stretches of time are those of both together.
LEMMA Stretches ==
  ASSUME NEW a \in Int, NEW b \in Int, NEW c \in Int
  PROVE  (a - b) * Rate + (b - c) * Rate = (a - c) * Rate
<1>1. Rate \in Int /\ a - b \in Int /\ b - c \in Int
  BY SettingsAssumption
<1>2. ((a - b) + (b - c)) * Rate = (a - b) * Rate + (b - c) * Rate
  BY <1>1, Distribute
<1>3. (a - b) + (b - c) = a - c
  OBVIOUS
<1> QED BY <1>2, <1>3

\* A look counts the time since the last one and takes a request's tokens or none (Wait).
LEMMA LookRate ==
  ASSUME LimiterTypeOK, RateInv, NEW s \in 0..now
  PROVE  /\ before[s] <= admitted
         /\ (admitted - before[s]) * Unit + Credit <= Capacity + (now - s) * Rate
<1> DEFINE sent == (admitted - before[s]) * Unit
<1>1. /\ now \in Nat /\ last \in Nat /\ last <= now /\ now <= MaxTime /\ s \in Nat /\ s <= now
      /\ Unit \in Nat /\ Rate \in Nat /\ Capacity \in Nat /\ tokens \in Nat
      /\ admitted \in Nat
  BY CreditFacts, SettingsAssumption DEF LimiterTypeOK
<1>2. before[s] \in Nat
  BY <1>1, SettingsAssumption DEF LimiterTypeOK
<1>3. before[s] <= admitted
  BY DEF RateInv
<1> DEFINE allowed == (now - s) * Rate
           earlier == (last - s) * Rate
           since == (now - last) * Rate
<1>4. sent \in Int /\ allowed \in Int /\ earlier \in Int /\ since \in Int
  BY <1>1, <1>2
<1>5. Credit \in Nat /\ Credit <= Capacity /\ Credit <= tokens + since
  BY <1>1, CreditFacts
<1>6. CASE s > last
  <2>1. admitted - before[s] = 0
    BY <1>1, <1>2, <1>6 DEF RateInv
  <2>2. sent = 0
    BY <1>1, <2>1
  <2>3. allowed >= 0
    BY <1>1
  <2> HIDE DEF sent, allowed
  <2>4. sent + Credit <= Capacity + allowed
    BY <1>1, <1>4, <1>5, <2>2, <2>3
  <2> QED BY <1>3, <2>4 DEF sent, allowed
<1>7. CASE s <= last
  <2>1. sent + tokens <= Capacity + earlier
    BY <1>7 DEF RateInv
  <2>2. since + earlier = allowed
    BY <1>1, Stretches
  <2> HIDE DEF sent, allowed, earlier, since
  <2>3. sent + Credit <= Capacity + allowed
    BY <1>1, <1>4, <1>5, <2>1, <2>2
  <2> QED BY <1>3, <2>3 DEF sent, allowed
<1> QED BY <1>1, <1>6, <1>7

\* After a look, a sleeper still sleeps until a tick after there are too few tokens (Wait).
LEMMA LookSleep ==
  ASSUME LimiterTypeOK, SleepInv, NEW c \in Callers,
         caller[c] = "sleep", until[c] > now
  PROVE  Credit + (until[c] - 1 - now) * Rate < Unit
<1>1. /\ now \in Nat /\ last \in Nat /\ last <= now /\ until[c] \in Nat
      /\ Unit \in Nat /\ Rate \in Nat /\ tokens \in Nat
  BY CreditFacts, SettingsAssumption DEF LimiterTypeOK
<1>2. tokens + (until[c] - 1 - last) * Rate < Unit
  BY <1>1 DEF SleepInv
<1>3. until[c] - 1 \in Int
  BY <1>1
<1>4. (until[c] - 1 - now) * Rate + (now - last) * Rate = (until[c] - 1 - last) * Rate
  BY <1>1, <1>3, Stretches
<1>5. (until[c] - 1 - now) * Rate \in Int
  BY <1>1
<1> QED BY <1>1, <1>2, <1>4, <1>5, CreditFacts

-----------------------------------------------------------------------------
\* A limiter starts with a full bucket (newRequestLimiter).
LEMMA LimiterInitInv == LimiterInit => LimiterInv
<1> SUFFICES ASSUME LimiterInit PROVE LimiterInv
  OBVIOUS
<1>1. Capacity \in Nat
  BY SettingsAssumption DEF Capacity
<1>2. LimiterTypeOK
  BY <1>1, SettingsAssumption DEF LimiterTypeOK, LimiterInit
<1>3. RateInv
  <2> SUFFICES ASSUME NEW s \in 0..now
               PROVE  /\ before[s] <= admitted
                      /\ s > last => before[s] = admitted
                      /\ s <= last =>
                           (admitted - before[s]) * Unit + tokens <= Capacity + (last - s) * Rate
    BY DEF RateInv
  <2>1. s = 0 /\ before[s] = 0 /\ admitted = 0 /\ last = 0 /\ tokens = Capacity
    BY SettingsAssumption DEF LimiterInit
  <2>2. (0 - 0) * Unit = 0 /\ (0 - 0) * Rate = 0
    BY SettingsAssumption
  <2> QED BY <1>1, <2>1, <2>2
<1>4. SleepInv
  BY DEF SleepInv, LimiterInit
<1> QED BY <1>2, <1>3, <1>4 DEF LimiterInv

\* The clock does not touch the limiter.
LEMMA TickInv == LimiterInv /\ Tick => LimiterInv'
<1> SUFFICES ASSUME LimiterInv, Tick PROVE LimiterInv'
  OBVIOUS
<1> USE DEF Tick
<1>1. /\ now \in Nat /\ last \in Nat /\ last <= now /\ now < MaxTime /\ MaxTime \in Nat
      /\ admitted \in Nat /\ before \in [0..MaxTime -> Nat]
  BY SettingsAssumption DEF LimiterInv, LimiterTypeOK
<1>2. LimiterTypeOK'
  BY <1>1 DEF LimiterInv, LimiterTypeOK, Capacity
<1>3. RateInv'
  <2> SUFFICES ASSUME NEW s \in 0..(now + 1)
               PROVE  /\ before'[s] <= admitted
                      /\ s > last => before'[s] = admitted
                      /\ s <= last =>
                           (admitted - before'[s]) * Unit + tokens <= Capacity + (last - s) * Rate
    BY DEF RateInv, Capacity
  <2>1. CASE s = now + 1
    <3>1. before'[s] = admitted /\ s > last
      BY <1>1, <2>1
    <3> QED BY <1>1, <3>1
  <2>2. CASE s \in 0..now
    <3>1. before'[s] = before[s]
      BY <1>1, <2>2
    <3> QED BY <2>2, <3>1 DEF LimiterInv, RateInv
  <2> QED BY <1>1, <2>1, <2>2
<1>4. SleepInv'
  BY DEF LimiterInv, SleepInv
<1> QED BY <1>2, <1>3, <1>4 DEF LimiterInv

\* Calls, timers and contexts touch neither tokens nor clock, and wake at most.
LEMMA CallerInv ==
  ASSUME LimiterInv, NEW c \in Callers, Call(c) \/ Wake(c) \/ GiveUp(c)
  PROVE  LimiterInv'
<1>1. /\ UNCHANGED <<now, tokens, last, until, admitted, before>>
      /\ \E p \in {"idle", "look"} : caller' = [caller EXCEPT ![c] = p]
  BY DEF Call, Wake, GiveUp
<1>2. LimiterTypeOK'
  BY <1>1 DEF LimiterInv, LimiterTypeOK, Capacity
<1>3. RateInv'
  BY <1>1 DEF LimiterInv, RateInv, Capacity
<1>4. SleepInv'
  BY <1>1 DEF LimiterInv, LimiterTypeOK, SleepInv
<1> QED BY <1>2, <1>3, <1>4 DEF LimiterInv

\* A request is let through (Wait).
LEMMA AdmitInv ==
  ASSUME LimiterInv, NEW c \in Callers, Admit(c)
  PROVE  LimiterInv'
<1> USE DEF Admit
<1>1. /\ Credit \in Nat /\ Credit >= Unit /\ Credit <= Capacity /\ Capacity \in Nat
      /\ Unit \in Nat /\ Rate \in Nat /\ now \in Nat /\ admitted \in Nat
      /\ now <= MaxTime /\ before \in [0..MaxTime -> Nat]
  BY CreditFacts, SettingsAssumption DEF LimiterInv, LimiterTypeOK
<1>2. LimiterTypeOK'
  <2>1. Credit - Unit \in 0..Capacity
    BY <1>1
  <2> QED BY <1>1, <2>1 DEF LimiterInv, LimiterTypeOK, Capacity
<1>3. RateInv'
  <2> SUFFICES ASSUME NEW s \in 0..now
               PROVE  /\ before[s] <= admitted'
                      /\ ~(s > now)
                      /\ (admitted' - before[s]) * Unit + tokens' <= Capacity' + (now - s) * Rate
    BY DEF RateInv
  <2> DEFINE sent == (admitted - before[s]) * Unit
             allowed == (now - s) * Rate
  <2>1. before[s] \in Nat /\ s \in Nat /\ s <= now
    BY <1>1, SettingsAssumption
  <2>2. /\ before[s] <= admitted
        /\ sent + Credit <= Capacity + allowed
    BY LookRate DEF LimiterInv
  <2>3. admitted' = admitted + 1 /\ tokens' = Credit - Unit
    OBVIOUS
  <2>4. admitted' - before[s] = (admitted - before[s]) + 1
    BY <1>1, <2>1, <2>3
  <2>5. ((admitted - before[s]) + 1) * Unit = sent + 1 * Unit
    BY <1>1, <2>1, Distribute
  <2>6. sent \in Int /\ allowed \in Int /\ 1 * Unit = Unit
    BY <1>1, <2>1
  <2>7. (admitted' - before[s]) * Unit = sent + Unit
    BY <2>4, <2>5, <2>6, Zenon
  <2>8. (admitted' - before[s]) * Unit + tokens' <= Capacity + allowed
    <3> HIDE DEF Admit, sent, allowed
    <3>1. sent + Unit + tokens' <= Capacity + allowed
      BY <1>1, <2>2, <2>3, <2>6
    <3> QED BY <2>7, <3>1, Zenon
  <2>9. Capacity' = Capacity
    BY DEF Capacity
  <2> QED BY <1>1, <2>1, <2>2, <2>8, <2>9 DEF allowed
<1>4. SleepInv'
  <2> SUFFICES ASSUME NEW x \in Callers, caller'[x] = "sleep", until[x] > now
               PROVE  (Credit - Unit) + (until[x] - 1 - now) * Rate < Unit
    BY DEF SleepInv
  <2>1. caller[x] = "sleep" /\ until[x] \in Nat
    BY DEF LimiterInv, LimiterTypeOK
  <2>2. Credit + (until[x] - 1 - now) * Rate < Unit
    BY <2>1, LookSleep DEF LimiterInv
  <2>3. (until[x] - 1 - now) * Rate \in Int
    BY <1>1, <2>1
  <2> QED BY <1>1, <2>2, <2>3
<1> QED BY <1>2, <1>3, <1>4 DEF LimiterInv

\* A caller goes to sleep for as long as it takes (Wait).
LEMMA SleepStepInv ==
  ASSUME LimiterInv, NEW c \in Callers, Sleep(c)
  PROVE  LimiterInv'
<1> USE DEF Sleep
<1>1. /\ Credit \in 0..Capacity /\ Credit < Unit /\ Capacity \in Nat
      /\ Unit \in Nat /\ Rate \in Nat /\ now \in Nat
      /\ Delay \in Nat /\ Credit + (Delay - 1) * Rate < Unit
  <2>1. LimiterTypeOK /\ Credit < Unit
    BY DEF LimiterInv
  <2>2. Delay \in Nat /\ Credit + (Delay - 1) * Rate < Unit
    BY <2>1, DelayFacts
  <2>3. /\ Credit \in 0..Capacity /\ Capacity \in Nat
        /\ Unit \in Nat /\ Rate \in Nat /\ now \in Nat
    BY <2>1, CreditFacts, SettingsAssumption DEF LimiterTypeOK
  <2> QED BY <2>1, <2>2, <2>3
<1>2. LimiterTypeOK'
  BY <1>1 DEF LimiterInv, LimiterTypeOK, Capacity
<1>3. RateInv'
  <2> SUFFICES ASSUME NEW s \in 0..now
               PROVE  /\ before[s] <= admitted
                      /\ s <= now
                      /\ (admitted - before[s]) * Unit + Credit <= Capacity + (now - s) * Rate
    BY <1>1 DEF RateInv, Capacity
  <2> QED BY <1>1, LookRate DEF LimiterInv
<1>4. SleepInv'
  <2> SUFFICES ASSUME NEW x \in Callers, caller'[x] = "sleep", until'[x] > now
               PROVE  Credit + (until'[x] - 1 - now) * Rate < Unit
    BY DEF SleepInv
  <2>1. CASE x = c
    <3>1. until'[x] = now + Delay
      BY <2>1 DEF LimiterInv, LimiterTypeOK
    <3>2. until'[x] - 1 - now = Delay - 1
      BY <1>1, <3>1
    <3> QED BY <1>1, <3>2
  <2>2. CASE x # c
    <3>1. caller[x] = "sleep" /\ until'[x] = until[x]
      BY <2>2 DEF LimiterInv, LimiterTypeOK
    <3> QED BY <3>1, LookSleep DEF LimiterInv
  <2> QED BY <2>1, <2>2
<1> QED BY <1>2, <1>3, <1>4 DEF LimiterInv

-----------------------------------------------------------------------------
\* The inductive invariant of the limiter holds, for any settings and any callers.
THEOREM LimiterInvariance == LimiterSpec => []LimiterInv
<1>1. LimiterInit => LimiterInv
  BY LimiterInitInv
<1>2. LimiterInv /\ [LimiterNext]_limiterVars => LimiterInv'
  <2> SUFFICES ASSUME LimiterInv, [LimiterNext]_limiterVars PROVE LimiterInv'
    OBVIOUS
  <2>1. CASE Tick
    BY <2>1, TickInv
  <2>2. ASSUME NEW c \in Callers, Call(c) \/ Wake(c) \/ GiveUp(c) PROVE LimiterInv'
    BY <2>2, CallerInv
  <2>3. ASSUME NEW c \in Callers, Admit(c) PROVE LimiterInv'
    BY <2>3, AdmitInv
  <2>4. ASSUME NEW c \in Callers, Sleep(c) PROVE LimiterInv'
    BY <2>4, SleepStepInv
  <2>5. CASE UNCHANGED limiterVars
    BY <2>5 DEF limiterVars, LimiterInv, LimiterTypeOK, RateInv, SleepInv, Capacity
  <2> QED BY <2>1, <2>2, <2>3, <2>4, <2>5 DEF LimiterNext
<1> QED BY <1>1, <1>2, PTL DEF LimiterSpec

\* No stretch of time sees more requests than burst and rate allow (Wait).
THEOREM RateCorrect == LimiterSpec => []RateIsBounded
<1>1. LimiterInv => RateIsBounded
  <2> SUFFICES ASSUME LimiterInv, NEW s \in 0..now
               PROVE  (admitted - before[s]) * Unit <= Capacity + (now - s) * Rate
    BY DEF RateIsBounded
  <2>1. /\ Credit \in Nat /\ Capacity \in Nat /\ now \in Nat /\ admitted \in Nat
        /\ Unit \in Nat /\ Rate \in Nat /\ before[s] \in Nat /\ s \in Nat
    BY CreditFacts, SettingsAssumption DEF LimiterInv, LimiterTypeOK
  <2>2. (admitted - before[s]) * Unit + Credit <= Capacity + (now - s) * Rate
    BY LookRate DEF LimiterInv
  <2>3. (admitted - before[s]) * Unit \in Int /\ (now - s) * Rate \in Int
    BY <2>1
  <2> QED BY <2>1, <2>2, <2>3
<1> QED BY <1>1, LimiterInvariance, PTL

\* A sleeping caller's tokens are not there before its timer fires (Wait).
THEOREM SleepCorrect == LimiterSpec => []NobodySleepsForNothing
<1>1. LimiterInv => NobodySleepsForNothing
  <2> SUFFICES ASSUME LimiterInv, NEW c \in Callers, caller[c] = "sleep", until[c] > now
               PROVE  Credit < Unit
    BY DEF NobodySleepsForNothing
  <2>1. /\ Credit \in Nat /\ Unit \in Nat /\ Rate \in Nat /\ now \in Nat
        /\ until[c] \in Nat
    BY CreditFacts, SettingsAssumption DEF LimiterInv, LimiterTypeOK
  <2>2. Credit + (until[c] - 1 - now) * Rate < Unit
    BY LookSleep DEF LimiterInv
  <2>3. (until[c] - 1 - now) * Rate \in Nat
    BY <2>1
  <2> QED BY <2>1, <2>2, <2>3
<1> QED BY <1>1, LimiterInvariance, PTL

-----------------------------------------------------------------------------
(* Backoff *)

\* The pause of an attempt is a number, twice the one before and no less than any before
\* (waitBackoff).
LEMMA DoubledFacts ==
  ASSUME BackoffTypeOK, NEW n \in Nat \ {0}
  PROVE  /\ Doubled(1) = InitialBackoff
         /\ Doubled(n) \in Nat
         /\ Doubled(n + 1) = 2 * Doubled(n)
         /\ \A k \in 1..n : Doubled(k) <= Doubled(n)
<1>1. InitialBackoff \in Nat
  BY MaxIntAssumption DEF BackoffTypeOK
<1>2. n - 1 \in Nat /\ (n - 1) + 1 = n /\ (n + 1) - 1 = n /\ 1 - 1 = 0
  OBVIOUS
<1>3. 2 ^ (n - 1) \in Nat
  BY <1>2, PowerCounts
<1>4. 2 ^ 0 = 1
  <2>1. Cardinality(Sets(0)) = 2 ^ 0
    BY PowerCounts
  <2>2. Sets(0) = {{}}
    BY DEF Sets
  <2>3. Cardinality({{}}) = 1
    BY FS_Singleton
  <2> QED BY <2>1, <2>2, <2>3
<1>5. Doubled(1) = InitialBackoff
  <2>1. InitialBackoff * 1 = InitialBackoff
    BY <1>1
  <2> QED BY <1>2, <1>4, <2>1, Zenon DEF Doubled
<1>6. Doubled(n) \in Nat
  <2> DEFINE p == 2 ^ (n - 1)
  <2> HIDE DEF p
  <2>1. p \in Nat
    BY <1>3 DEF p
  <2>2. InitialBackoff * p \in Nat
    BY <1>1, <2>1
  <2> QED BY <2>2, Zenon DEF p, Doubled
<1>7. Doubled(n + 1) = 2 * Doubled(n)
  <2> DEFINE p == 2 ^ (n - 1)
             q == 2 ^ n
  <2>1. q = 2 * p /\ p \in Nat
    BY <1>2, <1>3, PowerDoubles, Zenon
  <2>2. Doubled(n + 1) = InitialBackoff * q /\ Doubled(n) = InitialBackoff * p
    BY <1>2, Zenon DEF Doubled
  <2> HIDE DEF p, q
  <2>3. InitialBackoff * (2 * p) = 2 * (InitialBackoff * p)
    BY <1>1, <2>1
  <2> QED BY <2>1, <2>2, <2>3, Zenon
<1>8. ASSUME NEW k \in 1..n PROVE Doubled(k) <= Doubled(n)
  <2> DEFINE p == 2 ^ (k - 1)
             q == 2 ^ (n - 1)
  <2>1. k - 1 \in Nat /\ k - 1 <= n - 1
    OBVIOUS
  <2>2. p \in Nat /\ q \in Nat /\ p <= q
    BY <1>2, <2>1, PowerCounts, PowerGrows, Zenon
  <2>3. Doubled(k) = InitialBackoff * p /\ Doubled(n) = InitialBackoff * q
    BY DEF Doubled
  <2> HIDE DEF p, q
  <2>4. InitialBackoff * q = InitialBackoff * p + InitialBackoff * (q - p)
    BY <1>1, <2>2
  <2>5. q - p \in Nat
    BY <2>2
  <2>6. InitialBackoff * p \in Nat /\ InitialBackoff * (q - p) \in Nat
    BY <1>1, <2>2, <2>5
  <2> QED BY <2>3, <2>4, <2>6
<1> QED BY <1>5, <1>6, <1>7, <1>8, Zenon

\* The loop starts with the first pause (waitBackoff).
LEMMA BackoffInitInv == BackoffInit => BackoffInv
<1> SUFFICES ASSUME BackoffInit PROVE BackoffInv
  OBVIOUS
<1>1. BackoffTypeOK
  BY MaxIntAssumption, AttemptAssumption DEF BackoffInit, BackoffTypeOK
<1>2. delay = Doubled(1)
  BY <1>1, DoubledFacts DEF BackoffInit
<1> QED BY <1>1, <1>2 DEF BackoffInit, BackoffInv

\* What the steps use of the types: settings and arguments are positive numbers.
LEMMA BackoffNumbers ==
  ASSUME BackoffTypeOK
  PROVE  /\ MaxInt \in Nat /\ MaxBackoff \in Nat /\ MaxBackoff >= 1 /\ MaxBackoff <= MaxInt
         /\ attempt \in Nat \ {0} /\ current \in Nat \ {0} /\ current <= attempt
         /\ retryAfter \in Nat /\ retryAfter <= MaxInt
         /\ delay \in Nat /\ delay >= 1 /\ delay <= MaxBackoff
         /\ Doubled(attempt) \in Nat /\ Doubled(current) \in Nat
         /\ Doubled(current) <= Doubled(attempt)
         /\ current < attempt => 2 * Doubled(current) <= Doubled(attempt)
<1>1. /\ MaxInt \in Nat /\ MaxBackoff \in Nat /\ MaxBackoff >= 1 /\ MaxBackoff <= MaxInt
      /\ attempt \in Nat \ {0} /\ current \in Nat \ {0} /\ current <= attempt
      /\ retryAfter \in Nat /\ retryAfter <= MaxInt
      /\ delay \in Nat /\ delay >= 1 /\ delay <= MaxBackoff
  BY MaxIntAssumption, AttemptAssumption DEF BackoffTypeOK
<1>2. Doubled(attempt) \in Nat /\ \A k \in 1..attempt : Doubled(k) <= Doubled(attempt)
  BY <1>1, DoubledFacts
<1>3. Doubled(current) \in Nat /\ Doubled(current + 1) = 2 * Doubled(current)
  BY <1>1, DoubledFacts
<1>4. current \in 1..attempt /\ (current < attempt => current + 1 \in 1..attempt)
  BY <1>1
<1> QED BY <1>1, <1>2, <1>3, <1>4

\* The loop stops at the limit, before the double of a pause could be too long for a
\* duration (waitBackoff).
LEMMA DoubleInv == ASSUME BackoffInv, Double PROVE BackoffInv'
<1> DEFINE D == Doubled(attempt)
<1>1. /\ BackoffTypeOK /\ step = "loop" /\ delay = Doubled(current)
  BY DEF BackoffInv, Double
<1>2. UNCHANGED <<InitialBackoff, MaxBackoff, attempt, retryAfter, jitter>>
  BY DEF Double, arguments
<1>3. D' = D /\ \A n : Doubled(n)' = Doubled(n)
  BY <1>2 DEF Doubled
<1>4. CASE current < attempt /\ delay < MaxBackoff /\ ~(delay > MaxBackoff \div 2)
  <2>1. 2 * delay <= MaxBackoff /\ 2 * delay \in 0..MaxInt
    BY <1>1, <1>4, BackoffNumbers
  <2>2. Wrapped(2 * delay) = 2 * delay
    BY <2>1, NotWrapped
  <2>3. step' = step /\ delay' = 2 * delay /\ current' = current + 1
    BY <1>4, <2>2 DEF Double
  <2>4. delay' = Doubled(current')
    BY <1>1, <2>3, BackoffNumbers, DoubledFacts
  <2>5. BackoffTypeOK'
    <3>1. delay' \in 1..MaxBackoff /\ current' \in 1..attempt
      BY <1>1, <1>4, <2>1, <2>3, BackoffNumbers
    <3> QED BY <1>1, <1>2, <2>3, <3>1 DEF BackoffTypeOK
  <2> QED BY <1>1, <1>3, <2>3, <2>4, <2>5 DEF BackoffInv
<1>5. CASE ~(current < attempt /\ delay < MaxBackoff /\ ~(delay > MaxBackoff \div 2))
  <2>1. /\ step' = "retryAfter" /\ current' = current
        /\ delay' = IF current < attempt /\ delay < MaxBackoff THEN MaxBackoff ELSE delay
    BY <1>5 DEF Double
  <2>2. delay' = Least(D, MaxBackoff)
    <3>1. CASE ~(current < attempt)
      <4>1. current = attempt
        BY <1>1, <3>1, BackoffNumbers
      <4> QED BY <1>1, <2>1, <3>1, <4>1, BackoffNumbers DEF Least
    <3>2. CASE current < attempt /\ ~(delay < MaxBackoff)
      BY <1>1, <2>1, <3>2, BackoffNumbers DEF Least
    <3>3. CASE current < attempt /\ delay < MaxBackoff
      <4>1. delay > MaxBackoff \div 2
        BY <1>5, <3>3
      <4>2. 2 * delay > MaxBackoff
        BY <1>1, <4>1, BackoffNumbers
      <4> QED BY <1>1, <2>1, <3>3, <4>2, BackoffNumbers DEF Least
    <3> QED BY <3>1, <3>2, <3>3
  <2>3. BackoffTypeOK'
    <3>1. delay' \in 1..MaxBackoff
      BY <1>1, <2>1, BackoffNumbers
    <3> QED BY <1>1, <1>2, <2>1, <3>1 DEF BackoffTypeOK
  <2>4. Least(D, MaxBackoff)' = Least(D, MaxBackoff)
    BY <1>2, <1>3 DEF Least
  <2> QED BY <2>1, <2>2, <2>3, <2>4 DEF BackoffInv
<1> QED BY <1>4, <1>5

\* The pause ECS asked for counts up to the limit (waitBackoff).
LEMMA RetryAfterInv == ASSUME BackoffInv, RetryAfter PROVE BackoffInv'
<1>1. /\ BackoffTypeOK /\ step = "retryAfter"
      /\ delay = Least(Doubled(attempt), MaxBackoff)
  BY DEF BackoffInv, RetryAfter
<1>2. UNCHANGED <<InitialBackoff, MaxBackoff, attempt, retryAfter, current, jitter>>
  BY DEF RetryAfter, arguments
<1>3. /\ step' = "jitter"
      /\ delay' = IF retryAfter > delay THEN Least(retryAfter, MaxBackoff) ELSE delay
  BY DEF RetryAfter
<1>4. delay' = Asked
  BY <1>1, <1>3, BackoffNumbers DEF Asked, Least, Greatest
<1>5. Asked' = Asked
  BY <1>2 DEF Asked, Least, Greatest, Doubled
<1>6. BackoffTypeOK'
  <2>1. delay' \in 1..MaxBackoff
    BY <1>1, <1>3, BackoffNumbers DEF Least
  <2> QED BY <1>1, <1>2, <1>3, <2>1 DEF BackoffTypeOK
<1> QED BY <1>3, <1>4, <1>5, <1>6 DEF BackoffInv

\* The jitter is at most a fifth and leaves the sum a duration (waitBackoff).
LEMMA JitterInv == ASSUME BackoffInv, Jitter PROVE BackoffInv'
<1>1. BackoffTypeOK /\ delay = Asked /\ step' = "wait"
  BY DEF BackoffInv, Jitter
<1>2. UNCHANGED <<InitialBackoff, MaxBackoff, attempt, retryAfter, current, delay>>
  BY DEF Jitter, arguments
<1>3. Asked' = Asked
  BY <1>2 DEF Asked, Least, Greatest, Doubled
<1>4. MaxInt - delay \in 0..MaxInt
  BY <1>1, BackoffNumbers
<1>5. Wrapped(MaxInt - delay) = MaxInt - delay
  BY <1>4, NotWrapped
<1> DEFINE limit == Least(delay \div 5, MaxInt - delay)
<1>6. jitter' \in IF limit > 0 THEN 0..(limit - 1) ELSE {0}
  BY <1>5 DEF Jitter
<1>7. limit \in Nat /\ limit <= delay \div 5 /\ limit <= MaxInt - delay
  BY <1>1, BackoffNumbers DEF Least
<1>8. jitter' \in Nat /\ jitter' <= limit
  <2> HIDE DEF limit
  <2> QED BY <1>6, <1>7
<1> HIDE DEF limit
<1>9. jitter' <= delay \div 5 /\ jitter' <= MaxInt - delay /\ jitter' \in 0..MaxInt
  <2>1. delay \in Nat /\ MaxInt \in Nat
    BY <1>1, BackoffNumbers
  <2>2. limit \in Nat /\ limit <= MaxInt - delay
    BY <1>7
  <2>3. jitter' <= MaxInt - delay /\ jitter' \in 0..MaxInt
    BY <1>8, <2>1, <2>2
  <2>4. delay \div 5 \in Nat /\ limit <= delay \div 5
    BY <1>7, <2>1
  <2>5. jitter' <= delay \div 5
    BY <1>8, <2>2, <2>4
  <2> QED BY <2>3, <2>5
<1>10. BackoffTypeOK'
  BY <1>1, <1>2, <1>9 DEF BackoffTypeOK
<1> QED BY <1>1, <1>2, <1>3, <1>9, <1>10 DEF BackoffInv

\* The inductive invariant of the pause holds, for any settings and attempt.
THEOREM BackoffInvariance == BackoffSpec => []BackoffInv
<1>1. BackoffInv /\ UNCHANGED backoffVars => BackoffInv'
  BY DEF backoffVars, arguments, BackoffInv, BackoffTypeOK, Asked, Doubled, Least, Greatest
<1>2. BackoffInv /\ [BackoffNext]_backoffVars => BackoffInv'
  BY <1>1, DoubleInv, RetryAfterInv, JitterInv DEF BackoffNext
<1> QED BY <1>2, BackoffInitInv, PTL DEF BackoffSpec

\* The timer is set to neither less nor more than it should be (waitBackoff).
THEOREM PauseCorrect == BackoffSpec => []PauseIsRight
<1>1. BackoffInv => PauseIsRight
  <2> SUFFICES ASSUME BackoffInv, step = "wait"
               PROVE  /\ Asked <= Wrapped(delay + jitter)
                      /\ Wrapped(delay + jitter) <= Asked + Asked \div 5
    BY DEF PauseIsRight
  <2>1. /\ BackoffTypeOK /\ delay = Asked
        /\ jitter <= delay \div 5 /\ jitter <= MaxInt - delay
    BY DEF BackoffInv
  <2>2. delay \in Nat /\ jitter \in Nat /\ MaxInt \in Nat
    BY <2>1, BackoffNumbers DEF BackoffTypeOK
  <2>3. delay + jitter \in 0..MaxInt
    BY <2>1, <2>2
  <2>4. Wrapped(delay + jitter) = delay + jitter
    BY <2>3, NotWrapped
  <2> QED BY <2>1, <2>2, <2>4
<1> QED BY <1>1, BackoffInvariance, PTL

-----------------------------------------------------------------------------
(* Inventory: enumerations *)

\* A sequence of the elements of a finite set has each of them at one place.
LEMMA Enumeration ==
  ASSUME NEW S, IsFiniteSet(S), NEW s \in SetToSeqs(S)
  PROVE  /\ Cardinality(S) \in Nat /\ Len(s) = Cardinality(S) /\ DOMAIN s = 1..Len(s)
         /\ \A i \in 1..Len(s) : s[i] \in S
         /\ \A i, j \in 1..Len(s) : s[i] = s[j] => i = j
         /\ \A x \in S : \E i \in 1..Len(s) : s[i] = x
<1> DEFINE n == Cardinality(S)
<1>1. n \in Nat
  BY FS_CardinalityType
<1>2. s \in [1..n -> S] /\ \A i, j \in 1..n : i # j => s[i] # s[j]
  BY DEF SetToSeqs
<1>3. Len(s) = n /\ DOMAIN s = 1..n
  BY <1>1, <1>2
<1>4. IsFiniteSet(1..n) /\ Cardinality(1..n) = n
  BY <1>1, FS_Interval
<1>5. s \in Injection(1..n, S)
  <2> HIDE DEF n
  <2> QED BY <1>2, Fun_IsInj
<1>6. s \in Surjection(1..n, S)
  BY <1>4, <1>5, FS_Injection
<1>7. \A x \in S : \E i \in 1..n : s[i] = x
  BY <1>6 DEF Surjection
<1> QED BY <1>1, <1>2, <1>3, <1>7

\* A relation that holds one way only between two elements sorts a set in at most one way.
LEMMA SortedOnce ==
  ASSUME NEW S, IsFiniteSet(S), NEW s \in SetToSeqs(S), NEW t \in SetToSeqs(S),
         NEW R, \A x, y \in S : <<x, y>> \in R => <<y, x>> \notin R,
         \A i, j \in DOMAIN s : i < j => <<s[i], s[j]>> \in R,
         \A i, j \in DOMAIN t : i < j => <<t[i], t[j]>> \in R
  PROVE  s = t
<1> DEFINE n == Cardinality(S)
           Differ == {i \in 1..n : s[i] # t[i]}
<1>1. /\ n \in Nat /\ Len(s) = n /\ DOMAIN s = 1..n /\ DOMAIN t = 1..n
      /\ \A i \in 1..n : s[i] \in S /\ t[i] \in S
      /\ \A i, j \in 1..n : (s[i] = s[j] => i = j) /\ (t[i] = t[j] => i = j)
      /\ \A x \in S : (\E i \in 1..n : s[i] = x) /\ (\E i \in 1..n : t[i] = x)
  BY Enumeration
<1>2. s \in [1..n -> S] /\ t \in [1..n -> S]
  BY DEF SetToSeqs
<1>3. ASSUME Differ # {} PROVE FALSE
  <2>1. Differ \in SUBSET Nat
    BY <1>1
  <2>2. PICK p \in Differ : \A q \in Differ : p <= q
    <3> HIDE DEF Differ
    <3> QED BY <1>3, <2>1, LeastNatural
  <2>3. p \in 1..n /\ s[p] # t[p] /\ \A q \in 1..n : q < p => s[q] = t[q]
    <3>1. p \in 1..n /\ s[p] # t[p]
      OBVIOUS
    <3>2. ASSUME NEW q \in 1..n, q < p PROVE s[q] = t[q]
      <4>1. ~(p <= q)
        BY <1>1, <3>1, <3>2
      <4> QED BY <2>2, <4>1
    <3> QED BY <3>1, <3>2
  <2> HIDE DEF n, Differ
  <2>4. PICK q \in 1..n : s[q] = t[p]
    BY <1>1, <2>3
  <2>5. PICK r \in 1..n : t[r] = s[p]
    BY <1>1, <2>3
  <2>6. p < q
    <3>1. q # p
      BY <2>3, <2>4
    <3>2. ~(q < p)
      BY <1>1, <2>3, <2>4
    <3> QED BY <1>1, <2>3, <3>1, <3>2
  <2>7. p < r
    <3>1. r # p
      BY <2>3, <2>5
    <3>2. ~(r < p)
      BY <1>1, <2>3, <2>5
    <3> QED BY <1>1, <2>3, <3>1, <3>2
  <2>8. <<s[p], t[p]>> \in R
    BY <1>1, <2>3, <2>4, <2>6
  <2>9. <<t[p], s[p]>> \in R
    BY <1>1, <2>3, <2>5, <2>7
  <2>10. s[p] \in S /\ t[p] \in S
    BY <1>1, <2>3
  <2> QED BY <2>8, <2>9, <2>10
<1>4. \A i \in 1..n : s[i] = t[i]
  BY <1>3
<1> HIDE DEF n
<1>5. s = [i \in 1..n |-> s[i]] /\ t = [i \in 1..n |-> t[i]]
  BY <1>2
<1>6. [i \in 1..n |-> s[i]] = [i \in 1..n |-> t[i]]
  BY <1>4
<1> QED BY <1>5, <1>6

\* An order of all elements of a finite set sorts it: an element goes to the place after
\* those below it.
LEMMA CanSort ==
  ASSUME NEW S, IsFiniteSet(S), NEW R,
         \A x, y \in S : <<x, y>> \in R => <<y, x>> \notin R,
         \A x, y \in S : x # y => <<x, y>> \in R \/ <<y, x>> \in R,
         \A x, y, z \in S : <<x, y>> \in R /\ <<y, z>> \in R => <<x, z>> \in R
  PROVE  \E s \in SetToSeqs(S) : \A i, j \in DOMAIN s : i < j => <<s[i], s[j]>> \in R
<1> DEFINE n == Cardinality(S)
           Below(x) == {y \in S : <<y, x>> \in R}
           place == [x \in S |-> Cardinality(Below(x)) + 1]
           s == [i \in 1..n |-> CHOOSE x \in S : place[x] = i]
<1>1. n \in Nat
  BY FS_CardinalityType
<1>2. ASSUME NEW x \in S
      PROVE  /\ IsFiniteSet(Below(x)) /\ Cardinality(Below(x)) \in Nat
             /\ x \notin Below(x) /\ place[x] \in 1..n
  <2>1. Below(x) \in SUBSET S /\ x \notin Below(x)
    OBVIOUS
  <2> HIDE DEF Below
  <2>2. /\ IsFiniteSet(Below(x)) /\ Cardinality(Below(x)) <= n
        /\ n = Cardinality(Below(x)) => S = Below(x)
    BY <2>1, FS_Subset
  <2>3. Cardinality(Below(x)) \in Nat
    BY <2>2, FS_CardinalityType
  <2>4. n # Cardinality(Below(x))
    BY <2>1, <2>2
  <2>5. place[x] = Cardinality(Below(x)) + 1
    OBVIOUS
  <2> HIDE DEF n, place
  <2>6. place[x] \in 1..n
    BY <1>1, <2>2, <2>3, <2>4, <2>5
  <2> QED BY <2>1, <2>2, <2>3, <2>6
<1>3. ASSUME NEW x \in S, NEW y \in S, <<x, y>> \in R PROVE place[x] < place[y]
  <2>1. Below(x) \cup {x} \subseteq Below(y)
    BY <1>3
  <2>2. /\ IsFiniteSet(Below(x)) /\ Cardinality(Below(x)) \in Nat /\ x \notin Below(x)
        /\ IsFiniteSet(Below(y)) /\ Cardinality(Below(y)) \in Nat
    BY <1>2
  <2> HIDE DEF Below
  <2>3. Cardinality(Below(x) \cup {x}) = Cardinality(Below(x)) + 1
    BY <2>2, FS_AddElement
  <2>4. Cardinality(Below(x) \cup {x}) <= Cardinality(Below(y))
    BY <2>1, <2>2, FS_Subset
  <2>5. place[x] = Cardinality(Below(x)) + 1 /\ place[y] = Cardinality(Below(y)) + 1
    OBVIOUS
  <2> HIDE DEF place
  <2> QED BY <2>2, <2>3, <2>4, <2>5
<1>4. place \in Surjection(S, 1..n)
  <2>1. place \in [S -> 1..n]
    BY <1>2
  <2> HIDE DEF place
  <2>2. \A x \in S : place[x] \in Nat
    BY <2>1
  <2>3. ASSUME NEW x \in S, NEW y \in S, place[x] = place[y], x # y PROVE FALSE
    <3>1. place[x] < place[y] \/ place[y] < place[x]
      BY <1>3, <2>3
    <3> QED BY <2>2, <2>3, <3>1
  <2>4. place \in Injection(S, 1..n)
    <3> HIDE DEF n
    <3> QED BY <2>1, <2>3, Fun_IsInj
  <2>5. IsFiniteSet(1..n) /\ Cardinality(1..n) = n
    <3> HIDE DEF n
    <3> QED BY <1>1, FS_Interval
  <2> QED BY <2>4, <2>5, FS_Injection
<1> HIDE DEF place
<1>5. \A i \in 1..n : s[i] \in S /\ place[s[i]] = i
  BY <1>4 DEF Surjection
<1>6. s \in [1..n -> S] /\ DOMAIN s = 1..n
  BY <1>5
<1> HIDE DEF s
<1>7. \A i, j \in 1..n : i # j => s[i] # s[j]
  BY <1>5
<1>8. s \in SetToSeqs(S)
  BY <1>6, <1>7 DEF SetToSeqs
<1>9. ASSUME NEW i \in 1..n, NEW j \in 1..n, i < j PROVE <<s[i], s[j]>> \in R
  <2>1. s[i] # s[j]
    BY <1>7, <1>9
  <2>2. <<s[j], s[i]>> \notin R
    <3> SUFFICES ASSUME <<s[j], s[i]>> \in R PROVE FALSE
      OBVIOUS
    <3>1. place[s[j]] < place[s[i]]
      BY <1>3, <1>5
    <3> HIDE DEF n
    <3> QED BY <1>1, <1>5, <1>9, <3>1
  <2> QED BY <1>5, <2>1, <2>2
<1> QED BY <1>6, <1>8, <1>9

-----------------------------------------------------------------------------
(* Inventory: orders *)

\* Two keys come one before the other at most one way (cmp.Compare).
LEMMA LexicallyOneWay ==
  ASSUME NEW n \in Nat, NEW a \in [1..n -> Nat], NEW b \in [1..n -> Nat],
         Lexically(a, b)
  PROVE  ~Lexically(b, a)
<1> SUFFICES ASSUME Lexically(b, a) PROVE FALSE
  OBVIOUS
<1>1. PICK i \in 1..n : a[i] < b[i] /\ \A k \in 1..(i - 1) : a[k] = b[k]
  BY DEF Lexically
<1>2. PICK j \in 1..n : b[j] < a[j] /\ \A k \in 1..(j - 1) : b[k] = a[k]
  BY DEF Lexically
<1>3. a[i] \in Nat /\ b[i] \in Nat /\ a[j] \in Nat /\ b[j] \in Nat /\ i \in Nat /\ j \in Nat
  OBVIOUS
<1>4. CASE i < j
  BY <1>1, <1>2, <1>3, <1>4
<1>5. CASE j < i
  BY <1>1, <1>2, <1>3, <1>5
<1>6. CASE i = j
  BY <1>1, <1>2, <1>3, <1>6
<1> QED BY <1>3, <1>4, <1>5, <1>6

\* The comparison of keys is transitive, and only equal keys are not in order (cmp.Compare).
LEMMA LexicallyTransitive ==
  ASSUME NEW n \in Nat, NEW a \in [1..n -> Nat], NEW b \in [1..n -> Nat],
         NEW c \in [1..n -> Nat], Lexically(a, b), Lexically(b, c)
  PROVE  Lexically(a, c)
<1>1. PICK i \in 1..n : a[i] < b[i] /\ \A k \in 1..(i - 1) : a[k] = b[k]
  BY DEF Lexically
<1>2. PICK j \in 1..n : b[j] < c[j] /\ \A k \in 1..(j - 1) : b[k] = c[k]
  BY DEF Lexically
<1>3. PICK m \in 1..n : m <= i /\ m <= j /\ (m = i \/ m = j)
  <2>1. i \in Int /\ j \in Int
    OBVIOUS
  <2>2. CASE i <= j
    <3>1. i \in 1..n /\ i <= i /\ i <= j
      BY <2>1, <2>2
    <3> QED BY <3>1, Zenon
  <2>3. CASE j <= i
    <3>1. j \in 1..n /\ j <= i /\ j <= j
      BY <2>1, <2>3
    <3> QED BY <3>1, Zenon
  <2> QED BY <2>1, <2>2, <2>3
<1>4. \A k \in 1..(m - 1) : a[k] = b[k] /\ b[k] = c[k]
  BY <1>1, <1>2, <1>3
<1>5. /\ a[m] \in Nat /\ b[m] \in Nat /\ c[m] \in Nat
      /\ m # i => a[m] = b[m]
      /\ m # j => b[m] = c[m]
  BY <1>1, <1>2, <1>3
<1>6. a[m] < c[m]
  BY <1>1, <1>2, <1>3, <1>5
<1> QED BY <1>4, <1>6 DEF Lexically

LEMMA LexicallyTotal ==
  ASSUME NEW n \in Nat, NEW a \in [1..n -> Nat], NEW b \in [1..n -> Nat],
         ~Lexically(a, b), ~Lexically(b, a)
  PROVE  a = b
<1> DEFINE Differ == {i \in 1..n : a[i] # b[i]}
<1>1. ASSUME Differ # {} PROVE FALSE
  <2>1. Differ \in SUBSET Nat
    OBVIOUS
  <2>2. PICK p \in Differ : \A q \in Differ : p <= q
    <3> HIDE DEF Differ
    <3> QED BY <1>1, <2>1, LeastNatural
  <2>3. p \in 1..n /\ a[p] # b[p]
    OBVIOUS
  <2>4. \A q \in 1..(p - 1) : a[q] = b[q]
    BY <2>2
  <2>5. a[p] < b[p] \/ b[p] < a[p]
    BY <2>3
  <2> QED BY <2>3, <2>4, <2>5 DEF Lexically
<1>2. \A i \in 1..n : a[i] = b[i]
  BY <1>1
<1> QED BY <1>2

\* The comparison of a Snapshot orders the items (sortSnapshot).
LEMMA PrecedesFacts ==
  ASSUME NEW a \in Items, NEW b \in Items, NEW c \in Items
  PROVE  /\ Precedes(a, b) => ~Precedes(b, a)
         /\ a # b => Precedes(a, b) \/ Precedes(b, a)
         /\ Precedes(a, b) /\ Precedes(b, c) => Precedes(a, c)
<1> DEFINE key(i) == <<i.cluster, i.id>>
<1>1. \A i \in Items : key(i) \in [1..2 -> Nat]
  <2> SUFFICES ASSUME NEW i \in Items PROVE key(i) \in [1..2 -> Nat]
    OBVIOUS
  <2>1. i.cluster \in Nat /\ i.id \in Nat
    BY ItemsAssumption
  <2> QED BY <2>1
<1>2. a # b => key(a) # key(b)
  BY ItemsAssumption
<1>3. \A i, j \in Items : Precedes(i, j) <=> Lexically(key(i), key(j))
  BY Zenon DEF Precedes
<1> HIDE DEF key
<1>4. Lexically(key(a), key(b)) => ~Lexically(key(b), key(a))
  BY <1>1, LexicallyOneWay
<1>5. key(a) # key(b) => Lexically(key(a), key(b)) \/ Lexically(key(b), key(a))
  BY <1>1, LexicallyTotal
<1>6. Lexically(key(a), key(b)) /\ Lexically(key(b), key(c)) => Lexically(key(a), key(c))
  BY <1>1, LexicallyTransitive
<1> QED BY <1>2, <1>3, <1>4, <1>5, <1>6

\* What a list is sorted by is four numbers (sortBy).
LEMMA SortKeys ==
  ASSUME sort \in Sorts, NEW i \in Items
  PROVE  <<i[sort.field]>> \o Keys(i) \in [1..4 -> Nat]
<1>1. sort.field \in {"name", "cluster", "namespace"}
  BY QueryAssumption
<1>2. /\ i.cluster \in Nat /\ i.namespace \in Nat /\ i.name \in Nat
      /\ i[sort.field] \in Nat
  <2>1. i \in [cluster : Nat, namespace : Nat, name : Nat, id : Nat]
    BY ItemsAssumption
  <2> QED BY <1>1, <2>1
<1>3. <<i[sort.field]>> \in Seq(Nat) /\ Len(<<i[sort.field]>>) = 1
  BY <1>2
<1>4. Keys(i) \in Seq(Nat) /\ Len(Keys(i)) = 3
  BY <1>2 DEF Keys
<1> DEFINE f == <<i[sort.field]>>
           k == Keys(i)
<1> HIDE DEF f, k
<1>5. f \in Seq(Nat) /\ Len(f) = 1 /\ k \in Seq(Nat) /\ Len(k) = 3
  BY <1>3, <1>4, Zenon DEF f, k
<1>6. f \o k \in Seq(Nat) /\ Len(f \o k) = Len(f) + Len(k)
  BY <1>5, ConcatProperties, Zenon
<1>7. f \o k \in Seq(Nat) /\ Len(f \o k) = 4
  BY <1>5, <1>6
<1>8. f \o k \in [1..4 -> Nat]
  BY <1>7, LenProperties
<1> QED BY <1>8, Zenon DEF f, k

\* The comparison of a list is a strict weak order, which a sort needs (sortBy).
LEMMA BeforeFacts ==
  ASSUME sort \in Sorts, NEW a \in Items, NEW b \in Items, NEW c \in Items
  PROVE  /\ Before(a, b) => ~Before(b, a)
         /\ Before(a, b) /\ Before(b, c) => Before(a, c)
         /\ ~Before(a, b) /\ ~Before(b, a) =>
              (Before(a, c) <=> Before(b, c)) /\ (Before(c, a) <=> Before(c, b))
<1> DEFINE key(i) == <<i[sort.field]>> \o Keys(i)
<1>1. \A i \in Items : key(i) \in [1..4 -> Nat]
  BY SortKeys
<1>2. \A i, j \in Items :
        Before(i, j) <=>
          IF sort.descending THEN Lexically(key(j), key(i)) ELSE Lexically(key(i), key(j))
  BY Zenon DEF Before
<1> HIDE DEF key
<1>3. \A i, j \in Items : Lexically(key(i), key(j)) => ~Lexically(key(j), key(i))
  BY <1>1, LexicallyOneWay
<1>4. \A i, j \in Items :
        ~Lexically(key(i), key(j)) /\ ~Lexically(key(j), key(i)) => key(i) = key(j)
  BY <1>1, LexicallyTotal
<1>5. \A i, j, k \in Items :
        Lexically(key(i), key(j)) /\ Lexically(key(j), key(k)) => Lexically(key(i), key(k))
  BY <1>1, LexicallyTransitive
<1>6. CASE sort.descending
  BY <1>2, <1>3, <1>4, <1>5, <1>6
<1>7. CASE ~sort.descending
  BY <1>2, <1>3, <1>4, <1>5, <1>7
<1> QED BY <1>6, <1>7

-----------------------------------------------------------------------------
(* Inventory: lists *)

\* The store is finite, and so is what matches.
LEMMA StoredFacts ==
  ASSUME InventoryTypeOK
  PROVE  /\ Stored \subseteq Items /\ IsFiniteSet(Stored)
         /\ Selected \subseteq Stored /\ IsFiniteSet(Selected)
<1>1. Stored \subseteq Items
  BY DEF Stored, InventoryTypeOK
<1>2. Selected \subseteq Stored
  BY DEF Selected
<1> QED BY <1>1, <1>2, ItemsAssumption, FS_Subset

\* Whatever order the map has them in, the items of a Snapshot have one order (sortSnapshot).
LEMMA SnapshotsAgree ==
  ASSUME InventoryTypeOK, NEW s \in Snapshots, NEW t \in Snapshots
  PROVE  s = t
<1> DEFINE R == {x \in Items \X Items : Precedes(x[1], x[2])}
<1>1. Stored \subseteq Items /\ IsFiniteSet(Stored)
  BY StoredFacts
<1>2. \A x, y \in Stored : <<x, y>> \in R => <<y, x>> \notin R
  BY <1>1, PrecedesFacts
<1>3. ASSUME NEW u \in Snapshots, NEW i \in DOMAIN u, NEW j \in DOMAIN u, i < j
      PROVE  <<u[i], u[j]>> \in R
  <2>1. u \in SetToSeqs(Stored) /\ ~Precedes(u[j], u[i])
    BY <1>3 DEF Snapshots
  <2>2. /\ Len(u) \in Nat /\ DOMAIN u = 1..Len(u) /\ u[i] \in Stored /\ u[j] \in Stored
        /\ u[i] = u[j] => i = j
    BY <1>1, <2>1, Enumeration
  <2>3. u[i] # u[j]
    BY <1>3, <2>2
  <2> QED BY <1>1, <2>1, <2>2, <2>3, PrecedesFacts
<1>4. s \in SetToSeqs(Stored) /\ t \in SetToSeqs(Stored)
  BY DEF Snapshots
<1> HIDE DEF R
<1> QED BY <1>1, <1>2, <1>3, <1>4, SortedOnce

\* Nor do two requests see the items that match in different orders (sortBy).
LEMMA ListingsAgree ==
  ASSUME InventoryTypeOK, NEW s \in Snapshots, NEW t \in Snapshots,
         NEW l \in Listings(s), NEW m \in Listings(t)
  PROVE  l = m
<1>1. s = t
  BY SnapshotsAgree
<1> DEFINE R == {x \in Items \X Items : InOrder(s, x[1], x[2])}
<1>2. /\ Stored \subseteq Items /\ IsFiniteSet(Stored)
      /\ Selected \subseteq Items /\ IsFiniteSet(Selected)
  BY StoredFacts
<1>3. /\ Len(s) \in Nat /\ DOMAIN s = 1..Len(s)
      /\ \A i, j \in 1..Len(s) : s[i] = s[j] => i = j
  <2>1. s \in SetToSeqs(Stored)
    BY DEF Snapshots
  <2> QED BY <1>2, <2>1, Enumeration
<1>4. ASSUME NEW x \in Items, NEW y \in Items, InOrder(s, x, y), InOrder(s, y, x) PROVE FALSE
  <2>1. sort \in Sorts
    BY DEF InventoryTypeOK
  <2>2. ~(Before(x, y) /\ Before(y, x))
    BY <2>1, BeforeFacts
  <2>3. /\ \E i, j \in DOMAIN s : s[i] = x /\ s[j] = y /\ i < j
        /\ \E i, j \in DOMAIN s : s[i] = y /\ s[j] = x /\ i < j
    BY <1>4, <2>2 DEF InOrder
  <2> QED BY <1>3, <2>3
<1>5. \A x, y \in Selected : <<x, y>> \in R => <<y, x>> \notin R
  BY <1>2, <1>4
<1>6. /\ l \in SetToSeqs(Selected) /\ m \in SetToSeqs(Selected)
      /\ \A i, j \in DOMAIN l : i < j => InOrder(s, l[i], l[j])
      /\ \A i, j \in DOMAIN m : i < j => InOrder(s, m[i], m[j])
  BY <1>1 DEF Listings
<1>7. /\ DOMAIN l = 1..Len(l) /\ DOMAIN m = 1..Len(m)
      /\ \A i \in DOMAIN l : l[i] \in Items
      /\ \A i \in DOMAIN m : m[i] \in Items
  BY <1>2, <1>6, Enumeration
<1>8. /\ \A i, j \in DOMAIN l : i < j => <<l[i], l[j]>> \in R
      /\ \A i, j \in DOMAIN m : i < j => <<m[i], m[j]>> \in R
  BY <1>6, <1>7
<1> HIDE DEF R
<1> QED BY <1>2, <1>5, <1>6, <1>8, SortedOnce

\* The store has a Snapshot (sortSnapshot).
LEMMA SnapshotExists ==
  ASSUME InventoryTypeOK
  PROVE  Snapshots # {}
<1> DEFINE R == {x \in Items \X Items : Precedes(x[1], x[2])}
<1>1. Stored \subseteq Items /\ IsFiniteSet(Stored)
  BY StoredFacts
<1>2. \A x, y \in Items : <<x, y>> \in R <=> Precedes(x, y)
  OBVIOUS
<1> HIDE DEF R
<1>3. PICK s \in SetToSeqs(Stored) : \A i, j \in DOMAIN s : i < j => <<s[i], s[j]>> \in R
  <2>1. \A x, y \in Stored : <<x, y>> \in R => <<y, x>> \notin R
    BY <1>1, <1>2, PrecedesFacts
  <2>2. \A x, y \in Stored : x # y => <<x, y>> \in R \/ <<y, x>> \in R
    BY <1>1, <1>2, PrecedesFacts
  <2>3. \A x, y, z \in Stored : <<x, y>> \in R /\ <<y, z>> \in R => <<x, z>> \in R
    BY <1>1, <1>2, PrecedesFacts
  <2> QED BY <1>1, <2>1, <2>2, <2>3, CanSort
<1>4. \A i \in DOMAIN s : s[i] \in Items
  BY <1>1, <1>3, Enumeration
<1>5. \A i, j \in DOMAIN s : i < j => ~Precedes(s[j], s[i])
  BY <1>2, <1>3, <1>4, PrecedesFacts
<1> QED BY <1>3, <1>5 DEF Snapshots

\* Every Snapshot has a list of the items that match (sortBy).
LEMMA ListingExists ==
  ASSUME InventoryTypeOK, NEW s \in Snapshots
  PROVE  Listings(s) # {}
<1> DEFINE R == {x \in Items \X Items : InOrder(s, x[1], x[2])}
<1>1. /\ Stored \subseteq Items /\ IsFiniteSet(Stored)
      /\ Selected \subseteq Stored /\ IsFiniteSet(Selected)
  BY StoredFacts
<1>2. \A x, y \in Items : <<x, y>> \in R <=> InOrder(s, x, y)
  OBVIOUS
<1> HIDE DEF R
<1>3. /\ Len(s) \in Nat /\ DOMAIN s = 1..Len(s)
      /\ \A i, j \in DOMAIN s : s[i] = s[j] => i = j
      /\ \A x \in Selected : \E i \in DOMAIN s : s[i] = x
  <2>1. s \in SetToSeqs(Stored)
    BY DEF Snapshots
  <2> QED BY <1>1, <2>1, Enumeration
<1>4. \A x, y, z \in Selected :
        /\ Before(x, y) => ~Before(y, x)
        /\ Before(x, y) /\ Before(y, z) => Before(x, z)
        /\ ~Before(x, y) /\ ~Before(y, x) =>
             (Before(x, z) <=> Before(y, z)) /\ (Before(z, x) <=> Before(z, y))
  BY <1>1, BeforeFacts DEF InventoryTypeOK
<1> DEFINE at(x) == CHOOSE i \in DOMAIN s : s[i] = x
<1>5. \A x \in Selected : at(x) \in Int /\ at(x) \in DOMAIN s /\ s[at(x)] = x
  <2>1. \A x \in Selected : at(x) \in DOMAIN s /\ s[at(x)] = x
    BY <1>3
  <2> HIDE DEF at
  <2> QED BY <1>3, <2>1
<1> HIDE DEF at
<1>6. \A x, y \in Selected :
        (\E i, j \in DOMAIN s : s[i] = x /\ s[j] = y /\ i < j) <=> at(x) < at(y)
  BY <1>3, <1>5
<1>7. ASSUME NEW x \in Selected, NEW y \in Selected
      PROVE  InOrder(s, x, y) <=> Before(x, y) \/ (~Before(y, x) /\ at(x) < at(y))
  <2>1. (\E i, j \in DOMAIN s : s[i] = x /\ s[j] = y /\ i < j) <=> at(x) < at(y)
    BY <1>6
  <2> DEFINE earlier == \E i, j \in DOMAIN s : s[i] = x /\ s[j] = y /\ i < j
  <2>2. InOrder(s, x, y) <=> Before(x, y) \/ (~Before(y, x) /\ earlier)
    BY Zenon DEF InOrder
  <2> HIDE DEF earlier
  <2>3. earlier <=> at(x) < at(y)
    BY <2>1 DEF earlier
  <2> QED BY <2>2, <2>3
<1>8. PICK l \in SetToSeqs(Selected) : \A i, j \in DOMAIN l : i < j => <<l[i], l[j]>> \in R
  <2>1. \A x, y \in Selected : <<x, y>> \in R <=> Before(x, y) \/ (~Before(y, x) /\ at(x) < at(y))
    BY <1>1, <1>2, <1>7
  <2>2. \A x, y \in Selected : <<x, y>> \in R => <<y, x>> \notin R
    BY <1>4, <1>5, <2>1
  <2>3. ASSUME NEW x \in Selected, NEW y \in Selected, x # y
        PROVE  <<x, y>> \in R \/ <<y, x>> \in R
    <3>1. at(x) \in Int /\ at(y) \in Int /\ at(x) # at(y)
      BY <1>5, <2>3
    <3>2. at(x) < at(y) \/ at(y) < at(x)
      BY <3>1
    <3>3. Before(x, y) \/ Before(y, x) \/ (~Before(x, y) /\ ~Before(y, x))
      OBVIOUS
    <3> QED BY <2>1, <3>2, <3>3
  <2>4. ASSUME NEW x \in Selected, NEW y \in Selected, NEW z \in Selected,
               <<x, y>> \in R, <<y, z>> \in R
        PROVE  <<x, z>> \in R
    <3>1. at(x) \in Int /\ at(y) \in Int /\ at(z) \in Int
      BY <1>5
    <3>2. CASE Before(x, y) /\ Before(y, z)
      <4>1. Before(x, z)
        BY <1>4, <3>2
      <4> QED BY <2>1, <4>1
    <3>3. CASE Before(x, y) /\ ~Before(y, z)
      <4>1. ~Before(z, y)
        BY <2>1, <2>4, <3>3
      <4>2. Before(x, z)
        BY <1>4, <3>3, <4>1
      <4> QED BY <2>1, <4>2
    <3>5. CASE ~Before(x, y) /\ Before(y, z)
      <4>1. ~Before(y, x)
        BY <2>1, <2>4, <3>5
      <4>2. Before(x, z)
        BY <1>4, <3>5, <4>1
      <4> QED BY <2>1, <4>2
    <3>4. CASE ~Before(x, y) /\ ~Before(y, z)
      <4>1. ~Before(z, x) /\ at(x) < at(y) /\ at(y) < at(z)
        BY <1>4, <2>1, <2>4, <3>4
      <4>2. at(x) < at(z)
        BY <3>1, <4>1
      <4> QED BY <2>1, <4>1, <4>2
    <3> QED BY <3>2, <3>3, <3>4, <3>5
  <2> QED BY <1>1, <2>2, <2>3, <2>4, CanSort
<1>9. \A i \in DOMAIN l : l[i] \in Items
  BY <1>1, <1>8, Enumeration
<1> QED BY <1>2, <1>8, <1>9 DEF Listings

-----------------------------------------------------------------------------
(* Inventory: pages *)

\* A page has at least one place (pagination).
LEMMA PageSizeType == ASSUME InventoryTypeOK PROVE PageSize \in Nat \ {0}
BY QueryAssumption DEF InventoryTypeOK, PageSize, Least

\* The places of a page come before those of a later one.
LEMMA PlacesApart ==
  ASSUME NEW p \in Nat, NEW q \in Nat, NEW k \in Nat \ {0}, p < q,
         NEW i \in 1..k, NEW j \in 1..k
  PROVE  p * k + i < q * k + j
<1>1. (p + 1) * k <= q * k
  <2>1. p + 1 \in Int /\ q \in Int /\ k \in Nat /\ p + 1 <= q
    OBVIOUS
  <2> QED BY <2>1, Monotone
<1>2. (p + 1) * k = p * k + 1 * k /\ 1 * k = k
  BY Distribute
<1>3. p * k \in Nat /\ q * k \in Nat
  OBVIOUS
<1> DEFINE x == p * k
           y == q * k
<1>4. x + k <= y /\ x \in Nat /\ y \in Nat
  BY <1>1, <1>2, <1>3
<1> HIDE DEF x, y
<1>5. x + i < y + j
  BY <1>4
<1> QED BY <1>5 DEF x, y

\* The offset of a page that is accepted is an int (pagination).
LEMMA OffsetFits ==
  ASSUME InventoryTypeOK, NEW page \in Nat, Accepted(page)
  PROVE  page * PageSize \in Nat /\ Wrapped(page * PageSize) = page * PageSize
<1>1. PageSize \in Nat \ {0} /\ MaxInt \in Nat
  BY PageSizeType, MaxIntAssumption
<1> DEFINE most == MaxInt \div PageSize
<1>2. most \in Nat /\ most * PageSize \in Nat /\ most * PageSize <= MaxInt
  BY <1>1, Quotient
<1>3. page <= most
  BY DEF Accepted
<1>4. page * PageSize <= most * PageSize
  <2> HIDE DEF most
  <2> QED BY <1>1, <1>2, <1>3, Monotone
<1>5. page * PageSize \in Nat
  BY <1>1
<1> DEFINE x == page * PageSize
           y == most * PageSize
<1>6. x \in 0..MaxInt
  <2>1. x <= y /\ y <= MaxInt /\ x \in Nat /\ y \in Nat
    BY <1>2, <1>4, <1>5
  <2> HIDE DEF x, y
  <2> QED BY <1>1, <2>1
<1> HIDE DEF x
<1>7. Wrapped(x) = x
  BY <1>6, NotWrapped
<1> QED BY <1>5, <1>7 DEF x

\* A page has the items from its offset on, and no request slices out of bounds (writePage).
LEMMA AnswerFacts ==
  ASSUME InventoryTypeOK, NEW page \in Nat, NEW l \in SetToSeqs(Selected)
  PROVE  /\ Answer(page, l).status # "panic"
         /\ Answer(page, l).status = "ok" =>
              LET items == Answer(page, l).items
              IN  /\ Answer(page, l).totalPages = TotalPages(Len(l))
                  /\ DOMAIN items = {i \in 1..PageSize : page * PageSize + i <= Len(l)}
                  /\ \A i \in DOMAIN items : items[i] = l[page * PageSize + i]
<1> DEFINE first == page * PageSize
           total == Len(l)
           from == Start(page, total)
           to == End(page, total)
           items == SubSeq(l, from + 1, to)
<1>1. PageSize \in Nat \ {0} /\ MaxInt \in Nat
  BY PageSizeType, MaxIntAssumption
<1>2. total \in Nat /\ DOMAIN l = 1..total /\ \A i \in 1..total : l[i] \in Selected
  BY StoredFacts, Enumeration
<1>3. CASE ~Accepted(page)
  <2>1. Answer(page, l) = [status |-> "bad request"]
    BY <1>3 DEF Answer
  <2>2. [status |-> "bad request"].status = "bad request"
    OBVIOUS
  <2>3. Answer(page, l).status = "bad request"
    BY <2>1, <2>2, Zenon
  <2> HIDE DEF items
  <2> QED BY <2>3
<1>4. CASE Accepted(page)
  <2>1. first \in Nat /\ Wrapped(first) = first
    BY <1>4, OffsetFits
  <2>2. from = Least(first, total) /\ to = Least(from + PageSize, total)
    BY <2>1 DEF Start, End
  <2> HIDE DEF first, total, from, to
  <2>3. /\ from \in Nat /\ to \in Nat /\ from <= to /\ to <= total
        /\ first >= total => from = total /\ to = total
        /\ first < total => from = first /\ from < to
        /\ first < total => to = first + PageSize \/ (to = total /\ total <= first + PageSize)
        /\ to <= from + PageSize
    BY <1>1, <1>2, <2>1, <2>2 DEF Least
  <2>4. Answer(page, l) = [status |-> "ok", totalPages |-> TotalPages(total), items |-> items]
    <3>1. from \in 0..to
      BY <2>3
    <3> QED BY <1>4, <3>1 DEF Answer, total, from, to
  <2>5. /\ items \in Seq(Selected)
        /\ Len(items) = IF from + 1 <= to THEN to - (from + 1) + 1 ELSE 0
        /\ \A i \in 1..(to - (from + 1) + 1) : items[i] = l[(from + 1) + i - 1]
    <3>1. from + 1 \in Int /\ to \in Int /\ \A i \in (from + 1)..to : l[i] \in Selected
      BY <1>2, <2>3
    <3> QED BY <3>1, SubSeqProperties
  <2> HIDE DEF items
  <2>6. Len(items) = to - from /\ DOMAIN items = 1..(to - from)
    <3>1. Len(items) = to - from
      BY <2>3, <2>5
    <3> QED BY <2>5, <3>1, LenProperties
  <2>7. DOMAIN items = {i \in 1..PageSize : first + i <= total}
    <3>1. CASE first >= total
      <4>1. DOMAIN items = 1..0
        BY <1>2, <2>3, <2>6, <3>1
      <4>2. \A i \in 1..PageSize : ~(first + i <= total)
        BY <1>1, <1>2, <2>1, <3>1
      <4> QED BY <4>1, <4>2
    <3>2. CASE first < total
      <4>1. DOMAIN items = 1..(to - first)
        BY <2>3, <2>6, <3>2
      <4>2. ASSUME NEW i \in 1..(to - first) PROVE i \in 1..PageSize /\ first + i <= total
        BY <1>1, <1>2, <2>1, <2>3, <3>2
      <4>3. ASSUME NEW i \in 1..PageSize, first + i <= total PROVE i \in 1..(to - first)
        BY <1>1, <1>2, <2>1, <2>3, <3>2, <4>3
      <4> QED BY <4>1, <4>2, <4>3
    <3> QED BY <1>2, <2>1, <3>1, <3>2
  <2>8. ASSUME NEW i \in DOMAIN items PROVE items[i] = l[first + i]
    <3>1. i \in 1..(to - from) /\ first < total /\ from = first
      BY <1>1, <1>2, <2>1, <2>3, <2>6, <2>7
    <3>2. i \in 1..(to - (from + 1) + 1) /\ (from + 1) + i - 1 = first + i
      BY <2>1, <2>3, <3>1
    <3>3. items[i] = l[(from + 1) + i - 1]
      BY <2>5, <3>2
    <3> QED BY <3>2, <3>3
  <2> QED BY <2>4, <2>7, <2>8 DEF first, total
<1> QED BY <1>3, <1>4

\* The pages that are counted have a place for every item (writePage).
LEMMA PageOf ==
  ASSUME InventoryTypeOK, NEW n \in Nat, NEW k \in 1..n
  PROVE  \E p \in 0..(TotalPages(n) - 1) : \E i \in 1..PageSize : k = p * PageSize + i
<1> DEFINE size1 == PageSize
           p == (k - 1) \div size1
           m == TotalPages(n)
<1>1. size1 \in Nat \ {0}
  BY PageSizeType
<1> HIDE DEF size1
<1>2. k - 1 \in Nat /\ n + size1 - 1 \in Nat
  BY <1>1
<1>3. /\ p \in Nat /\ p * size1 \in Nat /\ p * size1 <= k - 1
      /\ k - 1 < p * size1 + size1
  BY <1>1, <1>2, Quotient
<1>4. /\ m \in Nat /\ m * size1 \in Nat
      /\ n + size1 - 1 < m * size1 + size1
  <2>1. m = (n + size1 - 1) \div size1
    BY DEF TotalPages, size1
  <2> HIDE DEF m
  <2> QED BY <1>1, <1>2, <2>1, Quotient
<1> DEFINE x == p * size1
           y == m * size1
<1> HIDE DEF p, m
<1>5. x \in Nat /\ y \in Nat /\ x <= k - 1 /\ k - 1 < x + size1 /\ n - 1 < y
  <2>1. x \in Nat /\ y \in Nat /\ x <= k - 1 /\ k - 1 < x + size1
    BY <1>3, <1>4
  <2>2. n + size1 - 1 < y + size1
    BY <1>4
  <2> HIDE DEF x, y
  <2> QED BY <1>1, <2>1, <2>2
<1>6. p < m
  <2> SUFFICES ASSUME m <= p PROVE FALSE
    BY <1>3, <1>4
  <2>1. y <= x
    BY <1>1, <1>3, <1>4, Monotone
  <2> HIDE DEF x, y
  <2> QED BY <1>5, <2>1
<1>7. k - x \in 1..size1 /\ k = x + (k - x)
  <2> HIDE DEF x, y
  <2> QED BY <1>1, <1>5
<1>8. p \in 0..(m - 1)
  BY <1>3, <1>4, <1>6
<1>9. \E i \in 1..size1 : k = p * size1 + i
  BY <1>7
<1> QED BY <1>8, <1>9 DEF m, size1

-----------------------------------------------------------------------------
(* Inventory: the theorems *)

\* Every answer a client has is one that the lists give as they are, whatever order their
\* Snapshots had them in (writePage).
THEOREM InventoryInvariance == InventorySpec => []InventoryInv
<1>1. InventoryInit => InventoryInv
  BY DEF InventoryInit, InventoryInv, InventoryTypeOK, Clusters
<1>2. InventoryInv /\ [InventoryNext]_inventoryVars => InventoryInv'
  <2> SUFFICES ASSUME InventoryInv, [InventoryNext]_inventoryVars PROVE InventoryInv'
    OBVIOUS
  <2>1. ASSUME NEW k \in Clusters, Replace(k) PROVE InventoryInv'
    <3>1. InventoryTypeOK'
      <4>1. PICK list \in SUBSET {i \in Items : i.cluster = k} :
              lists' = [lists EXCEPT ![k] = list]
        BY <2>1 DEF Replace, Lists
      <4> QED BY <2>1, <4>1 DEF Replace, InventoryInv, InventoryTypeOK
    <3> QED BY <2>1, <3>1 DEF Replace, InventoryInv
  <2>2. ASSUME UNCHANGED <<lists, filter, sort, size>>
        PROVE  /\ InventoryTypeOK' = InventoryTypeOK
               /\ Snapshots' = Snapshots /\ \A s : Listings(s)' = Listings(s)
               /\ \A p, l : Answer(p, l)' = Answer(p, l)
    <3>1. InventoryTypeOK' = InventoryTypeOK
      BY <2>2 DEF InventoryTypeOK
    <3>2. Stored' = Stored
      BY <2>2 DEF Stored
    <3>3. Snapshots' = Snapshots
      BY <3>2 DEF Snapshots
    <3>4. Selected' = Selected
      BY <2>2, <3>2 DEF Selected, matches
    <3>5. \A a, b : Before(a, b)' = Before(a, b)
      BY <2>2 DEF Before
    <3>6. \A s : Listings(s)' = Listings(s)
      BY <3>4, <3>5 DEF Listings, InOrder
    <3>7. \A p, l : Answer(p, l)' = Answer(p, l)
      BY <2>2 DEF Answer, Accepted, Start, End, TotalPages, PageSize
    <3> QED BY <3>1, <3>3, <3>6, <3>7
  <2>3. ASSUME NEW page \in Pages, Get(page) PROVE InventoryInv'
    <3>1. UNCHANGED <<lists, filter, sort, size>>
      BY <2>3 DEF Get
    <3>2. PICK s \in Snapshots : \E l \in Listings(s) :
            got' = got \cup {<<page, Answer(page, l)>>}
      BY <2>3 DEF Get
    <3>3. ASSUME NEW g \in got'
          PROVE  \E u \in Snapshots : \E l \in Listings(u) :
                   g[1] \in Pages /\ g = <<g[1], Answer(g[1], l)>>
      BY <3>2 DEF InventoryInv
    <3> QED BY <2>2, <3>1, <3>3 DEF InventoryInv
  <2>4. CASE UNCHANGED inventoryVars
    <3>1. UNCHANGED <<lists, filter, sort, size>> /\ got' = got
      BY <2>4 DEF inventoryVars
    <3> QED BY <2>2, <3>1 DEF InventoryInv
  <2> QED BY <2>1, <2>3, <2>4 DEF InventoryNext
<1> QED BY <1>1, <1>2, PTL DEF InventorySpec

\* What there is to know of an answer (writePage).
LEMMA GotFacts ==
  ASSUME InventoryInv, NEW g \in got
  PROVE  \E s \in Snapshots : \E l \in Listings(s) :
           /\ l \in SetToSeqs(Selected)
           /\ g[1] \in Nat /\ g = <<g[1], Answer(g[1], l)>> /\ g[2] = Answer(g[1], l)
BY QueryAssumption DEF InventoryInv, Listings

\* No page number makes the handler slice out of bounds (pagination, writePage).
THEOREM SlicesCorrect == InventorySpec => []SlicesAreInBounds
<1>1. InventoryInv => SlicesAreInBounds
  <2> SUFFICES ASSUME InventoryInv, NEW g \in got PROVE g[2].status # "panic"
    BY DEF SlicesAreInBounds
  <2>1. PICK s \in Snapshots : \E l \in Listings(s) :
          l \in SetToSeqs(Selected) /\ g[1] \in Nat /\ g[2] = Answer(g[1], l)
    BY GotFacts
  <2>2. InventoryTypeOK
    BY DEF InventoryInv
  <2> QED BY <2>1, <2>2, AnswerFacts
<1> QED BY <1>1, InventoryInvariance, PTL

\* All answers are cut from one list in the order that was asked for (sortBy).
LEMMA OneListing ==
  ASSUME InventoryInv, got # {}
  PROVE  \E l \in SetToSeqs(Selected) :
           /\ \A i, j \in 1..Len(l) : i < j => ~Before(l[j], l[i])
           /\ \A g \in got :
                g[1] \in Nat /\ g = <<g[1], Answer(g[1], l)>> /\ g[2] = Answer(g[1], l)
<1>1. InventoryTypeOK /\ sort \in Sorts
  BY DEF InventoryInv, InventoryTypeOK
<1>2. PICK s \in Snapshots : \E m \in Listings(s) : m \in SetToSeqs(Selected)
  BY GotFacts
<1>3. PICK l \in Listings(s) : l \in SetToSeqs(Selected)
  BY <1>2
<1>4. ASSUME NEW g \in got
      PROVE  g[1] \in Nat /\ g = <<g[1], Answer(g[1], l)>> /\ g[2] = Answer(g[1], l)
  <2>1. PICK t \in Snapshots : \E m \in Listings(t) :
          g[1] \in Nat /\ g = <<g[1], Answer(g[1], m)>> /\ g[2] = Answer(g[1], m)
    BY GotFacts
  <2>2. PICK m \in Listings(t) :
          g[1] \in Nat /\ g = <<g[1], Answer(g[1], m)>> /\ g[2] = Answer(g[1], m)
    BY <2>1
  <2>3. l = m
    BY <1>1, ListingsAgree
  <2> QED BY <2>2, <2>3
<1>5. /\ DOMAIN l = 1..Len(l)
      /\ \A i \in 1..Len(l) : l[i] \in Items
  BY <1>1, <1>3, StoredFacts, Enumeration
<1>6. ASSUME NEW i \in 1..Len(l), NEW j \in 1..Len(l), i < j PROVE ~Before(l[j], l[i])
  <2>1. InOrder(s, l[i], l[j])
    BY <1>5, <1>6 DEF Listings
  <2> QED BY <1>1, <1>5, <2>1, BeforeFacts DEF InOrder
<1> QED BY <1>3, <1>4, <1>6

\* All pages together are the list the client asked for, from whatever Snapshots they are
\* cut (writePage, sortBy, sortSnapshot).
THEOREM PagesCorrect == InventorySpec => []PagesAreComplete
<1>1. InventoryInv => PagesAreComplete
  <2> SUFFICES ASSUME InventoryInv PROVE PagesAreComplete
    OBVIOUS
  <2>1. CASE got = {}
    BY <2>1 DEF PagesAreComplete, Answers
  <2>2. CASE got # {}
    <3>1. PICK l \in SetToSeqs(Selected) :
            /\ \A i, j \in 1..Len(l) : i < j => ~Before(l[j], l[i])
            /\ \A g \in got :
                 g[1] \in Nat /\ g = <<g[1], Answer(g[1], l)>> /\ g[2] = Answer(g[1], l)
      BY <2>2, OneListing
    <3>2. InventoryTypeOK
      BY DEF InventoryInv
    <3>3. /\ Len(l) \in Nat
          /\ \A i \in 1..Len(l) : l[i] \in Selected
          /\ \A i, j \in 1..Len(l) : l[i] = l[j] => i = j
          /\ \A x \in Selected : \E i \in 1..Len(l) : l[i] = x
      BY <3>2, StoredFacts, Enumeration
    <3>4. PageSize \in Nat \ {0}
      BY <3>2, PageSizeType
    <3>5. \A g \in Answers :
            /\ g \in got /\ g[1] \in Nat
            /\ g[2].totalPages = TotalPages(Len(l))
            /\ Places(g) = {i \in 1..PageSize : g[1] * PageSize + i <= Len(l)}
            /\ \A i \in Places(g) : g[2].items[i] = l[g[1] * PageSize + i]
      BY <3>1, <3>2, AnswerFacts DEF Answers, Places
    <3>6. ASSUME NEW g \in Answers, NEW i \in Places(g)
          PROVE  /\ g[1] \in Nat /\ i \in 1..PageSize
                 /\ g[1] * PageSize + i \in 1..Len(l)
                 /\ g[2].items[i] = l[g[1] * PageSize + i]
      <4>1. g[1] \in Nat /\ i \in 1..PageSize /\ g[1] * PageSize + i <= Len(l)
        BY <3>5
      <4> DEFINE x == g[1] * PageSize
      <4>2. x \in Nat
        BY <3>4, <4>1
      <4> HIDE DEF x
      <4>3. x + i \in Nat /\ x + i >= 1
        BY <3>4, <4>1, <4>2
      <4>4. x + i \in 1..Len(l)
        BY <3>3, <4>1, <4>3 DEF x
      <4> QED BY <3>5, <4>1, <4>4 DEF x
    <3>7. ASSUME NEW a \in Answers, NEW b \in Answers
          PROVE  /\ a[1] = b[1] => a = b
                 /\ \A i \in Places(a), j \in Places(b) :
                      LET x == a[2].items[i]
                          y == b[2].items[j]
                      IN  /\ x \in Selected
                          /\ x = y => a[1] = b[1] /\ i = j
                          /\ a[1] < b[1] \/ (a[1] = b[1] /\ i < j) => ~Before(y, x)
      <4>1. a[1] = b[1] => a = b
        BY <3>1, <3>5, Zenon
      <4>2. ASSUME NEW i \in Places(a), NEW j \in Places(b)
            PROVE  /\ a[2].items[i] \in Selected
                   /\ a[2].items[i] = b[2].items[j] => a[1] = b[1] /\ i = j
                   /\ a[1] < b[1] \/ (a[1] = b[1] /\ i < j) =>
                        ~Before(b[2].items[j], a[2].items[i])
        <5> DEFINE u == a[1] * PageSize + i
                   v == b[1] * PageSize + j
        <5>1. /\ a[1] \in Nat /\ i \in 1..PageSize /\ u \in 1..Len(l)
              /\ a[2].items[i] = l[u]
          BY <3>6
        <5>2. /\ b[1] \in Nat /\ j \in 1..PageSize /\ v \in 1..Len(l)
              /\ b[2].items[j] = l[v]
          BY <3>6
        <5>3. a[1] < b[1] => u < v
          BY <3>4, <5>1, <5>2, PlacesApart
        <5>4. b[1] < a[1] => v < u
          BY <3>4, <5>1, <5>2, PlacesApart
        <5>5. a[1] = b[1] => (u = v <=> i = j) /\ (i < j => u < v)
          <6> SUFFICES ASSUME a[1] = b[1] PROVE (u = v <=> i = j) /\ (i < j => u < v)
            OBVIOUS
          <6> DEFINE x == a[1] * PageSize
          <6>1. x \in Nat /\ u = x + i /\ v = x + j
            BY <3>4, <5>1
          <6> HIDE DEF x, u, v
          <6> QED BY <3>4, <5>1, <5>2, <6>1
        <5>6. u = v => a[1] = b[1] /\ i = j
          <6>1. u \in Nat /\ v \in Nat /\ a[1] \in Nat /\ b[1] \in Nat
            BY <5>1, <5>2
          <6> HIDE DEF u, v
          <6> QED BY <5>3, <5>4, <5>5, <6>1
        <5> HIDE DEF u, v
        <5>7. l[u] = l[v] => u = v
          BY <3>3, <5>1, <5>2
        <5>8. u < v => ~Before(l[v], l[u])
          BY <3>1, <5>1, <5>2
        <5> QED BY <3>3, <5>1, <5>2, <5>3, <5>5, <5>6, <5>7, <5>8
      <4> QED BY <4>1, <4>2
    <3>8. ASSUME NEW g \in Answers,
                 \A p \in 0..(g[2].totalPages - 1) : \E a \in Answers : a[1] = p,
                 NEW x \in Selected
          PROVE  \E a \in Answers : x \in Range(a[2].items)
      <4>1. PICK k \in 1..Len(l) : l[k] = x
        BY <3>3
      <4>2. PICK p \in 0..(TotalPages(Len(l)) - 1) : \E i \in 1..PageSize : k = p * PageSize + i
        BY <3>2, <3>3, PageOf
      <4>3. PICK i \in 1..PageSize : k = p * PageSize + i
        BY <4>2
      <4>4. PICK a \in Answers : a[1] = p
        BY <3>5, <3>8
      <4>5. i \in Places(a)
        BY <3>3, <3>5, <4>3, <4>4
      <4>6. a[2].items[i] = x
        BY <3>5, <4>1, <4>3, <4>4, <4>5
      <4> QED BY <4>5, <4>6 DEF Range, Places
    <3>9. ASSUME NEW g \in Answers,
                 \A p \in 0..(g[2].totalPages - 1) : \E a \in Answers : a[1] = p
          PROVE  Selected \subseteq UNION {Range(a[2].items) : a \in Answers}
      BY <3>8, <3>9
    <3> QED BY <3>7, <3>9 DEF PagesAreComplete
  <2> QED BY <2>1, <2>2
<1> QED BY <1>1, InventoryInvariance, PTL

\* Every request for a page has one list to cut it from, the same for all of them
\* (sortSnapshot, sortBy).
THEOREM OrderCorrect == InventorySpec => []OrderIsDetermined
<1>1. InventoryInv => OrderIsDetermined
  <2> SUFFICES ASSUME InventoryTypeOK PROVE OrderIsDetermined
    BY DEF InventoryInv
  <2>1. ASSUME NEW T, T # {}, \A x, y \in T : x = y PROVE Cardinality(T) = 1
    <3>1. PICK x \in T : T = {x}
      BY <2>1
    <3> QED BY <3>1, FS_Singleton
  <2>2. Cardinality(Snapshots) = 1
    BY <2>1, SnapshotExists, SnapshotsAgree
  <2>3. ASSUME NEW s \in Snapshots PROVE Cardinality(Listings(s)) = 1
    BY <2>1, ListingExists, ListingsAgree
  <2> QED BY <2>2, <2>3 DEF OrderIsDetermined
<1> QED BY <1>1, InventoryInvariance, PTL

-----------------------------------------------------------------------------
(* The parts together *)

\* Each part behaves among the others as it does alone.
THEOREM PartsCompose ==
  PartsSpec => Spec /\ PerformanceSpec /\ LimiterSpec /\ BackoffSpec /\ InventorySpec
<1> DEFINE all == <<kind, vars, performanceVars, limiterVars, backoffVars, inventoryVars>>
<1>1. PartsInit => Init /\ PerformanceInit /\ LimiterInit /\ BackoffInit /\ InventoryInit
  BY DEF PartsInit
<1>2. ASSUME [PartsNext]_all
      PROVE  /\ [Next]_vars /\ [PerformanceNext]_performanceVars
             /\ [LimiterNext]_limiterVars /\ [BackoffNext]_backoffVars
             /\ [InventoryNext]_inventoryVars
  BY <1>2 DEF PartsNext
<1> QED
  BY <1>1, <1>2, PTL
     DEF PartsSpec, Spec, PerformanceSpec, LimiterSpec, BackoffSpec, InventorySpec

\* So all of their invariants hold in the run that has them all.
THEOREM PartsCorrect == PartsSpec => []PartsInv
<1>1. IInv /\ PerformanceInv /\ LimiterInv /\ BackoffInv /\ InventoryInv => PartsInv
  BY DEF PartsInv
<1> QED
  BY <1>1, PartsCompose, Invariance, PerformanceInvariance, LimiterInvariance,
     BackoffInvariance, InventoryInvariance, PTL

=============================================================================
