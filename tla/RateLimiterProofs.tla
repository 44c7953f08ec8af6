--------------------------- MODULE RateLimiterProofs --------------------------
(***************************************************************************)
(* The window and the waits of RateLimiter for every number of calls,      *)
(* period and set of tasks, and whatever the sleeps do.                    *)
(***************************************************************************)
EXTENDS RateLimiter, TLAPS

\* Why the window holds: a call that left the deque is a period old, no call lies in the
\* future, and calls that are MaxCalls apart are a period apart.
Expired == \A i \in 1 .. popped : grants[i] <= clock - Period
Past    == \A i \in 1 .. Len(grants) : grants[i] <= clock
RateInv == RateTypeOK /\ Expired /\ Past /\ Spaced

\* A queue stays a queue of waiters when one of them leaves it, from the head or from the
\* middle.
LEMMA QueueShrinks ==
  ASSUME queue \in Seq(Waiter)
  PROVE  /\ queue # <<>> => Tail(queue) \in Seq(Waiter)
         /\ \A i \in 1 .. Len(queue) : RemoveAt(queue, i) \in Seq(Waiter)
<1>1. ASSUME NEW i \in 1 .. Len(queue) PROVE RemoveAt(queue, i) \in Seq(Waiter)
  <2>1. SubSeq(queue, 1, i - 1) \in Seq(Waiter)
    OBVIOUS
  <2>2. SubSeq(queue, i + 1, Len(queue)) \in Seq(Waiter)
    OBVIOUS
  <2>. QED  BY <2>1, <2>2 DEF RemoveAt
<1>. QED  BY <1>1

\* Nothing was granted yet.
LEMMA RateInitInv == RateInit => RateInv
<1>. SUFFICES ASSUME RateInit PROVE RateInv
  OBVIOUS
<1>1. grants = <<>> /\ Len(grants) = 0 /\ popped = 0 /\ clock = 0 /\ queue = <<>>
  BY DEF RateInit
<1>2. asleep \in BOOLEAN /\ prompt \in BOOLEAN
  BY DEF RateInit
<1>3. RateTypeOK
  BY <1>1, <1>2, RateAssumption DEF RateTypeOK
<1>4. Expired /\ Past /\ Spaced
  BY <1>1, RateAssumption DEF Expired, Past, Spaced
<1>. QED  BY <1>3, <1>4 DEF RateInv

\* Evicting, granting, sleeping, cancelling and the clock keep the invariant.
LEMMA RateStepInv == RateInv /\ [RateNext]_rateVars => RateInv'
<1>. SUFFICES ASSUME RateInv, [RateNext]_rateVars PROVE RateInv'
  OBVIOUS
<1>. USE RateAssumption DEF RateInv, RateTypeOK
<1>1. ASSUME NEW t \in Task, Acquire(t) PROVE RateInv'
  <2>1. [task |-> t, since |-> clock, ahead |-> Len(queue)] \in Waiter
    BY DEF Waiter
  <2>2. queue' \in Seq(Waiter)
    BY <1>1, <2>1 DEF Acquire
  <2>. QED  BY <1>1, <2>2 DEF Acquire, Expired, Past, Spaced
<1>2. ASSUME NEW i \in 1 .. Len(queue), Cancelled(i) PROVE RateInv'
  <2>1. queue' \in Seq(Waiter)
    BY <1>2, QueueShrinks DEF Cancelled
  <2>2. asleep' \in BOOLEAN
    BY <1>2, Zenon DEF Cancelled
  <2>. QED  BY <1>2, <2>1, <2>2 DEF Cancelled, Expired, Past, Spaced
<1>3. CASE Check
  <2>1. PICK k \in popped .. Len(grants) :
          /\ Evicts(k)
          /\ popped' = k
          /\ IF Full(k) THEN asleep' = TRUE  /\ UNCHANGED <<grants, queue>>
                        ELSE asleep' = FALSE /\ grants' = Append(grants, clock) /\ queue' = Tail(queue)
    BY <1>3 DEF Check
  <2>2. k \in Nat /\ clock' = clock /\ prompt' = prompt /\ queue # <<>>
    BY <1>3 DEF Check
  <2>3. \A i \in 1 .. k : grants[i] <= clock - Period
    BY <2>1, <2>2 DEF Evicts, Expired
  <2>0. asleep' \in BOOLEAN
    <3>1. asleep' = TRUE \/ asleep' = FALSE
      BY <2>1, Zenon
    <3>. QED  BY <3>1, Zenon
  <2>4. CASE Full(k)
    <3>0. UNCHANGED <<grants, queue>>
      BY <2>1, <2>4, Zenon
    <3>1. popped' \in 0 .. Len(grants') /\ Len(grants') - popped' <= MaxCalls
      BY <2>1, <2>2, <3>0
    <3>2. Expired'
      BY <2>1, <2>2, <2>3, <3>0 DEF Expired
    <3>3. Past' /\ Spaced'
      BY <2>2, <3>0 DEF Past, Spaced
    <3>. QED  BY <2>0, <2>2, <3>0, <3>1, <3>2, <3>3
  <2>5. CASE ~Full(k)
    <3>0. grants' = Append(grants, clock) /\ queue' = Tail(queue)
      BY <2>1, <2>5, Zenon
    <3>1. /\ grants' \in Seq(Nat) /\ Len(grants') = Len(grants) + 1
          /\ grants'[Len(grants) + 1] = clock
          /\ \A i \in 1 .. Len(grants) : grants'[i] = grants[i]
      BY <3>0
    <3>2. Len(grants) - k < MaxCalls
      BY <2>2, <2>5 DEF Full
    <3>3. RateTypeOK'
      <4>1. queue' \in Seq(Waiter)
        BY <2>2, <3>0, QueueShrinks
      <4>2. popped' \in 0 .. Len(grants') /\ Len(grants') - popped' <= MaxCalls
        BY <2>1, <2>2, <3>1, <3>2
      <4>. QED  BY <2>0, <2>2, <3>1, <4>1, <4>2
    <3>4. Expired' /\ Past'
      <4>1. ASSUME NEW i \in 1 .. k PROVE grants'[i] <= clock' - Period
        <5>1. i \in 1 .. Len(grants)
          BY <2>1, <2>2
        <5>. QED  BY <2>2, <2>3, <3>1, <5>1
      <4>2. ASSUME NEW i \in 1 .. Len(grants') PROVE grants'[i] <= clock'
        <5>1. i \in 1 .. Len(grants) \/ i = Len(grants) + 1
          BY <3>1
        <5>2. i \in 1 .. Len(grants) => grants'[i] = grants[i] /\ grants[i] <= clock
          BY <3>1 DEF Past
        <5>. QED  BY <2>2, <3>1, <5>1, <5>2
      <4>. QED  BY <2>1, <4>1, <4>2 DEF Expired, Past
    <3>5. ASSUME NEW i \in 1 .. Len(grants') - MaxCalls
          PROVE  grants'[i + MaxCalls] - grants'[i] >= Period
      <4>0. i \in Nat /\ i > 0 /\ i + MaxCalls <= Len(grants) + 1
        BY <3>1
      <4>1. CASE i + MaxCalls <= Len(grants)
        <5>1. /\ i \in 1 .. Len(grants) - MaxCalls
              /\ i \in 1 .. Len(grants) /\ i + MaxCalls \in 1 .. Len(grants)
          BY <4>0, <4>1
        <5>2. grants'[i] = grants[i] /\ grants'[i + MaxCalls] = grants[i + MaxCalls]
          BY <3>1, <5>1
        <5>. QED  BY <5>1, <5>2 DEF Spaced
      <4>2. CASE i + MaxCalls = Len(grants) + 1
        <5>1. i \in 1 .. k /\ i \in 1 .. Len(grants)
          BY <2>1, <2>2, <3>2, <4>0, <4>2
        <5>2. grants'[i + MaxCalls] = clock /\ grants'[i] = grants[i]
          BY <3>1, <4>2, <5>1
        <5>3. grants[i] <= clock - Period /\ grants[i] \in Nat
          BY <2>3, <5>1
        <5>. QED  BY <5>2, <5>3
      <4>3. i + MaxCalls <= Len(grants) \/ i + MaxCalls = Len(grants) + 1
        <5>. DEFINE last == i + MaxCalls
        <5>1. last \in Nat /\ Len(grants) \in Nat /\ last <= Len(grants) + 1
          BY <4>0
        <5>. HIDE DEF last
        <5>2. last <= Len(grants) \/ last = Len(grants) + 1
          BY <5>1
        <5>. QED  BY <5>2 DEF last
      <4>. QED  BY <4>1, <4>2, <4>3, Zenon
    <3>. QED  BY <3>3, <3>4, <3>5 DEF Spaced
  <2>. QED  BY <2>4, <2>5
<1>4. CASE Tick
  <2>1. clock' = clock + 1 /\ UNCHANGED <<grants, popped, queue, asleep>>
    BY <1>4 DEF Tick
  <2>2. prompt' = (prompt /\ (queue = <<>> \/ (asleep /\ clock < WakesAt)))
    BY <1>4, Zenon DEF Tick
  <2>3. prompt' \in BOOLEAN
    BY <2>2, Zenon
  <2>. QED  BY <2>1, <2>3 DEF Expired, Past, Spaced
<1>5. CASE UNCHANGED rateVars
  BY <1>5 DEF rateVars, Expired, Past, Spaced
<1>. QED  BY <1>1, <1>2, <1>3, <1>4, <1>5 DEF RateNext

\* The deque keeps its types and never holds more than MaxCalls calls.
THEOREM RateTyping == RateSpec => []RateTypeOK
<1>1. RateInv => RateTypeOK
  BY DEF RateInv
<1>. QED  BY <1>1, RateInitInv, RateStepInv, PTL DEF RateSpec

\* No window of a Period has more than MaxCalls grants, whether sleeps end early, late or
\* by cancellation (acquire re-reads the clock and evicts again before it records).
THEOREM WindowHolds == RateSpec => []Spaced
<1>1. RateInv => Spaced
  BY DEF RateInv
<1>. QED  BY <1>1, RateInitInv, RateStepInv, PTL DEF RateSpec

-------------------------------------------------------------------------------
\* Why nobody waits longer: the i-th in the queue has Turn(i) full windows of calls before it,
\* and the grant as many windows and one before its own was early enough for its deadline.
Turn(i)   == (i - 1) \div MaxCalls
Before(i) == Len(grants) + i - MaxCalls * (Turn(i) + 1)

Deadline(w) == w.since + Period * (w.ahead \div MaxCalls + 1)

\* The i-th in the queue will be in time if it leaves as many periods from now as windows go
\* before it, and if that grant was early enough for it.
InTime(i) ==
  /\ clock + Period * Turn(i) <= Deadline(queue[i])
  /\ Before(i) >= 1 => grants[Before(i)] + Period * (Turn(i) + 1) <= Deadline(queue[i])

Sorted == \A i, j \in 1 .. Len(grants) : i <= j => grants[i] <= grants[j]

\* Who sleeps under the lock has seen a full window.
SleepsFull == asleep => Len(grants) - popped = MaxCalls

WaitInv ==
  /\ Sorted /\ SleepsFull
  /\ prompt => \A i \in 1 .. Len(queue) : InTime(i)

\* Products grow with their factor.
LEMMA Grows ==
  ASSUME NEW n \in Nat, NEW s \in Int, NEW t \in Int, s < t
  PROVE  n * s + n <= n * t /\ n * s \in Int /\ n * t \in Int
<1>1. PICK d \in Nat : t = s + 1 + d
  <2>. WITNESS t - s - 1 \in Nat
  <2>. QED  OBVIOUS
<1>2. n * t = n * s + n + n * d
  BY <1>1
<1>3. n * d >= 0 /\ n * s \in Int /\ n * d \in Int
  OBVIOUS
<1>. QED  BY <1>2, <1>3

\* A turn is what its position is in.
LEMMA TurnIs ==
  ASSUME NEW i \in Nat \ {0}
  PROVE  /\ Turn(i) \in Nat
         /\ MaxCalls * Turn(i) < i /\ i <= MaxCalls * Turn(i) + MaxCalls
         /\ MaxCalls * Turn(i) \in Nat /\ MaxCalls * (Turn(i) + 1) = MaxCalls * Turn(i) + MaxCalls
<1>. DEFINE n == i - 1
            t == n \div MaxCalls
<1>1. n \in Nat /\ MaxCalls \in Nat \ {0}
  BY RateAssumption
<1>2. t \in Nat /\ MaxCalls * t <= n /\ n < MaxCalls * (t + 1)
  BY <1>1
<1>3. MaxCalls * (t + 1) = MaxCalls * t + MaxCalls /\ MaxCalls * t \in Nat
  BY <1>1, <1>2
<1>4. Turn(i) = t
  BY DEF Turn
<1>. HIDE DEF t
<1>. QED  BY <1>1, <1>2, <1>3, <1>4

\* Only one turn fits a position.
LEMMA TurnOnly ==
  ASSUME NEW i \in Nat \ {0}, NEW t \in Nat, MaxCalls * t < i, i <= MaxCalls * t + MaxCalls
  PROVE  Turn(i) = t
<1>. DEFINE u == Turn(i)
<1>1. /\ u \in Nat /\ MaxCalls * u < i /\ i <= MaxCalls * u + MaxCalls
      /\ MaxCalls * u \in Nat
  BY TurnIs
<1>. HIDE DEF u
<1>2. ~(t < u)
  <2>. SUFFICES ASSUME t < u PROVE FALSE
    OBVIOUS
  <2>1. MaxCalls * t + MaxCalls <= MaxCalls * u
    BY <1>1, Grows, RateAssumption
  <2>. QED  BY <1>1, <2>1, RateAssumption
<1>3. ~(u < t)
  <2>. SUFFICES ASSUME u < t PROVE FALSE
    OBVIOUS
  <2>1. MaxCalls * u + MaxCalls <= MaxCalls * t /\ MaxCalls * t \in Int
    BY <1>1, Grows, RateAssumption
  <2>. QED  BY <1>1, <2>1, RateAssumption
<1>. QED  BY <1>1, <1>2, <1>3 DEF u

\* The grants that count before and after a place.
LEMMA OnePlaceUp ==
  ASSUME NEW n \in Nat, NEW l \in Nat, NEW i \in Nat, NEW m \in Nat, NEW c \in Nat,
         l <= n + 1, i + 1 <= m + c, l + i - (m + c) >= 1
  PROVE  /\ l + i - (m + c) \in 1 .. n /\ n + (i + 1) - (m + c) \in 1 .. n
         /\ l + i - (m + c) <= n + (i + 1) - (m + c)
OBVIOUS

\* A deadline is a time.
LEMMA DeadlineIsTime == ASSUME NEW w \in Waiter PROVE Deadline(w) \in Int
<1>1. w.since \in Nat /\ w.ahead \in Nat
  BY DEF Waiter
<1>2. PICK a : a = w.ahead \div MaxCalls /\ a \in Nat
  BY <1>1, RateAssumption
<1>3. Deadline(w) = w.since + Period * (a + 1)
  BY <1>2 DEF Deadline
<1>. QED  BY <1>1, <1>2, <1>3, RateAssumption

\* A caller that moves up one place stays in time, with one more grant or without.
LEMMA MovesUp ==
  ASSUME RateInv, Sorted, NEW i \in Nat \ {0}, i + 1 \in 1 .. Len(queue), InTime(i + 1),
         clock' = clock, queue'[i] = queue[i + 1],
         grants' \in {grants, Append(grants, clock)}
  PROVE  InTime(i)'
<1>. PICK t, u, w, d, n : /\ t = Turn(i + 1) /\ u = Turn(i) /\ n = Len(grants)
                          /\ w = queue[i + 1] /\ d = Deadline(w)
  OBVIOUS
<1>1. /\ t \in Nat /\ MaxCalls * t < i + 1 /\ i + 1 <= MaxCalls * t + MaxCalls
      /\ MaxCalls * t \in Nat /\ MaxCalls * (t + 1) = MaxCalls * t + MaxCalls
  <2>1. i + 1 \in Nat \ {0}
    OBVIOUS
  <2>. QED  BY <2>1, TurnIs
<1>. PICK m : m = MaxCalls * t
  OBVIOUS
<1>2. /\ u \in Nat /\ MaxCalls * u \in Nat /\ MaxCalls * (u + 1) = MaxCalls * u + MaxCalls
  BY TurnIs
<1>3. \/ u = t /\ MaxCalls * t < i
      \/ t > 0 /\ u = t - 1 /\ i = MaxCalls * t /\ MaxCalls * t = MaxCalls * u + MaxCalls
  <2>1. CASE MaxCalls * t < i
    <3>1. i <= MaxCalls * t + MaxCalls
      BY <1>1, RateAssumption
    <3>. QED  BY <1>1, <2>1, <3>1, TurnOnly
  <2>2. CASE i = MaxCalls * t
    <3>1. t > 0
      BY <1>1, <2>2, RateAssumption
    <3>2. PICK s : s = t - 1 /\ s \in Nat /\ s + 1 = t
      BY <1>1, <3>1
    <3>3. MaxCalls * (s + 1) = MaxCalls * s + MaxCalls /\ MaxCalls * s \in Int
      BY <3>2, RateAssumption
    <3>4. s \in Nat /\ MaxCalls * s < i /\ i <= MaxCalls * s + MaxCalls
      BY <2>2, <3>2, <3>3, RateAssumption
    <3>. QED  BY <2>2, <3>1, <3>2, <3>3, <3>4, TurnOnly
  <2>. QED  BY <1>1, <2>1, <2>2
<1>4. /\ n \in Nat /\ clock \in Nat /\ \A j \in 1 .. n : grants[j] \in Nat /\ grants[j] <= clock
  BY DEF RateInv, RateTypeOK, Past
<1>5. d \in Int
  <2>0. queue \in Seq(Waiter) /\ w \in Waiter
    BY DEF RateInv, RateTypeOK
  <2>. QED  BY <2>0, DeadlineIsTime
<1>6. /\ clock + Period * t <= d
      /\ LET j == n + (i + 1) - MaxCalls * (t + 1) IN j >= 1 => grants[j] + Period * (t + 1) <= d
  BY Zenon DEF InTime, Before
<1>7. /\ Len(grants') \in {n, n + 1}
      /\ \A j \in 1 .. n : grants'[j] = grants[j]
      /\ Len(grants') = n + 1 => grants'[n + 1] = clock
  <2>1. grants \in Seq(Nat) /\ clock \in Nat
    BY DEF RateInv, RateTypeOK
  <2>2. CASE grants' = grants
    BY <1>4, <2>2
  <2>3. CASE grants' = Append(grants, clock)
    <3>1. /\ Len(grants') = n + 1 /\ grants'[n + 1] = clock
          /\ \A j \in 1 .. n : grants'[j] = grants[j]
      BY <2>1, <2>3
    <3>. QED  BY <3>1
  <2>. QED  BY <2>2, <2>3
<1>8. Deadline(queue'[i]) = d
  BY Zenon
<1>9. SUFFICES /\ clock + Period * u <= d
               /\ LET j == Len(grants') + i - MaxCalls * (u + 1)
                  IN  j >= 1 => grants'[j] + Period * (u + 1) <= d
  BY <1>8, Zenon DEF InTime, Before, Turn, Deadline
<1>10. CASE u = t /\ MaxCalls * t < i
  <2>. DEFINE j == Len(grants') + i - MaxCalls * (u + 1)
              k == n + (i + 1) - MaxCalls * (t + 1)
  <2>1. clock + Period * u <= d
    BY <1>6, <1>10
  <2>2. ASSUME j >= 1 PROVE grants'[j] + Period * (u + 1) <= d
    <3>1. j \in 1 .. n /\ k \in 1 .. n /\ j <= k
      <4>1. j = Len(grants') + i - (m + MaxCalls) /\ k = n + (i + 1) - (m + MaxCalls)
        BY <1>1, <1>10
      <4>2. m \in Nat /\ m < i /\ i + 1 <= m + MaxCalls /\ Len(grants') <= n + 1
        BY <1>1, <1>4, <1>7, <1>10
      <4>3. MaxCalls \in Nat /\ n \in Nat /\ Len(grants') \in Nat
        BY <1>4, <1>7, RateAssumption
      <4>4. Len(grants') + i - (m + MaxCalls) >= 1
        BY <2>2, <4>1
      <4>5. PICK l : l = Len(grants')
        OBVIOUS
      <4>6. /\ l + i - (m + MaxCalls) \in 1 .. n /\ n + (i + 1) - (m + MaxCalls) \in 1 .. n
            /\ l + i - (m + MaxCalls) <= n + (i + 1) - (m + MaxCalls)
        <5>1. i \in Nat /\ l \in Nat /\ l <= n + 1 /\ l + i - (m + MaxCalls) >= 1
          BY <4>2, <4>3, <4>4, <4>5
        <5>. QED  BY <4>2, <4>3, <5>1, OnePlaceUp, Zenon
      <4>. HIDE DEF j, k
      <4>7. j = l + i - (m + MaxCalls)
        BY <4>1, <4>5, Zenon
      <4>8. k = n + (i + 1) - (m + MaxCalls)
        BY <4>1, Zenon
      <4>. QED  BY <4>6, <4>7, <4>8, Zenon
    <3>2. grants[k] + Period * (t + 1) <= d
      BY <1>6, <3>1
    <3>3. grants'[j] = grants[j] /\ grants[j] <= grants[k] /\ grants[j] \in Nat /\ grants[k] \in Nat
      BY <1>4, <1>7, <3>1 DEF Sorted
    <3>4. Period * (t + 1) \in Int
      BY <1>1, RateAssumption
    <3>. HIDE DEF j, k
    <3>. QED  BY <1>5, <1>10, <3>2, <3>3, <3>4
  <2>. QED  BY <2>1, <2>2
<1>11. CASE t > 0 /\ u = t - 1 /\ i = MaxCalls * t /\ MaxCalls * t = MaxCalls * u + MaxCalls
  <2>. DEFINE j == Len(grants') + i - MaxCalls * (u + 1)
  <2>1. j = Len(grants')
    <3>1. j = Len(grants') + m - m /\ m \in Nat /\ Len(grants') \in Nat
      BY <1>1, <1>2, <1>4, <1>7, <1>11
    <3>. HIDE DEF j
    <3>. QED  BY <3>1
  <2>2. /\ Period * t \in Int /\ Period * u \in Int /\ u + 1 = t
        /\ Period * u <= Period * t
    <3>1. u < t /\ u \in Int /\ t \in Int /\ Period \in Nat /\ u + 1 = t
      <4>1. u \in Nat /\ t \in Nat /\ u = t - 1
        BY <1>1, <1>2, <1>11
      <4>. QED  BY <4>1, RateAssumption
    <3>2. Period * u + Period <= Period * t /\ Period * t \in Int /\ Period * u \in Int
      BY <3>1, Grows
    <3>. QED  BY <3>1, <3>2
  <2>3. clock + Period * u <= d
    BY <1>4, <1>5, <1>6, <2>2
  <2>4. ASSUME j >= 1 PROVE grants'[j] + Period * (u + 1) <= d
    <3>1. grants'[j] \in Nat /\ grants'[j] <= clock
      BY <1>4, <1>7, <2>1, <2>4
    <3>. HIDE DEF j
    <3>. QED  BY <1>4, <1>5, <1>6, <2>2, <3>1
  <2>. QED  BY <2>3, <2>4
<1>. QED  BY <1>3, <1>10, <1>11

\* What stands where in two sequences one behind the other.
LEMMA Juxtaposed ==
  ASSUME NEW S, NEW p \in Seq(S), NEW q \in Seq(S), NEW i \in 1 .. Len(p) + Len(q)
  PROVE  /\ i \in 1 .. Len(p) => (p \o q)[i] = p[i]
         /\ i > Len(p) => (p \o q)[i] = q[i - Len(p)]
OBVIOUS

\* The grant that counts for the i-th in the queue is one of the last MaxCalls.
LEMMA BeforeIs ==
  ASSUME RateInv, NEW i \in Nat \ {0}
  PROVE  /\ Before(i) \in Int /\ Before(i) <= Len(grants)
         /\ Before(i) >= Len(grants) - MaxCalls + 1
<1>1. PICK m : m = MaxCalls * Turn(i)
  OBVIOUS
<1>2. /\ m \in Nat /\ m < i /\ i <= m + MaxCalls
      /\ MaxCalls * (Turn(i) + 1) = m + MaxCalls
  BY <1>1, TurnIs
<1>3. Len(grants) \in Nat
  BY DEF RateInv, RateTypeOK
<1>4. Before(i) = Len(grants) + i - (m + MaxCalls)
  BY <1>2 DEF Before
<1>. QED  BY <1>2, <1>3, <1>4, RateAssumption

\* Nothing disturbs a caller who keeps its place while no call is granted.
LEMMA StaysInTime ==
  ASSUME NEW i \in Nat \ {0}, InTime(i), clock' = clock, grants' = grants,
         queue'[i] = queue[i]
  PROVE  InTime(i)'
BY Zenon DEF InTime, Before, Deadline, Turn

\* Who queues behind everybody has its periods still before it.
LEMMA ComesInTime ==
  ASSUME RateInv, NEW t \in Task, Acquire(t), NEW i \in Nat, i = Len(queue) + 1
  PROVE  InTime(i)'
<1>. DEFINE w == [task |-> t, since |-> clock, ahead |-> Len(queue)]
<1>1. /\ queue \in Seq(Waiter) /\ clock \in Nat /\ grants \in Seq(Nat)
      /\ queue' = Append(queue, w) /\ clock' = clock /\ grants' = grants
  BY DEF RateInv, RateTypeOK, Acquire
<1>2. i \in Nat \ {0} /\ i - 1 = Len(queue)
  BY <1>1
<1>3. queue'[i] = w
  BY <1>1, <1>2
<1>4. PICK p, b : p = Turn(i) /\ b = Before(i)
  OBVIOUS
<1>5. p \in Nat /\ p = Len(queue) \div MaxCalls
  <2>1. p \in Nat
    BY <1>4, TurnIs
  <2>. QED  BY <1>2, <1>4, <2>1 DEF Turn
<1>6. Deadline(w) = clock + Period * (p + 1)
  BY <1>5 DEF Deadline
<1>7. clock + Period * p <= Deadline(w)
  <2>1. Period * (p + 1) = Period * p + Period /\ Period * p \in Nat
    BY <1>5, RateAssumption
  <2>. QED  BY <1>1, <1>6, <2>1, RateAssumption
<1>8. ASSUME b >= 1 PROVE grants[b] + Period * (p + 1) <= Deadline(w)
  <2>1. b \in 1 .. Len(grants)
    BY <1>1, <1>4, <1>8, BeforeIs
  <2>2. grants[b] \in Nat /\ grants[b] <= clock
    BY <1>1, <2>1 DEF RateInv, Past
  <2>3. Period * (p + 1) \in Nat
    BY <1>5, RateAssumption
  <2>. QED  BY <1>1, <1>6, <2>2, <2>3
<1>. HIDE DEF w
<1>. QED  BY <1>1, <1>2, <1>3, <1>4, <1>7, <1>8, Zenon DEF InTime, Before, Deadline, Turn

\* A tick over a holder that sleeps to its time costs nobody its deadline.
LEMMA TicksInTime ==
  ASSUME RateInv, WaitInv, Tick, prompt', NEW i \in 1 .. Len(queue)
  PROVE  InTime(i)'
<1>1. /\ clock' = clock + 1 /\ UNCHANGED <<grants, popped, queue, asleep>>
      /\ prompt /\ asleep /\ clock < WakesAt
  <2>1. queue # <<>>
    OBVIOUS
  <2>2. /\ clock' = clock + 1 /\ UNCHANGED <<grants, popped, queue, asleep>>
        /\ prompt' = (prompt /\ (queue = <<>> \/ (asleep /\ clock < WakesAt)))
    BY Zenon DEF Tick
  <2>. QED  BY <2>1, <2>2, Zenon
<1>2. InTime(i) /\ SleepsFull /\ Sorted
  BY <1>1, Zenon DEF WaitInv
<1>3. i \in Nat \ {0} /\ queue[i] \in Waiter
  BY DEF RateInv, RateTypeOK
<1>4. PICK p, b, d, n, w :
        p = Turn(i) /\ b = Before(i) /\ d = Deadline(queue[i]) /\ n = Len(grants) /\ w = popped + 1
  OBVIOUS
<1>5. n \in Nat /\ popped \in Nat /\ w = n - MaxCalls + 1 /\ clock \in Nat /\ w \in 1 .. n
  BY <1>1, <1>2, <1>4, RateAssumption DEF SleepsFull, RateInv, RateTypeOK
<1>6. b \in 1 .. n /\ w <= b
  BY <1>3, <1>4, <1>5, BeforeIs
<1>7. grants[w] <= grants[b] /\ grants[w] \in Nat /\ grants[b] \in Nat
  BY <1>2, <1>4, <1>5, <1>6 DEF Sorted, RateInv, RateTypeOK
<1>8. clock + 1 <= grants[w] + Period
  BY <1>1, <1>4, <1>5, <1>7, RateAssumption DEF WakesAt
<1>9. d \in Int /\ p \in Nat
  BY <1>3, <1>4, DeadlineIsTime, TurnIs
<1>10. b >= 1
  BY <1>5, <1>6
<1>11. grants[b] + Period * (p + 1) <= d
  BY <1>2, <1>4, <1>10, Zenon DEF InTime
<1>12. (clock + 1) + Period * p <= d
  <2>1. Period * (p + 1) = Period * p + Period /\ Period * p \in Nat
    BY <1>9, RateAssumption
  <2>. QED  BY <1>5, <1>7, <1>8, <1>9, <1>11, <2>1, RateAssumption
<1>13. /\ Turn(i)' = p /\ Before(i)' = b /\ Deadline(queue[i])' = d
       /\ grants' = grants /\ clock' = clock + 1
  BY <1>1, <1>4, Zenon DEF Before, Turn, Deadline
<1>. QED  BY <1>11, <1>12, <1>13, Zenon DEF InTime

\* Nothing is granted and nobody waits.
LEMMA WaitInitInv == RateInit => WaitInv
<1>. SUFFICES ASSUME RateInit PROVE WaitInv
  OBVIOUS
<1>1. Len(grants) = 0 /\ Len(queue) = 0 /\ asleep = FALSE
  BY DEF RateInit
<1>. QED  BY <1>1 DEF WaitInv, Sorted, SleepsFull

\* Joining, cancelling, sleeping, granting and the clock keep everybody in time.
LEMMA WaitStepInv == RateInv /\ RateInv' /\ WaitInv /\ [RateNext]_rateVars => WaitInv'
<1>. SUFFICES ASSUME RateInv, RateInv', WaitInv, [RateNext]_rateVars PROVE WaitInv'
  OBVIOUS
<1>0. /\ clock \in Nat /\ grants \in Seq(Nat) /\ popped \in Nat /\ queue \in Seq(Waiter)
      /\ popped <= Len(grants) /\ Len(grants) - popped <= MaxCalls
      /\ asleep \in BOOLEAN /\ prompt \in BOOLEAN
  BY DEF RateInv, RateTypeOK
<1>1. /\ Sorted /\ SleepsFull
      /\ prompt => \A i \in 1 .. Len(queue) : InTime(i)
  BY DEF WaitInv
<1>2. ASSUME NEW t \in Task, Acquire(t) PROVE WaitInv'
  <2>1. /\ queue' = Append(queue, [task |-> t, since |-> clock, ahead |-> Len(queue)])
        /\ UNCHANGED <<clock, grants, popped, asleep, prompt>>
    BY <1>2 DEF Acquire
  <2>2. ASSUME prompt', NEW i \in 1 .. Len(queue') PROVE InTime(i)'
    <3>1. i \in Nat \ {0} /\ (i \in 1 .. Len(queue) \/ i = Len(queue) + 1)
      BY <1>0, <2>1
    <3>2. CASE i \in 1 .. Len(queue)
      <4>1. queue'[i] = queue[i]
        BY <1>0, <2>1, <3>2
      <4>. QED  BY <1>1, <2>1, <2>2, <3>1, <3>2, <4>1, StaysInTime
    <3>3. CASE i = Len(queue) + 1
      BY <1>2, <3>1, <3>3, ComesInTime
    <3>. QED  BY <3>1, <3>2, <3>3
  <2>3. Sorted' /\ SleepsFull'
    BY <1>1, <2>1 DEF Sorted, SleepsFull
  <2>. QED  BY <2>2, <2>3 DEF WaitInv
<1>3. ASSUME NEW m \in 1 .. Len(queue), Cancelled(m) PROVE WaitInv'
  <2>1. /\ queue' = RemoveAt(queue, m) /\ asleep' = (asleep /\ m # 1)
        /\ UNCHANGED <<clock, grants, popped, prompt>>
    BY <1>3, Zenon DEF Cancelled
  <2>2. /\ Len(queue') = Len(queue) - 1
        /\ \A i \in 1 .. Len(queue) - 1 :
              queue'[i] = IF i < m THEN queue[i] ELSE queue[i + 1]
    <3>1. PICK p, q : p = SubSeq(queue, 1, m - 1) /\ q = SubSeq(queue, m + 1, Len(queue))
      OBVIOUS
    <3>2. /\ p \in Seq(Waiter) /\ Len(p) = m - 1
          /\ \A i \in 1 .. m - 1 : p[i] = queue[i]
      BY <1>0, <3>1
    <3>3. /\ q \in Seq(Waiter) /\ Len(q) = Len(queue) - m
          /\ \A i \in 1 .. Len(queue) - m : q[i] = queue[m + i]
      BY <1>0, <3>1
    <3>4. queue' = p \o q
      BY <2>1, <3>1 DEF RemoveAt
    <3>5. ASSUME NEW i \in 1 .. Len(queue) - 1
          PROVE  queue'[i] = IF i < m THEN queue[i] ELSE queue[i + 1]
      <4>0. /\ i \in Nat /\ i \in 1 .. Len(p) + Len(q)
            /\ (i < m => i \in 1 .. Len(p)) /\ (~(i < m) => i > Len(p))
        BY <1>0, <3>2, <3>3
      <4>1. CASE i < m
        <5>0. (p \o q)[i] = p[i]
          BY <3>2, <3>3, <4>0, <4>1, Juxtaposed
        <5>1. queue'[i] = p[i]
          BY <3>4, <5>0, Zenon
        <5>. QED  BY <3>2, <4>0, <4>1, <5>1
      <4>2. CASE ~(i < m)
        <5>1. i - (m - 1) \in 1 .. Len(queue) - m /\ m + (i - (m - 1)) = i + 1
          BY <1>0, <4>2
        <5>2. queue'[i] = q[i - (m - 1)]
          <6>1. (p \o q)[i] = q[i - Len(p)]
            BY <3>2, <3>3, <4>0, <4>2, Juxtaposed
          <6>. QED  BY <3>2, <3>4, <6>1, Zenon
        <5>3. queue'[i] = queue[i + 1]
          BY <3>3, <5>1, <5>2
        <5>. QED  BY <4>2, <5>3
      <4>. QED  BY <4>1, <4>2
    <3>6. Len(queue') = Len(p) + Len(q)
      <4>1. p \in Seq(Waiter) /\ q \in Seq(Waiter)
        BY <3>2, <3>3, Zenon
      <4>2. Len(p \o q) = Len(p) + Len(q)
        BY <4>1
      <4>. QED  BY <3>4, <4>2, Zenon
    <3>7. Len(queue') = Len(queue) - 1
      BY <1>0, <3>2, <3>3, <3>6
    <3>. QED  BY <3>5, <3>7, Zenon
  <2>3. ASSUME prompt', NEW i \in 1 .. Len(queue') PROVE InTime(i)'
    <3>1. /\ i \in Nat \ {0} /\ i \in 1 .. Len(queue) - 1
          /\ i \in 1 .. Len(queue) /\ i + 1 \in 1 .. Len(queue)
      BY <1>0, <2>2
    <3>2. InTime(i) /\ InTime(i + 1)
      BY <1>1, <2>1, <2>3, <3>1
    <3>3. CASE i < m
      <4>1. queue'[i] = queue[i]
        BY <2>2, <3>1, <3>3
      <4>. QED  BY <2>1, <3>1, <3>2, <4>1, StaysInTime
    <3>4. CASE ~(i < m)
      <4>1. queue'[i] = queue[i + 1]
        BY <2>2, <3>1, <3>4
      <4>2. grants' \in {grants, Append(grants, clock)} /\ clock' = clock
        BY <2>1
      <4>. QED  BY <1>1, <3>1, <3>2, <4>1, <4>2, MovesUp
    <3>. QED  BY <3>3, <3>4
  <2>4. Sorted' /\ SleepsFull'
    <3>1. asleep' => asleep
      BY <2>1, Zenon
    <3>2. grants' = grants /\ popped' = popped
      BY <2>1
    <3>. QED  BY <1>1, <3>1, <3>2 DEF Sorted, SleepsFull
  <2>. QED  BY <2>3, <2>4 DEF WaitInv
<1>4. CASE Check
  <2>1. PICK k \in popped .. Len(grants) :
          /\ popped' = k
          /\ IF Full(k) THEN asleep' = TRUE  /\ UNCHANGED <<grants, queue>>
                        ELSE asleep' = FALSE /\ grants' = Append(grants, clock) /\ queue' = Tail(queue)
    BY <1>4 DEF Check
  <2>2. clock' = clock /\ prompt' = prompt /\ queue # <<>>
    BY <1>4 DEF Check
  <2>3. CASE Full(k)
    <3>1. UNCHANGED <<grants, queue>>
      BY <2>1, <2>3, Zenon
    <3>2. SleepsFull'
      BY <1>0, <2>1, <2>3, <3>1, RateAssumption DEF SleepsFull, Full
    <3>3. Sorted'
      BY <1>1, <3>1 DEF Sorted
    <3>4. ASSUME prompt', NEW i \in 1 .. Len(queue') PROVE InTime(i)'
      <4>1. i \in Nat \ {0} /\ i \in 1 .. Len(queue) /\ queue'[i] = queue[i]
        BY <3>1
      <4>2. InTime(i)
        BY <1>1, <2>2, <3>4, <4>1
      <4>. QED  BY <2>2, <3>1, <4>1, <4>2, StaysInTime
    <3>. QED  BY <3>2, <3>3, <3>4 DEF WaitInv
  <2>4. CASE ~Full(k)
    <3>1. asleep' = FALSE /\ grants' = Append(grants, clock) /\ queue' = Tail(queue)
      BY <2>1, <2>4, Zenon
    <3>2. /\ Len(grants') = Len(grants) + 1 /\ grants'[Len(grants) + 1] = clock
          /\ \A i \in 1 .. Len(grants) : grants'[i] = grants[i] /\ grants[i] \in Nat
      BY <1>0, <3>1
    <3>3. Sorted'
      <4>. SUFFICES ASSUME NEW i \in 1 .. Len(grants'), NEW j \in 1 .. Len(grants'), i <= j
                    PROVE  grants'[i] <= grants'[j]
        BY DEF Sorted
      <4>1. CASE j \in 1 .. Len(grants)
        <5>1. i \in 1 .. Len(grants)
          BY <4>1
        <5>. QED  BY <1>1, <3>2, <4>1, <5>1 DEF Sorted
      <4>2. CASE j = Len(grants) + 1
        BY <2>2, <3>2, <4>2 DEF RateInv, RateTypeOK, Past
      <4>. QED  BY <1>0, <3>2, <4>1, <4>2
    <3>4. ASSUME prompt', NEW i \in 1 .. Len(queue') PROVE InTime(i)'
      <4>1. i \in Nat \ {0} /\ i + 1 \in 1 .. Len(queue) /\ queue'[i] = queue[i + 1]
        BY <1>0, <2>2, <3>1
      <4>2. InTime(i + 1)
        BY <1>1, <2>2, <3>4, <4>1
      <4>3. grants' \in {grants, Append(grants, clock)}
        BY <3>1
      <4>. QED  BY <1>1, <2>2, <4>1, <4>2, <4>3, MovesUp
    <3>. QED  BY <3>1, <3>3, <3>4 DEF WaitInv, SleepsFull
  <2>. QED  BY <2>3, <2>4
<1>5. CASE Tick
  <2>1. UNCHANGED <<grants, popped, queue, asleep>>
    BY <1>5 DEF Tick
  <2>2. ASSUME prompt', NEW i \in 1 .. Len(queue') PROVE InTime(i)'
    <3>1. i \in 1 .. Len(queue)
      BY <2>1
    <3>. QED  BY <1>5, <2>2, <3>1, TicksInTime
  <2>. QED  BY <1>1, <2>1, <2>2 DEF WaitInv, Sorted, SleepsFull
<1>6. CASE UNCHANGED rateVars
  <2>1. UNCHANGED <<clock, grants, popped, queue, asleep, prompt>>
    BY <1>6 DEF rateVars
  <2>. QED  BY <1>1, <2>1, Zenon DEF WaitInv, Sorted, SleepsFull, InTime, Before, Turn, Deadline
<1>. QED  BY <1>2, <1>3, <1>4, <1>5, <1>6 DEF RateNext

\* Who is in time has not waited longer than its periods.
LEMMA InTimeWaits == RateInv /\ WaitInv => WaitBounded
<1>. SUFFICES ASSUME RateInv, WaitInv, prompt, NEW i \in 1 .. Len(queue)
              PROVE  clock - queue[i].since <= Period * (queue[i].ahead \div MaxCalls + 1)
  BY DEF WaitBounded
<1>1. i \in Nat \ {0} /\ queue[i] \in Waiter /\ clock \in Nat
  BY DEF RateInv, RateTypeOK
<1>2. PICK p, d, s : p = Turn(i) /\ d = Deadline(queue[i]) /\ s = queue[i].since
  OBVIOUS
<1>3. PICK e : e = Period * (queue[i].ahead \div MaxCalls + 1)
  OBVIOUS
<1>4. clock + Period * p <= d
  BY <1>2, Zenon DEF WaitInv, InTime
<1>5. d = s + e
  BY <1>2, <1>3 DEF Deadline
<1>6. s \in Nat /\ e \in Int
  <2>1. s \in Nat /\ queue[i].ahead \in Nat
    BY <1>1, <1>2 DEF Waiter
  <2>2. PICK a : a = queue[i].ahead \div MaxCalls /\ a \in Nat
    BY <2>1, RateAssumption
  <2>. QED  BY <1>3, <2>1, <2>2, RateAssumption
<1>7. Period * p \in Nat
  <2>1. p \in Nat
    BY <1>1, <1>2, TurnIs
  <2>. QED  BY <2>1, RateAssumption
<1>8. clock - s <= e
  BY <1>1, <1>4, <1>5, <1>6, <1>7
<1>. QED  BY <1>2, <1>3, <1>8

\* While the event loop is prompt nobody waits longer than the callers before it need, and
\* who cancels costs the others nothing (acquire, asyncio.Lock's order).
THEOREM WaitsAreBounded == RateSpec => []WaitBounded
<1>. DEFINE Inv == RateInv /\ WaitInv
<1>1. RateInit => Inv
  BY RateInitInv, WaitInitInv
<1>2. Inv /\ [RateNext]_rateVars => Inv'
  BY RateStepInv, WaitStepInv
<1>3. Inv => WaitBounded
  BY InTimeWaits
<1>. HIDE DEF Inv
<1>. QED  BY <1>1, <1>2, <1>3, PTL DEF RateSpec
===============================================================================
