----------------------------- MODULE RateLimiter ------------------------------
(***************************************************************************)
(* The sliding window every request waits for: at most MaxCalls calls in   *)
(* any Period.  Tasks of one event loop call acquire(); asyncio.Lock hands *)
(* itself to its waiters in order, and the only await under it is the      *)
(* sleep, so a step is what a task does from one await to the next.        *)
(* Clock readings are whole ticks.                                         *)
(***************************************************************************)
EXTENDS Integers, Sequences, SequencesExt

CONSTANTS
  Task,
  MaxCalls,  \* max_calls
  Period,
  MaxClock   \* bound: the last tick

ASSUME RateAssumption ==
  /\ MaxCalls \in Nat \ {0} /\ Period \in Nat \ {0}
  /\ MaxClock \in Nat

VARIABLES
  clock,    \* what time_func returns
  grants,   \* the time of every grant, in order
  popped,   \* how many of them have left the deque: calls is the rest of grants
  queue,    \* the calls of acquire() under way; the first one holds the lock
  asleep,   \* the holder of the lock is in sleep()
  prompt    \* history: no tick went by over a task that could go on

rateVars == <<clock, grants, popped, queue, asleep, prompt>>

\* A call, with the tick it was made in and how many it found in the queue (history).
Waiter == [task : Task, since : Nat, ahead : Nat]

\* The types, and the size of the deque.
RateTypeOK ==
  /\ clock \in Nat
  /\ grants \in Seq(Nat)
  /\ popped \in 0 .. Len(grants) /\ Len(grants) - popped <= MaxCalls
  /\ queue \in Seq(Waiter)
  /\ asleep \in BOOLEAN /\ prompt \in BOOLEAN

\* _evict leaves k calls popped: it pops from the left while the first call is a
\* period old, and stops at one that is younger.
Evicts(k) ==
  /\ \A i \in popped + 1 .. k : grants[i] <= clock - Period
  /\ k < Len(grants) => grants[k + 1] > clock - Period

\* (mutant) an off-by-one in the number of calls a period may have
FullEarly(k) == Len(grants) - k + 1 >= MaxCalls

\* (mutant) one call too many
FullLate(k) == Len(grants) - k > MaxCalls

\* (mutant) the window looked at once, not again after the sleep
FullOnce(k) == ~asleep /\ Len(grants) - k >= MaxCalls

Full(k) == Len(grants) - k >= MaxCalls

\* acquire() queues for the lock.
Acquire(t) ==
  /\ \A i \in 1 .. Len(queue) : queue[i].task # t
  /\ queue' = Append(queue, [task |-> t, since |-> clock, ahead |-> Len(queue)])
  /\ UNCHANGED <<clock, grants, popped, asleep, prompt>>

\* The holder got the lock or woke up, on time or early: it reads the clock, evicts,
\* and sleeps (again) or records its call and leaves.
Check ==
  /\ queue # <<>>
  /\ \E k \in popped .. Len(grants) :
       /\ Evicts(k)
       /\ popped' = k
       /\ IF Full(k) THEN asleep' = TRUE  /\ UNCHANGED <<grants, queue>>
                     ELSE asleep' = FALSE /\ grants' = Append(grants, clock) /\ queue' = Tail(queue)
  /\ UNCHANGED <<clock, prompt>>

\* A task is cancelled while it waits for the lock or sleeps under it: the lock goes to
\* the next one and no call is recorded.
Cancelled(i) ==
  /\ queue' = RemoveAt(queue, i)
  /\ asleep' = (asleep /\ i # 1)
  /\ UNCHANGED <<clock, grants, popped, prompt>>

WakesAt == grants[popped + 1] + Period

\* Time passes, also over a task that could go on: the event loop may be late.
Tick ==
  /\ clock < MaxClock
  /\ clock' = clock + 1
  /\ prompt' = (prompt /\ (queue = <<>> \/ (asleep /\ clock < WakesAt)))
  /\ UNCHANGED <<grants, popped, queue, asleep>>

RateInit ==
  /\ clock = 0 /\ grants = <<>> /\ popped = 0 /\ queue = <<>>
  /\ asleep = FALSE /\ prompt = TRUE

RateNext ==
  \/ \E t \in Task : Acquire(t)
  \/ \E i \in 1 .. Len(queue) : Cancelled(i)
  \/ Check
  \/ Tick

RateSpec == RateInit /\ [][RateNext]_rateVars

-------------------------------------------------------------------------------
\* Any MaxCalls + 1 consecutive grants take a Period or longer, however late, early or
\* cancelled the sleeps are: no window of a Period ever has more than MaxCalls requests.
\* (acquire, _evict)
Spaced == \A i \in 1 .. Len(grants) - MaxCalls : grants[i + MaxCalls] - grants[i] >= Period

\* While the event loop is prompt a call waits no longer than the callers it found before it
\* need: a Period for every MaxCalls of them, itself included.  A cancelled caller costs
\* the others nothing.  (acquire)
WaitBounded ==
  prompt => \A i \in 1 .. Len(queue) :
    clock - queue[i].since <= Period * (queue[i].ahead \div MaxCalls + 1)
===============================================================================
