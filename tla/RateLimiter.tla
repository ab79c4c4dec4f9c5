----------------------------- MODULE RateLimiter -----------------------------
(***************************************************************************)
(* SlidingWindowLimiter.check of api/auth/ratelimit.py, for one API key.   *)
(*                                                                         *)
(* check reads the clock before it takes the lock, so between the two      *)
(* another thread of the pool may read a later time and get the lock       *)
(* first.  Everything under the lock is one step.                          *)
(***************************************************************************)
EXTENDS Integers, FiniteSets, Sequences, SequencesExt

CONSTANTS
    Attempts,        \* calls of check for the key
    ThreadPool,      \* bound: no more of them are under way at once
    RateLimit,       \* rate_limit_per_min of the key
    Window,          \* WINDOW_SECONDS, in ticks of the clock
    TicksPerSecond,
    Horizon          \* bound: the clock stops here

ASSUME LimiterAssumption ==
    /\ IsFiniteSet(Attempts)
    /\ {ThreadPool, RateLimit, Window, TicksPerSecond} \subseteq Nat \ {0}
    /\ Horizon \in Nat

VARIABLES
    threads,  \* how many attempts may be under way at once
    clock,    \* time.monotonic()
    deque,    \* the key's hits: the attempts it counts
    stage,    \* "new", "stamped", "allowed" or "denied", for each attempt
    now,      \* the time each attempt read
    retry     \* the retry_after of each denied attempt, in seconds

limiterVars == <<threads, clock, deque, stage, now, retry>>

LimiterTypeOK ==
    /\ threads \in 1..ThreadPool
    /\ clock \in 0..Horizon
    /\ deque \in Seq(Attempts)
    /\ stage \in [Attempts -> {"new", "stamped", "allowed", "denied"}]
    /\ now \in [Attempts -> 0..Horizon]
    /\ retry \in [Attempts -> Nat]

LimiterInit ==
    /\ threads \in 1..ThreadPool
    /\ clock = 0
    /\ deque = <<>>
    /\ stage = [a \in Attempts |-> "new"]
    /\ now = [a \in Attempts |-> 0]
    /\ retry = [a \in Attempts |-> 0]

------------------------------------------------------------------------------
In(phase) == {a \in Attempts : stage[a] = phase}

Tick ==
    /\ clock < Horizon
    /\ clock' = clock + 1
    /\ UNCHANGED <<threads, deque, stage, now, retry>>

(* now = time.monotonic(), outside the lock.                               *)
ReadClock(a) ==
    /\ stage[a] = "new"
    /\ Cardinality(In("stamped")) < threads
    /\ now' = [now EXCEPT ![a] = clock]
    /\ stage' = [stage EXCEPT ![a] = "stamped"]
    /\ UNCHANGED <<threads, clock, deque, retry>>

(* Faulty variants of Expired: a hit at the cutoff still counts, and a     *)
(* window that starts at fixed times.                                      *)
ExpiredLate(h, a) == now[h] < now[a] - Window
ExpiredFixed(h, a) == now[h] \div Window < now[a] \div Window

Expired(h, a) == now[h] <= now[a] - Window

(* popleft while the head is at or before the cutoff of attempt a: what    *)
(* remains starts at the first hit that has not expired.                   *)
Unexpired(a) ==
    LET live == {i \in DOMAIN deque : ~ Expired(deque[i], a)}
    IN  IF live = {} THEN <<>>
        ELSE SubSeq(deque, Min(live), Len(deque))

(* Faulty variants of RetryAfter: rounded down, and a sign slip.           *)
RetryAfterFloor(head, a) ==
    Max({1, (now[head] + Window - now[a]) \div TicksPerSecond})
RetryAfterNegative(head, a) ==
    (now[head] - Window - now[a]) \div TicksPerSecond + 1

(* max(1, int(hits[0] + window - now) + 1) *)
RetryAfter(head, a) ==
    Max({1, (now[head] + Window - now[a]) \div TicksPerSecond + 1})

(* Faulty variant of Allow: off by one.                                    *)
AllowOneMore(a) ==
    /\ stage[a] = "stamped"
    /\ Len(Unexpired(a)) <= RateLimit
    /\ deque' = Append(Unexpired(a), a)
    /\ stage' = [stage EXCEPT ![a] = "allowed"]
    /\ UNCHANGED <<threads, clock, now, retry>>

Allow(a) ==
    /\ stage[a] = "stamped"
    /\ Len(Unexpired(a)) < RateLimit
    /\ deque' = Append(Unexpired(a), a)
    /\ stage' = [stage EXCEPT ![a] = "allowed"]
    /\ UNCHANGED <<threads, clock, now, retry>>

Deny(a) ==
    /\ stage[a] = "stamped"
    /\ Len(Unexpired(a)) >= RateLimit
    /\ deque' = Unexpired(a)
    /\ stage' = [stage EXCEPT ![a] = "denied"]
    /\ retry' = [retry EXCEPT ![a] = RetryAfter(Head(Unexpired(a)), a)]
    /\ UNCHANGED <<threads, clock, now>>

LimiterNext ==
    \/ Tick
    \/ \E a \in Attempts : ReadClock(a) \/ Allow(a) \/ Deny(a)

LimiterSpec == LimiterInit /\ [][LimiterNext]_limiterVars

------------------------------------------------------------------------------
(* The attempts allowed in the window that ends at time t. *)
AllowedUntil(t) == {a \in In("allowed") : t - Window < now[a] /\ now[a] <= t}

(* REFUTED.  No window of WINDOW_SECONDS ever holds more than RateLimit    *)
(* allowed attempts (ratelimit.py: with a single worker "this is exact").  *)
(* A thread that waits for the lock brings a stamp that is behind.         *)
WindowWithinLimit ==
    \A t \in 0..Horizon : Cardinality(AllowedUntil(t)) <= RateLimit

(* One thread at a time, an attempt is denied only if the window that ends *)
(* with it is full.                                                        *)
DeniedOnlyWhenFull ==
    [][threads = 1 => \A a \in Attempts : Deny(a) =>
          Cardinality(AllowedUntil(now[a])) >= RateLimit]_limiterVars

(* A client that waits for the retry_after it was given, and competes with *)
(* nobody, is allowed: one of the hits that denied it has expired by then. *)
RetryAfterSuffices ==
    [][\A a \in Attempts : Deny(a) =>
          \E h \in Range(deque') :
              now[h] <= now[a] + retry'[a] * TicksPerSecond - Window]_limiterVars

(* The deque never outgrows the limit, in whatever order threads get the   *)
(* lock: a key cannot make the process hold more than RateLimit times.     *)
DequeBounded == Len(deque) <= RateLimit

(* Overlapping threads overrun the limit by less than their number: one    *)
(* thread at a time keeps it.                                              *)
OverrunBounded ==
    \A t \in 0..Horizon :
        Cardinality(AllowedUntil(t)) <= RateLimit + threads - 1

(* The bounds on memory and on the overrun hold in every state.            *)
WindowHolds == LimiterTypeOK /\ DequeBounded /\ OverrunBounded
==============================================================================
