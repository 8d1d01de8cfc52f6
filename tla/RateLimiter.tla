---------------------------- MODULE RateLimiter ----------------------------
(***************************************************************************)
(* The rate limiter of the gateway: the token buckets of one key.          *)
(*                                                                         *)
(* A request finds the bucket under the limiter's lock and takes a token   *)
(* under the bucket's own; between the two the cleanup may have removed    *)
(* the bucket.                                                             *)
(***************************************************************************)
EXTENDS Clock, Sequences, FiniteSets

CONSTANTS
    Servers,    \* goroutines that serve requests, one after the other
    Rate,       \* tokens per unit of time
    TTL         \* a bucket that was not used for longer is removed

Capacity == 2 * Rate

\* An idle bucket is full long before it is removed: 5 minutes against 2 seconds.
ASSUME RateAssumption ==
    /\ Rate \in Nat \ {0} /\ TTL \in Nat /\ Rate * TTL >= Capacity
    /\ IsFiniteSet(Servers)

VARIABLES
    buckets,    \* all buckets there have been
    current,    \* the one in the map, 0 for none
    held,       \* held[r]: the bucket that r has found, 0 for none
    passed,     \* requests let through
    strays      \* of them, those that took a token from a removed bucket

limiterVars == <<buckets, current, held, passed, strays>>

LimiterInit ==
    /\ now = 0
    /\ buckets = << >> /\ current = 0
    /\ held = [r \in Servers |-> 0]
    /\ passed = 0 /\ strays = 0

\* allow, as far as the limiter's lock.
Find(r) ==
    /\ held[r] = 0
    /\ IF current # 0 THEN UNCHANGED <<buckets, current>>
       ELSE /\ buckets' = Append(buckets, [tokens |-> Capacity, last |-> now])
            /\ current' = Len(buckets')
    /\ held' = [held EXCEPT ![r] = current']
    /\ UNCHANGED <<now, passed, strays>>

Filled(b) ==
    LET tokens == b.tokens + Rate * (now - b.last)
    IN  IF tokens > Capacity THEN Capacity ELSE tokens

\* TokenBucket.Allow.
Allow(r) ==
    LET b == held[r]
        tokens == Filled(buckets[b])
    IN  /\ b # 0
        /\ held' = [held EXCEPT ![r] = 0]
        /\ buckets' = [buckets EXCEPT ![b] = [last |-> now,
                          tokens |-> IF tokens >= 1 THEN tokens - 1 ELSE tokens]]
        /\ passed' = IF tokens >= 1 THEN passed + 1 ELSE passed
        /\ strays' = IF tokens >= 1 /\ b # current THEN strays + 1 ELSE strays
        /\ UNCHANGED <<now, current>>

\* Mutant: a bucket used within the ttl is removed, and its successor is full.
CleanupAll ==
    /\ current # 0 /\ current' = 0
    /\ UNCHANGED <<now, buckets, held, passed, strays>>

Cleanup ==
    /\ current # 0 /\ buckets[current].last < now - TTL
    /\ current' = 0
    /\ UNCHANGED <<now, buckets, held, passed, strays>>

LimiterNext == (Tick /\ UNCHANGED limiterVars) \/ Cleanup \/ \E r \in Servers : Find(r) \/ Allow(r)

LimiterSpec == LimiterInit /\ [][LimiterNext]_<<now, limiterVars>>

(***************************************************************************)
(* Properties.                                                             *)
(***************************************************************************)
Removed == IF current = 0 THEN Len(buckets) ELSE Len(buckets) - 1

\* From the bucket in the map a key passes no more than a full bucket and what
\* the rate adds over time, although buckets are removed and made anew full; and
\* each removal lets each goroutine pass once more at most, on the bucket that
\* it had found before.
BurstBound ==
    /\ passed - strays <= Capacity + Rate * now
    /\ strays <= Cardinality(Servers) * Removed
=============================================================================
