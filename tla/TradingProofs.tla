--------------------------- MODULE TradingProofs ---------------------------
(***************************************************************************)
(* Proofs about the components around trading, each for every value of its *)
(* constants: rate limiter, circuit breaker, withdrawal limits, amounts,   *)
(* margin positions, the recent trades.  Each section has the inductive    *)
(* invariant, its step, and the theorem.                                   *)
(***************************************************************************)
EXTENDS RateLimiter, CircuitBreaker, WithdrawalLimits, Amounts, Margin, MarketData,
        SumTheorems, FiniteSetTheorems, SequenceTheorems, TLAPS

(***************************************************************************)
(* Arithmetic.                                                             *)
(***************************************************************************)
LEMMA ProductMonotone == \A a, b, r \in Nat : a <= b => r * a <= r * b /\ r * a \in Nat
OBVIOUS

LEMMA ProductOver == \A a, b, r \in Int : r * (a - b) = r * a - r * b
OBVIOUS

LEMMA QuotientBound == \A a \in Nat, b \in Nat \ {0} : a \div b \in Nat /\ (a \div b) * b <= a
OBVIOUS

LEMMA Cancel == \A a, b, r \in Int : r > 0 /\ a * r <= b * r => a <= b
OBVIOUS

(***************************************************************************)
(* The rate limiter: what has passed and what the bucket in the map still  *)
(* holds is at most a full bucket and what the rate has added until the    *)
(* bucket's last use.  Without a bucket in the map what has passed is at   *)
(* most what the rate has added: a bucket is removed only after it would   *)
(* have been full again.                                                   *)
(***************************************************************************)
Bucket == [tokens : 0 .. Capacity, last : Nat]

LimiterTypes ==
    /\ now \in Nat /\ passed \in Nat /\ strays \in Nat
    /\ buckets \in Seq(Bucket)
    /\ \A b \in 1 .. Len(buckets) : buckets[b].last <= now
    /\ current \in 0 .. Len(buckets)
    /\ held \in [Servers -> 0 .. Len(buckets)]

Budget ==
    IF current = 0 THEN passed - strays <= Rate * now
    ELSE passed - strays + buckets[current].tokens <= Capacity + Rate * buckets[current].last

\* Between the two locks with a bucket that is no longer in the map.
Caught == {s \in Servers : held[s] # 0 /\ held[s] # current}

\* Who was caught by a removal may still pass once.
StrayBudget == strays + Cardinality(Caught) <= Cardinality(Servers) * Removed

LimiterInv == LimiterTypes /\ Budget /\ StrayBudget

LEMMA CapacityNat == Capacity \in Nat /\ Capacity > 0 /\ Rate \in Nat /\ TTL \in Nat
BY RateAssumption DEF Capacity

LEMMA BucketAt ==
    ASSUME LimiterTypes, NEW b \in 1 .. Len(buckets)
    PROVE  /\ buckets[b] \in Bucket
           /\ buckets[b].tokens \in 0 .. Capacity /\ buckets[b].tokens \in Nat
           /\ buckets[b].last \in Nat /\ buckets[b].last <= now
<1>1. buckets[b] \in Bucket /\ buckets[b].last <= now
  BY ElementOfSeq DEF LimiterTypes
<1>2. \A x \in Bucket : x.tokens \in 0 .. Capacity /\ x.tokens \in Nat /\ x.last \in Nat
  BY CapacityNat DEF Bucket
<1> QED
  BY <1>1, <1>2

LEMMA FilledBound ==
    ASSUME LimiterTypes, NEW b \in 1 .. Len(buckets)
    PROVE  /\ Filled(buckets[b]) \in 0 .. Capacity
           /\ Filled(buckets[b]) <= buckets[b].tokens + Rate * now - Rate * buckets[b].last
<1> DEFINE tokens == buckets[b].tokens
           last == buckets[b].last
<1>2. tokens \in 0 .. Capacity /\ last \in Nat /\ last <= now /\ now \in Nat
  BY BucketAt DEF LimiterTypes
<1>3. Filled(buckets[b]) = IF tokens + Rate * (now - last) > Capacity THEN Capacity
                           ELSE tokens + Rate * (now - last)
  BY DEF Filled
<1> HIDE DEF tokens, last
<1>4. /\ Rate * (now - last) = Rate * now - Rate * last
      /\ Rate * last <= Rate * now /\ Rate * last \in Nat /\ Rate * now \in Nat
  BY <1>2, CapacityNat, ProductMonotone, ProductOver
<1>5. /\ Filled(buckets[b]) \in 0 .. Capacity
      /\ Filled(buckets[b]) <= tokens + Rate * now - Rate * last
  <2> DEFINE gain == Rate * (now - last)
             added == Rate * now
             before == Rate * last
  <2>1. /\ gain = added - before /\ before <= added /\ before \in Nat /\ added \in Nat
        /\ Filled(buckets[b]) = IF tokens + gain > Capacity THEN Capacity ELSE tokens + gain
    BY <1>3, <1>4
  <2> HIDE DEF gain, added, before
  <2>2. /\ Filled(buckets[b]) \in 0 .. Capacity
        /\ Filled(buckets[b]) <= tokens + added - before
    BY <1>2, <2>1, CapacityNat
  <2> QED
    BY <2>2 DEF added, before
<1> QED
  BY <1>5 DEF tokens, last

LEMMA CaughtAre ==
    /\ IsFiniteSet(Servers) /\ Cardinality(Servers) \in Nat
    /\ IsFiniteSet(Caught) /\ Cardinality(Caught) \in Nat
    /\ Cardinality(Caught) <= Cardinality(Servers)
<1>1. IsFiniteSet(Servers) /\ Caught \subseteq Servers
  BY RateAssumption DEF Caught
<1> QED
  BY <1>1, FS_Subset, FS_CardinalityType

LEMMA RemovedNat == LimiterTypes => Removed \in Nat
BY LenProperties DEF LimiterTypes, Removed

LEMMA LimiterTick == ASSUME LimiterInv, Tick, UNCHANGED limiterVars PROVE LimiterInv'
<1>1. now' = now + 1 /\ UNCHANGED <<buckets, current, held, passed, strays>> /\ LimiterTypes
  BY DEF Tick, limiterVars, LimiterInv
<1>2. LimiterTypes'
  <2>1. \A b \in 1 .. Len(buckets) : buckets[b].last <= now'
    <3> TAKE b \in 1 .. Len(buckets)
    <3>1. buckets[b].last \in Nat /\ buckets[b].last <= now
      BY <1>1, BucketAt
    <3> QED
      BY <1>1, <3>1 DEF LimiterTypes
  <2> QED
    BY <1>1, <2>1 DEF LimiterTypes
<1>3. Rate * now <= Rate * now' /\ Rate * now \in Nat /\ Rate * now' \in Nat
  BY <1>1, CapacityNat, ProductMonotone DEF LimiterTypes
<1>4. Budget'
  BY <1>1, <1>3 DEF LimiterInv, Budget, LimiterTypes
<1>5. StrayBudget'
  BY <1>1 DEF LimiterInv, StrayBudget, Caught, Removed
<1> QED
  BY <1>2, <1>4, <1>5 DEF LimiterInv

LEMMA CleanupSound == ASSUME LimiterInv, Cleanup PROVE LimiterInv'
<1>1. /\ current # 0 /\ current' = 0 /\ buckets[current].last < now - TTL
      /\ UNCHANGED <<now, buckets, held, passed, strays>> /\ LimiterTypes
  BY DEF Cleanup, LimiterInv
<1>2. LimiterTypes'
  BY <1>1 DEF LimiterTypes
<1> DEFINE tokens == buckets[current].tokens
           last == buckets[current].last
<1>3. /\ tokens \in Nat /\ last \in Nat /\ now \in Nat /\ last + TTL <= now
      /\ passed - strays + tokens <= Capacity + Rate * last
  <2>1. current \in 1 .. Len(buckets)
    BY <1>1 DEF LimiterTypes
  <2>2. tokens \in Nat /\ last \in Nat
    BY <1>1, <2>1, BucketAt
  <2>3. passed - strays + tokens <= Capacity + Rate * last
    BY <1>1 DEF LimiterInv, Budget
  <2>4. last < now - TTL /\ now \in Nat
    BY <1>1 DEF LimiterTypes
  <2> HIDE DEF tokens, last
  <2> QED
    BY <2>2, <2>3, <2>4, CapacityNat
<1> HIDE DEF tokens, last
<1>4. Rate * (last + TTL) <= Rate * now /\ Rate * (last + TTL) = Rate * last + Rate * TTL
  BY <1>3, CapacityNat, ProductMonotone
<1>5. passed - strays <= Rate * now
  <2>1. /\ Rate * last \in Nat /\ Rate * TTL \in Nat /\ Rate * now \in Nat
        /\ Rate * TTL >= Capacity /\ passed \in Nat /\ strays \in Nat
    BY <1>1, <1>3, CapacityNat, ProductMonotone, RateAssumption DEF LimiterTypes
  <2> DEFINE before == Rate * last
             idle == Rate * TTL
             until == Rate * now
  <2>2. /\ before \in Nat /\ idle \in Nat /\ until \in Nat
        /\ before + idle <= until /\ idle >= Capacity
        /\ passed - strays + tokens <= Capacity + before
    BY <1>3, <1>4, <2>1
  <2> HIDE DEF before, idle, until
  <2>3. passed - strays <= until
    BY <1>3, <2>1, <2>2, CapacityNat
  <2> QED
    BY <2>3 DEF until
<1>6. Budget'
  BY <1>1, <1>5 DEF Budget
<1>7. StrayBudget'
  <2> DEFINE all == Cardinality(Servers)
             gone == Removed
             caught == Cardinality(Caught)
             after == Cardinality(Caught')
  <2>1. Removed' = gone + 1 /\ gone \in Nat
    BY <1>1, RemovedNat, LenProperties DEF Removed, LimiterTypes
  <2>2. all \in Nat /\ caught \in Nat
    BY CaughtAre
  <2>3. after \in Nat /\ after <= all
    <3>1. (Cardinality(Caught) \in Nat /\ Cardinality(Caught) <= Cardinality(Servers))'
      BY CaughtAre, PTL
    <3> QED
      BY <3>1
  <2>4. strays' = strays /\ strays \in Nat /\ strays + caught <= all * gone
    BY <1>1 DEF LimiterInv, StrayBudget, LimiterTypes
  <2> HIDE DEF all, gone, caught, after
  <2>5. strays + after <= all * (gone + 1)
    <3>1. all * (gone + 1) = all * gone + all /\ all * gone \in Nat
      BY <2>1, <2>2
    <3> QED
      BY <2>2, <2>3, <2>4, <3>1
  <2> QED
    BY <2>1, <2>4, <2>5 DEF StrayBudget, all, after
<1> QED
  BY <1>2, <1>6, <1>7 DEF LimiterInv

LEMMA FindSound == ASSUME LimiterInv, NEW r \in Servers, Find(r) PROVE LimiterInv'
<1> DEFINE full == [tokens |-> Capacity, last |-> now]
<1>1. /\ UNCHANGED <<now, passed, strays>> /\ LimiterTypes
      /\ held' = [held EXCEPT ![r] = current']
      /\ buckets \in Seq(Bucket) /\ held[r] = 0
  BY DEF Find, LimiterInv, LimiterTypes
<1>4. StrayBudget'
  <2>1. /\ Len(buckets) \in Nat /\ current \in 0 .. Len(buckets)
        /\ \A s \in Servers : held[s] \in 0 .. Len(buckets)
        /\ held \in [Servers -> 0 .. Len(buckets)]
    BY <1>1, LenProperties DEF LimiterTypes
  <2>2. \/ current' = current /\ buckets' = buckets /\ current # 0
        \/ current' = Len(buckets) + 1 /\ Len(buckets') = Len(buckets) + 1 /\ current = 0
    BY <1>1, <2>1, AppendProperties DEF Find
  <2>3. Removed' = Removed
    BY <2>1, <2>2 DEF Removed
  <2>4. \A s \in Servers : held'[s] = IF s = r THEN current' ELSE held[s]
    BY <1>1, <2>1
  <2>5. Caught' = Caught
    BY <1>1, <2>1, <2>2, <2>4 DEF Caught
  <2> QED
    BY <1>1, <2>3, <2>5 DEF LimiterInv, StrayBudget
<1>2. CASE current # 0
  <2>1. buckets' = buckets /\ current' = current
    BY <1>2 DEF Find
  <2>2. held' \in [Servers -> 0 .. Len(buckets)]
    BY <1>1, <2>1 DEF LimiterTypes
  <2> QED
    BY <1>1, <1>4, <2>1, <2>2 DEF LimiterInv, LimiterTypes, Budget
<1>3. CASE current = 0
  <2>1. full \in Bucket /\ full.last = now /\ full.tokens = Capacity
    BY <1>1, CapacityNat DEF LimiterTypes, Bucket
  <2>2. buckets' = Append(buckets, full) /\ current' = Len(buckets')
    BY <1>3 DEF Find
  <2> HIDE DEF full
  <2>3. /\ buckets' \in Seq(Bucket) /\ Len(buckets') = Len(buckets) + 1 /\ Len(buckets) \in Nat
        /\ \A b \in 1 .. Len(buckets) : buckets'[b] = buckets[b]
        /\ buckets'[Len(buckets) + 1] = full
    BY <1>1, <2>1, <2>2
  <2>4. \A b \in 1 .. Len(buckets') : buckets'[b].last <= now
    <3> TAKE b \in 1 .. Len(buckets')
    <3>1. CASE b \in 1 .. Len(buckets)
      BY <1>1, <2>3, <3>1 DEF LimiterTypes
    <3>2. CASE b = Len(buckets) + 1
      BY <1>1, <2>1, <2>3, <3>2 DEF LimiterTypes
    <3> QED
      BY <2>3, <3>1, <3>2
  <2>5. held' \in [Servers -> 0 .. Len(buckets')]
    <3>1. \A s \in Servers : held[s] \in 0 .. Len(buckets')
      BY <1>1, <2>3 DEF LimiterTypes
    <3>2. current' \in 0 .. Len(buckets') /\ held = [s \in Servers |-> held[s]]
      BY <1>1, <2>2, <2>3 DEF LimiterTypes
    <3> QED
      BY <1>1, <3>1, <3>2
  <2>6. LimiterTypes'
    BY <1>1, <2>2, <2>3, <2>4, <2>5 DEF LimiterTypes
  <2>7. current' # 0 /\ buckets'[current'] = full
    BY <2>2, <2>3
  <2>8. passed - strays <= Rate * now
    BY <1>3 DEF LimiterInv, Budget
  <2>9. Budget'
    <3>1. /\ passed' = passed /\ strays' = strays /\ passed \in Nat /\ strays \in Nat
          /\ now \in Nat /\ Capacity \in Nat /\ Rate * now \in Nat
      BY <1>1, CapacityNat, ProductMonotone DEF LimiterTypes
    <3>2. /\ buckets'[current'].tokens = Capacity
          /\ Rate * buckets'[current'].last = Rate * now
      BY <2>1, <2>7
    <3>3. passed' - strays' + Capacity <= Capacity + Rate * now
      BY <2>8, <3>1
    <3> QED
      BY <2>7, <3>2, <3>3 DEF Budget
  <2> QED
    BY <1>4, <2>6, <2>9 DEF LimiterInv
<1> QED
  BY <1>2, <1>3

LEMMA AllowSound == ASSUME LimiterInv, NEW r \in Servers, Allow(r) PROVE LimiterInv'
<1> DEFINE b == held[r]
           tokens == Filled(buckets[b])
           left == IF tokens >= 1 THEN tokens - 1 ELSE tokens
           used == [last |-> now, tokens |-> left]
<1>1. /\ b # 0 /\ held' = [held EXCEPT ![r] = 0]
      /\ buckets' = [buckets EXCEPT ![b] = used]
      /\ passed' = IF tokens >= 1 THEN passed + 1 ELSE passed
      /\ strays' = IF tokens >= 1 /\ b # current THEN strays + 1 ELSE strays
      /\ UNCHANGED <<now, current>> /\ LimiterTypes
  BY DEF Allow, LimiterInv
<1>2. b \in 1 .. Len(buckets) /\ buckets \in Seq(Bucket)
  BY <1>1 DEF LimiterTypes
<1>3. /\ tokens \in 0 .. Capacity
      /\ tokens <= buckets[b].tokens + Rate * now - Rate * buckets[b].last
  BY <1>1, <1>2, FilledBound
<1>4. buckets[b].tokens \in Nat /\ buckets[b].last \in Nat /\ now \in Nat
  BY <1>1, <1>2, BucketAt DEF LimiterTypes
<1> HIDE DEF b, tokens
<1>5. left \in 0 .. Capacity
  BY <1>3, CapacityNat
<1>6. used \in Bucket /\ used.last = now /\ used.tokens = left
  BY <1>4, <1>5 DEF Bucket
<1> HIDE DEF left, used
<1>7. /\ buckets' \in Seq(Bucket) /\ Len(buckets') = Len(buckets)
      /\ buckets'[b] = used
      /\ \A d \in 1 .. Len(buckets) : d # b => buckets'[d] = buckets[d]
  BY <1>1, <1>2, <1>6
<1>8. held' \in [Servers -> 0 .. Len(buckets)]
  BY <1>1 DEF LimiterTypes
<1>9. \A d \in 1 .. Len(buckets') : buckets'[d].last <= now
  BY <1>1, <1>4, <1>6, <1>7 DEF LimiterTypes
<1>10. LimiterTypes'
  BY <1>1, <1>7, <1>8, <1>9 DEF LimiterTypes
<1>13. StrayBudget'
  <2>1. /\ Removed' = Removed /\ held \in [Servers -> 0 .. Len(buckets)]
        /\ \A s \in Servers : held'[s] = IF s = r THEN 0 ELSE held[s]
    BY <1>1, <1>7 DEF Removed, LimiterTypes
  <2>2. CASE b = current
    <3>1. Caught' = Caught
      BY <1>1, <2>1, <2>2 DEF Caught, b
    <3> QED
      BY <1>1, <2>1, <2>2, <3>1 DEF LimiterInv, StrayBudget
  <2>3. CASE b # current
    <3>1. Caught' = Caught \ {r} /\ r \in Caught
      BY <1>1, <2>1, <2>3 DEF Caught, b
    <3>2. Cardinality(Caught') = Cardinality(Caught) - 1 /\ Cardinality(Caught) \in Nat
      BY <3>1, CaughtAre, FS_RemoveElement
    <3>3. strays' <= strays + 1 /\ strays \in Nat /\ strays' \in Nat
      BY <1>1 DEF LimiterTypes
    <3>4. Cardinality(Servers) * Removed \in Nat
      BY <1>1, CaughtAre, RemovedNat
    <3>5. strays + Cardinality(Caught) <= Cardinality(Servers) * Removed
      BY DEF LimiterInv, StrayBudget
    <3> DEFINE most == Cardinality(Servers) * Removed
               caught == Cardinality(Caught)
               after == Cardinality(Caught')
               more == strays'
    <3>6. /\ most \in Nat /\ caught \in Nat /\ after = caught - 1 /\ more \in Nat
          /\ more <= strays + 1 /\ strays \in Nat /\ strays + caught <= most
      BY <3>2, <3>3, <3>4, <3>5
    <3> HIDE DEF most, caught, after, more
    <3>7. more + after <= most
      BY <3>6
    <3> QED
      BY <2>1, <3>7 DEF StrayBudget, most, after, more
  <2> QED
    BY <2>2, <2>3
<1>11. CASE b = current
  <2>1. passed - strays + buckets[b].tokens <= Capacity + Rate * buckets[b].last
    BY <1>1, <1>11 DEF LimiterInv, Budget
  <2>2. /\ strays' = strays /\ passed' - passed = tokens - left
        /\ passed \in Nat /\ strays \in Nat /\ passed' \in Nat
    BY <1>1, <1>3, <1>11, CapacityNat DEF left, LimiterTypes
  <2>3. Rate * now \in Nat /\ Rate * buckets[b].last \in Nat
    BY <1>4, CapacityNat, ProductMonotone
  <2>4. passed' - strays' + left <= Capacity + Rate * now
    <3> DEFINE added == Rate * now
               before == Rate * buckets[b].last
               had == buckets[b].tokens
    <3>1. /\ added \in Nat /\ before \in Nat /\ had \in Nat
          /\ tokens <= had + added - before
          /\ passed - strays + had <= Capacity + before
      BY <1>3, <1>4, <2>1, <2>3
    <3> DEFINE after == passed'
    <3>2. tokens \in Int /\ left \in Int /\ Capacity \in Int
      BY <1>3, <1>5, CapacityNat
    <3>3. /\ passed \in Int /\ strays \in Int /\ after \in Int
          /\ after - passed = tokens - left
      BY <2>2
    <3> HIDE DEF added, before, had, after
    <3>4. after - strays + left <= Capacity + added
      BY <3>1, <3>2, <3>3
    <3> QED
      BY <2>2, <3>4 DEF added, after
  <2> QED
    BY <1>1, <1>6, <1>7, <1>10, <1>11, <1>13, <2>4 DEF LimiterInv, Budget
<1>12. CASE b # current
  <2>1. passed' - strays' = passed - strays
    BY <1>1, <1>12 DEF LimiterTypes
  <2>2. current # 0 => buckets'[current] = buckets[current]
    BY <1>1, <1>7, <1>12 DEF LimiterTypes
  <2> QED
    BY <1>1, <1>10, <1>13, <2>1, <2>2 DEF LimiterInv, Budget
<1> QED
  BY <1>11, <1>12

LEMMA LimiterStep == LimiterInv /\ [LimiterNext]_<<now, limiterVars>> => LimiterInv'
<1>1. ASSUME LimiterInv, UNCHANGED <<now, limiterVars>> PROVE LimiterInv'
  BY <1>1 DEF limiterVars, LimiterInv, LimiterTypes, Budget, StrayBudget, Caught, Removed
<1> QED
  BY <1>1, LimiterTick, CleanupSound, FindSound, AllowSound DEF LimiterNext

\* For any rate and however many goroutines serve a key: from the bucket in the
\* map it passes no more than a full bucket and what the rate has added, and with
\* each removal of a bucket each goroutine passes once more at most.
THEOREM BurstIsBounded == LimiterSpec => []BurstBound
<1>1. LimiterInit => LimiterInv
  <2> SUFFICES ASSUME LimiterInit PROVE LimiterInv
    OBVIOUS
  <2>1. LimiterTypes /\ Budget
    BY CapacityNat, EmptySeq DEF LimiterInit, LimiterTypes, Budget
  <2>2. Caught = {} /\ Removed = 0 /\ strays = 0
    BY DEF LimiterInit, Caught, Removed
  <2>3. Cardinality(Caught) = 0 /\ Cardinality(Servers) * 0 = 0
    BY <2>2, FS_EmptySet, CaughtAre
  <2>4. StrayBudget
    BY <2>2, <2>3 DEF StrayBudget
  <2> QED
    BY <2>1, <2>4 DEF LimiterInv
<1>2. ASSUME LimiterInv PROVE BurstBound
  <2>1. LimiterTypes /\ Rate * now \in Nat /\ passed \in Nat /\ strays \in Nat
    BY <1>2, CapacityNat, ProductMonotone DEF LimiterInv, LimiterTypes
  <2>2. passed - strays <= Capacity + Rate * now
    <3>1. CASE current = 0
      BY <1>2, <2>1, <3>1, CapacityNat DEF LimiterInv, Budget
    <3>2. CASE current # 0
      <4>0. current \in 1 .. Len(buckets)
        BY <2>1, <3>2 DEF LimiterTypes
      <4>1. /\ buckets[current].tokens \in Nat /\ buckets[current].last \in Nat
            /\ buckets[current].last <= now /\ now \in Nat
        BY <2>1, <4>0, BucketAt DEF LimiterTypes
      <4>2. /\ buckets[current].tokens \in Nat /\ Rate * buckets[current].last <= Rate * now
            /\ Rate * buckets[current].last \in Nat
        BY <4>1, CapacityNat, ProductMonotone
      <4> QED
        BY <1>2, <2>1, <3>2, <4>2, CapacityNat DEF LimiterInv, Budget
    <3> QED
      BY <3>1, <3>2
  <2>3. strays <= Cardinality(Servers) * Removed
    <3>1. Cardinality(Servers) * Removed \in Nat /\ Cardinality(Caught) \in Nat
      BY <2>1, CaughtAre, RemovedNat
    <3> QED
      BY <1>2, <2>1, <3>1 DEF LimiterInv, StrayBudget
  <2> QED
    BY <2>2, <2>3 DEF BurstBound
<1> QED
  BY <1>1, <1>2, LimiterStep, PTL DEF LimiterSpec

(***************************************************************************)
(* The circuit breaker.                                                    *)
(***************************************************************************)
\* A halt lasts from the last price on.
Lasts == haltedUntil >= lastCheckTime + HaltDuration

BreakerTypes ==
    /\ now \in Nat /\ lastPrice \in Nat /\ lastCheckTime \in Nat /\ haltedUntil \in Nat
    /\ lastCheckTime <= now

BreakerInv == BreakerTypes /\ (halted => Lasts)

Promise == Far(lastPrice, lastPrice') => lastCheckTime' >= lastCheckTime + HaltDuration

\* One step keeps the invariant and the promise.
LEMMA BreakerStep == BreakerInv /\ [BreakerNext]_<<now, breakerVars>> => BreakerInv' /\ Promise
<1> SUFFICES ASSUME BreakerInv, [BreakerNext]_<<now, breakerVars>>
             PROVE  BreakerInv' /\ Promise
  OBVIOUS
<1>1. \A p \in Nat : ~Far(p, p)
  BY DEF Far
<1>2. BreakerTypes /\ HaltDuration \in Nat /\ Quotes \subseteq Nat
  BY BreakerAssumption DEF BreakerInv
<1>3. ASSUME UNCHANGED <<lastPrice, lastCheckTime, haltedUntil>>, now' \in {now, now + 1},
             halted' => halted
      PROVE  BreakerInv' /\ Promise
  <2>1. BreakerTypes' /\ Promise
    BY <1>1, <1>2, <1>3 DEF BreakerTypes, Promise
  <2>2. Lasts => Lasts'
    BY <1>3 DEF Lasts
  <2> QED
    BY <1>3, <2>1, <2>2 DEF BreakerInv
<1>4. CASE (Tick /\ UNCHANGED breakerVars) \/ Resume \/ UNCHANGED <<now, breakerVars>>
  BY <1>3, <1>4 DEF Tick, breakerVars, Resume
<1>5. ASSUME NEW p \in Quotes, CheckHalted(p)
      PROVE  BreakerInv' /\ Promise
  <2>1. ~halted' /\ Lasts
    BY <1>5 DEF CheckHalted, BreakerInv
  <2>2. /\ now >= haltedUntil /\ lastPrice' = p /\ lastCheckTime' = now
        /\ UNCHANGED <<now, haltedUntil>>
    BY <1>5 DEF CheckHalted, Accept
  <2>3. BreakerTypes' /\ Promise
    BY <1>2, <2>1, <2>2 DEF BreakerTypes, Promise, Lasts
  <2> QED
    BY <2>1, <2>3 DEF BreakerInv
<1>6. ASSUME NEW p \in Quotes, CheckOpen(p)
      PROVE  BreakerInv' /\ Promise
  <2>1. CASE Far(lastPrice, p)
    <3>1. /\ haltedUntil' = now + HaltDuration
          /\ UNCHANGED <<now, lastPrice, lastCheckTime>>
      BY <1>6, <2>1 DEF CheckOpen
    <3>2. BreakerTypes' /\ Promise /\ Lasts'
      BY <1>1, <1>2, <3>1 DEF BreakerTypes, Promise, Lasts
    <3> QED
      BY <3>2 DEF BreakerInv
  <2>2. CASE ~Far(lastPrice, p)
    <3>1. /\ lastPrice' = p /\ lastCheckTime' = now
          /\ UNCHANGED <<now, haltedUntil>>
      BY <1>6, <2>2 DEF CheckOpen, Accept
    <3>2. ~halted'
      BY <1>6, <2>2 DEF CheckOpen
    <3>3. Promise
      BY <2>2, <3>1 DEF Promise
    <3>4. BreakerTypes'
      BY <1>2, <3>1 DEF BreakerTypes
    <3> QED
      BY <3>2, <3>3, <3>4 DEF BreakerInv
  <2> QED
    BY <2>1, <2>2
<1> QED
  BY <1>4, <1>5, <1>6 DEF BreakerNext

\* Between two prices accepted one after the other that are a tenth apart or
\* more there lies the time of a halt, for any prices, and however often
\* trading is resumed by hand.
THEOREM MovesAreHalted == BreakerSpec => AcceptedMoves
<1>1. BreakerInit => BreakerInv
  <2>1. BreakerInit => BreakerTypes
    BY DEF BreakerInit, BreakerTypes
  <2> QED
    BY <2>1 DEF BreakerInit, BreakerInv
<1>2. BreakerInv /\ [BreakerNext]_<<now, breakerVars>> =>
         BreakerInv' /\ [Far(lastPrice, lastPrice') =>
                            lastCheckTime' >= lastCheckTime + HaltDuration]_breakerVars
  BY BreakerStep DEF Promise
<1> QED
  BY <1>1, <1>2, PTL DEF BreakerSpec, AcceptedMoves

(***************************************************************************)
(* The withdrawal limits.  The invariant splits time at the last reset:    *)
(* what was granted since is in the tracker, a stretch that ends just      *)
(* before it lies within one earlier day of the tracker, and the stretches *)
(* that are over stay within twice the limit.                              *)
(***************************************************************************)
\* g is what a user was granted at each time, x his tracker, t the time.
Within(g, reset, x, t) ==
    /\ g \in [0 .. MaxTime -> Nat] /\ t \in 0 .. MaxTime /\ reset \in 0 .. t
    /\ x \in 0 .. MaxDaily
    /\ \A s \in 0 .. MaxTime : s > t \/ s > reset + Day => g[s] = 0
    /\ SumOver(g, reset .. t) = x
    /\ \A a \in 0 .. reset - 1 : a + Day >= reset => SumOver(g, a .. reset - 1) <= MaxDaily
    /\ \A a \in Nat : a + Day < reset => SumOver(g, a .. a + Day) <= 2 * MaxDaily

LimitsInv ==
    /\ now \in 0 .. MaxTime /\ lastReset \in 0 .. now
    /\ dailyTracker \in [Withdrawers -> 0 .. MaxDaily]
    /\ granted \in [Withdrawers -> [0 .. MaxTime -> Nat]]
    /\ \A u \in Withdrawers : Within(granted[u], lastReset, dailyTracker[u], now)

LEMMA FiniteStretch == \A a, b \in Int : IsFiniteSet(a .. b)
BY FS_Interval

\* Sums over stretches of time.
LEMMA Stretch ==
    ASSUME NEW g \in [0 .. MaxTime -> Nat], NEW S \in SUBSET (0 .. MaxTime)
    PROVE  /\ IsFiniteSet(S) /\ SumOver(g, S) \in Nat
           /\ \A T \in SUBSET S : IsFiniteSet(T) /\ SumOver(g, T) \in Nat
                                  /\ SumOver(g, T) <= SumOver(g, S)
<1>1. IsFiniteSet(0 .. MaxTime)
  BY ClockAssumption, FS_Interval
<1>2. IsFiniteSet(S) /\ \A s \in S : g[s] \in Nat
  BY <1>1, FS_Subset
<1>3. SumOver(g, S) \in Nat
  BY <1>2, SumNatural
<1>4. ASSUME NEW T \in SUBSET S
      PROVE  IsFiniteSet(T) /\ SumOver(g, T) \in Nat /\ SumOver(g, T) <= SumOver(g, S)
  <2>1. IsFiniteSet(T) /\ \A s \in T : g[s] \in Nat
    BY <1>2, FS_Subset
  <2> QED
    BY <1>2, <2>1, SumNatural, SumWithin
<1> QED
  BY <1>2, <1>3, <1>4

\* A stretch that begins before a reset has its part before and its part after it.
LEMMA StretchSplits ==
    ASSUME NEW g \in [0 .. MaxTime -> Nat], NEW b \in 0 .. MaxTime, NEW r \in 0 .. b,
           NEW a \in 0 .. r
    PROVE  SumOver(g, a .. b) = SumOver(g, a .. r - 1) + SumOver(g, r .. b)
<1>1. /\ a .. r - 1 \in SUBSET (0 .. MaxTime) /\ r .. b \in SUBSET (0 .. MaxTime)
      /\ (a .. r - 1) \cap (r .. b) = {}
      /\ (a .. r - 1) \cup (r .. b) = a .. b
  BY ClockAssumption
<1>2. IsFiniteSet(a .. r - 1) /\ IsFiniteSet(r .. b)
  BY <1>1, Stretch
<1>3. \A s \in (a .. r - 1) \cup (r .. b) : g[s] \in Int
  BY <1>1
<1> QED
  BY <1>1, <1>2, <1>3, SumParts

\* Time passes.
LEMMA WithinTick ==
    ASSUME NEW g, NEW r, NEW x, NEW t, Within(g, r, x, t), t < MaxTime
    PROVE  Within(g, r, x, t + 1)
<1>1. /\ g \in [0 .. MaxTime -> Nat] /\ t \in Nat /\ r \in 0 .. t /\ t + 1 \in 0 .. MaxTime
      /\ g[t + 1] = 0
  BY ClockAssumption DEF Within
<1>2. SumOver(g, r .. t + 1) = SumOver(g, r .. t) + SumOver(g, t + 1 .. t + 1)
  <2> DEFINE n == t + 1
  <2>1. n \in 0 .. MaxTime /\ n \in 0 .. n /\ r \in 0 .. n /\ n - 1 = t
    BY <1>1
  <2>2. SumOver(g, r .. n - 1) = SumOver(g, r .. t)
    BY <2>1
  <2> HIDE DEF n
  <2>3. g \in [0 .. MaxTime -> Nat]
    BY <1>1
  <2>4. SumOver(g, r .. n) = SumOver(g, r .. n - 1) + SumOver(g, n .. n)
    BY <2>1, <2>3, StretchSplits, Zenon
  <2> QED
    BY <2>2, <2>4 DEF n
<1>3. SumOver(g, t + 1 .. t + 1) = 0
  <2>1. IsFiniteSet(t + 1 .. t + 1)
    <3>1. t + 1 \in Int
      BY <1>1
    <3> QED
      BY <3>1, FiniteStretch
  <2>2. \A s \in t + 1 .. t + 1 : g[s] = 0
    BY <1>1
  <2> QED
    BY <2>1, <2>2, SumZero
<1>4. SumOver(g, r .. t + 1) = x
  BY <1>2, <1>3 DEF Within
<1> QED
  BY <1>1, <1>4 DEF Within

\* The stretches up to now.
LEMMA WithinBound ==
    ASSUME NEW g, NEW r, NEW x, NEW t, Within(g, r, x, t),
           NEW a \in 0 .. t, NEW b \in 0 .. t, a <= b, b <= a + Day
    PROVE  SumOver(g, a .. b) <= 2 * MaxDaily /\ (r <= a => SumOver(g, a .. b) <= MaxDaily)
<1>1. /\ g \in [0 .. MaxTime -> Nat] /\ t \in Nat /\ r \in 0 .. t /\ t <= MaxTime
      /\ MaxTime \in Nat /\ Day \in Nat /\ MaxDaily \in Nat /\ x \in 0 .. MaxDaily
      /\ SumOver(g, r .. t) = x
  BY ClockAssumption, LimitsAssumption DEF Within
<1>2. ASSUME r <= a
      PROVE  SumOver(g, a .. b) <= MaxDaily /\ SumOver(g, a .. b) \in Nat
  <2>1. r .. t \in SUBSET (0 .. MaxTime) /\ a .. b \in SUBSET (r .. t)
    BY <1>1, <1>2
  <2>2. SumOver(g, a .. b) \in Nat /\ SumOver(g, a .. b) <= SumOver(g, r .. t)
    BY <1>1, <2>1, Stretch
  <2> QED
    BY <1>1, <2>2
<1>3. ASSUME a < r
      PROVE  SumOver(g, a .. b) <= 2 * MaxDaily
  <2>1. CASE a + Day < r
    <3>1. a .. a + Day \in SUBSET (0 .. MaxTime) /\ a .. b \in SUBSET (a .. a + Day)
      BY <1>1, <2>1
    <3>2. SumOver(g, a .. a + Day) <= 2 * MaxDaily
      BY <2>1 DEF Within
    <3>3. /\ SumOver(g, a .. a + Day) \in Nat /\ SumOver(g, a .. b) \in Nat
          /\ SumOver(g, a .. b) <= SumOver(g, a .. a + Day)
      BY <1>1, <3>1, Stretch
    <3> QED
      BY <1>1, <3>2, <3>3
  <2>2. CASE a + Day >= r
    <3>1. SumOver(g, a .. r - 1) <= MaxDaily
      BY <1>1, <1>3, <2>2 DEF Within
    <3>2. SumOver(g, a .. t) = SumOver(g, a .. r - 1) + SumOver(g, r .. t)
      BY <1>1, <1>3, StretchSplits
    <3>3. a .. t \in SUBSET (0 .. MaxTime) /\ a .. b \in SUBSET (a .. t)
          /\ a .. r - 1 \in SUBSET (a .. t)
      BY <1>1
    <3>4. /\ SumOver(g, a .. t) \in Nat /\ SumOver(g, a .. b) \in Nat
          /\ SumOver(g, a .. r - 1) \in Nat
          /\ SumOver(g, a .. b) <= SumOver(g, a .. t)
      BY <1>1, <3>3, Stretch
    <3> QED
      BY <1>1, <3>1, <3>2, <3>4
  <2> QED
    BY <1>1, <2>1, <2>2
<1> QED
  BY <1>1, <1>2, <1>3

\* The tracker is emptied, more than a day after it was emptied before.
LEMMA WithinReset ==
    ASSUME NEW g, NEW r, NEW x, NEW t, Within(g, r, x, t), t - r > Day
    PROVE  Within(g, t, 0, t)
<1>1. /\ g \in [0 .. MaxTime -> Nat] /\ t \in 0 .. MaxTime /\ r \in 0 .. t
      /\ MaxTime \in Nat /\ Day \in Nat /\ MaxDaily \in Nat
  BY ClockAssumption, LimitsAssumption DEF Within
<1>2. SumOver(g, t .. t) = 0
  <2>1. g[t] = 0 /\ t \in Int
    BY <1>1 DEF Within
  <2>2. IsFiniteSet(t .. t)
    BY <2>1, FiniteStretch
  <2>3. \A s \in t .. t : g[s] = 0
    BY <2>1
  <2> QED
    BY <2>2, <2>3, SumZero
<1>3. ASSUME NEW a \in 0 .. t - 1, a + Day >= t
      PROVE  SumOver(g, a .. t - 1) <= MaxDaily
  <2>1. /\ a \in 0 .. t /\ t - 1 \in 0 .. t /\ a <= t - 1 /\ t - 1 <= a + Day /\ r <= a
    BY <1>1, <1>3
  <2> QED
    BY <2>1, WithinBound
<1>4. ASSUME NEW a \in Nat, a + Day < t
      PROVE  SumOver(g, a .. a + Day) <= 2 * MaxDaily
  <2>1. a \in 0 .. t /\ a + Day \in 0 .. t /\ a <= a + Day
    BY <1>1, <1>4
  <2> QED
    BY <2>1, WithinBound
<1>5. \A s \in 0 .. MaxTime : s > t \/ s > t + Day => g[s] = 0
  BY <1>1 DEF Within
<1> QED
  BY <1>1, <1>2, <1>3, <1>4, <1>5 DEF Within

\* More is granted.
LEMMA WithinGrant ==
    ASSUME NEW g, NEW r, NEW x, NEW t, Within(g, r, x, t), t - r <= Day,
           NEW wanted \in Nat, x + wanted <= MaxDaily
    PROVE  Within([g EXCEPT ![t] = @ + wanted], r, x + wanted, t)
<1> DEFINE k == [g EXCEPT ![t] = @ + wanted]
<1>1. /\ g \in [0 .. MaxTime -> Nat] /\ t \in 0 .. MaxTime /\ r \in 0 .. t
      /\ MaxTime \in Nat /\ Day \in Nat /\ MaxDaily \in Nat /\ x \in Nat
      /\ SumOver(g, r .. t) = x
  BY ClockAssumption, LimitsAssumption DEF Within
<1>2. /\ k \in [0 .. MaxTime -> Nat] /\ k[t] = g[t] + wanted
      /\ \A s \in 0 .. MaxTime : s # t => k[s] = g[s]
  BY <1>1
<1> HIDE DEF k
<1>3. SumOver(k, r .. t) = x + wanted
  <2>0. IsFiniteSet(r .. t)
    BY <1>1, FiniteStretch
  <2>1. /\ t \in r .. t
        /\ \A s \in r .. t : g[s] \in Int /\ k[s] \in Int
        /\ \A s \in r .. t : s # t => k[s] = g[s]
    BY <1>1, <1>2
  <2>2. SumOver(k, r .. t) = SumOver(g, r .. t) + (k[t] - g[t])
    BY <2>0, <2>1, SumChange
  <2>3. g[t] \in Int
    BY <1>1
  <2> QED
    BY <1>1, <1>2, <2>2, <2>3
<1>4. ASSUME NEW a \in Nat, NEW b \in Nat, b < t
      PROVE  SumOver(k, a .. b) = SumOver(g, a .. b)
  <2>1. IsFiniteSet(a .. b)
    BY FiniteStretch
  <2>2. \A s \in a .. b : k[s] = g[s]
    BY <1>1, <1>2, <1>4
  <2> QED
    BY <2>1, <2>2, SumSame
<1>5. ASSUME NEW a \in 0 .. r - 1, a + Day >= r
      PROVE  SumOver(k, a .. r - 1) <= MaxDaily
  <2>1. a \in Nat /\ r - 1 \in Nat /\ r - 1 < t
    BY <1>1
  <2>2. SumOver(g, a .. r - 1) <= MaxDaily
    BY <1>5 DEF Within
  <2> QED
    BY <1>4, <2>1, <2>2
<1>6. ASSUME NEW a \in Nat, a + Day < r
      PROVE  SumOver(k, a .. a + Day) <= 2 * MaxDaily
  <2>1. a + Day \in Nat /\ a + Day < t
    BY <1>1, <1>6
  <2>2. SumOver(g, a .. a + Day) <= 2 * MaxDaily
    BY <1>6 DEF Within
  <2> QED
    BY <1>4, <2>1, <2>2
<1>7. \A s \in 0 .. MaxTime : s > t \/ s > r + Day => k[s] = 0
  <2>1. \A s \in 0 .. MaxTime : s > t \/ s > r + Day => s # t
    BY <1>1
  <2> QED
    BY <1>2, <2>1 DEF Within
<1>8. Within(k, r, x + wanted, t)
  BY <1>1, <1>2, <1>3, <1>5, <1>6, <1>7 DEF Within
<1> QED
  BY <1>8 DEF k

\* A request keeps the invariant, whether it empties the tracker or not.
LEMMA ValidateSound ==
    ASSUME LimitsInv, NEW u \in Withdrawers, NEW wanted \in Asked, Validate(u, wanted)
    PROVE  LimitsInv'
<1> DEFINE tracker == IF DayOver THEN [v \in Withdrawers |-> 0] ELSE dailyTracker
           reset == IF DayOver THEN now ELSE lastReset
           total == tracker[u] + wanted
<1>1. /\ now \in 0 .. MaxTime /\ lastReset \in 0 .. now /\ MaxTime \in Nat /\ MaxDaily \in Nat
      /\ Day \in Nat /\ wanted \in Nat
      /\ dailyTracker \in [Withdrawers -> 0 .. MaxDaily]
      /\ granted \in [Withdrawers -> [0 .. MaxTime -> Nat]]
  BY ClockAssumption, LimitsAssumption DEF LimitsInv
<1>2. /\ tracker \in [Withdrawers -> 0 .. MaxDaily] /\ reset \in 0 .. now /\ now - reset <= Day
      /\ \A v \in Withdrawers : Within(granted[v], reset, tracker[v], now)
  <2>1. CASE DayOver
    <3>1. now - lastReset > Day /\ reset = now /\ tracker = [v \in Withdrawers |-> 0]
      BY <2>1 DEF DayOver
    <3> HIDE DEF tracker, reset
    <3>2. \A v \in Withdrawers : Within(granted[v], now, 0, now)
      BY <3>1, WithinReset DEF LimitsInv
    <3> QED
      BY <1>1, <3>1, <3>2
  <2>2. CASE ~DayOver
    <3>1. now - lastReset <= Day /\ reset = lastReset /\ tracker = dailyTracker
      BY <1>1, <2>2 DEF DayOver
    <3> HIDE DEF tracker, reset
    <3> QED
      BY <1>1, <3>1 DEF LimitsInv
  <2> QED
    BY <2>1, <2>2
<1>3. now' = now /\ lastReset' = reset
  BY DEF Validate
<1>4. CASE dailyTracker' = tracker /\ granted' = granted
  <2> HIDE DEF tracker, reset
  <2> QED
    BY <1>1, <1>2, <1>3, <1>4 DEF LimitsInv
<1>5. CASE /\ total <= MaxDaily
           /\ dailyTracker' = [tracker EXCEPT ![u] = total]
           /\ granted' = [granted EXCEPT ![u][now] = @ + wanted]
  <2> DEFINE g == [granted[u] EXCEPT ![now] = @ + wanted]
  <2> HIDE DEF tracker, reset
  <2>1. /\ granted' = [granted EXCEPT ![u] = g] /\ g \in [0 .. MaxTime -> Nat]
        /\ Within(g, reset, total, now)
    <3>1. Within(granted[u], reset, tracker[u], now)
      BY <1>2
    <3>2. granted' = [granted EXCEPT ![u] = g]
      BY <1>5
    <3>3. granted[u] \in [0 .. MaxTime -> Nat]
      BY <1>1
    <3>4. g \in [0 .. MaxTime -> Nat]
      BY <1>1, <3>3
    <3> QED
      BY <1>1, <1>2, <1>5, <3>1, <3>2, <3>4, WithinGrant
  <2>2. total \in 0 .. MaxDaily
    BY <1>1, <1>2, <1>5
  <2> HIDE DEF g, total
  <2>3. ASSUME NEW v \in Withdrawers
        PROVE  Within(granted'[v], lastReset', dailyTracker'[v], now')
    <3>1. CASE v = u
      BY <1>1, <1>2, <1>3, <1>5, <2>1, <3>1
    <3>2. CASE v # u
      BY <1>1, <1>2, <1>3, <1>5, <2>1, <3>2
    <3> QED
      BY <3>1, <3>2
  <2>4. /\ dailyTracker' \in [Withdrawers -> 0 .. MaxDaily]
        /\ granted' \in [Withdrawers -> [0 .. MaxTime -> Nat]]
    BY <1>1, <1>2, <1>5, <2>1, <2>2
  <2> QED
    BY <1>1, <1>2, <1>3, <2>3, <2>4 DEF LimitsInv
<1>6. \/ dailyTracker' = tracker /\ granted' = granted
      \/ /\ total <= MaxDaily
         /\ dailyTracker' = [tracker EXCEPT ![u] = total]
         /\ granted' = [granted EXCEPT ![u][now] = @ + wanted]
  <2>1. total \in Int
    <3> HIDE DEF tracker
    <3> QED
      BY <1>1, <1>2
  <2>2. CASE wanted < MinAmount \/ wanted > MaxSingle \/ total > MaxDaily
    BY <2>2 DEF Validate
  <2>3. CASE ~(wanted < MinAmount \/ wanted > MaxSingle \/ total > MaxDaily)
    <3>1. /\ dailyTracker' = [tracker EXCEPT ![u] = total]
          /\ granted' = [granted EXCEPT ![u][now] = @ + wanted]
      BY <2>3 DEF Validate
    <3>2. total <= MaxDaily
      <4> HIDE DEF total
      <4> QED
        BY <1>1, <2>1, <2>3
    <3> QED
      BY <3>1, <3>2
  <2> QED
    BY <2>2, <2>3
<1> QED
  BY <1>4, <1>5, <1>6

LEMMA LimitsStep == LimitsInv /\ [LimitsNext]_<<now, limitVars>> => LimitsInv'
<1> SUFFICES ASSUME LimitsInv, [LimitsNext]_<<now, limitVars>> PROVE LimitsInv'
  OBVIOUS
<1>1. CASE Tick /\ UNCHANGED limitVars
  <2>1. now' = now + 1 /\ now < MaxTime /\ UNCHANGED <<lastReset, dailyTracker, granted>>
    BY <1>1 DEF Tick, limitVars
  <2>2. \A v \in Withdrawers : Within(granted[v], lastReset, dailyTracker[v], now + 1)
    BY <2>1, WithinTick DEF LimitsInv
  <2>3. now + 1 \in 0 .. MaxTime /\ lastReset \in 0 .. now + 1
    BY <2>1, ClockAssumption DEF LimitsInv
  <2> QED
    BY <2>1, <2>2, <2>3 DEF LimitsInv
<1>2. CASE UNCHANGED <<now, limitVars>>
  BY <1>2 DEF limitVars, LimitsInv
<1> QED
  BY <1>1, <1>2, ValidateSound DEF LimitsNext

\* However requests fall on the days of the tracker, no stretch of a day sees more
\* than twice the daily limit granted to a user.
THEOREM DaysAreBounded == LimitsSpec => []DayBound
<1>1. LimitsInit => LimitsInv
  <2> SUFFICES ASSUME LimitsInit PROVE LimitsInv
    OBVIOUS
  <2> DEFINE g == [t \in 0 .. MaxTime |-> 0]
  <2>1. g \in [0 .. MaxTime -> Nat] /\ SumOver(g, 0 .. 0) = 0
    <3>0. IsFiniteSet(0 .. 0)
      BY FiniteStretch
    <3>1. \A s \in 0 .. 0 : g[s] = 0
      BY ClockAssumption
    <3> HIDE DEF g
    <3>2. SumOver(g, 0 .. 0) = 0
      BY <3>0, <3>1, SumZero
    <3> QED
      BY <3>2 DEF g
  <2>2. Within(g, 0, 0, 0)
    <3>1. \A s \in 0 .. MaxTime : g[s] = 0
      OBVIOUS
    <3> HIDE DEF g
    <3> QED
      BY <2>1, <3>1, ClockAssumption, LimitsAssumption DEF Within
  <2> QED
    BY <2>1, <2>2, ClockAssumption, LimitsAssumption DEF LimitsInit, LimitsInv
<1>2. LimitsInv => DayBound
  <2> SUFFICES ASSUME LimitsInv, NEW u \in Withdrawers, NEW a \in 0 .. now
               PROVE  SumOver(granted[u], {s \in a .. now : s <= a + Day}) <= 2 * MaxDaily
    BY DEF DayBound, SumOver
  <2>1. /\ Within(granted[u], lastReset, dailyTracker[u], now)
        /\ now \in Nat /\ Day \in Nat /\ a \in Nat /\ a <= now
    BY LimitsAssumption, ClockAssumption DEF LimitsInv
  <2>2. CASE now <= a + Day
    <3>1. {s \in a .. now : s <= a + Day} = a .. now
      BY <2>1, <2>2
    <3>2. a \in 0 .. now /\ now \in 0 .. now
      BY <2>1
    <3>3. SumOver(granted[u], a .. now) <= 2 * MaxDaily
      BY <2>1, <2>2, <3>2, WithinBound
    <3> QED
      BY <3>1, <3>3
  <2>3. CASE now > a + Day
    <3>1. {s \in a .. now : s <= a + Day} = a .. a + Day
      BY <2>1, <2>3
    <3>2. a \in 0 .. now /\ a + Day \in 0 .. now /\ a <= a + Day
      BY <2>1, <2>3
    <3>3. SumOver(granted[u], a .. a + Day) <= 2 * MaxDaily
      BY <2>1, <3>2, WithinBound
    <3> QED
      BY <3>1, <3>3
  <2> QED
    BY <2>1, <2>2, <2>3
<1> QED
  BY <1>1, <1>2, LimitsStep, PTL DEF LimitsSpec

(***************************************************************************)
(* Amounts: what is written is read back, and a request's text is read to  *)
(* half of the last place.  Powers of ten, numbers of digits and their     *)
(* unfolding come first.                                                   *)
(***************************************************************************)
\* f is the powers of ten up to n.
ArePowers(f, n) ==
    f = [i \in 0 .. n |-> IF i = 0 THEN 1 ELSE 10 * f[i - 1]]

\* What that means, power by power.
LEMMA PowersAre ==
    ASSUME NEW f, NEW n \in Nat
    PROVE  ArePowers(f, n) <=>
              /\ f = [i \in 0 .. n |-> f[i]]
              /\ f[0] = 1
              /\ \A i \in 1 .. n : f[i] = 10 * f[i - 1]
<1> DEFINE Value(i) == IF i = 0 THEN 1 ELSE 10 * f[i - 1]
<1>1. ArePowers(f, n) <=> f = [i \in 0 .. n |-> Value(i)]
  BY DEF ArePowers
<1>2. (\A i \in 0 .. n : f[i] = Value(i)) <=> f[0] = 1 /\ \A i \in 1 .. n : f[i] = 10 * f[i - 1]
  <2>1. \A i \in 0 .. n : i = 0 \/ i \in 1 .. n
    OBVIOUS
  <2>2. \A i \in 1 .. n : i \in 0 .. n /\ i # 0
    OBVIOUS
  <2>3. 0 \in 0 .. n
    OBVIOUS
  <2> QED
    BY <2>1, <2>2, <2>3
<1> HIDE DEF Value
<1>3. f = [i \in 0 .. n |-> Value(i)] <=>
         f = [i \in 0 .. n |-> f[i]] /\ \A i \in 0 .. n : f[i] = Value(i)
  OBVIOUS
<1> QED
  BY <1>1, <1>2, <1>3

\* There are as many of them as one asks for.
LEMMA PowersExist ==
    ASSUME NEW n \in Nat
    PROVE  \E f : ArePowers(f, n)
<1> DEFINE Bad == { m \in Nat : ~ \E f : ArePowers(f, m) }
<1> SUFFICES ASSUME Bad # {} PROVE FALSE
  OBVIOUS
<1>1. PICK m \in Bad : \A k \in Bad : m <= k
  <2>1. Bad \subseteq Nat
    OBVIOUS
  <2> HIDE DEF Bad
  <2> QED
    BY <2>1, LeastNumber
<1>2. m \in Nat /\ ~ \E f : ArePowers(f, m)
  OBVIOUS
<1>3. CASE m = 0
  <2> DEFINE f == [i \in 0 .. m |-> 1]
  <2>1. f = [i \in 0 .. m |-> f[i]] /\ f[0] = 1
    BY <1>3
  <2>2. \A i \in 1 .. m : f[i] = 10 * f[i - 1]
    BY <1>3
  <2> HIDE DEF f
  <2>3. ArePowers(f, m)
    BY <1>2, <2>1, <2>2, PowersAre
  <2> QED
    BY <1>2, <2>3
<1>4. CASE m # 0
  <2>1. m - 1 \in Nat /\ ~(m <= m - 1)
    BY <1>2, <1>4
  <2>2. PICK g : ArePowers(g, m - 1)
    BY <1>1, <2>1
  <2>3. g[0] = 1 /\ \A i \in 1 .. m - 1 : g[i] = 10 * g[i - 1]
    BY <2>1, <2>2, PowersAre
  <2> DEFINE f == [i \in 0 .. m |-> IF i = m THEN 10 * g[m - 1] ELSE g[i]]
  <2>4. f = [i \in 0 .. m |-> f[i]] /\ f[0] = 1
    BY <1>2, <1>4, <2>3
  <2>5. ASSUME NEW i \in 1 .. m PROVE f[i] = 10 * f[i - 1]
    <3>1. i - 1 \in 0 .. m /\ i - 1 # m /\ i \in 0 .. m
      BY <1>2
    <3>2. f[i - 1] = g[i - 1]
      BY <3>1
    <3>3. i # m => i \in 1 .. m - 1
      BY <1>2
    <3> QED
      BY <2>3, <3>1, <3>2, <3>3
  <2> HIDE DEF f
  <2>6. ArePowers(f, m)
    BY <1>2, <2>4, <2>5, PowersAre
  <2> QED
    BY <1>2, <2>6
<1> QED
  BY <1>3, <1>4

\* They are the same however many one asks for.
LEMMA PowersAgree ==
    ASSUME NEW f, NEW g, NEW n \in Nat, NEW m \in Nat, ArePowers(f, n), ArePowers(g, m)
    PROVE  \A i \in Nat : i <= n /\ i <= m => f[i] = g[i]
<1>1. /\ f[0] = 1 /\ \A i \in 1 .. n : f[i] = 10 * f[i - 1]
      /\ g[0] = 1 /\ \A i \in 1 .. m : g[i] = 10 * g[i - 1]
  BY PowersAre
<1> DEFINE Bad == { i \in Nat : i <= n /\ i <= m /\ f[i] # g[i] }
<1> SUFFICES ASSUME Bad # {} PROVE FALSE
  OBVIOUS
<1>2. PICK i \in Bad : \A k \in Bad : i <= k
  <2>1. Bad \subseteq Nat
    OBVIOUS
  <2> HIDE DEF Bad
  <2> QED
    BY <2>1, LeastNumber
<1>3. i \in Nat /\ i <= n /\ i <= m /\ f[i] # g[i]
  OBVIOUS
<1>4. i # 0
  BY <1>1, <1>3
<1>5. i - 1 \in Nat /\ i - 1 <= n /\ i - 1 <= m /\ ~(i <= i - 1) /\ i \in 1 .. n /\ i \in 1 .. m
  BY <1>3, <1>4
<1>6. f[i - 1] = g[i - 1]
  BY <1>2, <1>5
<1> QED
  BY <1>1, <1>3, <1>5, <1>6

\* TenTo is what its definition says.
LEMMA TenToIs ==
    /\ TenTo[0] = 1
    /\ \A n \in Nat : TenTo[n + 1] = 10 * TenTo[n]
<1> DEFINE F(n) == CHOOSE f : ArePowers(f, n)
           p == [n \in Nat |-> F(n)[n]]
<1>1. \A n \in Nat : ArePowers(F(n), n)
  BY PowersExist
<1> HIDE DEF F
<1>2. F(0)[0] = 1
  BY <1>1, PowersAre
<1>3. ASSUME NEW n \in Nat, n # 0 PROVE F(n)[n] = 10 * F(n - 1)[n - 1]
  <2>1. n - 1 \in Nat /\ n \in 1 .. n /\ n - 1 <= n /\ n - 1 <= n - 1
    BY <1>3
  <2>2. F(n)[n] = 10 * F(n)[n - 1]
    BY <1>1, <2>1, PowersAre
  <2>3. F(n)[n - 1] = F(n - 1)[n - 1]
    BY <1>1, <2>1, PowersAgree
  <2> QED
    BY <2>2, <2>3
<1>4. ASSUME NEW n \in Nat PROVE p[n] = IF n = 0 THEN 1 ELSE 10 * p[n - 1]
  <2>1. n # 0 => n - 1 \in Nat
    OBVIOUS
  <2> QED
    BY <1>2, <1>3, <2>1
<1>5. p = [n \in Nat |-> p[n]]
  OBVIOUS
<1> HIDE DEF p
<1>6. p = [n \in Nat |-> IF n = 0 THEN 1 ELSE 10 * p[n - 1]]
  BY <1>4, <1>5
<1>7. TenTo = [n \in Nat |-> IF n = 0 THEN 1 ELSE 10 * TenTo[n - 1]]
  BY <1>6 DEF TenTo
<1> DEFINE t == TenTo
<1>8. t = [n \in Nat |-> IF n = 0 THEN 1 ELSE 10 * t[n - 1]]
  BY <1>7
<1> HIDE DEF t
<1>9. t[0] = 1 /\ \A n \in Nat : t[n + 1] = 10 * t[n]
  <2>1. \A n \in Nat : n + 1 \in Nat /\ n + 1 # 0 /\ (n + 1) - 1 = n
    OBVIOUS
  <2> QED
    BY <1>8, <2>1
<1> QED
  BY <1>9 DEF t

\* They are positive.
LEMMA TenToNat == \A n \in Nat : TenTo[n] \in Nat \ {0}
<1> DEFINE t == TenTo
           Bad == { n \in Nat : t[n] \notin Nat \ {0} }
<1> SUFFICES ASSUME Bad # {} PROVE FALSE
  OBVIOUS
<1>1. t[0] = 1 /\ \A n \in Nat : t[n + 1] = 10 * t[n]
  BY TenToIs
<1> HIDE DEF t
<1>2. PICK m \in Bad : \A k \in Bad : m <= k
  <2>1. Bad \subseteq Nat
    OBVIOUS
  <2> HIDE DEF Bad
  <2> QED
    BY <2>1, LeastNumber
<1>3. m \in Nat /\ t[m] \notin Nat \ {0} /\ m # 0
  BY <1>1
<1>4. m - 1 \in Nat /\ ~(m <= m - 1) /\ (m - 1) + 1 = m
  BY <1>3
<1>5. t[m - 1] \in Nat \ {0} /\ t[m] = 10 * t[m - 1]
  BY <1>1, <1>2, <1>4
<1> QED
  BY <1>3, <1>5

\* Exponents add.
LEMMA TenToSum == \A m, n \in Nat : TenTo[m + n] = TenTo[m] * TenTo[n]
<1> SUFFICES ASSUME NEW m \in Nat PROVE \A n \in Nat : TenTo[m + n] = TenTo[m] * TenTo[n]
  OBVIOUS
<1> DEFINE t == TenTo
           Bad == { n \in Nat : t[m + n] # t[m] * t[n] }
<1> SUFFICES ASSUME Bad # {} PROVE FALSE
  OBVIOUS
<1>1. /\ t[0] = 1 /\ \A n \in Nat : t[n + 1] = 10 * t[n]
      /\ \A n \in Nat : t[n] \in Nat
  BY TenToIs, TenToNat
<1> HIDE DEF t
<1>2. PICK n \in Bad : \A k \in Bad : n <= k
  <2>1. Bad \subseteq Nat
    OBVIOUS
  <2> HIDE DEF Bad
  <2> QED
    BY <2>1, LeastNumber
<1>3. n \in Nat /\ t[m + n] # t[m] * t[n]
  OBVIOUS
<1>4. n # 0
  <2> SUFFICES ASSUME n = 0 PROVE FALSE
    OBVIOUS
  <2>1. m + n = m /\ t[n] = 1
    BY <1>1, <1>3
  <2>2. t[m] * 1 = t[m]
    BY <1>1
  <2> QED
    BY <1>3, <2>1, <2>2
<1>5. n - 1 \in Nat /\ ~(n <= n - 1) /\ (n - 1) + 1 = n /\ m + (n - 1) \in Nat /\ (m + (n - 1)) + 1 = m + n
  BY <1>3, <1>4
<1>6. t[m + (n - 1)] = t[m] * t[n - 1]
  BY <1>2, <1>5
<1>7. t[m + n] = 10 * t[m + (n - 1)] /\ t[n] = 10 * t[n - 1]
  BY <1>1, <1>5
<1>8. \A a, b \in Nat : 10 * (a * b) = a * (10 * b)
  OBVIOUS
<1>9. t[m] \in Nat /\ t[n - 1] \in Nat
  BY <1>1, <1>5
<1> QED
  BY <1>3, <1>6, <1>7, <1>8, <1>9

(***************************************************************************)
(* The number that digits write.                                           *)
(***************************************************************************)
\* g gives the numbers of the subsequences of d, by the sets of their places.
AreNumbers(g, d, S) ==
    g = [s \in SUBSET S |-> IF s = {} THEN 0 ELSE 10 * g[s \ {Max(s)}] + d[Max(s)]]

\* What that means, set by set.
LEMMA NumbersAre ==
    ASSUME NEW g, NEW d, NEW S
    PROVE  AreNumbers(g, d, S) <=>
              /\ g = [s \in SUBSET S |-> g[s]]
              /\ \A s \in SUBSET S :
                    g[s] = IF s = {} THEN 0 ELSE 10 * g[s \ {Max(s)}] + d[Max(s)]
<1> DEFINE Value(s) == IF s = {} THEN 0 ELSE 10 * g[s \ {Max(s)}] + d[Max(s)]
<1>1. AreNumbers(g, d, S) <=> g = [s \in SUBSET S |-> Value(s)]
  BY DEF AreNumbers
<1> HIDE DEF Value
<1>2. g = [s \in SUBSET S |-> Value(s)] <=>
         g = [s \in SUBSET S |-> g[s]] /\ \A s \in SUBSET S : g[s] = Value(s)
  OBVIOUS
<1> QED
  BY <1>1, <1>2 DEF Value

\* The fold in Number's definition.
LEMMA NumberIs ==
    ASSUME NEW d
    PROVE  Number(d) = (CHOOSE g : AreNumbers(g, d, DOMAIN d))[DOMAIN d]
  BY DEF Number, FoldLeft, MapThenFoldSet, AreNumbers

\* The largest of the numbers up to n.
LEMMA MaxUpTo == \A n \in Nat \ {0} : Max(1 .. n) = n
<1> SUFFICES ASSUME NEW n \in Nat \ {0} PROVE Max(1 .. n) = n
  OBVIOUS
<1>1. n \in 1 .. n /\ \A k \in 1 .. n : n >= k
  OBVIOUS
<1>2. \A x \in 1 .. n : (\A k \in 1 .. n : x >= k) => x = n
  BY <1>1
<1> QED
  BY <1>1, <1>2 DEF Max

\* A set of numbers from 1 to n that is not empty has a largest.
LEMMA MaxIn ==
    ASSUME NEW n \in Nat, NEW s \in SUBSET (0 .. n), s # {}
    PROVE  Max(s) \in s /\ \A k \in s : k <= Max(s)
<1> DEFINE T == { n - k : k \in s }
<1>1. T \subseteq Nat /\ T # {}
  <2>1. \A k \in s : n - k \in Nat
    OBVIOUS
  <2>2. PICK k : k \in s
    OBVIOUS
  <2>3. n - k \in T
    BY <2>2
  <2> QED
    BY <2>1, <2>3
<1>2. PICK m \in T : \A k \in T : m <= k
  <2> HIDE DEF T
  <2> QED
    BY <1>1, LeastNumber
<1>3. PICK x \in s : m = n - x
  OBVIOUS
<1>4. \A k \in s : x >= k
  <2> SUFFICES ASSUME NEW k \in s PROVE x >= k
    OBVIOUS
  <2>1. m <= n - k
    BY <1>2
  <2> QED
    BY <1>3, <2>1
<1>5. \E y \in s : \A k \in s : y >= k
  BY <1>4
<1> DEFINE y == CHOOSE z \in s : \A k \in s : z >= k
<1> HIDE DEF T
<1>6. y \in s /\ \A k \in s : y >= k
  BY <1>5
<1>7. Max(s) = y
  BY DEF Max
<1> HIDE DEF y
<1> QED
  BY <1>6, <1>7

\* The numbers of the first n digits.
Count(g, d, n) == AreNumbers(g, d, 1 .. n)

\* There are such numbers.
LEMMA NumbersExist ==
    ASSUME NEW d, NEW n \in Nat
    PROVE  \E g : Count(g, d, n)
<1> DEFINE Bad == { m \in Nat : ~ \E g : Count(g, d, m) }
<1> SUFFICES ASSUME Bad # {} PROVE FALSE
  OBVIOUS
<1>1. PICK m \in Bad : \A k \in Bad : m <= k
  <2>1. Bad \subseteq Nat
    OBVIOUS
  <2> HIDE DEF Bad
  <2> QED
    BY <2>1, LeastNumber
<1>2. m \in Nat /\ ~ \E g : Count(g, d, m)
  OBVIOUS
<1>3. CASE m = 0
  <2> DEFINE g == [s \in SUBSET (1 .. m) |-> 0]
  <2>1. g = [s \in SUBSET (1 .. m) |-> g[s]]
    OBVIOUS
  <2>2. \A s \in SUBSET (1 .. m) :
           g[s] = IF s = {} THEN 0 ELSE 10 * g[s \ {Max(s)}] + d[Max(s)]
    BY <1>3
  <2> HIDE DEF g
  <2>3. Count(g, d, m)
    BY <2>1, <2>2, NumbersAre DEF Count
  <2> QED
    BY <1>2, <2>3
<1>4. CASE m # 0
  <2>1. m - 1 \in Nat /\ ~(m <= m - 1)
    BY <1>2, <1>4
  <2>2. PICK h : Count(h, d, m - 1)
    <3>1. m - 1 \notin Bad
      BY <1>1, <2>1
    <3> QED
      BY <2>1, <3>1
  <2>3. \A s \in SUBSET (1 .. m - 1) :
           h[s] = IF s = {} THEN 0 ELSE 10 * h[s \ {Max(s)}] + d[Max(s)]
    BY <2>2, NumbersAre DEF Count
  <2> DEFINE g == [s \in SUBSET (1 .. m) |->
                      IF m \in s THEN 10 * h[s \ {m}] + d[m] ELSE h[s]]
  <2>4. g = [s \in SUBSET (1 .. m) |-> g[s]]
    OBVIOUS
  <2>5. ASSUME NEW s \in SUBSET (1 .. m)
        PROVE  g[s] = IF s = {} THEN 0 ELSE 10 * g[s \ {Max(s)}] + d[Max(s)]
    <3>1. CASE m \in s
      <4>1. Max(s) = m
        <5>1. Max(s) \in s /\ m <= Max(s)
          <6>1. s \in SUBSET (0 .. m) /\ s # {}
            BY <3>1
          <6> QED
            BY <1>2, <3>1, <6>1, MaxIn
        <5>2. Max(s) \in 1 .. m
          BY <5>1
        <5> QED
          BY <1>2, <5>1, <5>2
      <4>2. s \ {m} \in SUBSET (1 .. m) /\ m \notin s \ {m}
        OBVIOUS
      <4>3. g[s \ {m}] = h[s \ {m}] /\ g[s] = 10 * h[s \ {m}] + d[m]
        BY <3>1, <4>2
      <4> HIDE DEF g
      <4> QED
        BY <3>1, <4>1, <4>3
    <3>2. CASE m \notin s
      <4>1. s \in SUBSET (1 .. m - 1)
        <5>1. \A x \in 1 .. m : x # m => x \in 1 .. m - 1
          BY <1>2
        <5> QED
          BY <3>2, <5>1
      <4>2. s \ {Max(s)} \in SUBSET (1 .. m) /\ m \notin s \ {Max(s)}
        BY <3>2
      <4>3. g[s \ {Max(s)}] = h[s \ {Max(s)}] /\ g[s] = h[s]
        BY <3>2, <4>2
      <4> HIDE DEF g
      <4> QED
        BY <2>3, <4>1, <4>3
    <3> QED
      BY <3>1, <3>2
  <2> HIDE DEF g
  <2>6. Count(g, d, m)
    BY <2>4, <2>5, NumbersAre DEF Count
  <2> QED
    BY <1>2, <2>6
<1> QED
  BY <1>3, <1>4

\* The numbers of the first k digits, one digit after the other.
Stepwise(g, d, n) ==
    /\ g[{}] = 0
    /\ \A k \in Nat : k < n => g[1 .. k + 1] = 10 * g[1 .. k] + d[k + 1]

\* So they are counted.
LEMMA NumbersStep ==
    ASSUME NEW d, NEW n \in Nat, NEW g, Count(g, d, n)
    PROVE  Stepwise(g, d, n)
<1>1. \A s \in SUBSET (1 .. n) :
         g[s] = IF s = {} THEN 0 ELSE 10 * g[s \ {Max(s)}] + d[Max(s)]
  BY NumbersAre DEF Count
<1>2. g[{}] = 0
  BY <1>1
<1>3. ASSUME NEW k \in Nat, k < n PROVE g[1 .. k + 1] = 10 * g[1 .. k] + d[k + 1]
  <2>1. k + 1 \in Nat \ {0}
    OBVIOUS
  <2>2. Max(1 .. k + 1) = k + 1
    BY <2>1, MaxUpTo
  <2>3. (1 .. k + 1) \ {k + 1} = 1 .. k
    OBVIOUS
  <2>4. 1 .. k + 1 \in SUBSET (1 .. n) /\ 1 .. k + 1 # {}
    <3>1. k + 1 \in 1 .. k + 1 /\ k + 1 <= n
      BY <1>3
    <3>2. \A x \in 1 .. k + 1 : x \in 1 .. n
      BY <3>1
    <3> QED
      BY <3>1, <3>2
  <2> QED
    BY <1>1, <2>2, <2>3, <2>4
<1> QED
  BY <1>2, <1>3 DEF Stepwise

\* g and h give the numbers of d and e, whose first k digits are the same.
AlikeUpTo(g, d, n, h, e, m, k) ==
    /\ n \in Nat /\ m \in Nat /\ k \in Nat /\ k <= n /\ k <= m
    /\ Count(g, d, n) /\ Count(h, e, m)
    /\ \A i \in 1 .. k : d[i] = e[i]

\* The numbers of two texts are the same as far as their digits are.
LEMMA NumbersAgree ==
    ASSUME NEW d, NEW e, NEW n, NEW m, NEW g, NEW h, NEW k, AlikeUpTo(g, d, n, h, e, m, k)
    PROVE  g[1 .. k] = h[1 .. k]
<1>9. /\ n \in Nat /\ m \in Nat /\ k \in Nat /\ k <= n /\ k <= m
      /\ Count(g, d, n) /\ Count(h, e, m)
      /\ \A i \in 1 .. k : d[i] = e[i]
  BY DEF AlikeUpTo
<1>0. Stepwise(g, d, n) /\ Stepwise(h, e, m)
  BY <1>9, NumbersStep
<1>1. /\ g[{}] = 0 /\ \A i \in Nat : i < n => g[1 .. i + 1] = 10 * g[1 .. i] + d[i + 1]
      /\ h[{}] = 0 /\ \A i \in Nat : i < m => h[1 .. i + 1] = 10 * h[1 .. i] + e[i + 1]
  BY <1>0 DEF Stepwise
<1> DEFINE Bad == { i \in Nat : i <= k /\ g[1 .. i] # h[1 .. i] }
<1>8. k \in Nat /\ k <= k
  BY <1>9
<1> SUFFICES Bad = {}
  BY <1>8
<1> SUFFICES ASSUME Bad # {} PROVE FALSE
  OBVIOUS
<1>2. PICK i \in Bad : \A j \in Bad : i <= j
  <2>1. Bad \subseteq Nat
    OBVIOUS
  <2> HIDE DEF Bad
  <2> QED
    BY <2>1, LeastNumber
<1>3. i \in Nat /\ i <= k /\ g[1 .. i] # h[1 .. i]
  OBVIOUS
<1>4. i # 0
  <2> SUFFICES ASSUME i = 0 PROVE FALSE
    OBVIOUS
  <2>1. 1 .. i = {}
    OBVIOUS
  <2> QED
    BY <1>1, <1>3, <2>1
<1>5. /\ i - 1 \in Nat /\ i - 1 <= k /\ ~(i <= i - 1)
      /\ i - 1 < n /\ i - 1 < m /\ (i - 1) + 1 = i /\ i \in 1 .. k
  BY <1>9, <1>3, <1>4
<1>6. g[1 .. i - 1] = h[1 .. i - 1]
  BY <1>2, <1>5
<1>7. /\ g[1 .. i] = 10 * g[1 .. i - 1] + d[i]
      /\ h[1 .. i] = 10 * h[1 .. i - 1] + e[i]
  BY <1>1, <1>5
<1> QED
  BY <1>9, <1>3, <1>5, <1>6, <1>7

\* d is the first n of the m digits of e, whose numbers g gives.
BeginsLike(d, n, g, e, m) ==
    /\ n \in Nat /\ m \in Nat /\ n <= m /\ DOMAIN d = 1 .. n
    /\ Count(g, e, m) /\ \A i \in 1 .. n : d[i] = e[i]

\* Number gives those numbers.
LEMMA NumberUpTo ==
    ASSUME NEW d, NEW n, NEW g, NEW e, NEW m, BeginsLike(d, n, g, e, m)
    PROVE  Number(d) = g[1 .. n]
<1> DEFINE c == CHOOSE h : Count(h, d, n)
<1>0. /\ n \in Nat /\ m \in Nat /\ n <= m /\ DOMAIN d = 1 .. n
      /\ Count(g, e, m) /\ \A i \in 1 .. n : d[i] = e[i]
  BY DEF BeginsLike
<1>1. Count(c, d, n)
  BY <1>0, NumbersExist
<1>2. Number(d) = c[1 .. n]
  BY <1>0, NumberIs DEF Count
<1> HIDE DEF c
<1>3. c[1 .. n] = g[1 .. n]
  <2>1. AlikeUpTo(c, d, n, g, e, m, n)
    <3>1. n <= n
      BY <1>0
    <3> QED
      BY <1>0, <1>1, <3>1 DEF AlikeUpTo
  <2> QED
    BY <2>1, NumbersAgree
<1> QED
  BY <1>2, <1>3

\* The number before the last digit, ten times, and the last digit.
LEMMA NumberStep ==
    ASSUME NEW d \in Seq(Int)
    PROVE  /\ Number(SubSeq(d, 1, 0)) = 0
           /\ Number(d) = Number(SubSeq(d, 1, Len(d)))
           /\ \A k \in Nat : k < Len(d) =>
                 Number(SubSeq(d, 1, k + 1)) = 10 * Number(SubSeq(d, 1, k)) + d[k + 1]
<1> DEFINE n == Len(d)
<1>1. n \in Nat /\ DOMAIN d = 1 .. n
  BY LenProperties
<1> HIDE DEF n
<1>2. PICK g : Count(g, d, n)
  BY <1>1, NumbersExist
<1>3. ASSUME NEW k \in Nat, k <= n PROVE Number(SubSeq(d, 1, k)) = g[1 .. k]
  <2> DEFINE s == SubSeq(d, 1, k)
  <2>1. DOMAIN s = 1 .. k /\ \A i \in 1 .. k : s[i] = d[i]
    <3>1. s \in Seq(Int) /\ Len(s) = k /\ \A i \in 1 .. k : s[i] = d[1 + i - 1]
      BY <1>1, <1>3, SubSeqProperties DEF n
    <3>2. DOMAIN s = 1 .. Len(s)
      BY <3>1, LenProperties
    <3> QED
      BY <3>1, <3>2
  <2> HIDE DEF s
  <2>2. Number(s) = g[1 .. k]
    <3>1. BeginsLike(s, k, g, d, n)
      BY <1>1, <1>2, <1>3, <2>1 DEF BeginsLike
    <3> QED
      BY <3>1, NumberUpTo
  <2> QED
    BY <2>2 DEF s
<1>4. Number(d) = g[1 .. n]
  <2>1. n <= n
    BY <1>1
  <2>2. BeginsLike(d, n, g, d, n)
    BY <1>1, <1>2, <2>1 DEF BeginsLike
  <2> QED
    BY <2>2, NumberUpTo
<1>5. g[1 .. 0] = 0
  <2>1. 1 .. 0 = {}
    OBVIOUS
  <2> QED
    BY <1>1, <1>2, <2>1, NumbersStep DEF Stepwise
<1>6. \A k \in Nat : k < n => g[1 .. k + 1] = 10 * g[1 .. k] + d[k + 1]
  BY <1>1, <1>2, NumbersStep DEF Stepwise
<1>7. 0 <= n /\ n <= n /\ \A k \in Nat : k < n => k + 1 \in Nat /\ k + 1 <= n /\ k <= n
  BY <1>1
<1> QED
  BY <1>1, <1>3, <1>4, <1>5, <1>6, <1>7 DEF n

(***************************************************************************)
(* What is written and read.                                               *)
(***************************************************************************)
\* What holds at a, and at the next when it holds at one, holds up to b.
LEMMA Climb ==
    ASSUME NEW a \in Nat, NEW b \in Nat, NEW T, a \in T,
           \A k \in Nat : a <= k /\ k < b /\ k \in T => k + 1 \in T
    PROVE  \A k \in Nat : a <= k /\ k <= b => k \in T
<1> DEFINE Bad == { k \in Nat : a <= k /\ k <= b /\ k \notin T }
<1> SUFFICES ASSUME Bad # {} PROVE FALSE
  OBVIOUS
<1>1. PICK m \in Bad : \A k \in Bad : m <= k
  <2>1. Bad \subseteq Nat
    OBVIOUS
  <2> HIDE DEF Bad
  <2> QED
    BY <2>1, LeastNumber
<1>2. m \in Nat /\ a <= m /\ m <= b /\ m \notin T /\ m # a
  OBVIOUS
<1>3. m - 1 \in Nat /\ a <= m - 1 /\ m - 1 < b /\ ~(m <= m - 1) /\ (m - 1) + 1 = m
  BY <1>2
<1>4. m - 1 \in T
  BY <1>1, <1>3
<1> QED
  BY <1>2, <1>3, <1>4

\* The number of the first k digits.
UpTo(d, k) == Number(SubSeq(d, 1, k))

\* It grows digit by digit.
LEMMA UpToStep ==
    ASSUME NEW d \in Seq(0 .. 9)
    PROVE  /\ UpTo(d, 0) = 0
           /\ Number(d) = UpTo(d, Len(d))
           /\ \A k \in Nat : k < Len(d) => UpTo(d, k + 1) = 10 * UpTo(d, k) + d[k + 1]
           /\ Len(d) \in Nat
           /\ \A i \in 1 .. Len(d) : d[i] \in 0 .. 9
<1>1. Len(d) \in Nat /\ d \in [1 .. Len(d) -> 0 .. 9] /\ \A i \in 1 .. Len(d) : d[i] \in 0 .. 9
  BY LenProperties, ElementOfSeq
<1>2. d \in Seq(Int)
  <2>1. \A i \in 1 .. Len(d) : d[i] \in Int
    BY <1>1
  <2>2. d \in [1 .. Len(d) -> Int]
    BY <1>1, <2>1
  <2> QED
    BY <1>1, <2>2
<1> QED
  BY <1>1, <1>2, NumberStep DEF UpTo

\* And is a natural number.
LEMMA UpToNat ==
    ASSUME NEW d \in Seq(0 .. 9)
    PROVE  \A k \in Nat : k <= Len(d) => UpTo(d, k) \in Nat
<1> DEFINE u(k) == UpTo(d, k)
           n == Len(d)
           T == { k \in Nat : u(k) \in Nat }
<1>1. /\ u(0) = 0 /\ \A k \in Nat : k < n => u(k + 1) = 10 * u(k) + d[k + 1]
      /\ n \in Nat /\ \A i \in 1 .. n : d[i] \in 0 .. 9
  BY UpToStep
<1> HIDE DEF u, n
<1>2. 0 \in T
  BY <1>1
<1>3. ASSUME NEW k \in Nat, 0 <= k /\ k < n /\ k \in T PROVE k + 1 \in T
  <2>1. u(k) \in Nat /\ k + 1 \in Nat
    BY <1>3
  <2>2. k + 1 \in 1 .. n
    BY <1>1, <1>3
  <2>3. u(k + 1) = 10 * u(k) + d[k + 1]
    BY <1>1, <1>3
  <2>4. d[k + 1] \in Nat
    BY <1>1, <2>2
  <2>5. u(k + 1) \in Nat
    BY <2>1, <2>3, <2>4
  <2> QED
    BY <2>1, <2>5
<1> HIDE DEF T
<1>4. \A k \in Nat : 0 <= k /\ k <= n => k \in T
  BY <1>1, <1>2, <1>3, Climb
<1>5. \A k \in Nat : k <= n => u(k) \in Nat
  BY <1>4 DEF T
<1> QED
  BY <1>5 DEF u, n

\* A number, its quotient and its remainder.
LEMMA Divided ==
    \A a \in Nat, b \in Nat \ {0} :
        /\ a \div b \in Nat /\ a % b \in Nat /\ a % b < b
        /\ a = b * (a \div b) + (a % b)
OBVIOUS

\* There is one quotient and one remainder.
LEMMA QuotientIs ==
    ASSUME NEW a \in Nat, NEW q \in Nat, NEW r \in Nat, NEW b \in Nat \ {0},
           a = b * q + r, r < b
    PROVE  a \div b = q /\ a % b = r
<1> DEFINE u == a \div b
           v == a % b
<1>1. u \in Nat /\ v \in Nat /\ v < b /\ a = b * u + v
  BY Divided
<1> HIDE DEF u, v
<1>2. \A x, y \in Nat : x < y => b * x + b <= b * y
  <2> SUFFICES ASSUME NEW x \in Nat, NEW y \in Nat, x < y PROVE b * x + b <= b * y
    OBVIOUS
  <2>1. x + 1 <= y
    OBVIOUS
  <2>2. b * (x + 1) <= b * y
    BY <2>1
  <2>3. b * (x + 1) = b * x + b
    OBVIOUS
  <2> QED
    BY <2>2, <2>3
<1> DEFINE c == b * q
           d == b * u
<1>3. c \in Nat /\ d \in Nat /\ a = c + r /\ a = d + v
  BY <1>1
<1>4. /\ q < u => c + b <= d
      /\ u < q => d + b <= c
  BY <1>1, <1>2
<1> HIDE DEF c, d
<1>5. ~(q < u) /\ ~(u < q)
  BY <1>1, <1>3, <1>4
<1>6. u = q
  BY <1>1, <1>5
<1>7. v = r
  BY <1>1, <1>3, <1>6 DEF c, d
<1> QED
  BY <1>6, <1>7 DEF u, v

\* Dividing by ten times b is dividing by b and by ten.
LEMMA DivideTwice ==
    \A a \in Nat, b \in Nat \ {0} : a \div (10 * b) = (a \div b) \div 10
<1> TAKE a \in Nat, b \in Nat \ {0}
<1> DEFINE q == a \div b
           s == a % b
           u == q \div 10
           v == q % 10
<1>1. q \in Nat /\ s \in Nat /\ s < b /\ a = b * q + s
  BY Divided
<1> HIDE DEF q, s
<1>2. u \in Nat /\ v \in Nat /\ v < 10 /\ q = 10 * u + v
  BY <1>1, Divided
<1> HIDE DEF u, v
<1> DEFINE r == b * v + s
<1>3. b * v \in Nat /\ b * v <= b * 9
  BY <1>2
<1>4. r \in Nat /\ r < 10 * b
  BY <1>1, <1>3
<1>5. b * q = (10 * b) * u + b * v
  BY <1>2
<1>6. (10 * b) * u \in Nat
  BY <1>2
<1>7. a = (10 * b) * u + r
  BY <1>1, <1>3, <1>5, <1>6
<1> HIDE DEF r
<1> DEFINE c == 10 * b
<1>8. c \in Nat \ {0} /\ a = c * u + r /\ r < c
  BY <1>4, <1>7
<1> HIDE DEF c
<1>9. a \div c = u
  BY <1>2, <1>4, <1>8, QuotientIs
<1> QED
  BY <1>9 DEF c, u, q

\* The digits of a number below one, read one after the other.
LEMMA DigitsRead ==
    ASSUME NEW r \in Nat, r < Unit
    PROVE  /\ Digits(r) \in Seq(0 .. 9) /\ Len(Digits(r)) = Places
           /\ UpTo(Digits(r), Places) = r
<1> DEFINE d == Digits(r)
           t == TenTo
           L == Places
<1>1. /\ L \in Nat /\ t[0] = 1 /\ \A n \in Nat : t[n + 1] = 10 * t[n]
      /\ \A n \in Nat : t[n] \in Nat \ {0}
      /\ r < t[L]
  BY TenToIs, TenToNat, DecimalAssumption DEF Unit
<1>2. \A i \in 1 .. L : d[i] = (r \div t[L - i]) % 10 /\ d[i] \in 0 .. 9
  <2> SUFFICES ASSUME NEW i \in 1 .. L PROVE d[i] = (r \div t[L - i]) % 10 /\ d[i] \in 0 .. 9
    OBVIOUS
  <2>1. d[i] = (r \div t[L - i]) % 10
    BY DEF Digits
  <2>2. L - i \in Nat
    BY <1>1
  <2> HIDE DEF d, t, L
  <2>3. r \div t[L - i] \in Nat
    BY <1>1, <2>2, Divided
  <2> QED
    BY <2>1, <2>3, Divided
<1>3. d = [i \in 1 .. L |-> d[i]]
  BY DEF Digits
<1> HIDE DEF d, t, L
<1>4. d \in Seq(0 .. 9) /\ Len(d) = L
  <2>1. d \in [1 .. L -> 0 .. 9]
    BY <1>2, <1>3
  <2> QED
    BY <1>1, <2>1
<1> DEFINE u(k) == UpTo(d, k)
           q(k) == r \div t[L - k]
           T == { k \in Nat : u(k) = q(k) }
<1>5. u(0) = 0 /\ \A k \in Nat : k < L => u(k + 1) = 10 * u(k) + d[k + 1]
  BY <1>4, UpToStep
<1> HIDE DEF u
<1>6. 0 \in T
  <2> DEFINE b == t[L]
  <2>1. L - 0 = L /\ b \in Nat \ {0} /\ r < b
    BY <1>1
  <2> HIDE DEF b
  <2>2. r = b * 0 + r /\ 0 \in Nat
    BY <2>1
  <2>3. r \div b = 0
    BY <2>1, <2>2, QuotientIs
  <2> QED
    BY <1>5, <2>1, <2>3 DEF b
<1>7. ASSUME NEW k \in Nat, 0 <= k /\ k < L /\ k \in T PROVE k + 1 \in T
  <2> DEFINE n == L - (k + 1)
             a == r \div t[n]
  <2>1. n \in Nat /\ n + 1 = L - k /\ k + 1 \in 1 .. L /\ u(k) = q(k)
    BY <1>1, <1>7
  <2>2. t[n] \in Nat \ {0} /\ t[L - k] = 10 * t[n]
    BY <1>1, <2>1
  <2>3. q(k) = a \div 10
    BY <2>1, <2>2, DivideTwice
  <2>4. a \in Nat
    BY <2>2, Divided
  <2>5. d[k + 1] = a % 10
    BY <1>2, <2>1
  <2>6. q(k + 1) = a
    OBVIOUS
  <2> HIDE DEF a
  <2>7. a = 10 * (a \div 10) + (a % 10)
    BY <2>4, Divided
  <2>8. u(k + 1) = a
    BY <1>5, <1>7, <2>1, <2>3, <2>5, <2>7
  <2>9. k + 1 \in Nat
    OBVIOUS
  <2> QED
    BY <2>6, <2>8, <2>9
<1>8. \A k \in Nat : 0 <= k /\ k <= L => k \in T
  <2> HIDE DEF T
  <2> QED
    BY <1>1, <1>6, <1>7, Climb
<1>9. u(L) = q(L)
  BY <1>1, <1>8
<1>10. q(L) = r
  <2>1. L - L = 0 /\ t[L - L] = 1 /\ r \div 1 = r
    BY <1>1
  <2> QED
    BY <2>1
<1> QED
  BY <1>4, <1>9, <1>10 DEF d, L, u

\* Zeros at the end go without a loss.
LEMMA TrimmedRead ==
    ASSUME NEW d \in Seq(0 .. 9), Len(d) = Places
    PROVE  /\ Trimmed(d) \in Seq(0 .. 9) /\ Len(Trimmed(d)) <= Places
           /\ Number(Trimmed(d)) * TenTo[Places - Len(Trimmed(d))] = UpTo(d, Places)
<1> DEFINE L == Places
           s == {0} \cup {i \in DOMAIN d : d[i] # 0}
           t == Max(s)
           p == TenTo
           u(k) == UpTo(d, k)
<1>1. /\ L \in Nat /\ p[0] = 1 /\ \A n \in Nat : p[n + 1] = 10 * p[n]
      /\ \A n \in Nat : p[n] \in Nat
  BY TenToIs, TenToNat, DecimalAssumption
<1>2. /\ \A k \in Nat : k < L => u(k + 1) = 10 * u(k) + d[k + 1]
      /\ \A k \in Nat : k <= L => u(k) \in Nat
      /\ DOMAIN d = 1 .. L
  BY UpToStep, UpToNat, LenProperties
<1>3. t \in s /\ \A k \in s : k <= t
  <2>1. s \in SUBSET (0 .. L) /\ s # {}
    <3>1. 0 \in 0 .. L /\ \A i \in 1 .. L : i \in 0 .. L
      BY <1>1
    <3> QED
      BY <1>2, <3>1
  <2> HIDE DEF s, L
  <2> QED
    BY <1>1, <2>1, MaxIn
<1>4. t \in Nat /\ t <= L /\ \A k \in Nat : t < k /\ k <= L => d[k] = 0
  <2>0. \A k : k \in s <=> k = 0 \/ (k \in 1 .. L /\ d[k] # 0)
    BY <1>2
  <2> HIDE DEF s
  <2> DEFINE m == t
  <2> HIDE DEF m
  <2>3. m \in s /\ \A k \in s : k <= m
    BY <1>3 DEF m
  <2>4. m = 0 \/ m \in 1 .. L
    BY <2>0, <2>3
  <2>1. m \in Nat /\ m <= L
    <3>1. Places \in Nat
      BY DecimalAssumption
    <3> QED
      BY <2>4, <3>1
  <2>2. ASSUME NEW k \in Nat, m < k, k <= L PROVE d[k] = 0
    <3>1. k \in 1 .. L /\ ~(k <= m)
      BY <1>1, <2>1, <2>2
    <3> QED
      BY <2>0, <2>3, <3>1
  <2> QED
    BY <2>1, <2>2 DEF m
<1>5. Trimmed(d) = SubSeq(d, 1, t)
  BY DEF Trimmed
<1>6. SubSeq(d, 1, t) \in Seq(0 .. 9) /\ Len(SubSeq(d, 1, t)) = t
  <2> HIDE DEF t
  <2>1. 1 <= t + 1 /\ (1 <= t => 1 \in 1 .. Len(d) /\ t \in 1 .. Len(d)) /\ t - 1 + 1 = t
    BY <1>1, <1>4
  <2> QED
    BY <1>4, <2>1, SubSeqProperties
<1>7. Number(Trimmed(d)) = u(t)
  BY <1>5 DEF UpTo
<1> HIDE DEF t, p, u, L
<1> DEFINE T == { k \in Nat : u(k) = u(t) * p[k - t] }
<1>8. t \in T
  <2>1. t - t = 0 /\ u(t) * 1 = u(t)
    BY <1>2, <1>4
  <2> QED
    BY <1>1, <1>4, <2>1
<1>9. ASSUME NEW k \in Nat, t <= k /\ k < L /\ k \in T PROVE k + 1 \in T
  <2>1. /\ k - t \in Nat /\ (k + 1) - t = (k - t) + 1
        /\ k + 1 \in Nat /\ t < k + 1 /\ k + 1 <= L
    BY <1>1, <1>4, <1>9
  <2>2. d[k + 1] = 0 /\ p[(k + 1) - t] = 10 * p[k - t]
    BY <1>1, <1>4, <2>1
  <2>3. u(k + 1) = 10 * u(k) + 0 /\ u(k) = u(t) * p[k - t]
    BY <1>2, <1>9, <2>2
  <2>4. u(t) \in Nat /\ p[k - t] \in Nat
    BY <1>1, <1>2, <1>4, <2>1
  <2>5. \A x, y \in Nat : 10 * (x * y) + 0 = x * (10 * y)
    OBVIOUS
  <2> QED
    BY <2>1, <2>2, <2>3, <2>4, <2>5
<1>10. \A k \in Nat : t <= k /\ k <= L => k \in T
  <2> HIDE DEF T
  <2> QED
    BY <1>1, <1>4, <1>8, <1>9, Climb
<1>11. u(L) = u(t) * p[L - t]
  <2>1. L \in Nat /\ t <= L /\ L <= L
    BY <1>1, <1>4
  <2>2. L \in T
    <3> HIDE DEF T
    <3> QED
      BY <1>10, <2>1
  <2> QED
    BY <2>2
<1> QED
  BY <1>4, <1>5, <1>6, <1>7, <1>11 DEF u, p, L

\* The absolute value.
LEMMA MagnitudeNat ==
    \A x \in Int : Magnitude(x) \in Nat /\ x = IF x < 0 THEN -Magnitude(x) ELSE Magnitude(x)
BY DEF Magnitude

\* What was written is read.
LEMMA FormatRead == \A x \in Int : Parse(Format(x)) = x
<1> SUFFICES ASSUME NEW x \in Int PROVE Parse(Format(x)) = x
  OBVIOUS
<1> DEFINE m == Magnitude(x)
           r == m % Unit
           d == Digits(r)
           f == Trimmed(d)
           w == m \div Unit
<1>1. Unit \in Nat \ {0} /\ m \in Nat
  BY TenToNat, MagnitudeNat, DecimalAssumption DEF Unit
<1>2. r \in Nat /\ r < Unit /\ w \in Nat /\ m = Unit * w + r
  <2> HIDE DEF m
  <2> QED
    BY <1>1, Divided
<1>3. Len(f) <= Places /\ Number(f) * TenTo[Places - Len(f)] = r
  <2> HIDE DEF r
  <2> QED
    BY <1>2, DigitsRead, TrimmedRead
<1>4. Format(x) = [negative |-> x < 0, int |-> w, frac |-> f]
  BY DEF Format
<1> HIDE DEF f, w, r, m
<1>5. w * Unit + r = m
  BY <1>1, <1>2
<1> DEFINE tx == Format(x)
<1>7. tx.int = w /\ tx.frac = f /\ (tx.negative <=> x < 0)
  <2> DEFINE b == x < 0
  <2>1. tx = [negative |-> b, int |-> w, frac |-> f]
    BY <1>4
  <2> HIDE DEF tx, b
  <2>2. tx.int = w /\ tx.frac = f /\ tx.negative = b
    BY <2>1
  <2> QED
    BY <2>2 DEF b
<1> HIDE DEF tx
<1>6. Parse(tx) = IF x < 0 THEN -(w * Unit + Number(f) * TenTo[Places - Len(f)])
                         ELSE w * Unit + Number(f) * TenTo[Places - Len(f)]
  BY <1>3, <1>7 DEF Parse
<1> QED
  BY <1>3, <1>5, <1>6, MagnitudeNat DEF m, tx

\* Rounding up adds one, unless all digits are nines.
LEMMA RoundedRead ==
    ASSUME NEW d \in Seq(0 .. 9)
    PROVE  /\ Len(RoundedUp(d)) = Len(d)
           /\ Number(RoundedUp(d)) =
                 IF \A i \in 1 .. Len(d) : d[i] = 9 THEN Number(d) ELSE Number(d) + 1
<1> DEFINE n == Len(d)
           s == {0} \cup {i \in DOMAIN d : d[i] < 9}
           e == RoundedUp(d)
           nines == \A i \in 1 .. n : d[i] = 9
<1>1. n \in Nat /\ DOMAIN d = 1 .. n /\ \A i \in 1 .. n : d[i] \in 0 .. 9
  BY LenProperties, UpToStep
<1>2. PICK m : m = Max(s)
  OBVIOUS
<1>3. m \in s /\ \A k \in s : k <= m
  <2>1. s \in SUBSET (0 .. n) /\ s # {}
    <3>1. 0 \in 0 .. n /\ \A i \in 1 .. n : i \in 0 .. n
      BY <1>1
    <3> QED
      BY <1>1, <3>1
  <2> HIDE DEF s, n
  <2> QED
    BY <1>1, <1>2, <2>1, MaxIn
<1>4. \A k : k \in s <=> k = 0 \/ (k \in 1 .. n /\ d[k] < 9)
  BY <1>1
<1>5. e = IF m = 0 THEN d
          ELSE [i \in 1 .. n |-> IF i < m THEN d[i] ELSE IF i = m THEN d[i] + 1 ELSE 0]
  BY <1>1, <1>2 DEF RoundedUp
<1> HIDE DEF s, n, e
<1>6. CASE m = 0
  <2>1. nines
    <3> SUFFICES ASSUME NEW i \in 1 .. n PROVE d[i] = 9
      OBVIOUS
    <3>1. i \notin s
      BY <1>1, <1>3, <1>6
    <3>2. ~(d[i] < 9) /\ d[i] \in 0 .. 9
      BY <1>1, <1>4, <3>1
    <3> QED
      BY <3>2
  <2>2. e = d
    BY <1>5, <1>6
  <2> QED
    BY <2>1, <2>2 DEF e, n
<1>7. CASE m # 0
  <2>1. m \in 1 .. n /\ d[m] < 9
    BY <1>3, <1>4, <1>7
  <2>2. ~nines
    BY <2>1
  <2>3. ASSUME NEW i \in 1 .. n, m < i PROVE d[i] = 9
    <3>1. i \notin s
      BY <1>1, <1>3, <2>1, <2>3
    <3>2. ~(d[i] < 9) /\ d[i] \in 0 .. 9
      BY <1>1, <1>4, <3>1
    <3> QED
      BY <3>2
  <2>4. \A i \in 1 .. n : e[i] = IF i < m THEN d[i] ELSE IF i = m THEN d[i] + 1 ELSE 0
    BY <1>5, <1>7
  <2>5. e \in Seq(0 .. 9) /\ Len(e) = n
    <3>1. \A i \in 1 .. n : e[i] \in 0 .. 9
      <4> SUFFICES ASSUME NEW i \in 1 .. n PROVE e[i] \in 0 .. 9
        OBVIOUS
      <4>1. d[i] \in 0 .. 9 /\ (i = m => d[i] < 9)
        BY <1>1, <2>1
      <4> QED
        BY <2>4, <4>1
    <3>2. e = [i \in 1 .. n |-> e[i]]
      BY <1>5, <1>7
    <3>3. e \in [1 .. n -> 0 .. 9]
      BY <3>1, <3>2
    <3> QED
      BY <1>1, <3>3
  <2> DEFINE u(k) == UpTo(d, k)
             v(k) == UpTo(e, k)
  <2>6. /\ u(0) = 0 /\ \A k \in Nat : k < n => u(k + 1) = 10 * u(k) + d[k + 1]
        /\ \A k \in Nat : k <= n => u(k) \in Nat
        /\ Number(d) = u(n)
    BY UpToStep, UpToNat DEF n
  <2>7. /\ v(0) = 0 /\ \A k \in Nat : k < n => v(k + 1) = 10 * v(k) + e[k + 1]
        /\ Number(e) = v(n)
    BY <2>5, UpToStep
  <2> HIDE DEF u, v
  <2> DEFINE T == { k \in Nat : v(k) = IF k < m THEN u(k) ELSE u(k) + 1 }
  <2>8. 0 \in T
    <3>1. 0 < m
      BY <2>1
    <3> QED
      BY <2>6, <2>7, <3>1
  <2>9. ASSUME NEW k \in Nat, 0 <= k /\ k < n /\ k \in T PROVE k + 1 \in T
    <3>1. /\ k + 1 \in 1 .. n /\ k + 1 \in Nat
          /\ v(k) = IF k < m THEN u(k) ELSE u(k) + 1
      <4>1. v(k) = IF k < m THEN u(k) ELSE u(k) + 1
        BY <2>9
      <4> HIDE DEF T
      <4>2. k + 1 \in 1 .. n /\ k + 1 \in Nat
        BY <1>1, <2>9
      <4> QED
        BY <4>1, <4>2
    <3>2. /\ u(k + 1) = 10 * u(k) + d[k + 1] /\ v(k + 1) = 10 * v(k) + e[k + 1]
          /\ u(k) \in Nat /\ d[k + 1] \in Nat
      <4> HIDE DEF T
      <4>1. k < n /\ k <= n
        BY <1>1, <2>9
      <4>2. d[k + 1] \in 0 .. 9
        BY <1>1, <3>1
      <4> QED
        BY <2>6, <2>7, <4>1, <4>2
    <3>3. CASE k + 1 < m
      <4>1. k < m /\ e[k + 1] = d[k + 1]
        BY <2>1, <2>4, <3>1, <3>3
      <4>2. v(k + 1) = u(k + 1)
        BY <3>1, <3>2, <4>1
      <4> QED
        BY <3>1, <3>3, <4>2
    <3>4. CASE k + 1 = m
      <4>1. k < m /\ e[k + 1] = d[k + 1] + 1
        BY <2>1, <2>4, <3>1, <3>4
      <4>2. v(k + 1) = u(k + 1) + 1
        BY <3>1, <3>2, <4>1
      <4>3. ~(k + 1 < m)
        BY <2>1, <3>4
      <4> QED
        BY <3>1, <4>2, <4>3
    <3>5. CASE m < k + 1
      <4>1. ~(k < m) /\ ~(k + 1 < m) /\ ~(k + 1 = m)
        BY <2>1, <3>5
      <4>2. e[k + 1] = 0 /\ d[k + 1] = 9
        BY <2>3, <2>4, <3>1, <3>5, <4>1
      <4>3. v(k + 1) = u(k + 1) + 1
        BY <3>1, <3>2, <4>1, <4>2
      <4> QED
        BY <3>1, <4>1, <4>3
    <3> QED
      BY <2>1, <3>3, <3>4, <3>5
  <2>10. n \in T
    <3>1. \A k \in Nat : 0 <= k /\ k <= n => k \in T
      <4> HIDE DEF T
      <4> QED
        BY <1>1, <2>8, <2>9, Climb
    <3> HIDE DEF T
    <3> QED
      BY <1>1, <3>1
  <2>11. v(n) = u(n) + 1
    <3>1. ~(n < m)
      BY <1>1, <2>1
    <3> QED
      BY <2>10, <3>1
  <2> QED
    BY <2>2, <2>5, <2>6, <2>7, <2>11 DEF e, n
<1> QED
  BY <1>6, <1>7

\* What the digits behind place m come to is told by the first of them.
LEMMA RestRead ==
    ASSUME NEW d \in Seq(0 .. 9), NEW m \in Nat, m < Len(d)
    PROVE  \E rest \in Nat :
              /\ Number(d) = UpTo(d, m) * TenTo[Len(d) - m] + rest
              /\ d[m + 1] * TenTo[Len(d) - m - 1] <= rest
              /\ rest < (d[m + 1] + 1) * TenTo[Len(d) - m - 1]
<1> DEFINE n == Len(d)
           p == TenTo
           c == d[m + 1]
           u(k) == UpTo(d, k)
           rest(k) == u(k) - u(m) * p[k - m]
           T == { k \in Nat : /\ c * p[k - m - 1] <= rest(k)
                              /\ rest(k) < (c + 1) * p[k - m - 1] }
<1>1. /\ p[0] = 1 /\ \A k \in Nat : p[k + 1] = 10 * p[k]
      /\ \A k \in Nat : p[k] \in Nat
  BY TenToIs, TenToNat
<1>2. /\ n \in Nat /\ m + 1 \in 1 .. n /\ c \in 0 .. 9 /\ m < n
      /\ \A k \in Nat : k < n => u(k + 1) = 10 * u(k) + d[k + 1]
      /\ \A k \in Nat : k <= n => u(k) \in Nat
      /\ \A k \in 1 .. n : d[k] \in 0 .. 9
      /\ Number(d) = u(n)
  BY UpToStep, UpToNat
<1> HIDE DEF n, p, c, u
<1>3. m + 1 \in T
  <2>1. (m + 1) - m = 0 + 1 /\ (m + 1) - m - 1 = 0 /\ p[0 + 1] = 10 * p[0] /\ m < n
    <3>1. (m + 1) - m = 0 + 1 /\ (m + 1) - m - 1 = 0
      OBVIOUS
    <3>2. p[0 + 1] = 10 * p[0]
      <4>1. 0 \in Nat
        OBVIOUS
      <4> QED
        BY <1>1, <4>1
    <3> QED
      BY <1>2, <3>1, <3>2
  <2>2. p[(m + 1) - m] = 10 /\ p[(m + 1) - m - 1] = 1
    BY <1>1, <2>1
  <2>3. u(m) \in Nat /\ u(m + 1) = 10 * u(m) + c
    BY <1>2, <2>1 DEF c
  <2>4. rest(m + 1) = c
    BY <1>2, <2>2, <2>3
  <2>5. c * p[(m + 1) - m - 1] <= rest(m + 1) /\ rest(m + 1) < (c + 1) * p[(m + 1) - m - 1]
    <3> HIDE DEF rest
    <3> QED
      BY <1>2, <2>2, <2>4
  <2> QED
    BY <2>5
<1>4. ASSUME NEW k \in Nat, m + 1 <= k /\ k < n /\ k \in T PROVE k + 1 \in T
  <2>0. m + 1 <= k /\ k < n /\ c * p[k - m - 1] <= rest(k) /\ rest(k) < (c + 1) * p[k - m - 1]
    BY <1>4
  <2> HIDE DEF T
  <2> DEFINE a == p[k - m - 1]
             r == rest(k)
             g == d[k + 1]
  <2>1. /\ k - m - 1 \in Nat /\ k - m \in Nat
        /\ (k + 1) - m - 1 = (k - m - 1) + 1 /\ (k + 1) - m = (k - m) + 1
        /\ k + 1 \in Nat /\ k + 1 \in 1 .. n /\ m <= n
    BY <1>2, <2>0
  <2>2. /\ p[(k + 1) - m - 1] = 10 * a /\ p[(k + 1) - m] = 10 * p[k - m]
        /\ a \in Nat /\ p[k - m] \in Nat
    BY <1>1, <2>1
  <2>3. /\ u(k + 1) = 10 * u(k) + g /\ g \in 0 .. 9
        /\ u(k) \in Nat /\ u(m) \in Nat
    <3>1. g \in 0 .. 9 /\ k < n /\ k <= n
      BY <1>2, <2>0, <2>1
    <3> HIDE DEF rest
    <3> QED
      BY <1>2, <2>1, <3>1
  <2>4. rest(k + 1) = 10 * r + g /\ r \in Int
    <3> DEFINE x == u(m) * p[k - m]
    <3>1. x \in Nat /\ u(m) * (10 * p[k - m]) = 10 * x
      <4> DEFINE q == p[k - m]
                 y == u(m)
      <4>1. q \in Nat /\ y \in Nat
        BY <2>2, <2>3
      <4> HIDE DEF q, y, rest
      <4>2. y * q \in Nat /\ y * (10 * q) = 10 * (y * q)
        BY <4>1
      <4> QED
        BY <4>2 DEF q, y
    <3>2. r = u(k) - x /\ rest(k + 1) = u(k + 1) - u(m) * p[(k + 1) - m]
      OBVIOUS
    <3> DEFINE uk == u(k)
               r1 == rest(k + 1)
    <3>3. /\ u(k + 1) = 10 * uk + g /\ g \in Nat /\ uk \in Nat
          /\ r1 = u(k + 1) - 10 * x /\ r = uk - x /\ x \in Nat
      <4>1. g \in Nat
        BY <2>3
      <4> HIDE DEF x, r, rest, g
      <4> QED
        BY <2>2, <2>3, <3>1, <3>2, <4>1
    <3>4. rest(k + 1) = r1
      OBVIOUS
    <3> HIDE DEF x, r, rest, g, uk, r1
    <3>5. r1 = 10 * uk + g - 10 * x
      BY <3>3
    <3>6. r1 = 10 * r + g /\ r \in Int
      BY <3>3, <3>5
    <3> QED
      BY <3>4, <3>6
  <2>5. c * a <= r /\ r < (c + 1) * a
    BY <2>0
  <2> HIDE DEF a, r, rest, g
  <2>6. c * (10 * a) = 10 * (c * a) /\ (c + 1) * (10 * a) = 10 * ((c + 1) * a)
    BY <1>2, <2>2
  <2> DEFINE lo == c * a
             hi == (c + 1) * a
  <2>7. lo \in Int /\ hi \in Int /\ lo <= r /\ r < hi
    BY <1>2, <2>2, <2>5
  <2> HIDE DEF lo, hi
  <2>8. 10 * lo <= 10 * r + g /\ 10 * r + g < 10 * hi
    BY <2>3, <2>4, <2>7
  <2>9. c * p[(k + 1) - m - 1] <= rest(k + 1) /\ rest(k + 1) < (c + 1) * p[(k + 1) - m - 1]
    BY <2>2, <2>4, <2>6, <2>8 DEF lo, hi
  <2> QED
    BY <2>1, <2>9 DEF T
<1>5. n \in T
  <2>1. m + 1 \in Nat /\ m + 1 <= n
    BY <1>2
  <2> HIDE DEF T
  <2>2. \A k \in Nat : m + 1 <= k /\ k <= n => k \in T
    BY <1>2, <1>3, <1>4, <2>1, Climb
  <2> QED
    BY <1>2, <2>1, <2>2
<1>6. n - m \in Nat /\ n - m - 1 \in Nat /\ m <= n
  BY <1>2
<1> DEFINE r == rest(n)
           x == u(m) * p[n - m]
<1>7. x \in Nat /\ r = u(n) - x /\ u(n) \in Nat
  <2>1. r = u(n) - x
    OBVIOUS
  <2> DEFINE q == p[n - m]
             y == u(m)
  <2> HIDE DEF T, rest, r
  <2>2. q \in Nat /\ y \in Nat /\ u(n) \in Nat
    <3>1. n <= n
      BY <1>2
    <3> QED
      BY <1>1, <1>2, <1>6, <3>1
  <2>3. y * q \in Nat
    <3> HIDE DEF q, y, x
    <3> QED
      BY <2>2
  <2> QED
    BY <2>1, <2>2, <2>3
<1>8. c * p[n - m - 1] <= r /\ r < (c + 1) * p[n - m - 1]
  BY <1>5
<1> HIDE DEF r, x, rest, T
<1>9. c * p[n - m - 1] \in Nat
  <2> DEFINE q == p[n - m - 1]
  <2>1. q \in Nat /\ c \in Nat
    <3>1. c \in Nat
      BY <1>2
    <3>2. q \in Nat
      BY <1>1, <1>6
    <3> QED
      BY <3>1, <3>2
  <2> HIDE DEF q
  <2>2. c * q \in Nat
    BY <2>1
  <2> QED
    BY <2>2 DEF q
<1>10. r \in Nat /\ u(n) = x + r
  BY <1>7, <1>8, <1>9
<1> QED
  BY <1>2, <1>8, <1>10 DEF x, u, p, c, n

\* What of the digits is kept, rounded.
KeptOf(d) ==
    IF Len(d) <= Places THEN d
    ELSE IF d[Places + 1] >= 5 THEN RoundedUp(SubSeq(d, 1, Places))
    ELSE SubSeq(d, 1, Places)

\* What a text is read as and what it says, without the sign, and the finer of
\* the two scales.
ReadAs(w, d) == w * Unit + Number(KeptOf(d)) * TenTo[Places - Len(KeptOf(d))]
FinerOf(d) == TenTo[Max({Len(d), Places})]
SaidBy(w, d) == (w * TenTo[Len(d)] + Number(d)) * (FinerOf(d) \div TenTo[Len(d)])

\* The larger of two numbers.
LEMMA MaxOfTwo == \A m, n \in Nat : Max({m, n}) = IF m <= n THEN n ELSE m
<1> SUFFICES ASSUME NEW m \in Nat, NEW n \in Nat
             PROVE  Max({m, n}) = IF m <= n THEN n ELSE m
  OBVIOUS
<1> DEFINE s == {m, n}
<1>1. s \in SUBSET (0 .. m + n) /\ s # {}
  OBVIOUS
<1>2. m + n \in Nat
  OBVIOUS
<1>3. Max(s) \in s /\ \A k \in s : k <= Max(s)
  <2> HIDE DEF s
  <2> QED
    BY <1>1, <1>2, MaxIn
<1> DEFINE x == Max(s)
<1>4. x \in s /\ m <= x /\ n <= x
  BY <1>3
<1> HIDE DEF x
<1>5. x = IF m <= n THEN n ELSE m
  BY <1>4
<1> QED
  BY <1>5 DEF x

\* A power of ten divided by a smaller one.
LEMMA TenToDivided ==
    \A m, n \in Nat : /\ TenTo[m] \in Nat \ {0}
                      /\ TenTo[m + n] \div TenTo[m] = TenTo[n]
<1> SUFFICES ASSUME NEW m \in Nat, NEW n \in Nat
             PROVE  TenTo[m] \in Nat \ {0} /\ TenTo[m + n] \div TenTo[m] = TenTo[n]
  OBVIOUS
<1> DEFINE a == TenTo[m + n]
           b == TenTo[m]
           c == TenTo[n]
<1>1. a \in Nat /\ b \in Nat \ {0} /\ c \in Nat /\ a = b * c
  <2>1. m + n \in Nat
    OBVIOUS
  <2> QED
    BY <2>1, TenToNat, TenToSum
<1> HIDE DEF a, b, c
<1>2. a = b * c + 0 /\ 0 < b /\ 0 \in Nat
  BY <1>1
<1>3. a \div b = c
  BY <1>1, <1>2, QuotientIs
<1> QED
  BY <1>1, <1>3 DEF a, b, c

\* A text with no more digits than are kept is read as it is.
LEMMA ShortRead ==
    ASSUME NEW w \in Nat, NEW d \in Seq(0 .. 9), Len(d) <= Places
    PROVE  /\ ReadAs(w, d) \in Nat /\ SaidBy(w, d) = ReadAs(w, d)
           /\ FinerOf(d) \div Unit = 1
<1> DEFINE n == Len(d)
           k == Places - n
           N == Number(d)
           a == TenTo[n]
           b == TenTo[k]
<1>1. n \in Nat /\ Places \in Nat /\ n <= Places /\ n <= n
  BY LenProperties, DecimalAssumption
<1>2. N \in Nat
  BY <1>1, UpToStep, UpToNat
<1>3. k \in Nat /\ n + k = Places /\ 0 \in Nat /\ Places + 0 = Places
  BY <1>1
<1>4. FinerOf(d) = Unit
  BY <1>1, MaxOfTwo DEF FinerOf, Unit
<1>5. Unit = a * b /\ Unit \div a = b /\ a \in Nat /\ b \in Nat
  <2>1. TenTo[n + k] = a * b /\ TenTo[n + k] \div a = b
    BY <1>1, <1>3, TenToSum, TenToDivided
  <2>2. a \in Nat /\ b \in Nat
    BY <1>1, <1>3, TenToNat
  <2> QED
    BY <1>3, <2>1, <2>2 DEF Unit
<1>6. Unit \div Unit = 1
  BY <1>1, <1>3, TenToDivided, TenToIs DEF Unit
<1>7. ReadAs(w, d) = w * Unit + N * b
  BY <1>1 DEF ReadAs, KeptOf
<1>8. SaidBy(w, d) = (w * a + N) * b
  BY <1>4, <1>5 DEF SaidBy
<1> HIDE DEF n, k, N, a, b
<1>9. (w * a + N) * b = (w * a) * b + N * b
  <2> DEFINE x == w * a
  <2>1. x \in Nat
    BY <1>5
  <2> HIDE DEF x
  <2>2. (x + N) * b = x * b + N * b
    BY <1>2, <1>5, <2>1
  <2> QED
    BY <2>2 DEF x
<1>10. (w * a) * b = w * (a * b)
  BY <1>5
<1>11. w * Unit \in Nat /\ N * b \in Nat
  BY <1>2, <1>5
<1> DEFINE x == w * Unit
           y == N * b
<1>12. x + y \in Nat
  BY <1>11
<1> QED
  BY <1>4, <1>5, <1>6, <1>7, <1>8, <1>9, <1>10, <1>12

\* How far apart are a number that is kept to U or U + 1 and what was written,
\* U of a place of P with a rest behind it.
LEMMA RoundingError ==
    ASSUME NEW U \in Nat, NEW Q \in Nat, NEW c \in 0 .. 9, NEW rest \in Nat,
           c * Q <= rest, rest < (c + 1) * Q
    PROVE  /\ c < 5 => 2 * rest <= 10 * Q
           /\ c >= 5 => 2 * (10 * Q - rest) <= 10 * Q
           /\ rest < 10 * Q
<1>1. CASE c < 5
  <2>1. c = 0 \/ c = 1 \/ c = 2 \/ c = 3 \/ c = 4
    BY <1>1
  <2>2. rest < 5 * Q
    BY <2>1
  <2> QED
    BY <1>1, <2>2
<1>2. CASE c >= 5
  <2>1. c = 5 \/ c = 6 \/ c = 7 \/ c = 8 \/ c = 9
    BY <1>2
  <2>2. 5 * Q <= rest /\ rest < 10 * Q
    BY <2>1
  <2> QED
    BY <1>2, <2>2
<1> QED
  BY <1>1, <1>2

\* A text with more digits than are kept is read to half a place, unless
\* rounding would carry into the whole number.
LEMMA LongRead ==
    ASSUME NEW w \in Nat, NEW d \in Seq(0 .. 9), Places < Len(d)
    PROVE  /\ ReadAs(w, d) \in Nat /\ SaidBy(w, d) \in Nat
           /\ FinerOf(d) \div Unit \in Nat
           /\ LET place == FinerOf(d) \div Unit
                  off == Magnitude(ReadAs(w, d) * place - SaidBy(w, d))
              IN  IF d[Places + 1] >= 5 /\ \A i \in 1 .. Places : d[i] = 9
                  THEN off < place
                  ELSE 2 * off <= place
<1> DEFINE n == Len(d)
           k == n - Places
           s == SubSeq(d, 1, Places)
           c == d[Places + 1]
           P == TenTo[k]
           Q == TenTo[k - 1]
           U == UpTo(d, Places)
           K == Number(KeptOf(d))
           nines == \A i \in 1 .. Places : d[i] = 9
<1>1. n \in Nat /\ Places \in Nat /\ Places < n /\ ~(n <= Places) /\ Places <= n /\ n <= n
  BY LenProperties, DecimalAssumption
<1>2. k \in Nat /\ k - 1 \in Nat /\ Places + k = n /\ (k - 1) + 1 = k /\ n - Places - 1 = k - 1
      /\ Places + 1 \in 1 .. n
  BY <1>1
<1>3. PICK rest \in Nat : /\ Number(d) = U * P + rest
                          /\ c * Q <= rest
                          /\ rest < (c + 1) * Q
  BY <1>1, <1>2, RestRead
<1>4. U \in Nat /\ c \in 0 .. 9
  BY <1>1, <1>2, UpToStep, UpToNat
<1>5. P \in Nat /\ Q \in Nat /\ P = 10 * Q
  <2>1. P \in Nat /\ Q \in Nat
    BY <1>2, TenToNat
  <2>2. TenTo[(k - 1) + 1] = 10 * TenTo[k - 1]
    BY <1>2, TenToIs
  <2> QED
    BY <1>2, <2>1, <2>2
<1>6. /\ s \in Seq(0 .. 9) /\ Len(s) = Places /\ Number(s) = U
      /\ \A i \in 1 .. Places : s[i] = d[i]
  <2>1. s \in Seq(0 .. 9) /\ Len(s) = Places /\ \A i \in 1 .. Places : s[i] = d[i]
    BY <1>1, SubSeqProperties
  <2> QED
    BY <2>1 DEF UpTo
<1>7. /\ Len(KeptOf(d)) = Places
      /\ K = IF c >= 5 /\ ~nines THEN U + 1 ELSE U
  <2>1. CASE c >= 5
    <3>1. KeptOf(d) = RoundedUp(s)
      BY <1>1, <2>1 DEF KeptOf
    <3>2. nines <=> \A i \in 1 .. Len(s) : s[i] = 9
      BY <1>6
    <3> QED
      BY <1>6, <2>1, <3>1, <3>2, RoundedRead
  <2>2. CASE ~(c >= 5)
    <3>1. KeptOf(d) = s
      BY <1>1, <2>2 DEF KeptOf
    <3> QED
      BY <1>6, <2>2, <3>1
  <2> QED
    BY <2>1, <2>2
<1>8. FinerOf(d) = TenTo[n] /\ FinerOf(d) \div Unit = P /\ TenTo[n] = Unit * P /\ Unit \in Nat
  <2>1. Max({n, Places}) = n
    BY <1>1, MaxOfTwo
  <2>2. TenTo[Places + k] \div TenTo[Places] = P /\ TenTo[Places + k] = TenTo[Places] * P
    BY <1>1, <1>2, TenToDivided, TenToSum
  <2> QED
    BY <1>1, <1>2, <2>1, <2>2, TenToNat DEF FinerOf, Unit
<1>9. ReadAs(w, d) = w * Unit + K * 1
  <2>1. Places - Len(KeptOf(d)) = 0
    BY <1>1, <1>7
  <2> QED
    BY <2>1, TenToIs DEF ReadAs
<1>10. SaidBy(w, d) = (w * (Unit * P) + (U * P + rest)) * 1
  <2>1. n + 0 = n /\ 0 \in Nat
    BY <1>1
  <2>2. TenTo[n] \div TenTo[n] = 1
    <3>1. TenTo[n + 0] \div TenTo[n] = TenTo[0]
      <4> HIDE DEF n
      <4> QED
        BY <1>1, <2>1, TenToDivided
    <3>2. TenTo[0] = 1
      BY TenToIs
    <3> HIDE DEF n
    <3> QED
      BY <2>1, <3>1, <3>2
  <2> QED
    BY <1>3, <1>8, <2>2 DEF SaidBy
<1> HIDE DEF n, k, s, c, P, Q, U, K, nines
<1>11. K \in Nat
  BY <1>4, <1>7
<1> DEFINE A == w * Unit
           B == (w * Unit) * P
           C == U * P
<1>12. /\ A \in Nat /\ B \in Nat /\ C \in Nat
       /\ w * (Unit * P) = B
       /\ (A + K) * P = B + K * P
       /\ (U + 1) * P = C + P
  <2>1. A \in Nat
    BY <1>8
  <2>2. w * (Unit * P) = (w * Unit) * P
    BY <1>5, <1>8
  <2>3. (U + 1) * P = U * P + P
    BY <1>4, <1>5
  <2>4. B = A * P
    OBVIOUS
  <2> HIDE DEF A, B
  <2>5. (A + K) * P = A * P + K * P /\ A * P \in Nat /\ U * P \in Nat
    BY <1>4, <1>5, <1>11, <2>1
  <2> QED
    BY <2>1, <2>2, <2>3, <2>4, <2>5 DEF A, B
<1>13. ReadAs(w, d) = A + K /\ SaidBy(w, d) = B + (C + rest)
  <2>1. K * 1 = K
    BY <1>11
  <2>2. ReadAs(w, d) = A + K
    BY <1>9, <2>1
  <2>3. SaidBy(w, d) = (B + (C + rest)) * 1
    BY <1>10, <1>12
  <2> HIDE DEF A, B, C
  <2>4. (B + (C + rest)) * 1 = B + (C + rest)
    BY <1>12
  <2> QED
    BY <2>2, <2>3, <2>4
<1> DEFINE X == ReadAs(w, d)
           Y == SaidBy(w, d)
<1>14. X * P - Y = (B + K * P) - (B + (C + rest)) /\ X \in Nat /\ Y \in Nat
  <2>1. X = A + K /\ Y = B + (C + rest)
    BY <1>13
  <2> HIDE DEF A, B, C, X, Y
  <2>2. X * P = B + K * P
    BY <1>12, <2>1
  <2>3. X \in Nat /\ Y \in Nat
    BY <1>11, <1>12, <2>1
  <2> QED
    BY <2>1, <2>2, <2>3
<1> HIDE DEF A, B, C, X, Y
<1>15. /\ c < 5 => 2 * rest <= P
       /\ c >= 5 => 2 * (P - rest) <= P
       /\ rest < P
  BY <1>3, <1>4, <1>5, RoundingError
<1>16. CASE c >= 5 /\ ~nines
  <2>1. K * P = C + P
    BY <1>7, <1>12, <1>16
  <2>2. X * P - Y = P - rest
    BY <1>3, <1>5, <1>12, <1>14, <2>1
  <2>3. Magnitude(X * P - Y) = P - rest
    BY <1>3, <1>5, <1>15, <2>2 DEF Magnitude
  <2> QED
    BY <1>8, <1>14, <1>5, <1>15, <1>16, <2>3 DEF X, Y, c, nines
<1>17. CASE ~(c >= 5 /\ ~nines)
  <2>1. K * P = C
    BY <1>7, <1>17 DEF C
  <2>2. X * P - Y = -rest
    BY <1>3, <1>5, <1>12, <1>14, <2>1
  <2>3. Magnitude(X * P - Y) = rest
    BY <1>3, <2>2 DEF Magnitude
  <2>4. (c >= 5 /\ nines) \/ c < 5
    BY <1>4, <1>17
  <2> QED
    BY <1>8, <1>14, <1>5, <1>15, <2>3, <2>4 DEF X, Y, c, nines
<1> QED
  BY <1>16, <1>17

\* A sign does not change how far apart two numbers are.
LEMMA SignedOff ==
    ASSUME NEW x \in Int, NEW y \in Int, NEW P \in Int, NEW b \in BOOLEAN
    PROVE  Magnitude((IF b THEN -x ELSE x) * P - (IF b THEN -y ELSE y)) = Magnitude(x * P - y)
<1> DEFINE z == x * P
<1>1. z \in Int /\ (-x) * P = -z
  OBVIOUS
<1> HIDE DEF z
<1>2. Magnitude((-z) - (-y)) = Magnitude(z - y)
  BY <1>1 DEF Magnitude
<1>3. CASE b
  <2>1. Magnitude((-x) * P - (-y)) = Magnitude(z - y)
    BY <1>1, <1>2
  <2> QED
    BY <1>3, <2>1 DEF z
<1>4. CASE ~b
  BY <1>4
<1> QED
  BY <1>3, <1>4

\* What AmountsKept says of a text that is read.
TakenWell(t, x) ==
    LET off == Magnitude(TakenFor(t, x) - Written(t))
        place == Scale(t) \div Unit
    IN  IF Carries(t) THEN off < place ELSE 2 * off <= place

\* A text is taken for what was written, to half of the last place.
LEMMA ReadWell ==
    ASSUME NEW t \in [negative : BOOLEAN, int : Nat, frac : Seq(0 .. 9)]
    PROVE  Parse(t) \in Int /\ TakenWell(t, Parse(t))
<1> DEFINE w == t.int
           d == t.frac
           b == t.negative
           X == ReadAs(w, d)
           Y == SaidBy(w, d)
           P == FinerOf(d) \div Unit
           off == Magnitude(X * P - Y)
           x == IF b THEN -X ELSE X
<1>1. w \in Nat /\ d \in Seq(0 .. 9) /\ b \in BOOLEAN
  OBVIOUS
<1>2. Parse(t) = x
  BY DEF Parse, ReadAs, KeptOf
<1>3. Scale(t) = FinerOf(d)
  BY DEF Scale, FinerOf
<1>4. Written(t) = IF b THEN -Y ELSE Y
  BY <1>3 DEF Written, SaidBy
<1>5. Carries(t) <=> Places < Len(d) /\ d[Places + 1] >= 5 /\ \A i \in 1 .. Places : d[i] = 9
  <2>1. Len(d) \in Nat /\ Places \in Nat
    BY <1>1, LenProperties, DecimalAssumption
  <2>2. Len(d) > Places <=> Places < Len(d)
    <3> HIDE DEF d
    <3> QED
      BY <2>1
  <2> QED
    BY <2>2 DEF Carries
<1> HIDE DEF w, d, b
<1>6. /\ X \in Nat /\ Y \in Nat /\ P \in Nat
      /\ IF Places < Len(d) /\ d[Places + 1] >= 5 /\ \A i \in 1 .. Places : d[i] = 9
         THEN off < P ELSE 2 * off <= P
  <2>1. Len(d) \in Nat /\ Places \in Nat
    BY <1>1, LenProperties, DecimalAssumption
  <2>2. CASE Len(d) <= Places
    <3>1. X \in Nat /\ Y = X /\ P = 1
      BY <1>1, <2>2, ShortRead
    <3> HIDE DEF X, Y, P
    <3>2. off = 0
      <4>1. X * P - Y = 0
        BY <3>1
      <4> QED
        BY <4>1 DEF Magnitude
    <3>3. ~(Places < Len(d))
      BY <2>1, <2>2
    <3> HIDE DEF off
    <3> QED
      BY <3>1, <3>2, <3>3
  <2>3. CASE Places < Len(d)
    BY <1>1, <2>3, LongRead
  <2> QED
    BY <2>1, <2>2, <2>3
<1>7. x \in Int
  <2> HIDE DEF X, Y, P
  <2> QED
    BY <1>1, <1>6
<1>8. Magnitude(x * P - (IF b THEN -Y ELSE Y)) = off
  <2> HIDE DEF X, Y, P
  <2> QED
    BY <1>1, <1>6, SignedOff
<1>9. TakenFor(t, x) = x * P
  BY <1>3 DEF TakenFor
<1> HIDE DEF X, Y, P, x, off
<1>10. /\ Magnitude(TakenFor(t, x) - Written(t)) = off
       /\ Scale(t) \div Unit = P
  BY <1>3, <1>4, <1>8, <1>9 DEF P
<1>11. TakenWell(t, x)
  BY <1>5, <1>6, <1>10 DEF TakenWell
<1> QED
  BY <1>2, <1>7, <1>11

(***************************************************************************)
(* The way of an amount.                                                   *)
(***************************************************************************)
\* The amount is a decimal, and what is read or loaded is what it should be.
AmountsInv ==
    /\ amount \in Int
    /\ stage = "read" => text \in Texts
    /\ stage = "stored" => text = Format(amount)

\* Arithmetic on decimals makes decimals.
LEMMA ArithmeticCloses ==
    \A x, y \in Int : /\ Times(x, y) \in Int
                      /\ Over(x, y) \in Int
                      /\ Remainder(x, y) \in Int
<1> SUFFICES ASSUME NEW x \in Int, NEW y \in Int
             PROVE  Times(x, y) \in Int /\ Over(x, y) \in Int /\ Remainder(x, y) \in Int
  OBVIOUS
<1>1. Unit \in Nat \ {0}
  <2>1. Places \in Nat
    BY DecimalAssumption
  <2> QED
    BY <2>1, TenToNat DEF Unit
<1>2. \A a, c \in Int : c # 0 => Quotient(a, c) \in Int
  <2> SUFFICES ASSUME NEW a \in Int, NEW c \in Int, c # 0 PROVE Quotient(a, c) \in Int
    OBVIOUS
  <2>1. CASE c > 0
    <3>1. a \div c \in Int
      BY <2>1
    <3> QED
      BY <2>1, <3>1 DEF Quotient
  <2>2. CASE ~(c > 0)
    <3> DEFINE e == -c
    <3>1. e \in Int /\ e > 0
      BY <2>2
    <3> HIDE DEF e
    <3>2. a \div e \in Int
      BY <3>1
    <3>3. -(a \div e) \in Int
      BY <3>2
    <3> QED
      BY <2>2, <3>3 DEF Quotient, e
  <2> QED
    BY <2>1, <2>2
<1>3. Times(x, y) \in Int
  <2>1. x * y \in Int /\ Unit \in Int /\ Unit # 0
    BY <1>1
  <2> QED
    BY <1>2, <2>1 DEF Times
<1>4. Over(x, y) \in Int
  <2>1. x * Unit \in Int
    BY <1>1
  <2> QED
    BY <1>2, <2>1 DEF Over
<1>5. Remainder(x, y) \in Int
  <2>1. CASE y # 0
    <3> DEFINE q == Quotient(x, y)
    <3>1. q \in Int
      BY <1>2, <2>1
    <3> HIDE DEF q
    <3>2. x - y * q \in Int
      BY <3>1
    <3> QED
      BY <2>1, <3>2 DEF Remainder, q
  <2> QED
    BY <2>1 DEF Remainder
<1> QED
  BY <1>3, <1>4, <1>5

\* An amount is stored and loaded unchanged, and a request's is read to half of
\* the last place.
THEOREM AmountsAreKept == AmountsSpec => AmountsKept
<1> DEFINE Keeps == /\ stage = "stored" => amount' = amount
                    /\ stage = "read" => TakenWell(text, amount')
<1>1. AmountsInit => AmountsInv
  BY DEF AmountsInit, AmountsInv
<1>2. AmountsInv /\ [AmountsNext]_amountVars => AmountsInv'
  <2> SUFFICES ASSUME AmountsInv, [AmountsNext]_amountVars PROVE AmountsInv'
    OBVIOUS
  <2>1. ASSUME ReadRequest PROVE AmountsInv'
    <3>1. text \in [negative : BOOLEAN, int : Nat, frac : Seq(0 .. 9)]
      BY <2>1, AmountsAssumption DEF AmountsInv, ReadRequest
    <3>2. Parse(text) \in Int
      BY <3>1, ReadWell
    <3> QED
      BY <2>1, <3>2 DEF AmountsInv, ReadRequest
  <2>2. ASSUME Compute PROVE AmountsInv'
    <3>1. PICK f \in Factors :
             amount' \in {Times(amount, f), Over(amount, f), Remainder(amount, f),
                          amount + f, amount - f}
      BY <2>2 DEF Compute
    <3>2. amount \in Int /\ f \in Int
      BY AmountsAssumption DEF AmountsInv
    <3>3. amount + f \in Int /\ amount - f \in Int
      BY <3>2
    <3>4. amount' \in Int
      BY <3>1, <3>2, <3>3, ArithmeticCloses
    <3> QED
      BY <2>2, <3>4 DEF AmountsInv, Compute
  <2>3. ASSUME Store PROVE AmountsInv'
    BY <2>3 DEF AmountsInv, Store
  <2>4. ASSUME Load PROVE AmountsInv'
    <3>1. amount' = amount
      BY <2>4, FormatRead DEF AmountsInv, Load
    <3> QED
      BY <2>4, <3>1 DEF AmountsInv, Load
  <2>5. ASSUME UNCHANGED amountVars PROVE AmountsInv'
    BY <2>5 DEF AmountsInv, amountVars
  <2> QED
    BY <2>1, <2>2, <2>3, <2>4, <2>5 DEF AmountsNext
<1>3. AmountsInv /\ [AmountsNext]_amountVars => [Keeps]_amountVars
  <2> SUFFICES ASSUME AmountsInv, AmountsNext PROVE Keeps
    BY DEF Keeps
  <2>1. CASE stage = "read"
    <3>1. amount' = Parse(text)
      BY <2>1 DEF AmountsNext, ReadRequest, Compute, Store, Load
    <3>2. text \in [negative : BOOLEAN, int : Nat, frac : Seq(0 .. 9)]
      BY <2>1, AmountsAssumption DEF AmountsInv
    <3>3. TakenWell(text, Parse(text))
      BY <3>2, ReadWell
    <3> QED
      BY <2>1, <3>1, <3>3
  <2>2. CASE stage = "stored"
    <3>1. amount' = Parse(text) /\ text = Format(amount)
      BY <2>2 DEF AmountsInv, AmountsNext, ReadRequest, Compute, Store, Load
    <3>2. amount' = amount
      BY <3>1, FormatRead DEF AmountsInv
    <3> QED
      BY <2>2, <3>2
  <2>3. CASE stage # "read" /\ stage # "stored"
    BY <2>3
  <2> QED
    BY <2>1, <2>2, <2>3
<1>4. [Keeps]_amountVars =>
         [/\ stage = "stored" => amount' = amount
          /\ stage = "read" =>
               LET off == Magnitude(TakenFor(text, amount') - Written(text))
                   place == Scale(text) \div Unit
               IN  IF Carries(text) THEN off < place ELSE 2 * off <= place]_amountVars
  BY DEF Keeps, TakenWell
<1> HIDE DEF Keeps
<1> QED
  BY <1>1, <1>2, <1>3, <1>4, PTL DEF AmountsSpec, AmountsKept

(***************************************************************************)
(* Margin: what is opened is new by its number, what is liquidated was     *)
(* open, and a liquidation price never lies on the side of a gain.         *)
(***************************************************************************)
UnitNat == Unit \in Nat \ {0}

LEMMA UnitIsNat == UnitNat
<1>1. Places \in Nat
  BY DecimalAssumption
<1> QED
  BY <1>1, TenToNat DEF Unit, UnitNat

LEMMA TimesNat == \A x, y \in Nat : Times(x, y) \in Nat /\ Times(x, y) * Unit <= x * y
<1> TAKE x, y \in Nat
<1>1. x * y \in Nat
  OBVIOUS
<1>2. Times(x, y) = (x * y) \div Unit
  BY UnitIsNat DEF Times, Quotient, UnitNat
<1> QED
  BY <1>1, <1>2, QuotientBound, UnitIsNat DEF UnitNat

LEMMA OverNat == \A x, y \in Nat : Over(x, y) \in Nat /\ Over(x, y) * y <= x * Unit
<1> TAKE x, y \in Nat
<1>1. x * Unit \in Nat
  BY UnitIsNat DEF UnitNat
<1>2. CASE y = 0
  <2>1. Over(x, y) = 0
    BY <1>2 DEF Over
  <2> QED
    BY <1>1, <1>2, <2>1
<1>3. CASE y # 0
  <2>1. Over(x, y) = (x * Unit) \div y
    BY <1>3 DEF Over, Quotient
  <2> QED
    BY <1>1, <1>3, <2>1, QuotientBound
<1> QED
  BY <1>2, <1>3

\* The rounding of two products and a quotient keeps the distance within the
\* maintenance margin.
LEMMA DistanceBound ==
    ASSUME NEW entry \in Nat, NEW required \in Nat,
           NEW d, d = Over(Times(entry, Times(required, Ratio)), required)
    PROVE  d \in Nat /\ d * Unit <= entry * Ratio
<1> DEFINE t == Times(required, Ratio)
           x == Times(entry, t)
<1>1. Ratio \in Nat /\ Unit \in Nat /\ Unit > 0
  BY MarginAssumption, UnitIsNat DEF UnitNat
<1>2. t \in Nat /\ t * Unit <= required * Ratio
  BY <1>1, TimesNat
<1>3. x \in Nat /\ x * Unit <= entry * t
  BY <1>2, TimesNat
<1>4. d \in Nat /\ d * required <= x * Unit
  BY <1>3, OverNat
<1>5. required = 0 => d = 0
  BY DEF Over
<1> HIDE DEF t, x
<1>6. CASE required = 0
  BY <1>1, <1>5, <1>6
<1>7. CASE required # 0
  <2>1. /\ d * required \in Nat /\ x * Unit \in Nat /\ entry * t \in Nat
        /\ t * Unit \in Nat /\ required * Ratio \in Nat /\ d * Unit \in Nat /\ entry * Ratio \in Nat
    BY <1>1, <1>2, <1>3, <1>4
  <2>2. d * required <= entry * t
    BY <1>3, <1>4, <2>1
  <2>3. Unit * (d * required) <= Unit * (entry * t)
    BY <1>1, <2>1, <2>2, ProductMonotone
  <2>4. entry * (t * Unit) <= entry * (required * Ratio)
    BY <1>2, <2>1, ProductMonotone
  <2>5. /\ Unit * (d * required) = (d * Unit) * required
        /\ Unit * (entry * t) = entry * (t * Unit)
        /\ entry * (required * Ratio) = (entry * Ratio) * required
    BY <1>1, <1>2, <1>4
  <2>6. (d * Unit) * required <= (entry * Ratio) * required
    BY <1>1, <1>2, <1>4, <2>1, <2>3, <2>4, <2>5
  <2> QED
    BY <1>4, <1>7, <2>1, <2>6, Cancel
<1> QED
  BY <1>6, <1>7

\* What a position promises from the moment it is opened.
Never(p) == IF p.side = "buy" THEN p.liquidation <= p.entry ELSE p.liquidation >= p.entry

PositionSound(p) ==
    /\ p.id \in Nat /\ p.symbol \in Symbols
    /\ p.entry \in Nat /\ p.liquidation \in Int /\ p.leverage \in Nat
    /\ Never(p)
    /\ Magnitude(p.entry - p.liquidation) * Unit <= p.entry * Ratio

Position(n, symbol, side, quantity, entry, leverage) ==
    [id |-> n, symbol |-> symbol, side |-> side, entry |-> entry, leverage |-> leverage,
     liquidation |-> LiquidationPrice(side, entry, quantity, leverage)]

IsOpened(p, n, symbol, side, quantity, entry, leverage) ==
    /\ n \in Nat /\ symbol \in Symbols /\ quantity \in Quantities
    /\ entry \in Prices /\ leverage \in 1 .. 125
    /\ p = Position(n, symbol, side, quantity, entry, leverage)

LEMMA Opened ==
    ASSUME NEW p, NEW n, NEW symbol, NEW side, NEW quantity, NEW entry, NEW leverage,
           IsOpened(p, n, symbol, side, quantity, entry, leverage)
    PROVE  PositionSound(p) /\ p.id = n /\ p.symbol = symbol
<1> DEFINE required == Over(Times(entry, quantity), leverage * Unit)
           d == Over(Times(entry, Times(required, Ratio)), required)
<1> USE DEF IsOpened
<1>1. entry \in Nat /\ quantity \in Nat /\ leverage * Unit \in Nat
  BY MarginAssumption, UnitIsNat DEF UnitNat
<1>2. required \in Nat
  BY <1>1, TimesNat, OverNat
<1>3. d \in Nat /\ d * Unit <= entry * Ratio
  BY <1>1, <1>2, DistanceBound
<1>4. LiquidationPrice(side, entry, quantity, leverage) =
         IF side = "buy" THEN entry - d ELSE entry + d
  BY DEF LiquidationPrice
<1> HIDE DEF required, d
<1>5. /\ p.id = n /\ p.symbol = symbol /\ p.side = side /\ p.entry = entry
      /\ p.leverage = leverage
      /\ p.liquidation = IF side = "buy" THEN entry - d ELSE entry + d
  BY <1>4 DEF Position
<1>6. Magnitude(p.entry - p.liquidation) = d
  BY <1>1, <1>3, <1>5 DEF Magnitude
<1> QED
  BY <1>1, <1>3, <1>5, <1>6 DEF PositionSound, Never

Everyone == positions \cup liquidated

MarginInv ==
    /\ IsFiniteSet(Everyone)
    /\ positions \cap liquidated = {}
    /\ \A p \in Everyone : PositionSound(p) /\ p.id < Cardinality(Everyone)
    /\ markPrice \in [Symbols -> Int]
    /\ \A p \in positions : p.symbol \in checked =>
          markPrice[p.symbol] # -1 /\ ~Due(p)

Covered == \A p \in positions : p.symbol \in checked /\ Moderate(p) => ~BelowMaintenance(p)

TakenRightly ==
    /\ liquidated \subseteq liquidated'
    /\ positions \ positions' = liquidated' \ liquidated
    /\ \A p \in liquidated' \ liquidated : Loss(p) >= 0

KeptStep ==
    /\ liquidated \subseteq liquidated'
    /\ positions \ positions' = liquidated' \ liquidated
    /\ \A p \in liquidated' \ liquidated : Loss(p) >= 0
    /\ \A p \in positions' :
          p.symbol \in checked' /\ Moderate(p) => ~BelowMaintenance(p)'

\* A loss short of the distance leaves the maintenance margin, if the margin is
\* twice as much.
LEMMA StillCovered ==
    ASSUME NEW u \in Nat, NEW r \in Nat, NEW l \in Nat, NEW entry \in Nat,
           NEW loss \in Int, NEW d \in Nat,
           loss <= d, d * u <= entry * r, 2 * l * r <= u
    PROVE  ~(entry * u - l * loss * u < l * r * entry)
<1>1. /\ d * u \in Nat /\ entry * r \in Nat /\ l * r \in Nat /\ loss * u \in Int
      /\ entry * u \in Nat /\ entry * (l * r) \in Nat /\ l * (loss * u) \in Int
      /\ l * (entry * r) \in Nat
  OBVIOUS
<1>2. loss * u <= d * u
  <2>1. u * (d - loss) = u * d - u * loss
    BY ProductOver
  <2>2. d - loss \in Nat /\ u * (d - loss) \in Nat
    OBVIOUS
  <2>3. u * d = d * u /\ u * loss = loss * u
    OBVIOUS
  <2> QED
    BY <1>1, <2>1, <2>2, <2>3
<1>3. loss * u <= entry * r
  BY <1>1, <1>2
<1>4. l * (loss * u) <= l * (entry * r)
  <2>1. l * (entry * r - loss * u) = l * (entry * r) - l * (loss * u)
    BY <1>1, ProductOver
  <2>2. entry * r - loss * u \in Nat
    BY <1>1, <1>3
  <2>3. l * (entry * r - loss * u) \in Nat
    BY <2>2
  <2> QED
    BY <1>1, <2>1, <2>3
<1>5. entry * (2 * (l * r)) <= entry * u
  <2>1. 2 * (l * r) \in Nat /\ 2 * (l * r) <= u
    BY <1>1
  <2> QED
    BY <2>1, ProductMonotone
<1>6. /\ entry * (2 * (l * r)) = 2 * (entry * (l * r))
      /\ l * (entry * r) = entry * (l * r) /\ l * r * entry = entry * (l * r)
      /\ l * loss * u = l * (loss * u)
  OBVIOUS
<1> QED
  BY <1>1, <1>4, <1>5, <1>6

\* What is not due is not below its maintenance margin.
LEMMA CheckedIsCovered == MarginInv => Covered
<1> SUFFICES ASSUME MarginInv, NEW p \in positions, p.symbol \in checked, Moderate(p)
             PROVE  ~BelowMaintenance(p)
  BY DEF Covered
<1>1. PositionSound(p) /\ markPrice[p.symbol] # -1 /\ ~Due(p) /\ markPrice \in [Symbols -> Int]
  BY DEF MarginInv, Everyone
<1> DEFINE d == Magnitude(p.entry - p.liquidation)
<1>2. d \in Nat /\ d * Unit <= p.entry * Ratio
  BY <1>1 DEF PositionSound, Magnitude
<1>3. Loss(p) \in Int /\ Loss(p) <= d
  BY <1>1 DEF Loss, Due, PositionSound, Never, Magnitude
<1>4. Unit \in Nat /\ Ratio \in Nat /\ p.leverage \in Nat /\ p.entry \in Nat
  BY <1>1, UnitIsNat, MarginAssumption DEF UnitNat, PositionSound
<1>5. 2 * p.leverage * Ratio <= Unit
  BY DEF Moderate
<1> HIDE DEF d
<1> QED
  BY <1>2, <1>3, <1>4, <1>5, StillCovered DEF BelowMaintenance

LEMMA OpenSound ==
    ASSUME MarginInv, NEW symbol \in Symbols, NEW side, NEW quantity \in Quantities,
           NEW entry \in Prices, NEW leverage \in Leverages,
           OpenPosition(symbol, side, quantity, entry, leverage)
    PROVE  MarginInv' /\ TakenRightly
<1> DEFINE n == Cardinality(Everyone)
           p == Position(n, symbol, side, quantity, entry, leverage)
<1>1. /\ leverage \in 1 .. 125 /\ positions' = positions \cup {p}
      /\ checked' = checked \ {symbol}
      /\ UNCHANGED <<liquidated, markPrice>>
  BY DEF OpenPosition, Everyone, Position
<1>2. n \in Nat
  BY FS_CardinalityType DEF MarginInv
<1>0. p = Position(n, symbol, side, quantity, entry, leverage)
  OBVIOUS
<1> HIDE DEF n, p
<1>3. PositionSound(p) /\ p.id = n /\ p.symbol = symbol
  <2>1. IsOpened(p, n, symbol, side, quantity, entry, leverage)
    BY <1>1, <1>2, <1>0 DEF IsOpened
  <2> QED
    BY <2>1, Opened
<1> USE DEF n
<1>4. p \notin Everyone
  BY <1>2, <1>3 DEF MarginInv
<1>5. Everyone' = Everyone \cup {p}
  BY <1>1 DEF Everyone
<1>6. IsFiniteSet(Everyone') /\ Cardinality(Everyone') = n + 1
  BY <1>4, <1>5, FS_AddElement DEF MarginInv
<1>7. \A q \in Everyone' : PositionSound(q) /\ q.id < Cardinality(Everyone')
  <2> TAKE q \in Everyone'
  <2>1. CASE q \in Everyone
    <3>1. PositionSound(q) /\ q.id < n
      BY <2>1 DEF MarginInv
    <3>2. q.id \in Nat
      BY <3>1 DEF PositionSound
    <3> HIDE DEF n
    <3> QED
      BY <1>2, <1>6, <3>1, <3>2
  <2>2. CASE q = p
    BY <1>2, <1>3, <1>6, <2>2
  <2> QED
    BY <1>5, <2>1, <2>2
<1>8. positions' \cap liquidated' = {}
  BY <1>1, <1>4 DEF MarginInv, Everyone
<1>9. \A q \in positions' : q.symbol \in checked' => markPrice'[q.symbol] # -1 /\ ~Due(q)'
  BY <1>1, <1>3 DEF MarginInv, Due
<1>10. MarginInv'
  <2>1. \A q \in Everyone' : PositionSound(q)'
    BY <1>7 DEF PositionSound, Never
  <2> QED
    BY <1>1, <1>6, <1>7, <1>8, <1>9, <2>1 DEF MarginInv
<1>11. TakenRightly
  BY <1>1 DEF TakenRightly
<1> QED
  BY <1>10, <1>11

LEMMA CheckSound ==
    ASSUME MarginInv, NEW symbol \in Symbols, CheckLiquidations(symbol)
    PROVE  MarginInv' /\ TakenRightly
<1> DEFINE due == {p \in positions : p.symbol = symbol /\ Due(p)}
<1>1. /\ positions' = positions \ due /\ liquidated' = liquidated \cup due
      /\ markPrice' = markPrice /\ due \subseteq positions
      /\ checked' = checked \cup {symbol} /\ markPrice[symbol] # -1
  BY DEF CheckLiquidations
<1>2. /\ \A p \in due : Due(p)
      /\ \A p \in positions \ due : p.symbol = symbol => ~Due(p)
  OBVIOUS
<1> HIDE DEF due
<1>3. Everyone' = Everyone
  BY <1>1 DEF Everyone
<1>4. \A p \in positions' : p.symbol \in checked' => markPrice'[p.symbol] # -1 /\ ~Due(p)'
  BY <1>1, <1>2 DEF MarginInv, Due
<1>5. MarginInv'
  BY <1>1, <1>3, <1>4 DEF MarginInv
<1>6. ASSUME NEW p \in due
      PROVE  Loss(p) >= 0
  <2>1. PositionSound(p) /\ Due(p)
    BY <1>1, <1>2, <1>6 DEF MarginInv, Everyone
  <2>2. markPrice[p.symbol] \in Int
    BY <2>1 DEF PositionSound, MarginInv
  <2> QED
    BY <2>1, <2>2 DEF PositionSound, Never, Due, Loss
<1>7. TakenRightly
  <2>1. liquidated' \ liquidated = due /\ positions \ positions' = due
    BY <1>1 DEF MarginInv
  <2>2. liquidated \subseteq liquidated'
    BY <1>1
  <2> QED
    BY <1>6, <2>1, <2>2 DEF TakenRightly
<1> QED
  BY <1>5, <1>7

LEMMA PriceSound ==
    ASSUME MarginInv, NEW symbol \in Symbols, NEW price \in Prices,
           UpdateMarkPrice(symbol, price)
    PROVE  MarginInv' /\ TakenRightly
<1>1. /\ UNCHANGED <<positions, liquidated>> /\ checked' = checked \ {symbol}
      /\ markPrice' = [markPrice EXCEPT ![symbol] = price]
  BY DEF UpdateMarkPrice
<1>2. markPrice' \in [Symbols -> Int]
  BY <1>1, MarginAssumption DEF MarginInv
<1>3. Everyone' = Everyone
  BY <1>1 DEF Everyone
<1>4. ASSUME NEW p \in positions', p.symbol \in checked'
      PROVE  markPrice'[p.symbol] # -1 /\ ~Due(p)'
  <2>1. p \in positions /\ p.symbol \in checked /\ p.symbol # symbol /\ PositionSound(p)
    BY <1>1, <1>4 DEF MarginInv, Everyone
  <2>2. markPrice'[p.symbol] = markPrice[p.symbol]
    BY <1>1, <2>1 DEF MarginInv, PositionSound
  <2> QED
    BY <2>1, <2>2 DEF MarginInv, Due
<1>5. MarginInv'
  BY <1>1, <1>2, <1>3, <1>4 DEF MarginInv
<1> QED
  BY <1>1, <1>5 DEF TakenRightly

LEMMA MarginStep == MarginInv /\ [MarginNext]_marginVars => MarginInv' /\ TakenRightly
<1> SUFFICES ASSUME MarginInv, [MarginNext]_marginVars PROVE MarginInv' /\ TakenRightly
  OBVIOUS
<1>1. CASE UNCHANGED marginVars
  <2>1. Everyone' = Everyone
    BY <1>1 DEF Everyone, marginVars
  <2>2. MarginInv'
    BY <1>1, <2>1 DEF MarginInv, marginVars, Due
  <2>3. TakenRightly
    BY <1>1 DEF TakenRightly, marginVars
  <2> QED
    BY <2>2, <2>3
<1> QED
  BY <1>1, PriceSound, CheckSound, OpenSound DEF MarginNext

\* For every price, quantity and leverage and any number of decimal places: a
\* check takes no other position with those it liquidates, liquidates none at
\* a gain, and leaves none of moderate leverage below its maintenance margin.
THEOREM PositionsAreKept == MarginSpec => PositionsKept
<1>1. MarginInit => MarginInv
  <2>1. MarginInit => Everyone = {} /\ positions = {} /\ markPrice \in [Symbols -> Int]
    BY DEF MarginInit, Everyone
  <2> QED
    BY <2>1, FS_EmptySet DEF MarginInv
<1>2. MarginInv /\ [MarginNext]_marginVars => MarginInv' /\ TakenRightly
  BY MarginStep
<1>3. MarginInv' => Covered'
  BY CheckedIsCovered, PTL
<1>4. TakenRightly /\ Covered' => KeptStep
  BY DEF TakenRightly, Covered, KeptStep, Moderate
<1>5. MarginInv /\ [MarginNext]_marginVars => MarginInv' /\ [KeptStep]_marginVars
  BY <1>2, <1>3, <1>4
<1>6. ([][KeptStep]_marginVars) <=> PositionsKept
  BY DEF KeptStep, PositionsKept
<1> QED
  BY <1>1, <1>5, <1>6, PTL DEF MarginSpec

(***************************************************************************)
(* The recent trades.                                                      *)
(***************************************************************************)
Least(a, b) == IF a < b THEN a ELSE b

\* The n newest of a number of trades, newest first.
Newest(trades, last, n) ==
    /\ trades \in Seq(Nat) /\ Len(trades) = n
    /\ \A i \in 1 .. n : trades[i] = last - i + 1

RecentSound ==
    recent.trades # << >> =>
         LET newest == recent.trades[1]
             n == Len(recent.trades)
         IN  /\ \A i \in 1 .. n : recent.trades[i] = newest - i + 1
             /\ recent.limit \in 1 .. Kept =>
                  n = IF newest < recent.limit THEN newest ELSE recent.limit

MarketInv ==
    /\ Newest(history, Len(history), Len(history))
    /\ Newest(list, Len(history), Len(list))
    /\ Len(list) <= Len(history)
    /\ Len(list) >= Least(Len(history), Kept)
    /\ RecentSound

LEMMA KeptNat == Kept \in Nat /\ Kept > 0
BY MarketDataAssumption

LEMMA PushedIsNewest ==
    ASSUME NEW trades, NEW last \in Nat, NEW n \in Nat, Newest(trades, last, n)
    PROVE  Newest(<<last + 1>> \o trades, last + 1, n + 1)
<1> DEFINE new == <<last + 1>> \o trades
<1>1. trades \in Seq(Nat) /\ Len(trades) = n /\ <<last + 1>> \in Seq(Nat)
  BY DEF Newest
<1>2. /\ new \in Seq(Nat) /\ Len(new) = n + 1
      /\ new[1] = last + 1
      /\ \A i \in 1 .. n : new[i + 1] = trades[i]
  BY <1>1
<1> HIDE DEF new
<1>3. ASSUME NEW i \in 1 .. n + 1 PROVE new[i] = (last + 1) - i + 1
  <2>1. CASE i = 1
    BY <1>2, <2>1
  <2>2. CASE i # 1
    <3>1. i - 1 \in 1 .. n /\ (i - 1) + 1 = i
      BY <2>2
    <3>2. new[i] = trades[i - 1] /\ trades[i - 1] = last - (i - 1) + 1
      BY <1>2, <3>1 DEF Newest
    <3> QED
      BY <3>2
  <2> QED
    BY <2>1, <2>2
<1>4. Newest(new, last + 1, n + 1)
  BY <1>2, <1>3 DEF Newest
<1> QED
  BY <1>4 DEF new

LEMMA CutIsNewest ==
    ASSUME NEW trades, NEW last \in Nat, NEW n \in Nat, Newest(trades, last, n),
           NEW k \in Int, k <= n
    PROVE  Newest(SubSeq(trades, 1, k), last, IF k < 0 THEN 0 ELSE k)
<1> DEFINE cut == SubSeq(trades, 1, k)
<1>1. trades \in Seq(Nat) /\ Len(trades) = n
  BY DEF Newest
<1>2. CASE k >= 1
  <2>1. cut \in Seq(Nat) /\ Len(cut) = k /\ \A i \in 1 .. k : cut[i] = trades[i]
    BY <1>1, <1>2
  <2> HIDE DEF cut
  <2>2. \A i \in 1 .. k : cut[i] = last - i + 1
    BY <2>1, <1>2 DEF Newest
  <2>3. Newest(cut, last, k)
    BY <2>1, <2>2 DEF Newest
  <2> QED
    BY <1>2, <2>3 DEF cut
<1>3. CASE k < 1
  <2>1. cut = << >>
    BY <1>1, <1>3
  <2>2. cut \in Seq(Nat) /\ Len(cut) = 0
    BY <2>1, EmptySeq
  <2> HIDE DEF cut
  <2>3. Newest(cut, last, 0) /\ (IF k < 0 THEN 0 ELSE k) = 0
    BY <1>3, <2>2 DEF Newest
  <2> QED
    BY <2>3 DEF cut
<1> QED
  BY <1>2, <1>3

LEMMA MarketLengths ==
    ASSUME MarketInv
    PROVE  Len(history) \in Nat /\ Len(list) \in Nat /\ list \in Seq(Nat) /\ history \in Seq(Nat)
BY DEF MarketInv, Newest

LEMMA PushSound == ASSUME MarketInv, NEW p \in Recorders, Push(p) PROVE MarketInv'
<1>1. /\ history' = <<Len(history) + 1>> \o history
      /\ list' = <<Len(history) + 1>> \o list
      /\ recent' = recent
  BY DEF Push
<1>2. /\ Newest(history', Len(history) + 1, Len(history) + 1)
      /\ Newest(list', Len(history) + 1, Len(list) + 1)
  BY <1>1, MarketLengths, PushedIsNewest DEF MarketInv
<1>3. Len(history') = Len(history) + 1 /\ Len(list') = Len(list) + 1
  BY <1>2 DEF Newest
<1>4. Newest(history, Len(history), Len(history))' /\ Newest(list, Len(history), Len(list))'
  BY <1>2, <1>3
<1>5. Len(list') <= Len(history') /\ Len(list') >= Least(Len(history'), Kept)
  BY <1>3, MarketLengths, KeptNat DEF MarketInv, Least
<1> QED
  BY <1>1, <1>4, <1>5 DEF MarketInv, RecentSound

LEMMA TrimSound == ASSUME MarketInv, NEW p \in Recorders, Trim(p) PROVE MarketInv'
<1> DEFINE k == IF Len(list) < Kept THEN Len(list) ELSE Kept
<1>1. list' = SubSeq(list, 1, k) /\ UNCHANGED <<history, recent>>
  BY DEF Trim
<1>2. k \in Nat /\ k <= Len(list)
  BY MarketLengths, KeptNat
<1>3. Newest(list', Len(history), k)
  BY <1>1, <1>2, MarketLengths, CutIsNewest DEF MarketInv
<1>4. Len(list') = k
  BY <1>3 DEF Newest
<1>5. Len(list') <= Len(history') /\ Len(list') >= Least(Len(history'), Kept)
  BY <1>1, <1>4, MarketLengths, KeptNat DEF MarketInv, Least
<1> HIDE DEF k
<1>6. Newest(list, Len(history), Len(list))'
  BY <1>1, <1>3, <1>4
<1> QED
  BY <1>1, <1>5, <1>6 DEF MarketInv, RecentSound

LEMMA AnswerSound ==
    ASSUME MarketInv, NEW limit \in Limits, GetRecentTrades(limit) PROVE MarketInv'
<1> DEFINE k == LastIndex(limit)
           trades == SubSeq(list, 1, k)
           n == IF k < 0 THEN 0 ELSE k
<1>1. /\ recent' = [limit |-> limit, trades |-> trades]
      /\ UNCHANGED <<history, list, trimming>>
  BY DEF GetRecentTrades
<1>2. limit \in Int
  BY MarketDataAssumption
<1>3. k \in Int /\ k <= Len(list)
  BY <1>2, MarketLengths DEF LastIndex
<1>4. limit \in 1 .. Kept => k = Least(limit, Len(list))
  BY <1>2, MarketLengths, KeptNat DEF LastIndex, Least
<1>5. Newest(trades, Len(history), n)
  BY <1>3, MarketLengths, CutIsNewest DEF MarketInv
<1>6. recent'.trades = trades /\ recent'.limit = limit
  BY <1>1
<1>7. /\ Len(list) <= Len(history) /\ Len(list) >= Least(Len(history), Kept)
      /\ Len(list) \in Nat /\ Len(history) \in Nat
  BY MarketLengths DEF MarketInv
<1> HIDE DEF k, trades
<1>8. trades \in Seq(Nat) /\ Len(trades) = n /\ \A i \in 1 .. n : trades[i] = Len(history) - i + 1
  BY <1>5 DEF Newest
<1>9. ASSUME trades # << >>
      PROVE  /\ \A i \in 1 .. Len(trades) : trades[i] = trades[1] - i + 1
             /\ limit \in 1 .. Kept => Len(trades) = Least(trades[1], limit)
  <2>1. Len(trades) > 0 /\ Len(trades) \in Nat
    BY <1>8, <1>9
  <2>2. n > 0 /\ n = k
    BY <1>3, <1>8, <2>1
  <2>3. trades[1] = Len(history)
    BY <1>3, <1>7, <1>8, <2>2
  <2>4. \A i \in 1 .. Len(trades) : trades[i] = trades[1] - i + 1
    BY <1>8, <2>3
  <2>5. limit \in 1 .. Kept => k = Least(Len(history), limit)
    BY <1>4, <1>7, KeptNat DEF Least
  <2> QED
    BY <1>8, <2>2, <2>3, <2>4, <2>5
<1>10. RecentSound'
  BY <1>6, <1>9 DEF RecentSound, Least
<1> QED
  BY <1>1, <1>10 DEF MarketInv

LEMMA MarketStep == MarketInv /\ [MarketNext]_marketVars => MarketInv'
<1>1. ASSUME MarketInv, UNCHANGED <<history, list, recent>> PROVE MarketInv'
  BY <1>1 DEF MarketInv, RecentSound
<1> QED
  BY <1>1, PushSound, TrimSound, AnswerSound DEF MarketNext, marketVars, Break

\* The list is the newest trades without a gap, at least as many of them as are
\* to be kept, and an answer the newest ones of its moment, for any number of
\* recorders, in whatever order their commands mix and wherever they break.
THEOREM TradesAreRecent == MarketSpec => []TradesRecent
<1>1. MarketInit => MarketInv
  BY KeptNat, EmptySeq DEF MarketInit, MarketInv, Newest, Least, RecentSound
<1>2. ASSUME MarketInv PROVE TradesRecent
  <2>1. IsPrefix(list, history)
    <3>1. Len(list) <= Len(history) /\ \A i \in 1 .. Len(list) : list[i] = history[i]
      BY <1>2, MarketLengths DEF MarketInv, Newest
    <3> DEFINE s == SubSeq(list, 1, Len(list))
               t == SubSeq(history, 1, Len(list))
    <3>2. /\ s \in Seq(Nat) /\ Len(s) = Len(list) /\ \A i \in 1 .. Len(list) : s[i] = list[i]
          /\ t \in Seq(Nat) /\ Len(t) = Len(list) /\ \A i \in 1 .. Len(list) : t[i] = history[i]
      BY <1>2, <3>1, MarketLengths
    <3> HIDE DEF s, t
    <3>3. s = t
      BY <1>2, <3>1, <3>2, SeqEqual, MarketLengths
    <3> QED
      BY <3>1, <3>3 DEF IsPrefix, s, t
  <2>2. Len(list) >= (IF Len(history) < Kept THEN Len(history) ELSE Kept)
    BY <1>2 DEF MarketInv, Least
  <2> QED
    BY <1>2, <2>1, <2>2 DEF MarketInv, RecentSound, TradesRecent
<1> QED
  BY <1>1, <1>2, MarketStep, PTL DEF MarketSpec
=============================================================================
