----------------------------- MODULE AppProofs ------------------------------
(***************************************************************************)
(* Theorems about two apps, each with an invariant of its own.             *)
(*                                                                         *)
(* The subscription app and the time-weighted average it keeps, for every  *)
(* price, rate, averaging period and number of addresses: the invariant    *)
(* joins the types with the count of subscribers, since the counter stays  *)
(* a natural number only because it is that count.                         *)
(*                                                                         *)
(* The calendar app, for every offset, opening hours, prices and denoms:   *)
(* the invariant says of a meeting on file where it lies in its day and    *)
(* how its stake was shared out, and a second one that what the app holds  *)
(* is the sum of the open stakes.                                          *)
(***************************************************************************)
EXTENDS Subscription, Calendar, FoldLemmas, TLAPS

-----------------------------------------------------------------------------
(* The subscription app *)

SubscriptionInv ==
  /\ TypeOK
  /\ CountMatchesList
  /\ twa.period = Period

-----------------------------------------------------------------------------
(* Arithmetic *)

\* A number is its quotient and its remainder.
LEMMA Division ==
  ASSUME NEW x \in Nat, NEW n \in Nat \ {0}
  PROVE  /\ x \div n \in Nat /\ x % n \in 0 .. n - 1
         /\ x = n * (x \div n) + (x % n)
  OBVIOUS

\* Decimal arithmetic stays in the natural numbers.
LEMMA MulFloorType ==
  ASSUME NEW n \in Nat, NEW decimal \in Nat
  PROVE  MulFloor(n, decimal) \in Nat
  <1>1. n * decimal \in Nat
    OBVIOUS
  <1> QED BY <1>1, Division, UnitAssumption DEF MulFloor

\* Products of natural numbers grow with their factors.
LEMMA ProductMonotone ==
  ASSUME NEW n \in Nat, NEW x \in Nat, NEW y \in Nat, x <= y
  PROVE  n * x \in Nat /\ n * y \in Nat /\ n * x <= n * y
  OBVIOUS

\* What costs a period or more, rounded up, buys a period or more, rounded down.
LEMMA PaymentBuysPeriod ==
  ASSUME NEW amount \in Nat, NEW period \in Nat, NEW cost \in Nat \ {0},
         amount >= MulCeil(period, cost)
  PROVE  (amount * Unit) \div cost \in Nat /\ (amount * Unit) \div cost >= period
  <1> DEFINE x == period * cost + Unit - 1
             r == x \div Unit
             y == amount * Unit
             q == y \div cost
  <1>1. Unit \in Nat \ {0}
    BY UnitAssumption
  <1>2. period * cost \in Nat /\ cost * period = period * cost
    OBVIOUS
  <1>3. x \in Nat
    BY <1>1, <1>2
  <1>4. r \in Nat /\ x % Unit \in 0 .. Unit - 1 /\ x = Unit * r + (x % Unit)
    <2> HIDE DEF x
    <2> QED BY <1>1, <1>3, Division
  <1>5. Unit * r \in Nat
    BY <1>1, <1>4
  <1>6. Unit * r >= period * cost
    BY <1>1, <1>2, <1>4, <1>5
  <1>7. r <= amount
    BY <1>4 DEF MulCeil
  <1>8. y \in Nat /\ y = Unit * amount
    BY <1>1
  <1>9. y >= cost * period
    <2> HIDE DEF r, y
    <2>1. Unit * amount >= Unit * r /\ Unit * amount \in Nat
      BY <1>1, <1>4, <1>7, ProductMonotone
    <2> QED BY <1>2, <1>5, <1>6, <1>8, <2>1
  <1> HIDE DEF x, r, y
  <1>10. q \in Nat /\ y % cost \in 0 .. cost - 1 /\ y = cost * q + (y % cost)
    BY <1>8, Division
  <1> HIDE DEF q
  <1>11. ASSUME q < period PROVE FALSE
    <2>1. cost * (q + 1) <= cost * period /\ cost * (q + 1) \in Nat
      BY <1>10, <1>11, ProductMonotone
    <2>2. cost * (q + 1) = cost * q + cost /\ cost * q \in Nat
      BY <1>10
    <2> QED BY <1>2, <1>8, <1>9, <1>10, <2>1, <2>2
  <1>12. q >= period
    BY <1>10, <1>11
  <1> QED BY <1>10, <1>12 DEF q, y

-----------------------------------------------------------------------------
(* The time-weighted average *)

\* What the app relies on of its average.
TwaOK(t, time) ==
  /\ t \in TwaData
  /\ t.last <= time /\ t.lastAveraging <= time /\ t.lastCumulative <= t.cumulative
  /\ t.period = Period

\* accumulate
LEMMA AccumulateOK ==
  ASSUME NEW t, NEW time \in Nat, NEW value \in Nat, TwaOK(t, time)
  PROVE  TwaOK(Accumulate(t, time, value), time)
  <1>1. CASE time <= t.last
    BY <1>1 DEF Accumulate
  <1>2. CASE ~(time <= t.last)
    <2>1. t \in TwaData /\ time - t.last \in Nat
      BY <1>2 DEF TwaOK, TwaData
    <2> DEFINE more == MulFloor(time - t.last, value)
    <2>2. more \in Nat
      BY <2>1, MulFloorType
    <2> HIDE DEF more
    <2>3. Accumulate(t, time, value) = [t EXCEPT !.last = time, !.cumulative = t.cumulative + more]
      BY <1>2 DEF Accumulate, more
    <2> DEFINE new == [t EXCEPT !.last = time, !.cumulative = t.cumulative + more]
    <2>4. t.cumulative \in Nat /\ t.cumulative + more \in Nat /\ t.lastCumulative <= t.cumulative + more
      BY <2>1, <2>2 DEF TwaOK, TwaData
    <2>5. new \in TwaData
      BY <2>1, <2>4 DEF TwaData
    <2>6. /\ new.last = time /\ new.cumulative = t.cumulative + more /\ new.period = t.period
          /\ new.lastAveraging = t.lastAveraging /\ new.lastCumulative = t.lastCumulative
      BY <2>1 DEF TwaData
    <2> HIDE DEF new
    <2>7. TwaOK(new, time)
      BY <2>4, <2>5, <2>6 DEF TwaOK
    <2> QED BY <2>3, <2>7 DEF new
  <1> QED BY <1>1, <1>2

\* try_update_value
LEMMA UpdateOK ==
  ASSUME NEW t, NEW time \in Nat, TwaOK(t, time)
  PROVE  TwaOK(TryUpdateValue(t, time), time)
  <1>1. CASE ~PeriodOver(t, time)
    BY <1>1 DEF TryUpdateValue
  <1>2. CASE PeriodOver(t, time)
    <2> DEFINE sum == (t.cumulative - t.lastCumulative) * Unit
               average == sum \div (time - t.lastAveraging)
    <2>1. /\ t \in TwaData /\ Period \in Nat \ {0} /\ Unit \in Nat \ {0}
          /\ t.cumulative - t.lastCumulative \in Nat
      BY SubscriptionAssumption, UnitAssumption DEF TwaOK, TwaData
    <2>2. time - t.lastAveraging \in Nat \ {0}
      BY <1>2, <2>1 DEF TwaOK, TwaData, PeriodOver
    <2>3. sum \in Nat
      BY <2>1
    <2> HIDE DEF sum
    <2>4. average \in Nat
      BY <2>2, <2>3, Division
    <2> HIDE DEF average
    <2>5. TryUpdateValue(t, time) =
            [t EXCEPT !.average = average, !.lastAveraging = time, !.lastCumulative = t.cumulative]
      BY <1>2 DEF TryUpdateValue, average, sum
    <2> DEFINE new == [t EXCEPT !.average = average, !.lastAveraging = time,
                                !.lastCumulative = t.cumulative]
    <2>6. new \in TwaData /\ t.cumulative \in Nat
      BY <2>1, <2>4 DEF TwaData
    <2>7. /\ new.last = t.last /\ new.cumulative = t.cumulative /\ new.period = t.period
          /\ new.lastAveraging = time /\ new.lastCumulative = t.cumulative
      BY <2>1 DEF TwaData
    <2> HIDE DEF new
    <2>8. TwaOK(new, time)
      BY <2>6, <2>7 DEF TwaOK
    <2> QED BY <2>5, <2>8 DEF new
  <1> QED BY <1>1, <1>2

-----------------------------------------------------------------------------
(* The invariant *)

LEMMA InitInv == Init => SubscriptionInv
  <1> SUFFICES ASSUME Init PROVE SubscriptionInv
    OBVIOUS
  <1>1. NewTwa(0, Period) \in TwaData
    BY SubscriptionAssumption DEF NewTwa, TwaData
  <1>2. /\ twa \in TwaData /\ twa.period = Period
        /\ twa.last = 0 /\ twa.lastAveraging = 0 /\ twa.lastCumulative = 0 /\ twa.cumulative = 0
    BY <1>1 DEF Init, NewTwa
  <1>3. DOMAIN subs = {} /\ subs \in [DOMAIN subs -> Subscriber]
    BY DEF Init
  <1>4. config.cost \in Nat
    BY SubscriptionAssumption DEF Init, Config
  <1>5. TypeOK
    BY <1>2, <1>3, <1>4, SubscriptionAssumption DEF Init, TypeOK
  <1>6. CountMatchesList
    BY <1>3, FS_EmptySet DEF Init, CountMatchesList
  <1> QED BY <1>2, <1>5, <1>6 DEF SubscriptionInv

\* The facts every step uses.
LEMMA Basics ==
  ASSUME SubscriptionInv
  PROVE  /\ now \in Nat /\ TwaOK(twa, now) /\ IsFiniteSet(DOMAIN subs)
         /\ Cardinality(DOMAIN subs) \in Nat
         /\ config \in Config /\ Income \in Nat
         /\ \A a \in DOMAIN subs : subs[a].until \in Nat /\ subs[a].claimed \in Nat
                                   /\ now - subs[a].claimed \in Nat
         /\ subs = [a \in DOMAIN subs |-> subs[a]]
  <1>1. now \in Nat /\ MaxTime \in Nat
    BY SubscriptionAssumption DEF SubscriptionInv, TypeOK
  <1>2. TwaOK(twa, now)
    BY DEF SubscriptionInv, TypeOK, TwaOK
  <1>3. IsFiniteSet(DOMAIN subs) /\ Cardinality(DOMAIN subs) \in Nat
    BY SubscriptionAssumption, FS_Subset, FS_CardinalityType DEF SubscriptionInv, TypeOK
  <1>4. config \in Config /\ config.cost \in Nat
    BY SubscriptionAssumption DEF SubscriptionInv, TypeOK, Config
  <1>5. Income \in Nat
    BY <1>4 DEF Income, SubscriptionInv, TypeOK
  <1>6. \A a \in DOMAIN subs : subs[a].until \in Nat /\ subs[a].claimed \in Nat
                               /\ now - subs[a].claimed \in Nat
    BY <1>1 DEF SubscriptionInv, TypeOK, Subscriber
  <1>7. subs = [a \in DOMAIN subs |-> subs[a]]
    BY DEF SubscriptionInv, TypeOK
  <1> QED BY <1>1, <1>2, <1>3, <1>4, <1>5, <1>6, <1>7

LEMMA TickInv == SubscriptionInv /\ Tick => SubscriptionInv'
  <1> SUFFICES ASSUME SubscriptionInv, Tick PROVE SubscriptionInv'
    OBVIOUS
  <1>1. now' \in 0 .. MaxTime /\ now' = now + 1 /\ now \in Nat
    BY Basics, SubscriptionAssumption DEF Tick, TimePasses, SubscriptionInv, TypeOK
  <1>2. member' \in [Addr -> Nat] /\ served' \in Nat
    BY Basics DEF Tick, TimePasses, SubscriptionInv, TypeOK
  <1>3. /\ \A a \in DOMAIN subs : subs[a].claimed <= now'
        /\ twa.last <= now' /\ twa.lastAveraging <= now'
    BY <1>1, Basics DEF SubscriptionInv, TypeOK, TwaData
  <1> QED BY <1>1, <1>2, <1>3 DEF Tick, TimePasses, subVars, SubscriptionInv, TypeOK, CountMatchesList

\* What a payment adds.
LEMMA PaidType ==
  ASSUME SubscriptionInv, config.cost # 0, NEW payment \in Payment
  PROVE  PaidSeconds(payment.amount) \in Nat
  <1>1. payment.amount \in Nat /\ config.cost \in Nat \ {0} /\ Unit \in Nat
    BY Basics, SubscriptionAssumption, UnitAssumption DEF Config
  <1>2. payment.amount * Unit \in Nat
    BY <1>1
  <1>3. Bought(payment.amount) \in Nat
    BY <1>1, <1>2, Division DEF Bought
  <1> QED BY <1>3, SubscriptionAssumption, Division DEF PaidSeconds

LEMMA ExtendInv ==
  ASSUME SubscriptionInv, NEW a \in Addr, NEW payment \in Payment, Extend(a, payment)
  PROVE  SubscriptionInv'
  <1>1. PaidSeconds(payment.amount) \in Nat
    BY PaidType DEF Extend
  <1>2. subs[a] \in Subscriber /\ a \in DOMAIN subs
    BY DEF Extend, SubscriptionInv, TypeOK
  <1> DEFINE new == [subs[a] EXCEPT !.until = subs[a].until + PaidSeconds(payment.amount)]
  <1>3. new \in Subscriber /\ new.claimed = subs[a].claimed
    BY <1>1, <1>2 DEF Subscriber
  <1>4. subs' = [subs EXCEPT ![a] = new]
    BY <1>2 DEF Extend
  <1> HIDE DEF new
  <1>5. /\ DOMAIN subs' = DOMAIN subs /\ subs' \in [DOMAIN subs -> Subscriber]
        /\ \A b \in DOMAIN subs : subs'[b].claimed = subs[b].claimed
    BY <1>3, <1>4 DEF SubscriptionInv, TypeOK
  <1> QED BY <1>5 DEF Extend, history, SubscriptionInv, TypeOK, CountMatchesList

LEMMA SubscribeInv ==
  ASSUME SubscriptionInv, NEW a \in Addr, NEW payment \in Payment, Subscribe(a, payment)
  PROVE  SubscriptionInv'
  <1> DEFINE new == [until |-> now + PaidSeconds(payment.amount), claimed |-> now]
  <1>1. PaidSeconds(payment.amount) \in Nat
    BY PaidType DEF Subscribe
  <1>2. new \in Subscriber /\ new.claimed = now
    BY <1>1, Basics DEF Subscriber
  <1>3. /\ subs' = [b \in DOMAIN subs \cup {a} |-> IF b = a THEN new ELSE subs[b]]
        /\ a \notin DOMAIN subs /\ activeSubs' = activeSubs + 1 /\ now' = now
        /\ UNCHANGED <<config, history>> /\ expired' = expired \ {a}
    BY DEF Subscribe, NotExpired
  <1> HIDE DEF new
  <1>4. /\ DOMAIN subs' = DOMAIN subs \cup {a} /\ subs' \in [DOMAIN subs' -> Subscriber]
        /\ \A b \in DOMAIN subs' : subs'[b].claimed <= now
    <2>1. now <= now
      BY Basics
    <2> QED BY <1>2, <1>3, <2>1 DEF SubscriptionInv, TypeOK
  <1>5. Cardinality(DOMAIN subs') = Cardinality(DOMAIN subs) + 1
    BY <1>3, <1>4, Basics, FS_AddElement
  <1>6. TwaOK(twa', now)
    BY Basics, AccumulateOK DEF Subscribe, AtJoin
  <1>7. CountMatchesList'
    BY <1>3, <1>4, <1>5 DEF SubscriptionInv, CountMatchesList
  <1>8. TypeOK'
    <2>1. /\ now' = now /\ config' = config /\ member' = member /\ rewarded' = rewarded
          /\ served' = served /\ costs' = costs /\ activeSubs' \in Nat
          /\ expired' \subseteq Addr /\ DOMAIN subs' \subseteq Addr
      BY <1>3, <1>4 DEF SubscriptionInv, TypeOK, history
    <2> QED BY <1>4, <1>6, <2>1 DEF SubscriptionInv, TypeOK, TwaOK
  <1> QED BY <1>6, <1>7, <1>8 DEF SubscriptionInv, TwaOK

LEMMA ClaimInv ==
  ASSUME SubscriptionInv, NEW a \in Addr, ClaimEmissions(a)
  PROVE  SubscriptionInv'
  <1> DEFINE new == [subs[a] EXCEPT !.claimed = now]
  <1>1. subs[a] \in Subscriber /\ a \in DOMAIN subs /\ now \in Nat /\ now - subs[a].claimed \in Nat
    BY Basics DEF ClaimEmissions, SubscriptionInv, TypeOK
  <1>2. new \in Subscriber /\ new.claimed = now
    BY <1>1 DEF Subscriber
  <1>3. Claimed(a) = [subs EXCEPT ![a] = new]
    BY <1>1 DEF Claimed
  <1> HIDE DEF new
  <1>4. /\ subs' \in {subs, [subs EXCEPT ![a] = new]}
        /\ rewarded' \in {rewarded, [rewarded EXCEPT ![a] = rewarded[a] + now - subs[a].claimed]}
    BY <1>3 DEF ClaimEmissions
  <1>5. /\ DOMAIN subs' = DOMAIN subs /\ subs' \in [DOMAIN subs -> Subscriber]
        /\ \A b \in DOMAIN subs : subs'[b].claimed <= now
    BY <1>1, <1>2, <1>4 DEF SubscriptionInv, TypeOK
  <1>6. rewarded[a] + now - subs[a].claimed \in Nat
    BY <1>1, Basics DEF SubscriptionInv, TypeOK
  <1>7. rewarded' \in [Addr -> Nat]
    BY <1>4, <1>6 DEF SubscriptionInv, TypeOK
  <1> QED BY <1>5, <1>7 DEF ClaimEmissions, SubscriptionInv, TypeOK, CountMatchesList

LEMMA UnsubscribeInv ==
  ASSUME SubscriptionInv, NEW list \in Lists, Unsubscribe(list)
  PROVE  SubscriptionInv'
  <1>1. Leaving(list) \subseteq DOMAIN subs
    BY DEF Unsubscribe, Leaving
  <1>2. /\ IsFiniteSet(Leaving(list)) /\ Cardinality(Leaving(list)) \in Nat
        /\ Cardinality(Leaving(list)) <= Cardinality(DOMAIN subs)
        /\ Cardinality(DOMAIN subs \ Leaving(list)) = Cardinality(DOMAIN subs) - Cardinality(Leaving(list))
    <2>1. /\ IsFiniteSet(Leaving(list)) /\ Cardinality(Leaving(list)) \in Nat
          /\ Cardinality(Leaving(list)) <= Cardinality(DOMAIN subs)
      BY <1>1, Basics, FS_Subset, FS_CardinalityType
    <2>2. Cardinality(DOMAIN subs \ Leaving(list))
            = Cardinality(DOMAIN subs) - Cardinality(DOMAIN subs \cap Leaving(list))
      BY Basics, FS_Difference
    <2>3. DOMAIN subs \cap Leaving(list) = Leaving(list)
      BY <1>1
    <2> QED BY <2>1, <2>2, <2>3
  <1>3. /\ subs' = [b \in DOMAIN subs \ Leaving(list) |-> subs[b]]
        /\ expired' = expired \cup Leaving(list)
        /\ activeSubs' = activeSubs - Cardinality(Leaving(list))
        /\ UNCHANGED <<now, config, member, served, costs>>
    BY DEF Unsubscribe, Left
  <1>4. TwaOK(twa', now)
    BY Basics, AccumulateOK DEF Unsubscribe, AtLeave
  <1>5. rewarded' \in [Addr -> Nat]
    <2> SUFFICES ASSUME NEW a \in Addr, a \in Leaving(list)
                 PROVE  rewarded[a] + now - subs[a].claimed \in Nat
      BY DEF Unsubscribe, SubscriptionInv, TypeOK
    <2>1. a \in DOMAIN subs
      BY <1>1
    <2>2. rewarded[a] \in Nat /\ now \in Nat /\ subs[a].claimed \in Nat /\ now - subs[a].claimed \in Nat
      BY <2>1, Basics DEF SubscriptionInv, TypeOK
    <2> QED BY <2>2
  <1>6. CountMatchesList'
    BY <1>2, <1>3 DEF SubscriptionInv, CountMatchesList
  <1>7. activeSubs' \in Nat
    BY <1>2, <1>3, Basics DEF SubscriptionInv, CountMatchesList
  <1>8. TypeOK'
    BY <1>1, <1>3, <1>4, <1>5, <1>7 DEF SubscriptionInv, TypeOK, TwaOK
  <1> QED BY <1>4, <1>6, <1>8 DEF SubscriptionInv, TwaOK

LEMMA NextInv == SubscriptionInv /\ [Next]_vars => SubscriptionInv'
  <1> SUFFICES ASSUME SubscriptionInv, [Next]_vars PROVE SubscriptionInv'
    OBVIOUS
  <1>1. ASSUME NEW new \in Configs, UpdateSubscriptionConfig(new) PROVE SubscriptionInv'
    <2>1. new.cost \in Nat
      BY SubscriptionAssumption DEF Config
    <2> QED BY <1>1, <2>1 DEF UpdateSubscriptionConfig, subVars, SubscriptionInv, TypeOK, CountMatchesList
  <1>2. CASE RefreshTWA
    <2>1. TwaOK(twa', now)
      BY <1>2, Basics, UpdateOK DEF RefreshTWA
    <2> QED BY <1>2, <2>1 DEF RefreshTWA, subVars, history, SubscriptionInv, TypeOK, CountMatchesList, TwaOK
  <1>3. CASE UNCHANGED vars
    BY <1>3 DEF vars, subVars, history, SubscriptionInv, TypeOK, CountMatchesList
  <1> QED BY <1>1, <1>2, <1>3, TickInv, ExtendInv, SubscribeInv, ClaimInv, UnsubscribeInv DEF Next

LEMMA InvHolds == Spec => []SubscriptionInv
  BY InitInv, NextInv, PTL DEF Spec

\* Every item of the app has its type, and no time that accumulate, needs_refresh and
\* claim_emissions_msg subtract from the block time is ahead of it.
THEOREM TypeCorrect == Spec => []TypeOK
  BY InvHolds, PTL DEF SubscriptionInv

\* The stored count that shares are divided by is the number of subscribers, and nobody
\* is active and expired at once (try_pay, unsubscribe).
THEOREM CountAlwaysMatches == Spec => []CountMatchesList
  BY InvHolds, PTL DEF SubscriptionInv

-----------------------------------------------------------------------------
(* Emissions *)

\* The seconds an address may still claim.
Claimable(a) == IF a \in DOMAIN subs THEN now - subs[a].claimed ELSE 0

LEMMA RewardsInit == Init => SecondsRewardedOnce
  BY DEF Init, SecondsRewardedOnce

LEMMA RewardsNext ==
  ASSUME SubscriptionInv, SubscriptionInv', SecondsRewardedOnce, [Next]_vars
  PROVE  SecondsRewardedOnce'
  <1> SUFFICES ASSUME NEW a \in Addr
               PROVE  rewarded'[a] + Claimable(a)' <= member'[a]
    BY DEF SecondsRewardedOnce, Claimable
  <1>1. rewarded[a] \in Nat /\ member[a] \in Nat /\ now \in Nat
    BY Basics DEF SubscriptionInv, TypeOK
  <1>2. Claimable(a) \in Nat
    BY Basics DEF Claimable
  <1>3. rewarded[a] + Claimable(a) <= member[a]
    BY DEF SecondsRewardedOnce, Claimable
  <1>4. CASE Tick
    <2>1. rewarded'[a] = rewarded[a] /\ member'[a] = member[a] + (IF a \in DOMAIN subs THEN 1 ELSE 0)
      BY <1>4 DEF Tick, TimePasses
    <2>2. Claimable(a)' = Claimable(a) + (IF a \in DOMAIN subs THEN 1 ELSE 0)
      BY <1>4, Basics DEF Tick, TimePasses, Claimable, subVars
    <2> QED BY <1>1, <1>2, <1>3, <2>1, <2>2
  <1>5. ASSUME NEW b \in Addr, NEW payment \in Payment, Extend(b, payment)
        PROVE  rewarded'[a] + Claimable(a)' <= member'[a]
    <2>1. \A c \in DOMAIN subs : subs'[c].claimed = subs[c].claimed
      BY <1>5 DEF Extend, SubscriptionInv, TypeOK, Subscriber
    <2>2. DOMAIN subs' = DOMAIN subs /\ rewarded' = rewarded /\ member' = member /\ now' = now
      BY <1>5 DEF Extend, history
    <2>3. Claimable(a)' = Claimable(a)
      BY <2>1, <2>2 DEF Claimable
    <2> QED BY <1>3, <2>2, <2>3
  <1>6. ASSUME NEW b \in Addr, NEW payment \in Payment, Subscribe(b, payment)
        PROVE  rewarded'[a] + Claimable(a)' <= member'[a]
    <2>1. /\ DOMAIN subs' = DOMAIN subs \cup {b} /\ b \notin DOMAIN subs
          /\ \A c \in DOMAIN subs : subs'[c] = subs[c]
          /\ rewarded' = rewarded /\ member' = member /\ now' = now
      BY <1>6 DEF Subscribe, history
    <2>2. subs'[b].claimed = now
      BY <1>6 DEF Subscribe
    <2>3. Claimable(a)' = Claimable(a)
      BY <1>1, <2>1, <2>2 DEF Claimable
    <2> QED BY <1>3, <2>1, <2>3
  <1>7. ASSUME NEW b \in Addr, ClaimEmissions(b)
        PROVE  rewarded'[a] + Claimable(a)' <= member'[a]
    <2>1. member' = member /\ now' = now /\ b \in DOMAIN subs
      BY <1>7 DEF ClaimEmissions
    <2>2. CASE Emission(b, activeSubs) # 0
      <3>1. subs' = Claimed(b) /\ rewarded' = [rewarded EXCEPT ![b] = rewarded[b] + now - subs[b].claimed]
        BY <1>7, <2>2 DEF ClaimEmissions
      <3>2. /\ DOMAIN subs' = DOMAIN subs
            /\ \A c \in DOMAIN subs : subs'[c].claimed = IF c = b THEN now ELSE subs[c].claimed
        BY <3>1 DEF Claimed, SubscriptionInv, TypeOK, Subscriber
      <3>3. CASE a = b
        <4>1. Claimable(a)' = 0
          BY <1>1, <2>1, <3>2, <3>3 DEF Claimable
        <4>2. rewarded'[a] = rewarded[a] + now - subs[a].claimed
          BY <3>1, <3>3 DEF SubscriptionInv, TypeOK
        <4>3. Claimable(a) = now - subs[a].claimed /\ subs[a].claimed \in Nat
          BY <2>1, <3>3, Basics DEF Claimable
        <4> QED BY <1>1, <1>3, <2>1, <4>1, <4>2, <4>3
      <3>4. CASE a # b
        <4>1. Claimable(a)' = Claimable(a)
          BY <2>1, <3>2, <3>4 DEF Claimable
        <4>2. rewarded'[a] = rewarded[a]
          BY <3>1, <3>4 DEF SubscriptionInv, TypeOK
        <4> QED BY <1>3, <2>1, <4>1, <4>2
      <3> QED BY <3>3, <3>4
    <2>3. CASE Emission(b, activeSubs) = 0
      <3>1. subs' = subs /\ rewarded' = rewarded
        BY <1>7, <2>3 DEF ClaimEmissions
      <3> QED BY <1>3, <2>1, <3>1 DEF Claimable
    <2> QED BY <2>2, <2>3
  <1>8. ASSUME NEW list \in Lists, Unsubscribe(list)
        PROVE  rewarded'[a] + Claimable(a)' <= member'[a]
    <2>1. /\ DOMAIN subs' = DOMAIN subs \ Leaving(list) /\ Leaving(list) \subseteq DOMAIN subs
          /\ \A c \in DOMAIN subs' : subs'[c] = subs[c]
          /\ member' = member /\ now' = now
      BY <1>8 DEF Unsubscribe, Leaving
    <2>2. CASE a \in Leaving(list)
      <3>1. Claimable(a)' = 0
        BY <2>1, <2>2 DEF Claimable
      <3>2. rewarded'[a] \in {rewarded[a], rewarded[a] + now - subs[a].claimed}
        BY <1>8 DEF Unsubscribe
      <3>3. Claimable(a) = now - subs[a].claimed /\ subs[a].claimed \in Nat
        BY <2>1, <2>2, Basics DEF Claimable
      <3> QED BY <1>1, <1>2, <1>3, <2>1, <3>1, <3>2, <3>3
    <2>3. CASE a \notin Leaving(list)
      <3>1. Claimable(a)' = Claimable(a)
        BY <2>1, <2>3 DEF Claimable
      <3>2. rewarded'[a] = rewarded[a]
        BY <1>8, <2>3 DEF Unsubscribe
      <3> QED BY <1>3, <2>1, <3>1, <3>2
    <2> QED BY <2>2, <2>3
  <1>9. CASE (\E new \in Configs : UpdateSubscriptionConfig(new)) \/ RefreshTWA \/ UNCHANGED vars
    <2>1. UNCHANGED <<now, subs, rewarded, member>>
      BY <1>9 DEF UpdateSubscriptionConfig, RefreshTWA, vars, subVars, history
    <2> QED BY <1>3, <2>1 DEF Claimable
  <1> QED BY <1>4, <1>5, <1>6, <1>7, <1>8, <1>9 DEF Next

\* No second of a subscription is paid emissions for twice, however claims, payments and
\* batches of unsubscriptions interleave (claim_emissions_msg and its callers).
THEOREM SecondsAreRewardedOnce == Spec => []SecondsRewardedOnce
  <1>1. SecondsRewardedOnce /\ SubscriptionInv /\ SubscriptionInv' /\ [Next]_vars => SecondsRewardedOnce'
    BY RewardsNext
  <1> QED BY <1>1, RewardsInit, InvHolds, PTL DEF Spec

-----------------------------------------------------------------------------
\* A subscription that begins lasts a whole averaging period, unless it was paid for
\* more seconds than the code can count, and nobody is taken off the list before the end
\* of what was credited, for every price and period (try_pay's required payment is
\* rounded up, what it buys is rounded down and cut to 64 bits; unsubscribe).
THEOREM PaidTimeIsAlwaysServed == Spec => PaidTimeIsServed
  <1> DEFINE Long(a) ==
        \/ subs'[a].until >= now + Period
        \/ \E p \in Payment : Subscribe(a, p) /\ Bought(p.amount) >= U64
  <1> DEFINE Step ==
        /\ \A a \in DOMAIN subs' \ DOMAIN subs : Long(a)
        /\ \A a \in DOMAIN subs \ DOMAIN subs' : now >= subs[a].until
        /\ \A a \in DOMAIN subs \cap DOMAIN subs' : subs'[a].until >= subs[a].until
  <1>1. ASSUME SubscriptionInv, [Next]_vars PROVE Step
    <2>1. \A a \in DOMAIN subs : subs[a].until \in Nat
      BY <1>1, Basics
    <2>2. ASSUME UNCHANGED subs PROVE Step
      BY <2>1, <2>2
    <2>3. ASSUME NEW a \in Addr, NEW payment \in Payment, Extend(a, payment) PROVE Step
      <3>1. PaidSeconds(payment.amount) \in Nat
        BY <1>1, <2>3, PaidType DEF Extend
      <3>2. /\ DOMAIN subs' = DOMAIN subs
            /\ \A b \in DOMAIN subs :
                 subs'[b].until = subs[b].until + (IF b = a THEN PaidSeconds(payment.amount) ELSE 0)
        BY <1>1, <2>1, <2>3 DEF Extend, SubscriptionInv, TypeOK, Subscriber
      <3> QED BY <2>1, <3>1, <3>2
    <2>4. ASSUME NEW a \in Addr, NEW payment \in Payment, Subscribe(a, payment) PROVE Step
      <3>1. /\ DOMAIN subs' = DOMAIN subs \cup {a} /\ a \notin DOMAIN subs
            /\ \A b \in DOMAIN subs : subs'[b] = subs[b]
            /\ subs'[a].until = now + PaidSeconds(payment.amount)
        BY <2>4 DEF Subscribe
      <3>2. /\ payment.amount \in Nat /\ config.cost \in Nat \ {0} /\ Period \in Nat
            /\ payment.amount >= MulCeil(Period, config.cost)
        BY <1>1, <2>4, Basics, SubscriptionAssumption
           DEF Subscribe, RequiredPayment, SubscriptionInv, Config
      <3>3. Bought(payment.amount) \in Nat /\ Bought(payment.amount) >= Period
        BY <3>2, PaymentBuysPeriod DEF Bought
      <3>4. now \in Nat
        BY <1>1, Basics
      <3>5. Long(a)
        <4>1. CASE Bought(payment.amount) >= U64
          BY <2>4, <4>1
        <4>2. CASE Bought(payment.amount) < U64
          <5>1. PaidSeconds(payment.amount) = Bought(payment.amount)
            BY <3>3, <4>2, SubscriptionAssumption DEF PaidSeconds
          <5> QED BY <3>1, <3>2, <3>3, <3>4, <5>1
        <4> QED BY <3>3, <4>1, <4>2, SubscriptionAssumption
      <3> HIDE DEF Long
      <3> QED BY <2>1, <3>1, <3>5
    <2>5. ASSUME NEW a \in Addr, ClaimEmissions(a) PROVE Step
      <3>1. DOMAIN subs' = DOMAIN subs /\ \A b \in DOMAIN subs : subs'[b].until = subs[b].until
        BY <1>1, <2>5 DEF ClaimEmissions, Claimed, SubscriptionInv, TypeOK, Subscriber
      <3> QED BY <2>1, <3>1
    <2>6. ASSUME NEW list \in Lists, Unsubscribe(list) PROVE Step
      <3>1. /\ DOMAIN subs' = DOMAIN subs \ Leaving(list)
            /\ \A b \in DOMAIN subs' : subs'[b] = subs[b]
        BY <2>6 DEF Unsubscribe
      <3>2. \A b \in Leaving(list) : now >= subs[b].until
        BY DEF Leaving, IsExpired
      <3> QED BY <2>1, <3>1, <3>2
    <2>7. Tick \/ (\E new \in Configs : UpdateSubscriptionConfig(new)) \/ RefreshTWA \/ UNCHANGED vars
            => UNCHANGED subs
      BY DEF Tick, TimePasses, UpdateSubscriptionConfig, RefreshTWA, vars, subVars
    <2> QED BY <1>1, <2>2, <2>3, <2>4, <2>5, <2>6, <2>7 DEF Next
  <1>2. SubscriptionInv /\ [Next]_vars => [Step]_vars
    BY <1>1
  <1> QED BY <1>2, InvHolds, PTL DEF Spec, PaidTimeIsServed

-----------------------------------------------------------------------------
(* Income *)

\* The seconds of subscription that the average has been told of.
Accounted == served - Cardinality(DOMAIN subs) * (now - twa.last)

\* The bounds are those of the highest and the lowest price there has been.
IncomeInv ==
  /\ Accounted \in Nat
  /\ config.cost \in costs
  /\ \E c \in costs : (\A d \in costs : d <= c) /\ twa.cumulative * Unit <= c * Accounted
  /\ \E c \in costs : (\A d \in costs : c <= d)
                      /\ c * Accounted <= (twa.cumulative + twa.last) * Unit

\* A change of the count or the seconds keeps both bounds.
LEMMA FloorBounds ==
  ASSUME NEW x \in Nat
  PROVE  LET m == x \div Unit IN m \in Nat /\ m * Unit \in Nat /\ m * Unit <= x /\ x <= m * Unit + Unit
  <1> DEFINE m == x \div Unit
  <1>1. Unit \in Nat \ {0}
    BY UnitAssumption
  <1>2. m \in Nat /\ x % Unit \in 0 .. Unit - 1 /\ x = Unit * m + (x % Unit)
    BY <1>1, Division
  <1> HIDE DEF m
  <1>3. Unit * m \in Nat /\ m * Unit = Unit * m
    BY <1>1, <1>2
  <1>4. m \in Nat /\ m * Unit \in Nat /\ m * Unit <= x /\ x <= m * Unit + Unit
    BY <1>1, <1>2, <1>3
  <1> QED BY <1>4 DEF m

LEMMA AccumulateBounds ==
  ASSUME NEW sum \in Nat, NEW last \in Nat, NEW seconds \in Nat, NEW n \in Nat,
         NEW dt \in Nat \ {0}, NEW k \in Nat, NEW c \in Nat
  PROVE  LET more == MulFloor(dt, n * k) IN
         /\ more \in Nat
         /\ k <= c /\ sum * Unit <= c * seconds => (sum + more) * Unit <= c * (seconds + n * dt)
         /\ c <= k /\ c * seconds <= (sum + last) * Unit
              => c * (seconds + n * dt) <= (sum + more + (last + dt)) * Unit
  <1> DEFINE w == n * dt
             x == dt * (n * k)
             more == x \div Unit
  <1>1. w \in Nat /\ x \in Nat /\ x = w * k /\ w * k = k * w
    OBVIOUS
  <1>2. more \in Nat /\ more * Unit \in Nat /\ more * Unit <= x /\ x <= more * Unit + Unit
    <2> HIDE DEF x
    <2> QED BY <1>1, FloorBounds
  <1>3. Unit \in Nat \ {0}
    BY UnitAssumption
  <1> HIDE DEF w, x, more
  <1>4. w * c \in Nat /\ w * k \in Nat /\ c * (seconds + w) = c * seconds + w * c /\ c * seconds \in Nat
    BY <1>1
  <1>5. ASSUME k <= c, sum * Unit <= c * seconds
        PROVE  (sum + more) * Unit <= c * (seconds + w)
    <2>1. w * k <= w * c
      BY <1>1, <1>5, ProductMonotone
    <2>2. (sum + more) * Unit = sum * Unit + more * Unit /\ sum * Unit \in Nat
      BY <1>2, <1>3
    <2> QED BY <1>1, <1>2, <1>4, <1>5, <2>1, <2>2
  <1>6. ASSUME c <= k, c * seconds <= (sum + last) * Unit
        PROVE  c * (seconds + w) <= (sum + more + (last + dt)) * Unit
    <2>1. w * c <= w * k
      BY <1>1, <1>6, ProductMonotone
    <2>2. Unit * 1 <= Unit * dt /\ Unit * dt \in Nat
      BY <1>3, ProductMonotone
    <2>3. /\ (sum + more + (last + dt)) * Unit = (sum + last) * Unit + more * Unit + Unit * dt
          /\ (sum + last) * Unit \in Nat
      BY <1>2, <1>3
    <2> QED BY <1>1, <1>2, <1>3, <1>4, <1>6, <2>1, <2>2, <2>3
  <1> QED BY <1>2, <1>5, <1>6 DEF w, x, more, MulFloor

LEMMA OneMore ==
  ASSUME NEW n \in Nat, NEW t \in Nat, NEW last \in Nat
  PROVE  n * (t + 1 - last) = n * (t - last) + n
  <1>1. t + 1 - last = (t - last) + 1 /\ t - last \in Int
    OBVIOUS
  <1>2. \A d \in Int : n * (d + 1) = n * d + n
    OBVIOUS
  <1> QED BY <1>1, <1>2

LEMMA IncomeInit == Init => IncomeInv
  <1> SUFFICES ASSUME Init PROVE IncomeInv
    OBVIOUS
  <1>1. twa.cumulative = 0 /\ twa.last = 0 /\ now = 0 /\ served = 0
    BY DEF Init, NewTwa
  <1>2. Cardinality(DOMAIN subs) = 0
    BY FS_EmptySet DEF Init
  <1>3. Accounted = 0
    BY <1>1, <1>2 DEF Accounted
  <1>4. costs = {config.cost} /\ config.cost \in Nat
    BY SubscriptionAssumption DEF Init, Config
  <1> QED BY <1>1, <1>3, <1>4, UnitAssumption DEF IncomeInv

\* The steps that tell the average of the subscribers there were: try_pay, unsubscribe.
LEMMA IncomeAccumulated ==
  ASSUME SubscriptionInv, SubscriptionInv', IncomeInv, twa' = Accumulate(twa, now, Income),
         UNCHANGED <<now, config, served, costs>>
  PROVE  IncomeInv'
  <1>1. /\ twa \in TwaData /\ twa' \in TwaData /\ now \in Nat /\ twa.last <= now
        /\ served \in Nat /\ costs \subseteq Nat /\ config.cost \in costs
    BY Basics DEF SubscriptionInv, TypeOK, IncomeInv
  <1>2. Cardinality(DOMAIN subs) \in Nat /\ Cardinality(DOMAIN subs)' \in Nat
    <2>1. Cardinality(DOMAIN subs) = activeSubs /\ activeSubs \in Nat
      BY DEF SubscriptionInv, TypeOK, CountMatchesList
    <2>2. Cardinality(DOMAIN subs)' = activeSubs' /\ activeSubs' \in Nat
      BY DEF SubscriptionInv, TypeOK, CountMatchesList
    <2> QED BY <2>1, <2>2
  <1>3. CASE now <= twa.last
    <2>1. twa' = twa /\ twa.last = now
      BY <1>1, <1>3 DEF Accumulate, TwaData
    <2>2. Accounted = served /\ Accounted' = served
      BY <1>1, <1>2, <2>1 DEF Accounted
    <2> QED BY <2>1, <2>2 DEF IncomeInv
  <1>4. CASE ~(now <= twa.last)
    <2> DEFINE n == Cardinality(DOMAIN subs)
               dt == now - twa.last
               more == MulFloor(dt, n * config.cost)
    <2>1. dt \in Nat \ {0} /\ twa.last + dt = now /\ twa.last \in Nat /\ twa.cumulative \in Nat
      BY <1>1, <1>4 DEF TwaData
    <2>2. Income = n * config.cost
      BY DEF Income, SubscriptionInv, CountMatchesList
    <2>3. twa'.last = now /\ twa'.cumulative = twa.cumulative + more
      BY <1>1, <1>4, <2>2 DEF Accumulate, TwaData
    <2>4. Accounted' = served
      BY <1>1, <1>2, <2>3 DEF Accounted
    <2>5. Accounted = served - n * dt /\ n * dt \in Nat /\ Accounted \in Nat
      BY <1>2, <2>1 DEF Accounted, IncomeInv
    <2>6. Accounted' = Accounted + n * dt /\ Accounted' \in Nat
      BY <1>1, <2>4, <2>5
    <2> HIDE DEF n, dt
    <2>7. ASSUME NEW c \in costs
          PROVE  /\ config.cost <= c /\ twa.cumulative * Unit <= c * Accounted
                      => (twa.cumulative + more) * Unit <= c * (Accounted + n * dt)
                 /\ c <= config.cost /\ c * Accounted <= (twa.cumulative + twa.last) * Unit
                      => c * (Accounted + n * dt) <= (twa.cumulative + more + (twa.last + dt)) * Unit
      BY <1>1, <1>2, <2>1, <2>5, AccumulateBounds DEF n
    <2> HIDE DEF more
    <2>8. \E c \in costs : (\A d \in costs : d <= c) /\ twa'.cumulative * Unit <= c * Accounted'
      <3>1. PICK c \in costs : (\A d \in costs : d <= c) /\ twa.cumulative * Unit <= c * Accounted
        BY DEF IncomeInv
      <3> QED BY <1>1, <2>3, <2>6, <2>7, <3>1
    <2>9. \E c \in costs : (\A d \in costs : c <= d)
                           /\ c * Accounted' <= (twa'.cumulative + twa'.last) * Unit
      <3>1. PICK c \in costs : (\A d \in costs : c <= d)
                               /\ c * Accounted <= (twa.cumulative + twa.last) * Unit
        BY DEF IncomeInv
      <3> QED BY <1>1, <2>1, <2>3, <2>6, <2>7, <3>1
    <2> QED BY <1>1, <2>6, <2>8, <2>9 DEF IncomeInv
  <1> QED BY <1>3, <1>4

\* update_subscription_config
LEMMA IncomePriced ==
  ASSUME SubscriptionInv, IncomeInv, NEW new \in Configs, UpdateSubscriptionConfig(new)
  PROVE  IncomeInv'
  <1>1. /\ config' = new /\ costs' = costs \cup {new.cost} /\ new.cost \in Nat /\ costs \subseteq Nat
        /\ UNCHANGED <<now, subs, served, twa>>
    BY SubscriptionAssumption
       DEF UpdateSubscriptionConfig, subVars, SubscriptionInv, TypeOK, Config
  <1>2. Accounted' = Accounted /\ Accounted \in Nat
    BY <1>1 DEF Accounted, IncomeInv
  <1>3. twa.cumulative \in Nat /\ twa.last \in Nat /\ Unit \in Nat
    BY UnitAssumption DEF SubscriptionInv, TypeOK, TwaData
  <1>4. \E c \in costs' : (\A d \in costs' : d <= c) /\ twa.cumulative * Unit <= c * Accounted
    <2>1. PICK c \in costs : (\A d \in costs : d <= c) /\ twa.cumulative * Unit <= c * Accounted
      BY DEF IncomeInv
    <2>2. CASE new.cost <= c
      BY <1>1, <2>1, <2>2
    <2>3. CASE c <= new.cost
      <3>1. c * Accounted <= new.cost * Accounted /\ c * Accounted \in Nat /\ new.cost * Accounted \in Nat
        BY <1>1, <1>2, <2>1, <2>3, ProductMonotone
      <3>2. twa.cumulative * Unit \in Nat
        BY <1>3
      <3>3. \A d \in costs' : d <= new.cost
        BY <1>1, <2>1, <2>3
      <3> QED BY <1>1, <2>1, <3>1, <3>2, <3>3
    <2> QED BY <1>1, <2>1, <2>2, <2>3
  <1>5. \E c \in costs' : (\A d \in costs' : c <= d) /\ c * Accounted <= (twa.cumulative + twa.last) * Unit
    <2>1. PICK c \in costs : (\A d \in costs : c <= d) /\ c * Accounted <= (twa.cumulative + twa.last) * Unit
      BY DEF IncomeInv
    <2>2. CASE c <= new.cost
      BY <1>1, <2>1, <2>2
    <2>3. CASE new.cost <= c
      <3>1. new.cost * Accounted <= c * Accounted /\ c * Accounted \in Nat /\ new.cost * Accounted \in Nat
        BY <1>1, <1>2, <2>1, <2>3, ProductMonotone
      <3>2. (twa.cumulative + twa.last) * Unit \in Nat
        BY <1>3
      <3>3. \A d \in costs' : new.cost <= d
        BY <1>1, <2>1, <2>3
      <3> QED BY <1>1, <2>1, <3>1, <3>2, <3>3
    <2> QED BY <1>1, <2>1, <2>2, <2>3
  <1> QED BY <1>1, <1>2, <1>4, <1>5 DEF IncomeInv

LEMMA IncomeNext ==
  ASSUME SubscriptionInv, SubscriptionInv', IncomeInv, [Next]_vars
  PROVE  IncomeInv'
  <1>1. ASSUME twa'.cumulative = twa.cumulative, twa'.last = twa.last, Accounted' = Accounted,
               UNCHANGED <<config, costs>>
        PROVE  IncomeInv'
    BY <1>1 DEF IncomeInv
  <1>2. CASE Tick
    <2>1. /\ now' = now + 1 /\ served' = served + Cardinality(DOMAIN subs)
          /\ UNCHANGED <<config, costs, twa, subs>>
      BY <1>2 DEF Tick, TimePasses, subVars
    <2>2. /\ now \in Nat /\ twa.last \in Nat /\ served \in Nat /\ Cardinality(DOMAIN subs) \in Nat
      BY Basics DEF SubscriptionInv, TypeOK, TwaData
    <2>3. Cardinality(DOMAIN subs) * (now + 1 - twa.last)
            = Cardinality(DOMAIN subs) * (now - twa.last) + Cardinality(DOMAIN subs)
      BY <2>2, OneMore
    <2>4. Cardinality(DOMAIN subs) * (now - twa.last) \in Int
      BY <2>2
    <2>5. Accounted' = served + Cardinality(DOMAIN subs) - Cardinality(DOMAIN subs) * (now + 1 - twa.last)
      <3>1. Cardinality(DOMAIN subs)' = Cardinality(DOMAIN subs) /\ (now - twa.last)' = now + 1 - twa.last
        BY <2>1, <2>2
      <3>2. Accounted' = served' - Cardinality(DOMAIN subs)' * (now - twa.last)'
        BY DEF Accounted
      <3> QED BY <2>1, <2>2, <2>3, <2>4, <3>1, <3>2
    <2>6. Accounted' = Accounted
      <3> DEFINE n == Cardinality(DOMAIN subs)
                 old == n * (now - twa.last)
                 new == n * (now + 1 - twa.last)
      <3>1. new = old + n /\ old \in Int /\ n \in Nat /\ Accounted' = served + n - new /\ Accounted = served - old
        BY <2>2, <2>3, <2>4, <2>5 DEF Accounted
      <3> HIDE DEF n, old, new
      <3> QED BY <2>2, <3>1
    <2> QED BY <1>1, <2>1, <2>6
  <1>3. ASSUME NEW a \in Addr, NEW payment \in Payment, Extend(a, payment) PROVE IncomeInv'
    BY <1>1, <1>3 DEF Extend, history, Accounted
  <1>4. ASSUME NEW a \in Addr, ClaimEmissions(a) PROVE IncomeInv'
    <2>1. DOMAIN subs' = DOMAIN subs
      BY <1>4 DEF ClaimEmissions, Claimed
    <2> QED BY <1>1, <1>4, <2>1 DEF ClaimEmissions, Accounted
  <1>5. ASSUME NEW a \in Addr, NEW payment \in Payment, Subscribe(a, payment) PROVE IncomeInv'
    BY <1>5, IncomeAccumulated DEF Subscribe, AtJoin, history
  <1>6. ASSUME NEW list \in Lists, Unsubscribe(list) PROVE IncomeInv'
    BY <1>6, IncomeAccumulated DEF Unsubscribe, AtLeave
  <1>7. CASE RefreshTWA
    <2>1. twa'.cumulative = twa.cumulative /\ twa'.last = twa.last
      BY <1>7 DEF RefreshTWA, TryUpdateValue, SubscriptionInv, TypeOK, TwaData
    <2> QED BY <1>1, <1>7, <2>1 DEF RefreshTWA, subVars, history, Accounted
  <1>8. CASE UNCHANGED vars
    BY <1>1, <1>8 DEF vars, subVars, history, Accounted
  <1> QED BY <1>2, <1>3, <1>4, <1>5, <1>6, <1>7, <1>8, IncomePriced DEF Next

\* The income behind the average is that of the subscribers there were, at a price there
\* has been, up to what each call of accumulate rounds off, for every order of joins,
\* batches and price changes (accumulate, called by try_pay and unsubscribe).
THEOREM IncomeAlwaysTracksSubscribers == Spec => []IncomeTracksSubscribers
  <1>1. IncomeInv /\ SubscriptionInv /\ SubscriptionInv' /\ [Next]_vars => IncomeInv'
    BY IncomeNext
  <1>2. IncomeInv => IncomeTracksSubscribers
    BY DEF IncomeInv, IncomeTracksSubscribers, Accounted
  <1> QED BY <1>1, <1>2, IncomeInit, InvHolds, PTL DEF Spec

-----------------------------------------------------------------------------
(* The calendar app *)

\* A meeting of day d: it lies in the opening hours of the day, lasts a minute at
\* least, and its stake is open or has been shared out.
Filed(m, d) ==
  /\ m.start + Offset \in d * Day .. d * Day + Closes
  /\ m.end + Offset \in d * Day .. d * Day + Closes
  /\ m.start < m.end
  /\ Minutes(m.start, m.end) \in Nat \ {0}
  /\ m.staked \in {0, m.paid}
  /\ m.back + m.income = m.paid - m.staked

CalendarInv ==
  /\ now \in Time
  /\ calendarConfig \in [price : Price, denom : Denom]
  /\ held \in [Denom -> Nat]
  /\ DOMAIN calendar \subseteq Int
  /\ \A d \in DOMAIN calendar : calendar[d] \in Seq(Meeting)
  /\ \A d \in DOMAIN calendar : \A k \in DOMAIN calendar[d] : Filed(calendar[d][k], d)

-----------------------------------------------------------------------------
(* Dates and shares *)

\* A number is its quotient and its remainder.
LEMMA WholeDivision ==
  ASSUME NEW x \in Int, NEW n \in Nat \ {0}
  PROVE  /\ x \div n \in Int /\ x % n \in 0 .. n - 1
         /\ x = n * (x \div n) + (x % n)
  OBVIOUS

\* The quotient of a natural number.
LEMMA NatQuotient ==
  ASSUME NEW x \in Nat, NEW n \in Nat \ {0}
  PROVE  x \div n \in Nat
  OBVIOUS

\* A share of late minutes of all minutes is at most the whole.
LEMMA ShareBounded ==
  ASSUME NEW staked \in Nat, NEW minutes \in Nat \ {0}, NEW late \in Nat, late <= minutes
  PROVE  (staked * late) \div minutes \in 0 .. staked
  <1> DEFINE q == (staked * late) \div minutes
  <1>1. staked * late \in Nat /\ staked * late <= staked * minutes
    OBVIOUS
  <1>2. q \in Nat /\ minutes * q <= staked * late
    <2> DEFINE x == staked * late
    <2> HIDE DEF x
    <2>1. x \in Nat /\ q = x \div minutes
      BY <1>1 DEF x
    <2> HIDE DEF q
    <2>2. /\ q \in Nat /\ x % minutes \in 0 .. minutes - 1
          /\ x = minutes * q + (x % minutes)
      <3>1. x \div minutes \in Nat
        BY <2>1, NatQuotient
      <3>2. x % minutes \in 0 .. minutes - 1 /\ x = minutes * (x \div minutes) + (x % minutes)
        BY <2>1, WholeDivision
      <3> QED BY <2>1, <3>1, <3>2
    <2>3. minutes * q \in Nat
      BY <2>2
    <2> QED BY <2>1, <2>2, <2>3 DEF x
  <1>3. ASSUME q > staked PROVE FALSE
    <2>1. minutes * q >= minutes * (staked + 1)
      BY <1>2, <1>3
    <2>2. minutes * (staked + 1) = staked * minutes + minutes
      OBVIOUS
    <2> QED BY <2>1, <2>2, <1>1, <1>2
  <1> QED BY <1>2, <1>3

\* The times that Meeting::new accepts are those of a meeting of one day.
LEMMA AcceptedTimes ==
  ASSUME NEW start \in Nat, NEW end \in Nat, Acceptable(start, end)
  PROVE  /\ DateOf(start) \in Int
         /\ start + Offset \in DateOf(start) * Day .. DateOf(start) * Day + Closes
         /\ end + Offset \in DateOf(start) * Day .. DateOf(start) * Day + Closes
         /\ start < end
         /\ Minutes(start, end) \in Nat
  <1>1. Day \in Nat \ {0} /\ Offset \in Int /\ Minute \in Nat \ {0} /\ Opens \in Nat /\ Closes \in Nat
    BY CalendarAssumption
  <1>2. /\ DateOf(start) \in Int
        /\ start + Offset = Day * DateOf(start) + TimeOf(start)
        /\ end + Offset = Day * DateOf(start) + TimeOf(end)
    <2>1. start + Offset \in Int /\ end + Offset \in Int
      BY <1>1
    <2>2. /\ start + Offset = Day * DateOf(start) + TimeOf(start) /\ DateOf(start) \in Int
          /\ end + Offset = Day * DateOf(end) + TimeOf(end)
      BY <1>1, <2>1, WholeDivision DEF DateOf, TimeOf
    <2> QED BY <2>2 DEF Acceptable
  <1>3. /\ TimeOf(start) \in Opens .. Closes /\ TimeOf(end) \in Opens .. Closes
        /\ TimeOf(start) < TimeOf(end)
    BY DEF Acceptable
  <1>4. DateOf(start) * Day \in Int /\ DateOf(start) * Day = Day * DateOf(start)
    BY <1>1, <1>2
  <1>5. start < end
    BY <1>1, <1>2, <1>3, <1>4
  <1>6. end - start \in Nat
    BY <1>5
  <1>7. Minutes(start, end) \in Nat
    BY <1>1, <1>6, NatQuotient DEF Minutes
  <1> QED BY <1>1, <1>2, <1>3, <1>4, <1>5, <1>7

-----------------------------------------------------------------------------
(* Meetings on file *)

LEMMA CalendarInitInv == CalendarInit => CalendarInv
  BY CalendarAssumption DEF CalendarInit, CalendarInv, Time

\* A booking is filed at the end of its day.
LEMMA RequestInv ==
  ASSUME CalendarInv, NEW start \in Time, NEW end \in Time, RequestMeeting(start, end)
  PROVE  CalendarInv'
  <1> DEFINE day == DateOf(start)
             amount == Minutes(start, end) * calendarConfig.price
             new == [start |-> start, end |-> end, staked |-> amount,
                     paid |-> amount, back |-> 0, income |-> 0]
  <1>1. start \in Nat /\ end \in Nat
    BY CalendarAssumption DEF Time
  <1>2. /\ day \in Int /\ start < end /\ Minutes(start, end) \in Nat
        /\ start + Offset \in day * Day .. day * Day + Closes
        /\ end + Offset \in day * Day .. day * Day + Closes
    BY <1>1, AcceptedTimes DEF RequestMeeting
  <1>3. calendarConfig.price \in Nat /\ calendarConfig.denom \in Denom
    BY CalendarAssumption DEF CalendarInv
  <1>4. amount \in Nat /\ amount # 0
    BY <1>2, <1>3 DEF RequestMeeting
  <1>5. Minutes(start, end) # 0
    BY <1>2, <1>3, <1>4
  <1>6. new \in Meeting /\ Filed(new, day)
    <2> HIDE DEF day, amount
    <2> QED BY <1>1, <1>2, <1>4, <1>5 DEF Meeting, Filed
  <1>7. MeetingsOn(day) \in Seq(Meeting)
    BY DEF MeetingsOn, CalendarInv
  <1>8. \A k \in DOMAIN MeetingsOn(day) : Filed(MeetingsOn(day)[k], day)
    BY DEF MeetingsOn, CalendarInv
  <1>9. /\ DOMAIN calendar' = DOMAIN calendar \cup {day}
        /\ calendar'[day] = Append(MeetingsOn(day), new)
        /\ \A d \in DOMAIN calendar \ {day} : calendar'[d] = calendar[d]
    BY DEF RequestMeeting
  <1> HIDE DEF new, day
  <1>10. /\ Append(MeetingsOn(day), new) \in Seq(Meeting)
         /\ \A k \in DOMAIN Append(MeetingsOn(day), new) : Filed(Append(MeetingsOn(day), new)[k], day)
    BY <1>6, <1>7, <1>8
  <1>11. \A d \in DOMAIN calendar' : /\ d \in Int /\ calendar'[d] \in Seq(Meeting)
                                     /\ \A k \in DOMAIN calendar'[d] : Filed(calendar'[d][k], d)
    BY <1>2, <1>9, <1>10 DEF CalendarInv
  <1>12. now' \in Time /\ calendarConfig' \in [price : Price, denom : Denom] /\ held' \in [Denom -> Nat]
    BY <1>3, <1>4 DEF RequestMeeting, CalendarInv
  <1> QED BY <1>11, <1>12 DEF CalendarInv, Filed, Minutes

\* Sharing out a stake touches that meeting and nothing else of it.
LEMMA StakeInv ==
  ASSUME CalendarInv, NEW day \in DOMAIN calendar, NEW k \in DOMAIN calendar[day],
         NEW slashed \in 0 .. calendar[day][k].staked, HandleStake(day, k, slashed)
  PROVE  CalendarInv'
  <1> DEFINE m == calendar[day][k]
             settled == [m EXCEPT !.staked = 0, !.back = m.back + m.staked - slashed,
                                  !.income = m.income + slashed]
  <1>1. m \in Meeting /\ Filed(m, day)
    BY DEF CalendarInv
  <1>2. settled \in Meeting
    <2>1. m.staked \in Nat /\ m.back \in Nat /\ m.income \in Nat /\ slashed \in 0 .. m.staked
      BY <1>1 DEF Meeting
    <2>2. m.back + m.staked - slashed \in Nat /\ m.income + slashed \in Nat
      BY <2>1
    <2> QED BY <1>1, <2>2 DEF Meeting
  <1>3. Filed(settled, day)
    BY <1>1 DEF Meeting, Filed, HandleStake
  <1>4. /\ DOMAIN calendar' = DOMAIN calendar
        /\ calendar'[day] = [calendar[day] EXCEPT ![k] = settled]
        /\ \A d \in DOMAIN calendar \ {day} : calendar'[d] = calendar[d]
    BY DEF HandleStake, Staked
  <1>5. calendar[day] \in Seq(Meeting)
    BY DEF CalendarInv
  <1> HIDE DEF settled, m
  <1>6. /\ calendar'[day] \in Seq(Meeting)
        /\ DOMAIN calendar'[day] = DOMAIN calendar[day]
    BY <1>2, <1>4, <1>5
  <1>7. \A l \in DOMAIN calendar'[day] : Filed(calendar'[day][l], day)
    BY <1>3, <1>4, <1>5, <1>6 DEF CalendarInv
  <1>8. calendarConfig.denom \in Denom /\ calendar[day][k].staked \in Nat
    BY <1>1 DEF CalendarInv, Meeting, m
  <1>9. now' \in Time /\ calendarConfig' \in [price : Price, denom : Denom] /\ held' \in [Denom -> Nat]
    BY <1>8 DEF HandleStake, CalendarInv
  <1>10. \A d \in DOMAIN calendar' : /\ d \in Int /\ calendar'[d] \in Seq(Meeting)
                                     /\ \A l \in DOMAIN calendar'[d] : Filed(calendar'[d][l], d)
    BY <1>4, <1>6, <1>7 DEF CalendarInv
  <1> QED BY <1>9, <1>10 DEF CalendarInv, Filed, Minutes

\* CalendarNext
LEMMA CalendarNextInv == CalendarInv /\ [CalendarNext]_calendarVars => CalendarInv'
  <1> SUFFICES ASSUME CalendarInv, [CalendarNext]_calendarVars PROVE CalendarInv'
    OBVIOUS
  <1>1. CASE CalendarTick
    BY <1>1, CalendarAssumption DEF CalendarTick, TimePasses, CalendarInv, Time, Filed, Minutes
  <1>2. ASSUME NEW start \in Time, NEW end \in Time, RequestMeeting(start, end)
        PROVE  CalendarInv'
    BY <1>2, RequestInv
  <1>3. ASSUME NEW x \in AllMeetings,
               \/ ReturnStake(x[1], x[2]) \/ SlashFullStake(x[1], x[2])
               \/ \E late \in 0 .. Day \div Minute : SlashPartialStake(x[1], x[2], late)
        PROVE  CalendarInv'
    <2> DEFINE day == x[1]
               k == x[2]
               m == calendar[day][k]
    <2>1. day \in DOMAIN calendar /\ k \in DOMAIN calendar[day]
      BY DEF AllMeetings
    <2>2. m \in Meeting /\ Filed(m, day)
      BY <2>1 DEF CalendarInv
    <2>3. m.staked \in Nat /\ 0 \in 0 .. m.staked /\ m.staked \in 0 .. m.staked
      BY <2>2 DEF Meeting
    <2>4. CASE ReturnStake(day, k)
      BY <2>1, <2>3, <2>4, StakeInv DEF ReturnStake
    <2>5. CASE SlashFullStake(day, k)
      BY <2>1, <2>3, <2>5, StakeInv DEF SlashFullStake
    <2>6. ASSUME NEW late \in 0 .. Day \div Minute, SlashPartialStake(day, k, late)
          PROVE  CalendarInv'
      <3> DEFINE minutes == Minutes(m.start, m.end)
                 slashed == Slashed(m.staked, late, minutes)
      <3>1. late \in Nat
        BY CalendarAssumption, NatQuotient
      <3>2. minutes \in Nat \ {0} /\ late <= minutes
        BY <2>2, <2>6 DEF Filed, SlashPartialStake
      <3> HIDE DEF minutes, m
      <3>3. slashed \in 0 .. m.staked
        BY <2>3, <3>1, <3>2, ShareBounded DEF Slashed
      <3>4. HandleStake(day, k, slashed)
        BY <2>6 DEF SlashPartialStake, minutes, m
      <3> HIDE DEF slashed
      <3> QED BY <2>1, <3>3, <3>4, StakeInv DEF m
    <2> QED BY <1>3, <2>4, <2>5, <2>6
  <1>4. ASSUME NEW price \in Price, NEW denom \in Denom, UpdateConfig(price, denom)
        PROVE  CalendarInv'
    BY <1>4 DEF UpdateConfig, CalendarInv, Time, Filed, Minutes
  <1>5. CASE UNCHANGED calendarVars
    BY <1>5 DEF calendarVars, CalendarInv, Time, Filed, Minutes
  <1> QED BY <1>1, <1>2, <1>3, <1>4, <1>5 DEF CalendarNext

LEMMA CalendarInvHolds == CalendarSpec => []CalendarInv
  BY CalendarInitInv, CalendarNextInv, PTL DEF CalendarSpec

-----------------------------------------------------------------------------
\* Every item of the app has its type, and every meeting is filed under the local date
\* of its first and of its last minute, for every offset and opening hours
\* (Meeting::new, request_meeting).
THEOREM CalendarTypeCorrect == CalendarSpec => []CalendarTypeOK
  <1>1. CalendarInv => CalendarTypeOK
    BY DEF CalendarInv, CalendarTypeOK, Filed
  <1> QED BY <1>1, CalendarInvHolds, PTL

\* A stake is shared out once, and to the last coin, between the requester and the
\* account (handle_stake, with the rounding of slash_partial_stake).
THEOREM StakesAreSharedOnce == CalendarSpec => []StakesSharedOnce
  <1>1. CalendarInv => StakesSharedOnce
    <2> SUFFICES ASSUME CalendarInv, NEW x \in AllMeetings
                 PROVE  LET m == calendar[x[1]][x[2]] IN
                          /\ m.staked \in {0, m.paid}
                          /\ m.back + m.income = m.paid - m.staked
                          /\ m.back >= 0 /\ m.income >= 0
      BY DEF StakesSharedOnce
    <2>1. x[1] \in DOMAIN calendar /\ x[2] \in DOMAIN calendar[x[1]]
      BY DEF AllMeetings
    <2>2. calendar[x[1]][x[2]] \in Meeting /\ Filed(calendar[x[1]][x[2]], x[1])
      BY <2>1 DEF CalendarInv
    <2> QED BY <2>2 DEF Filed, Meeting
  <1> QED BY <1>1, CalendarInvHolds, PTL

-----------------------------------------------------------------------------
(* What the stakes add up to *)

\* The stake of each meeting of M on file in cal.
StakesIn(cal, M) == [x \in M |-> cal[x[1]][x[2]].staked]

Adding(it, cal, M) ==
  it = [s \in SUBSET M |-> IF s = {} THEN 0
                           ELSE it[s \ {CHOOSE x \in s : TRUE}]
                                + cal[(CHOOSE x \in s : TRUE)[1]][(CHOOSE x \in s : TRUE)[2]].staked]

\* The fold that adds up the stakes, and the same a step later.
LEMMA FoldAdds ==
  /\ OpenStakes = (CHOOSE it : Adding(it, calendar, AllMeetings))[AllMeetings]
  /\ OpenStakes' = (CHOOSE it : Adding(it, calendar', AllMeetings'))[AllMeetings']
  <1>1. OpenStakes = (CHOOSE it : Adding(it, calendar, AllMeetings))[AllMeetings]
    BY Zenon DEF OpenStakes, FoldSet, MapThenFoldSet, Adding
  <1>2. OpenStakes' = (CHOOSE it : Adding(it, calendar', AllMeetings'))[AllMeetings']
    BY Zenon DEF OpenStakes, FoldSet, MapThenFoldSet, Adding
  <1> QED BY <1>1, <1>2

\* The fold of StakesBacked is a sum over the meetings,
LEMMA AddingIsSum ==
  ASSUME NEW cal, NEW M, IsFiniteSet(M), StakesIn(cal, M) \in [M -> Nat]
  PROVE  \E g \in SumsOf(M, StakesIn(cal, M)) : g[M] = (CHOOSE it : Adding(it, cal, M))[M]
  <1> DEFINE w == StakesIn(cal, M)
             any(s) == CHOOSE x \in s : TRUE
  <1>1. \A s \in SUBSET M : s # {} => AnyOf(M)[s] = any(s) /\ any(s) \in M
                                      /\ w[any(s)] = cal[any(s)[1]][any(s)[2]].staked
    BY DEF AnyOf, StakesIn
  <1>a. w \in [M -> Nat]
    OBVIOUS
  <1> HIDE DEF w, any
  <1>2. PICK g : g \in SumsOf(M, w)
    BY <1>a, SumExists
  <1>3. \E it : Adding(it, cal, M)
    <2>1. \A s \in SUBSET M : g[s] = IF s = {} THEN 0 ELSE g[s \ {any(s)}] + cal[any(s)[1]][any(s)[2]].staked
      BY <1>1, <1>2 DEF SumsOf
    <2>2. g = [s \in SUBSET M |-> g[s]]
      BY <1>2 DEF SumsOf
    <2>3. Adding(g, cal, M)
      BY <2>1, <2>2, Zenon DEF Adding, any
    <2> QED BY <2>3
  <1>4. PICK it : Adding(it, cal, M) /\ it = CHOOSE i : Adding(i, cal, M)
    BY <1>3, Zenon
  <1>5. /\ it[{}] = 0
        /\ \A s \in SUBSET M : s # {} => it[s] = it[s \ {any(s)}] + cal[any(s)[1]][any(s)[2]].staked
    BY <1>4, Zenon DEF Adding, any
  <1>6. \A s \in SUBSET M : s # {} => it[s] = it[s \ {AnyOf(M)[s]}] + w[AnyOf(M)[s]]
    BY <1>1, <1>5
  <1>7. \E h \in SumsOf(M, w) : h[M] = it[M]
    BY <1>a, <1>5, <1>6, SumIs
  <1> QED BY <1>4, <1>7 DEF w

\* The meetings on file in cal.
MeetingsIn(cal) == {x \in (DOMAIN cal) \X (1 .. MaxMeetings) : x[2] \in DOMAIN cal[x[1]]}

\* of which there are finitely many,
LEMMA MeetingsFinite ==
  ASSUME NEW cal, IsFiniteSet(DOMAIN cal), \A d \in DOMAIN cal : cal[d] \in Seq(Meeting)
  PROVE  /\ IsFiniteSet(MeetingsIn(cal))
         /\ StakesIn(cal, MeetingsIn(cal)) \in [MeetingsIn(cal) -> Nat]
  <1>1. IsFiniteSet(1 .. MaxMeetings)
    BY CalendarAssumption, FS_Interval
  <1>2. IsFiniteSet((DOMAIN cal) \X (1 .. MaxMeetings))
    BY <1>1, FS_Product
  <1>3. MeetingsIn(cal) \subseteq (DOMAIN cal) \X (1 .. MaxMeetings)
    BY DEF MeetingsIn
  <1>4. IsFiniteSet(MeetingsIn(cal))
    BY <1>2, <1>3, FS_Subset
  <1>5. ASSUME NEW x \in MeetingsIn(cal) PROVE cal[x[1]][x[2]].staked \in Nat
    <2>1. x[1] \in DOMAIN cal /\ x[2] \in DOMAIN cal[x[1]]
      BY DEF MeetingsIn
    <2>2. cal[x[1]][x[2]] \in Meeting
      BY <2>1
    <2> QED BY <2>2 DEF Meeting
  <1> QED BY <1>4, <1>5 DEF StakesIn

\* The app has what the open stakes add up to, in cal.
Backs(cal, amount) ==
  \A g \in SumsOf(MeetingsIn(cal), StakesIn(cal, MeetingsIn(cal))) : amount = g[MeetingsIn(cal)]

\* so that its value is known before and after a step.
LEMMA BackedBySums ==
  /\ CalendarInv /\ IsFiniteSet(DOMAIN calendar) =>
       \A amount : Backs(calendar, amount) <=> amount = OpenStakes
  /\ (CalendarInv /\ IsFiniteSet(DOMAIN calendar))' =>
       \A amount : Backs(calendar', amount) <=> amount = OpenStakes'
  <1>1. AllMeetings = MeetingsIn(calendar) /\ AllMeetings' = MeetingsIn(calendar')
    BY DEF AllMeetings, MeetingsIn
  <1>2. ASSUME NEW cal, IsFiniteSet(DOMAIN cal), \A d \in DOMAIN cal : cal[d] \in Seq(Meeting), NEW amount
        PROVE  Backs(cal, amount) <=> amount = (CHOOSE it : Adding(it, cal, MeetingsIn(cal)))[MeetingsIn(cal)]
    <2> DEFINE M == MeetingsIn(cal)
               w == StakesIn(cal, M)
               total == (CHOOSE it : Adding(it, cal, M))[M]
    <2>1. IsFiniteSet(M) /\ w \in [M -> Nat]
      BY <1>2, MeetingsFinite
    <2>2. PICK g \in SumsOf(M, w) : g[M] = total
      BY <2>1, AddingIsSum
    <2>3. \A h \in SumsOf(M, w) : h[M] = g[M]
      <3>1. M \in SUBSET (M \cap M) /\ \A x \in M : w[x] = w[x]
        OBVIOUS
      <3> HIDE DEF M, w
      <3> QED BY <2>1, <2>2, <3>1, SumsAgree
    <2> HIDE DEF M, w, total
    <2>4. Backs(cal, amount) <=> \A h \in SumsOf(M, w) : amount = h[M]
      BY DEF Backs, M, w
    <2>5. Backs(cal, amount) <=> amount = total
      BY <2>2, <2>3, <2>4
    <2> QED BY <2>5 DEF total, M
  <1>3. CalendarInv => \A d \in DOMAIN calendar : calendar[d] \in Seq(Meeting)
    BY DEF CalendarInv
  <1>4. CalendarInv' => \A d \in DOMAIN calendar' : calendar'[d] \in Seq(Meeting)
    BY DEF CalendarInv
  <1>5. CalendarInv /\ IsFiniteSet(DOMAIN calendar) => \A amount : Backs(calendar, amount) <=> amount = OpenStakes
    BY <1>1, <1>2, <1>3, FoldAdds
  <1>6. CalendarInv' /\ IsFiniteSet(DOMAIN calendar') => \A amount : Backs(calendar', amount) <=> amount = OpenStakes'
    BY <1>1, <1>2, <1>4, FoldAdds
  <1> QED BY <1>5, <1>6

\* What keeps the sum of the stakes and what is held equal: the calendar is finite and
\* no day of it outgrows the bound, and the denom is one that stakes were asked in.
BackedInv ==
  /\ IsFiniteSet(DOMAIN calendar)
  /\ \A d \in DOMAIN calendar : Len(calendar[d]) <= MaxMeetings
  /\ IsFiniteSet(denoms) /\ calendarConfig.denom \in denoms
  /\ Cardinality(denoms) = 1 => Backs(calendar, held[calendarConfig.denom])

\* A day has no more meetings than there are in all.
LEMMA DayFits ==
  ASSUME CalendarInv, BackedInv, NEW day \in DOMAIN calendar, Cardinality(AllMeetings) < MaxMeetings
  PROVE  Len(calendar[day]) < MaxMeetings
  <1> DEFINE n == Len(calendar[day])
             f == [k \in 1 .. n |-> <<day, k>>]
  <1>1. n \in Nat /\ n <= MaxMeetings /\ DOMAIN calendar[day] = 1 .. n
    BY DEF CalendarInv, BackedInv
  <1>2. IsFiniteSet(AllMeetings)
    BY MeetingsFinite DEF CalendarInv, BackedInv, AllMeetings, MeetingsIn
  <1> HIDE DEF n
  <1>3. \A k \in 1 .. n : <<day, k>> \in AllMeetings
    BY <1>1, CalendarAssumption DEF AllMeetings
  <1>4. f \in Injection(1 .. n, AllMeetings)
    BY <1>3 DEF Injection, IsInjective
  <1>5. Cardinality(1 .. n) <= Cardinality(AllMeetings)
    <2> HIDE DEF f
    <2> QED BY <1>2, <1>4, FS_Injection
  <1>6. Cardinality(1 .. n) = n /\ Cardinality(AllMeetings) \in Nat
    <2>1. Cardinality(1 .. n) = n
      BY <1>1, FS_Interval
    <2> QED BY <1>2, <2>1, FS_CardinalityType
  <1> QED BY <1>1, <1>5, <1>6, CalendarAssumption DEF n

\* A booking adds its stake, to the sum and to what is held.
LEMMA RequestBacked ==
  ASSUME CalendarInv, BackedInv, CalendarInv', NEW start \in Time, NEW end \in Time,
         RequestMeeting(start, end)
  PROVE  BackedInv'
  <1> DEFINE day == DateOf(start)
             amount == Minutes(start, end) * calendarConfig.price
             new == [start |-> start, end |-> end, staked |-> amount,
                     paid |-> amount, back |-> 0, income |-> 0]
             old == MeetingsOn(day)
             x == <<day, Len(old) + 1>>
             M == MeetingsIn(calendar)
             N == MeetingsIn(calendar')
             v == StakesIn(calendar, M)
             w == StakesIn(calendar', N)
  <1>1. old \in Seq(Meeting) /\ Len(old) \in Nat /\ Len(old) < MaxMeetings
    <2>1. CASE day \in DOMAIN calendar
      <3>1. Cardinality(AllMeetings) < MaxMeetings
        BY DEF RequestMeeting
      <3>2. old = calendar[day] /\ old \in Seq(Meeting)
        BY <2>1 DEF MeetingsOn, CalendarInv
      <3> HIDE DEF old, day
      <3> QED BY <2>1, <3>1, <3>2, DayFits
    <2>2. CASE day \notin DOMAIN calendar
      <3>1. Cardinality(AllMeetings) < MaxMeetings
        BY DEF RequestMeeting
      <3>2. Cardinality(AllMeetings) \in Nat
        BY MeetingsFinite, FS_CardinalityType DEF CalendarInv, BackedInv, AllMeetings, MeetingsIn
      <3>3. old = << >>
        BY <2>2 DEF MeetingsOn
      <3> HIDE DEF old, day
      <3> QED BY <3>1, <3>2, <3>3, CalendarAssumption
    <2> QED BY <2>1, <2>2
  <1>2. /\ DOMAIN calendar' = DOMAIN calendar \cup {day}
        /\ calendar'[day] = Append(old, new)
        /\ \A d \in DOMAIN calendar \ {day} : calendar'[d] = calendar[d]
        /\ day \in DOMAIN calendar => old = calendar[day]
        /\ day \notin DOMAIN calendar => old = << >>
    BY DEF RequestMeeting, MeetingsOn
  <1>3. new.staked = amount
    OBVIOUS
  <1>4. held' = [held EXCEPT ![calendarConfig.denom] = @ + amount] /\ UNCHANGED <<calendarConfig, denoms>>
    BY DEF RequestMeeting
  <1>5. calendarConfig.denom \in Denom /\ held \in [Denom -> Nat]
    BY DEF CalendarInv
  <1> HIDE DEF old, day, new, amount
  <1>6. IsFiniteSet(DOMAIN calendar')
    BY <1>2, FS_AddElement DEF BackedInv
  <1>7. \A d \in DOMAIN calendar' : Len(calendar'[d]) <= MaxMeetings
    BY <1>1, <1>2, CalendarAssumption DEF BackedInv
  <1>8. /\ IsFiniteSet(M) /\ v \in [M -> Nat]
        /\ IsFiniteSet(N) /\ w \in [N -> Nat]
    BY <1>6, MeetingsFinite DEF CalendarInv, BackedInv
  <1>9. x \notin M /\ N = M \cup {x}
    <2>1. DOMAIN Append(old, new) = 1 .. Len(old) + 1 /\ DOMAIN old = 1 .. Len(old)
      BY <1>1
    <2>2. x \notin M
      <3>1. SUFFICES ASSUME x \in M PROVE FALSE
        OBVIOUS
      <3>2. day \in DOMAIN calendar /\ Len(old) + 1 \in DOMAIN calendar[day]
        BY <3>1 DEF MeetingsIn
      <3> QED BY <1>1, <1>2, <2>1, <3>2
    <2>3. \A y : y \in N <=> y \in M \cup {x}
      <3>1. ASSUME NEW y \in N PROVE y \in M \cup {x}
        <4>1. y = <<y[1], y[2]>> /\ y[1] \in DOMAIN calendar' /\ y[2] \in 1 .. MaxMeetings /\ y[2] \in DOMAIN calendar'[y[1]]
          BY DEF MeetingsIn
        <4>2. CASE y[1] # day
          <5>1. y[1] \in DOMAIN calendar /\ y[2] \in DOMAIN calendar[y[1]]
            BY <1>2, <4>1, <4>2
          <5>2. y \in M
            BY <4>1, <5>1 DEF MeetingsIn
          <5> QED BY <5>2
        <4>3. CASE y[1] = day
          <5>1. y[2] \in 1 .. Len(old) \/ y[2] = Len(old) + 1
            BY <1>1, <1>2, <2>1, <4>1, <4>3
          <5>2. CASE y[2] = Len(old) + 1
            BY <4>1, <4>3, <5>2
          <5>3. CASE y[2] \in 1 .. Len(old)
            <6>1. day \in DOMAIN calendar /\ y[2] \in DOMAIN calendar[day]
              BY <1>2, <2>1, <5>3
            <6>2. y \in M
              BY <4>1, <4>3, <6>1 DEF MeetingsIn
            <6> QED BY <6>2
          <5> QED BY <5>1, <5>2, <5>3
        <4> QED BY <4>2, <4>3
      <3>2. x \in N
        <4>1. Len(old) + 1 \in 1 .. MaxMeetings /\ Len(old) + 1 \in DOMAIN calendar'[day]
          BY <1>1, <1>2, <2>1, CalendarAssumption
        <4> QED BY <1>2, <4>1 DEF MeetingsIn
      <3>3. ASSUME NEW y \in M PROVE y \in N
        <4>1. y[1] \in DOMAIN calendar /\ y[2] \in 1 .. MaxMeetings /\ y[2] \in DOMAIN calendar[y[1]] /\ y = <<y[1], y[2]>>
          BY DEF MeetingsIn
        <4>2. y[2] \in DOMAIN calendar'[y[1]]
          BY <1>1, <1>2, <2>1, <4>1
        <4> QED BY <1>2, <4>1, <4>2 DEF MeetingsIn
      <3> HIDE DEF M, N, x
      <3> QED BY <3>1, <3>2, <3>3
    <2> HIDE DEF M, N, x
    <2> QED BY <2>2, <2>3
  <1>10. \A y \in M : v[y] = w[y]
    <2> SUFFICES ASSUME NEW y \in M PROVE calendar[y[1]][y[2]] = calendar'[y[1]][y[2]]
      BY <1>9 DEF StakesIn
    <2>1. y[1] \in DOMAIN calendar /\ y[2] \in DOMAIN calendar[y[1]]
      BY DEF MeetingsIn
    <2> QED BY <1>1, <1>2, <2>1
  <1>11. w[x] = amount
    <2>1. w[x] = calendar'[day][Len(old) + 1].staked
      BY <1>9 DEF StakesIn
    <2> QED BY <1>1, <1>2, <1>3, <2>1
  <1>12. ASSUME Cardinality(denoms) = 1, NEW h \in SumsOf(N, w) PROVE held'[calendarConfig.denom] = h[N]
    <2>1. PICK g : g \in SumsOf(M, v)
      <3> HIDE DEF M, v
      <3> QED BY <1>8, SumExists
    <2>2. held[calendarConfig.denom] = g[M]
      BY <1>12, <2>1 DEF BackedInv, Backs
    <2>3. h[N] = g[M] + w[x]
      <3> HIDE DEF M, N, v, w, x
      <3> QED BY <1>8, <1>9, <1>10, <2>1, SumGrows
    <2> HIDE DEF M, N, v, w, x
    <2> QED BY <1>4, <1>5, <1>11, <2>2, <2>3
  <1>13. Cardinality(denoms') = 1 => Backs(calendar', held'[calendarConfig'.denom])
    BY <1>4, <1>12 DEF Backs
  <1> QED BY <1>4, <1>6, <1>7, <1>13 DEF BackedInv

\* A settlement takes a stake out of the sum and pays it out.
LEMMA StakeBacked ==
  ASSUME CalendarInv, BackedInv, CalendarInv', NEW x \in AllMeetings, NEW slashed,
         HandleStake(x[1], x[2], slashed)
  PROVE  BackedInv'
  <1> DEFINE day == x[1]
             k == x[2]
             m == calendar[day][k]
             settled == [m EXCEPT !.staked = 0, !.back = m.back + m.staked - slashed,
                                  !.income = m.income + slashed]
             M == MeetingsIn(calendar)
             v == StakesIn(calendar, M)
             w == StakesIn(calendar', M)
  <1>1. day \in DOMAIN calendar /\ k \in DOMAIN calendar[day] /\ x \in M
    BY DEF AllMeetings, MeetingsIn
  <1>2. m \in Meeting /\ m.staked \in Nat
    <2>1. m \in Meeting
      BY <1>1 DEF CalendarInv
    <2> HIDE DEF m
    <2> QED BY <2>1 DEF Meeting
  <1>3. settled.staked = 0
    <2> HIDE DEF m
    <2> QED BY <1>2 DEF Meeting
  <1>4. /\ DOMAIN calendar' = DOMAIN calendar
        /\ calendar'[day] = [calendar[day] EXCEPT ![k] = settled]
        /\ \A d \in DOMAIN calendar \ {day} : calendar'[d] = calendar[d]
    BY <1>1 DEF HandleStake, Staked
  <1>5. /\ held' = [held EXCEPT ![calendarConfig.denom] = @ - m.staked] /\ UNCHANGED <<calendarConfig, denoms>>
        /\ held[calendarConfig.denom] >= m.staked
    BY DEF HandleStake
  <1>6. calendarConfig.denom \in Denom /\ held \in [Denom -> Nat]
    BY DEF CalendarInv
  <1> HIDE DEF settled
  <1>7. /\ \A d \in DOMAIN calendar : /\ DOMAIN calendar'[d] = DOMAIN calendar[d]
                                      /\ calendar[d] \in Seq(Meeting) /\ calendar'[d] \in Seq(Meeting)
    BY <1>4 DEF CalendarInv
  <1>8. \A d \in DOMAIN calendar' : Len(calendar'[d]) <= MaxMeetings
    <2>1. \A d \in DOMAIN calendar : Len(calendar'[d]) = Len(calendar[d])
      BY <1>7
    <2> QED BY <1>4, <2>1 DEF BackedInv
  <1>9. MeetingsIn(calendar') = M
    <2>1. \A y \in (DOMAIN calendar) \X (1 .. MaxMeetings) :
            y[2] \in DOMAIN calendar'[y[1]] <=> y[2] \in DOMAIN calendar[y[1]]
      BY <1>7
    <2> QED BY <1>4, <2>1 DEF MeetingsIn
  <1>10. IsFiniteSet(M) /\ v \in [M -> Nat] /\ w \in [M -> Nat]
    BY <1>4, <1>9, MeetingsFinite DEF CalendarInv, BackedInv
  <1>11. \A y \in M \ {x} : v[y] = w[y]
    <2> SUFFICES ASSUME NEW y \in M \ {x} PROVE calendar[y[1]][y[2]] = calendar'[y[1]][y[2]]
      BY DEF StakesIn
    <2>1. y[1] \in DOMAIN calendar /\ y[2] \in DOMAIN calendar[y[1]] /\ ~(y[1] = day /\ y[2] = k)
      BY <1>1 DEF MeetingsIn
    <2> QED BY <1>4, <1>7, <2>1
  <1>12. v[x] = m.staked /\ w[x] = 0
    <2>1. v[x] = calendar[day][k].staked /\ w[x] = calendar'[day][k].staked
      BY <1>1 DEF StakesIn
    <2> QED BY <1>1, <1>3, <1>4, <1>7, <2>1
  <1>13. ASSUME Cardinality(denoms) = 1, NEW h \in SumsOf(M, w) PROVE held'[calendarConfig.denom] = h[M]
    <2>1. PICK g : g \in SumsOf(M, v)
      <3> HIDE DEF M, v
      <3> QED BY <1>10, SumExists
    <2>2. held[calendarConfig.denom] = g[M]
      BY <1>13, <2>1 DEF BackedInv, Backs
    <2>3. h[M] + v[x] = g[M] + w[x]
      <3> HIDE DEF M, v, w
      <3> QED BY <1>1, <1>10, <1>11, <2>1, SumChanges
    <2>4. h[M] \in Nat /\ g[M] \in Nat
      <3> HIDE DEF M, v, w
      <3> QED BY <2>1, <1>13 DEF SumsOf
    <2> HIDE DEF M, v, w, m
    <2> QED BY <1>2, <1>5, <1>6, <1>12, <2>2, <2>3, <2>4
  <1>14. Cardinality(denoms') = 1 => Backs(calendar', held'[calendarConfig'.denom])
    BY <1>5, <1>9, <1>13 DEF Backs
  <1> QED BY <1>4, <1>5, <1>8, <1>14 DEF BackedInv

\* With another denom there is more than one; with the same one, nothing changes.
LEMMA ConfigBacked ==
  ASSUME CalendarInv, BackedInv, NEW price \in Price, NEW denom \in Denom, UpdateConfig(price, denom)
  PROVE  BackedInv'
  <1>1. UNCHANGED <<calendar, held>> /\ denoms' = denoms \cup {denom} /\ calendarConfig'.denom = denom
    BY DEF UpdateConfig
  <1>2. IsFiniteSet(denoms') /\ denom \in denoms'
    BY <1>1, FS_AddElement DEF BackedInv
  <1>3. ASSUME Cardinality(denoms') = 1 PROVE denoms' = denoms /\ denom = calendarConfig.denom
    <2>1. PICK d : denoms' = {d}
      BY <1>2, <1>3, FS_Singleton
    <2> QED BY <1>1, <2>1 DEF BackedInv
  <1>4. Cardinality(denoms') = 1 => Backs(calendar', held'[calendarConfig'.denom])
    BY <1>1, <1>3 DEF BackedInv
  <1> QED BY <1>1, <1>2, <1>4 DEF BackedInv

\* Nothing is booked and nothing held at first.
LEMMA BackedInit == CalendarInit => BackedInv
  <1> SUFFICES ASSUME CalendarInit PROVE BackedInv
    OBVIOUS
  <1>1. DOMAIN calendar = {} /\ denoms = {calendarConfig.denom} /\ held[calendarConfig.denom] = 0
    BY DEF CalendarInit
  <1>2. IsFiniteSet(DOMAIN calendar) /\ IsFiniteSet(denoms)
    BY <1>1, FS_EmptySet, FS_Singleton
  <1>3. MeetingsIn(calendar) = {}
    BY <1>1 DEF MeetingsIn
  <1>4. Backs(calendar, held[calendarConfig.denom])
    <2> SUFFICES ASSUME NEW g \in SumsOf(MeetingsIn(calendar), StakesIn(calendar, MeetingsIn(calendar)))
                 PROVE  held[calendarConfig.denom] = g[MeetingsIn(calendar)]
      BY DEF Backs
    <2>1. MeetingsIn(calendar) \in SUBSET MeetingsIn(calendar)
      OBVIOUS
    <2>2. g[MeetingsIn(calendar)] = 0
      BY <1>3, <2>1 DEF SumsOf
    <2> QED BY <1>1, <2>2
  <1> QED BY <1>1, <1>2, <1>4 DEF BackedInv

\* Every message keeps what is held what the open stakes add up to.
LEMMA BackedNext == CalendarInv /\ CalendarInv' /\ BackedInv /\ [CalendarNext]_calendarVars => BackedInv'
  <1> SUFFICES ASSUME CalendarInv, CalendarInv', BackedInv, [CalendarNext]_calendarVars PROVE BackedInv'
    OBVIOUS
  <1>1. CASE CalendarTick \/ UNCHANGED calendarVars
    BY <1>1 DEF CalendarTick, TimePasses, calendarVars, BackedInv
  <1>2. ASSUME NEW start \in Time, NEW end \in Time, RequestMeeting(start, end) PROVE BackedInv'
    BY <1>2, RequestBacked
  <1>3. ASSUME NEW x \in AllMeetings,
               \/ ReturnStake(x[1], x[2]) \/ SlashFullStake(x[1], x[2])
               \/ \E late \in 0 .. Day \div Minute : SlashPartialStake(x[1], x[2], late)
        PROVE  BackedInv'
    <2>1. \E slashed : HandleStake(x[1], x[2], slashed)
      BY <1>3 DEF ReturnStake, SlashFullStake, SlashPartialStake
    <2> QED BY <2>1, StakeBacked
  <1>4. ASSUME NEW price \in Price, NEW denom \in Denom, UpdateConfig(price, denom) PROVE BackedInv'
    BY <1>4, ConfigBacked
  <1> QED BY <1>1, <1>2, <1>3, <1>4 DEF CalendarNext

\* Every coin that was staked is with the app, with the requester or with the account:
\* a stake is shared out once, and as long as the denom is the same the app has what the
\* open stakes add up to, however many there are (request_meeting, handle_stake).
THEOREM StakesAreAccountedFor == CalendarSpec => []StakesAccountedFor
  <1>1. CalendarInv /\ BackedInv => StakesBacked
    BY BackedBySums DEF BackedInv, StakesBacked
  <1>2. CalendarSpec => []BackedInv
    BY BackedInit, BackedNext, CalendarInvHolds, PTL DEF CalendarSpec
  <1> QED BY <1>1, <1>2, CalendarInvHolds, StakesAreSharedOnce, PTL DEF StakesAccountedFor

-----------------------------------------------------------------------------
(* Collisions *)

\* What the two checks of request_meeting exclude.
LEMMA NoConflict ==
  ASSUME NEW m \in Meeting, NEW start \in Nat, NEW end \in Nat, start < end, m.start < m.end,
         ~Conflict(m, start, end), start < m.end, m.start < end
  PROVE  start < m.start /\ m.end < end
  BY DEF Conflict, Meeting

LEMMA CollisionsInit == CalendarInit => CollisionsOnlyAround
  BY DEF CalendarInit, CollisionsOnlyAround

LEMMA RequestCollisions ==
  ASSUME CalendarInv, CollisionsOnlyAround, NEW start \in Time, NEW end \in Time,
         RequestMeeting(start, end)
  PROVE  CollisionsOnlyAround'
  <1> DEFINE day == DateOf(start)
             amount == Minutes(start, end) * calendarConfig.price
             new == [start |-> start, end |-> end, staked |-> amount,
                     paid |-> amount, back |-> 0, income |-> 0]
             old == MeetingsOn(day)
             Apart(m, n) == n.start < m.end /\ m.start < n.end => n.start < m.start /\ m.end < n.end
  <1>1. start \in Nat /\ end \in Nat
    BY CalendarAssumption DEF Time
  <1>2. start < end
    BY <1>1, AcceptedTimes DEF RequestMeeting
  <1>3. old \in Seq(Meeting) /\ \A k \in DOMAIN old : old[k].start < old[k].end
    BY DEF MeetingsOn, CalendarInv, Filed
  <1>4. /\ DOMAIN calendar' = DOMAIN calendar \cup {day}
        /\ calendar'[day] = Append(old, new)
        /\ \A d \in DOMAIN calendar \ {day} : calendar'[d] = calendar[d]
    BY DEF RequestMeeting
  <1>5. new.start = start /\ new.end = end
    OBVIOUS
  <1>6. \A k \in DOMAIN old : ~Conflict(old[k], start, end)
    BY DEF RequestMeeting
  <1>7. \A k, l \in DOMAIN old : k < l => Apart(old[k], old[l])
    BY DEF MeetingsOn, CollisionsOnlyAround, Overlap
  <1> HIDE DEF new, old, day
  <1>8. \A k \in DOMAIN old : Apart(old[k], new)
    BY <1>1, <1>2, <1>3, <1>5, <1>6, NoConflict
  <1> HIDE DEF Apart
  <1>9. \A k, l \in DOMAIN Append(old, new) : k < l => Apart(Append(old, new)[k], Append(old, new)[l])
    BY <1>3, <1>7, <1>8
  <1>10. \A d \in DOMAIN calendar' : \A k, l \in DOMAIN calendar'[d] :
           k < l => Apart(calendar'[d][k], calendar'[d][l])
    BY <1>4, <1>9 DEF CollisionsOnlyAround, Overlap, Apart
  <1> QED BY <1>10 DEF CollisionsOnlyAround, Overlap, Apart

\* No other message changes the times or the order of the meetings.
TimesKept ==
  /\ DOMAIN calendar' = DOMAIN calendar
  /\ \A d \in DOMAIN calendar :
       /\ DOMAIN calendar'[d] = DOMAIN calendar[d]
       /\ \A k \in DOMAIN calendar[d] : /\ calendar'[d][k].start = calendar[d][k].start
                                        /\ calendar'[d][k].end = calendar[d][k].end

LEMMA StakeKeepsTimes ==
  ASSUME CalendarInv, NEW day \in DOMAIN calendar, NEW k \in DOMAIN calendar[day],
         NEW slashed, HandleStake(day, k, slashed)
  PROVE  TimesKept
  <1> DEFINE m == calendar[day][k]
             settled == [m EXCEPT !.staked = 0, !.back = m.back + m.staked - slashed,
                                  !.income = m.income + slashed]
  <1>1. m \in Meeting
    BY DEF CalendarInv
  <1>2. settled.start = m.start /\ settled.end = m.end
    BY <1>1 DEF Meeting
  <1>3. /\ DOMAIN calendar' = DOMAIN calendar
        /\ calendar'[day] = [calendar[day] EXCEPT ![k] = settled]
        /\ \A d \in DOMAIN calendar \ {day} : calendar'[d] = calendar[d]
    BY DEF HandleStake, Staked
  <1> HIDE DEF settled
  <1> QED BY <1>2, <1>3 DEF TimesKept

\* Only a booking adds a meeting; the stakes of one are touched when it is over.
LEMMA StepKinds ==
  ASSUME CalendarInv, [CalendarNext]_calendarVars
  PROVE  \/ \E start, end \in Time : RequestMeeting(start, end)
         \/ \E day \in DOMAIN calendar : \E k \in DOMAIN calendar[day] : \E slashed :
              HandleStake(day, k, slashed)
         \/ UNCHANGED calendar
  <1>1. ASSUME NEW x \in AllMeetings,
               \/ ReturnStake(x[1], x[2]) \/ SlashFullStake(x[1], x[2])
               \/ \E late \in 0 .. Day \div Minute : SlashPartialStake(x[1], x[2], late)
        PROVE  \E slashed : HandleStake(x[1], x[2], slashed)
    BY <1>1 DEF ReturnStake, SlashFullStake, SlashPartialStake
  <1>2. \A x \in AllMeetings : x[1] \in DOMAIN calendar /\ x[2] \in DOMAIN calendar[x[1]]
    BY DEF AllMeetings
  <1>3. CASE CalendarTick \/ (\E price \in Price, denom \in Denom : UpdateConfig(price, denom)) \/ UNCHANGED calendarVars
    BY <1>3 DEF CalendarTick, TimePasses, UpdateConfig, calendarVars
  <1>4. ASSUME NEW x \in AllMeetings,
               \/ ReturnStake(x[1], x[2]) \/ SlashFullStake(x[1], x[2])
               \/ \E late \in 0 .. Day \div Minute : SlashPartialStake(x[1], x[2], late)
        PROVE  \E day \in DOMAIN calendar : \E k \in DOMAIN calendar[day] : \E slashed :
                 HandleStake(day, k, slashed)
    BY <1>1, <1>2, <1>4
  <1> QED BY <1>3, <1>4 DEF CalendarNext

LEMMA CollisionsNext ==
  ASSUME CalendarInv, CollisionsOnlyAround, [CalendarNext]_calendarVars
  PROVE  CollisionsOnlyAround'
  <1>1. CASE \E start, end \in Time : RequestMeeting(start, end)
    BY <1>1, RequestCollisions
  <1>2. ASSUME TimesKept PROVE CollisionsOnlyAround'
    BY <1>2 DEF TimesKept, CollisionsOnlyAround, Overlap
  <1>3. ASSUME UNCHANGED calendar PROVE CollisionsOnlyAround'
    BY <1>3 DEF CollisionsOnlyAround
  <1> QED BY <1>1, <1>2, <1>3, StepKinds, StakeKeepsTimes

\* Whatever the order of requests and settlements, a meeting collides with one that was
\* booked before only if it begins before it and ends after it (request_meeting, whose
\* two checks look at where the new meeting begins and ends).
THEOREM CollisionsStayAround == CalendarSpec => []CollisionsOnlyAround
  BY CollisionsInit, CollisionsNext, CalendarInvHolds, PTL DEF CalendarSpec

-----------------------------------------------------------------------------
\* The record of a meeting keeps its place and its times, and its stake is touched only
\* when the meeting is over (handle_stake).
THEOREM SettlementsComeAfter == CalendarSpec => SettledAfterwards
  <1> DEFINE Step == \A x \in AllMeetings :
               LET m == calendar[x[1]][x[2]]
                   n == calendar'[x[1]][x[2]]
               IN n.start = m.start /\ n.end = m.end /\ (n.staked # m.staked => now > m.end)
  <1>1. ASSUME CalendarInv, [CalendarNext]_calendarVars PROVE Step
    <2> SUFFICES ASSUME NEW x \in AllMeetings
                 PROVE  LET m == calendar[x[1]][x[2]]
                            n == calendar'[x[1]][x[2]]
                        IN n.start = m.start /\ n.end = m.end /\ (n.staked # m.staked => now > m.end)
      OBVIOUS
    <2>1. x[1] \in DOMAIN calendar /\ x[2] \in DOMAIN calendar[x[1]]
      BY DEF AllMeetings
    <2>2. ASSUME NEW start \in Time, NEW end \in Time, RequestMeeting(start, end)
          PROVE  calendar'[x[1]][x[2]] = calendar[x[1]][x[2]]
      <3> DEFINE day == DateOf(start)
                 amount == Minutes(start, end) * calendarConfig.price
                 new == [start |-> start, end |-> end, staked |-> amount,
                         paid |-> amount, back |-> 0, income |-> 0]
      <3>1. calendar'[x[1]] = IF x[1] = day THEN Append(MeetingsOn(day), new) ELSE calendar[x[1]]
        BY <2>1, <2>2 DEF RequestMeeting
      <3> HIDE DEF new, day
      <3>2. calendar[x[1]] \in Seq(Meeting)
        BY <1>1, <2>1 DEF CalendarInv
      <3>3. x[1] = day => MeetingsOn(day) = calendar[x[1]]
        BY <2>1 DEF MeetingsOn
      <3>4. Append(calendar[x[1]], new)[x[2]] = calendar[x[1]][x[2]]
        BY <2>1, <3>2
      <3> QED BY <3>1, <3>3, <3>4
    <2>3. ASSUME NEW day \in DOMAIN calendar, NEW k \in DOMAIN calendar[day], NEW slashed,
                 HandleStake(day, k, slashed)
          PROVE  /\ calendar'[x[1]][x[2]].start = calendar[x[1]][x[2]].start
                 /\ calendar'[x[1]][x[2]].end = calendar[x[1]][x[2]].end
                 /\ calendar'[x[1]][x[2]].staked # calendar[x[1]][x[2]].staked => now > calendar[x[1]][x[2]].end
      <3>1. TimesKept
        BY <1>1, <2>3, StakeKeepsTimes
      <3>2. x[1] = day /\ x[2] = k => now > calendar[x[1]][x[2]].end
        BY <2>3 DEF HandleStake, Finished
      <3>3. ~(x[1] = day /\ x[2] = k) => calendar'[x[1]][x[2]] = calendar[x[1]][x[2]]
        BY <2>1, <2>3 DEF HandleStake
      <3> QED BY <2>1, <3>1, <3>2, <3>3 DEF TimesKept
    <2>4. CASE UNCHANGED calendar
      BY <2>4
    <2> QED BY <1>1, <2>2, <2>3, <2>4, StepKinds
  <1>2. CalendarInv /\ [CalendarNext]_calendarVars => [Step]_calendarVars
    BY <1>1
  <1> QED BY <1>2, CalendarInvHolds, PTL DEF CalendarSpec, SettledAfterwards
=============================================================================
