---------------------------- MODULE Subscription ----------------------------
(***************************************************************************)
(* The subscription app (modules/contracts/apps/subscription): addresses   *)
(* pay an account in advance, are paid emissions while they subscribe, and *)
(* are unsubscribed, by anybody, once what they paid for has passed.       *)
(***************************************************************************)
EXTENDS Clock, TimeWeightedAverage, Sequences, FiniteSets

CONSTANTS
  Addr,
  Asset,
  MAX_UNSUBS,
  Configs,     \* bound: subscription configurations that are set
  Period,      \* income_averaging_period
  Payment,     \* bound: [asset, amount] that are paid
  U64,         \* how many values the type of the paid seconds has
  MaxUntil     \* bound: latest expiration

\* subscription_cost_per_second and the emissions are decimals.
Config == [asset : Asset, cost : Nat, emission : {"none", "shared", "perUser"}, rate : Nat]

ASSUME SubscriptionAssumption ==
  /\ IsFiniteSet(Addr)
  /\ Configs \subseteq Config
  /\ Period \in Nat \ {0}
  /\ U64 \in Nat \ {0}
  /\ Payment \subseteq [asset : Asset, amount : Nat]
  /\ MAX_UNSUBS \in Nat /\ MaxTime \in Nat /\ MaxUntil \in Nat

VARIABLES
  config,      \* SUBSCRIPTION_CONFIG
  activeSubs,  \* SUBSCRIPTION_STATE
  subs,        \* SUBSCRIBERS: addr -> [until, claimed]: expiration and last claim
  expired,     \* EXPIRED_SUBSCRIBERS
  twa,         \* INCOME_TWA
  member,      \* history: seconds each address has been on the list
  rewarded,    \* history: seconds each address was paid emissions for
  served,      \* history: seconds of subscription in all
  costs        \* history: the prices there have been

subVars == <<activeSubs, subs, expired>>
history == <<member, rewarded, served, costs>>
vars == <<now, config, subVars, twa, history>>

Subscriber == [until : Nat, claimed : Nat]

\* mul_ceil
MulCeil(n, decimal) == (n * decimal + Unit - 1) \div Unit

-----------------------------------------------------------------------------
\* instantiate_handler
Init ==
  /\ now = 0
  /\ config \in Configs
  /\ activeSubs = 0
  /\ subs = [a \in {} |-> [until |-> 0, claimed |-> 0]]
  /\ expired = {}
  /\ twa = NewTwa(0, Period)
  /\ member = [a \in Addr |-> 0]
  /\ rewarded = [a \in Addr |-> 0]
  /\ served = 0
  /\ costs = {config.cost}

Tick ==
  /\ TimePasses
  /\ member' = [a \in Addr |-> member[a] + (IF a \in DOMAIN subs THEN 1 ELSE 0)]
  /\ served' = served + Cardinality(DOMAIN subs)
  /\ UNCHANGED <<config, subVars, twa, rewarded, costs>>

\* The income per second since the list last changed.
Income == activeSubs * config.cost

\* Mutant: a period's worth is rounded down.
Floor_RequiredPayment == MulFloor(twa.period, config.cost)

\* At least one averaging period is paid for.
RequiredPayment == MulCeil(twa.period, config.cost)

\* checked_div_floor, of 128 bits.
Bought(amount) == (amount * Unit) \div config.cost

\* .u128() as u64, which cuts off what does not fit.
PaidSeconds(amount) == Bought(amount) % U64

\* try_pay for a subscriber on the list; an expiration past the end of time fails.
Extend(a, payment) ==
  /\ a \in DOMAIN subs
  /\ payment.asset = config.asset /\ config.cost # 0
  /\ subs[a].until + PaidSeconds(payment.amount) <= MaxUntil
  /\ subs' = [subs EXCEPT ![a].until = @ + PaidSeconds(payment.amount)]
  /\ UNCHANGED <<now, config, activeSubs, expired, twa, history>>

\* Mutant: the income is not brought up to date first.
Stale_AtJoin == twa
AtJoin == Accumulate(twa, now, Income)

NotExpired(a) == expired \ {a}

\* try_pay for anybody else.
Subscribe(a, payment) ==
  /\ a \notin DOMAIN subs
  /\ payment.asset = config.asset /\ config.cost # 0
  /\ payment.amount >= RequiredPayment
  /\ now + PaidSeconds(payment.amount) <= MaxUntil
  /\ twa' = AtJoin
  /\ expired' = NotExpired(a)
  /\ subs' = [b \in DOMAIN subs \cup {a} |->
                IF b = a THEN [until |-> now + PaidSeconds(payment.amount), claimed |-> now]
                ELSE subs[b]]
  /\ activeSubs' = activeSubs + 1
  /\ UNCHANGED <<now, config, history>>

-----------------------------------------------------------------------------
(* Emissions *)

\* claim_emissions_msg: what a gets while n addresses are active.
Emission(a, n) ==
  LET seconds == now - subs[a].claimed IN
  CASE config.emission = "none" -> 0
    [] config.emission = "shared" -> MulFloor(seconds, config.rate) \div n
    [] config.emission = "perUser" -> MulFloor(seconds, config.rate)

\* Mutant: the time of the claim is not kept.
Repeated_Claimed(a) == subs
Claimed(a) == [subs EXCEPT ![a].claimed = now]

\* claim_subscriber_emissions; an amount of zero leaves the seconds for later.
ClaimEmissions(a) ==
  LET amount == Emission(a, activeSubs) IN
  /\ a \in DOMAIN subs
  /\ subs[a].claimed < now
  /\ config.emission # "none"
  /\ subs' = IF amount # 0 THEN Claimed(a) ELSE subs
  /\ rewarded' = IF amount # 0 THEN [rewarded EXCEPT ![a] = @ + now - subs[a].claimed] ELSE rewarded
  /\ UNCHANGED <<now, config, activeSubs, expired, twa, member, served, costs>>

-----------------------------------------------------------------------------
\* is_expired
IsExpired(a) == now >= subs[a].until

\* The addresses of a list that are unsubscribed.
Leaving(list) == {a \in {list[k] : k \in DOMAIN list} : IsExpired(a)}

\* Those that the loop has unsubscribed before it comes to a.
Before(list, a) ==
  {list[k] : k \in {m \in DOMAIN list : IsExpired(list[m]) /\ \E l \in DOMAIN list : list[l] = a /\ m < l}}

\* The divisor of the share of a counts the addresses the loop has not taken off yet.
LeavingEmission(list, a) ==
  IF subs[a].claimed < now THEN Emission(a, activeSubs - Cardinality(Before(list, a))) ELSE 0

\* Mutant: one is taken off the count for the whole list.
Once_Left(list) == activeSubs - 1

AtLeave(list) == Accumulate(twa, now, Income)
Left(list) == activeSubs - Cardinality(Leaving(list))

\* unsubscribe: every address must be on the list, and an expired one only once in
\* the message; what each has not claimed is paid.
Unsubscribe(list) ==
  /\ Len(list) <= MAX_UNSUBS
  /\ \A k \in DOMAIN list : list[k] \in DOMAIN subs
  /\ \A k, l \in DOMAIN list : IsExpired(list[k]) /\ list[k] = list[l] => k = l
  /\ Leaving(list) # {}
  /\ twa' = AtLeave(list)
  /\ subs' = [b \in DOMAIN subs \ Leaving(list) |-> subs[b]]
  /\ expired' = expired \cup Leaving(list)
  /\ activeSubs' = Left(list)
  /\ rewarded' = [a \in Addr |->
       IF a \in Leaving(list) /\ LeavingEmission(list, a) # 0
       THEN rewarded[a] + now - subs[a].claimed ELSE rewarded[a]]
  /\ UNCHANGED <<now, config, member, served, costs>>

\* update_subscription_config, which does not bring the income up to date.
UpdateSubscriptionConfig(new) ==
  /\ config' = new
  /\ costs' = costs \cup {new.cost}
  /\ UNCHANGED <<now, subVars, twa, member, rewarded, served>>

\* RefreshTWA
RefreshTWA ==
  /\ twa' = TryUpdateValue(twa, now)
  /\ UNCHANGED <<now, config, subVars, history>>

-----------------------------------------------------------------------------
Lists == UNION {[1 .. n -> Addr] : n \in 1 .. MAX_UNSUBS}

Next ==
  \/ Tick
  \/ \E a \in Addr, payment \in Payment : Extend(a, payment) \/ Subscribe(a, payment)
  \/ \E a \in Addr : ClaimEmissions(a)
  \/ \E list \in Lists : Unsubscribe(list)
  \/ \E new \in Configs : UpdateSubscriptionConfig(new)
  \/ RefreshTWA

Spec == Init /\ [][Next]_vars

-----------------------------------------------------------------------------
(* Properties *)

\* Every item has its type, and no time that is subtracted from the block time (an
\* unsigned number) is ahead of it.
TypeOK ==
  /\ now \in 0 .. MaxTime
  /\ config \in Configs
  /\ activeSubs \in Nat
  /\ DOMAIN subs \subseteq Addr /\ subs \in [DOMAIN subs -> Subscriber]
  /\ expired \subseteq Addr
  /\ twa \in TwaData
  /\ \A a \in DOMAIN subs : subs[a].claimed <= now
  /\ twa.last <= now /\ twa.lastAveraging <= now /\ twa.lastCumulative <= twa.cumulative
  /\ member \in [Addr -> Nat] /\ rewarded \in [Addr -> Nat] /\ served \in Nat
  /\ costs \subseteq Nat

\* The counter that shares are divided by and income is computed from is the number
\* of subscribers, through joins, batches and re-subscriptions ("active_sub can't be
\* 0 as we already loaded one from storage"), and nobody is active and expired at once.
CountMatchesList ==
  /\ activeSubs = Cardinality(DOMAIN subs)
  /\ DOMAIN subs \cap expired = {}

\* No second is rewarded twice: what an address was paid for, and what it may still
\* claim, are seconds it has been on the list.
SecondsRewardedOnce ==
  \A a \in Addr :
    rewarded[a] + (IF a \in DOMAIN subs THEN now - subs[a].claimed ELSE 0) <= member[a]

\* The income that the average is made of is that of the subscribers there were, at
\* a price there has been: no second of a subscription is left out or counted for
\* more subscribers than there were, but for what each call rounds off.
IncomeTracksSubscribers ==
  LET accounted == served - Cardinality(DOMAIN subs) * (now - twa.last) IN
  /\ \E c \in costs : twa.cumulative * Unit <= c * accounted
  /\ \E c \in costs : c * accounted <= (twa.cumulative + twa.last) * Unit

\* A subscription that begins lasts a whole averaging period ("prevents un- and
\* re-subscribing all the time"), unless it was paid for more seconds than the code
\* can count, and nobody is taken off the list before the end of what was credited.
PaidTimeIsServed ==
  [][/\ \A a \in DOMAIN subs' \ DOMAIN subs :
          \/ subs'[a].until >= now + Period
          \/ \E p \in Payment : Subscribe(a, p) /\ Bought(p.amount) >= U64
     /\ \A a \in DOMAIN subs \ DOMAIN subs' : now >= subs[a].until
     /\ \A a \in DOMAIN subs \cap DOMAIN subs' : subs'[a].until >= subs[a].until]_vars
=============================================================================
