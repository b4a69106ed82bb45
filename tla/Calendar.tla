------------------------------ MODULE Calendar ------------------------------
(***************************************************************************)
(* The calendar app (modules/contracts/apps/calendar): anybody books a     *)
(* meeting with a stake, and after the meeting the admin returns it to the *)
(* requester or slashes it, partly or all, for the account.  The messages  *)
(* of others than the admin are refused.                                   *)
(***************************************************************************)
EXTENDS Clock, FiniteSets, SequencesExt, FiniteSetsExt

CONSTANTS
  Minute, Day,   \* their lengths, in seconds
  Offset,        \* utc_offset
  Opens, Closes, \* start_time and end_time of the calendar, seconds of the local day
  Denom,
  Price,         \* bound: values of price_per_minute
  MaxMeetings    \* bound: meetings that are booked

ASSUME CalendarAssumption ==
  /\ Minute \in Nat \ {0} /\ Day \in Nat /\ Day % Minute = 0
  /\ Offset \in Int /\ Opens \in Nat /\ Closes \in Nat
  /\ Opens < Closes /\ Closes < Day
  /\ Price \subseteq Nat /\ MaxTime \in Nat /\ MaxMeetings \in Nat

VARIABLES
  calendarConfig,    \* CONFIG: [price, denom]
  calendar,  \* CALENDAR: day -> meetings in the order of their requests
  held,      \* bank: what the app has of each denom
  denoms     \* history: the denoms that stakes have been asked in

calendarVars == <<now, calendarConfig, calendar, held, denoms>>

\* amount_staked, and as history what was paid for the meeting and what the requester
\* and the account have got of it.
Meeting == [start : Nat, end : Nat, staked : Nat, paid : Nat, back : Nat, income : Nat]

-----------------------------------------------------------------------------
(* Local dates and times *)

DateOf(t) == (t + Offset) \div Day
TimeOf(t) == (t + Offset) % Day
WholeMinute(t) == TimeOf(t) % Minute = 0

\* Meeting::new
Acceptable(start, end) ==
  /\ DateOf(start) = DateOf(end)
  /\ WholeMinute(start) /\ WholeMinute(end)
  /\ now <= start
  /\ TimeOf(start) < TimeOf(end)
  /\ TimeOf(start) \in Opens .. Closes
  /\ TimeOf(end) \in Opens .. Closes

Minutes(start, end) == (end - start) \div Minute

MeetingsOn(day) == IF day \in DOMAIN calendar THEN calendar[day] ELSE << >>

\* start_time_conflicts and end_time_conflicts
Conflict(m, start, end) ==
  \/ m.start <= start /\ start < m.end
  \/ m.start < end /\ end <= m.end

-----------------------------------------------------------------------------
\* instantiate_handler
CalendarInit ==
  /\ now = 0
  /\ calendarConfig \in [price : Price, denom : Denom]
  /\ calendar = [d \in {} |-> << >>]
  /\ held = [d \in Denom |-> 0]
  /\ denoms = {calendarConfig.denom}

CalendarTick ==
  /\ TimePasses
  /\ UNCHANGED <<calendarConfig, calendar, held, denoms>>

AllMeetings == {x \in (DOMAIN calendar) \X (1 .. MaxMeetings) : x[2] \in DOMAIN calendar[x[1]]}

\* request_meeting: must_pay refuses to be paid nothing.
RequestMeeting(start, end) ==
  LET day == DateOf(start)
      meetings == MeetingsOn(day)
      amount == Minutes(start, end) * calendarConfig.price
  IN
  /\ Cardinality(AllMeetings) < MaxMeetings
  /\ Acceptable(start, end)
  /\ amount # 0
  /\ \A k \in DOMAIN meetings : ~Conflict(meetings[k], start, end)
  /\ calendar' = [d \in DOMAIN calendar \cup {day} |->
       IF d = day
       THEN Append(meetings, [start |-> start, end |-> end, staked |-> amount,
                              paid |-> amount, back |-> 0, income |-> 0])
       ELSE calendar[d]]
  /\ held' = [held EXCEPT ![calendarConfig.denom] = @ + amount]
  /\ UNCHANGED <<now, calendarConfig, denoms>>

Finished(m) == now > m.end
Staked(m) == 0

\* handle_stake: the stake goes to the account and the requester, in the denom that is
\* asked for now.
HandleStake(day, k, slashed) ==
  LET m == calendar[day][k] IN
  /\ Finished(m)
  /\ m.staked # 0
  /\ held[calendarConfig.denom] >= m.staked
  /\ calendar' = [calendar EXCEPT ![day][k] =
       [m EXCEPT !.staked = Staked(m), !.back = m.back + m.staked - slashed,
                 !.income = m.income + slashed]]
  /\ held' = [held EXCEPT ![calendarConfig.denom] = @ - m.staked]
  /\ UNCHANGED <<now, calendarConfig, denoms>>

ReturnStake(day, k) == HandleStake(day, k, 0)

SlashFullStake(day, k) == HandleStake(day, k, calendar[day][k].staked)

\* Mutant: the price of today is charged.
Current_Slashed(staked, late, minutes) == late * calendarConfig.price

\* multiply_ratio
Slashed(staked, late, minutes) == (staked * late) \div minutes

\* The part for the minutes the requester was late; the bank refuses to send nothing,
\* to the account or to the requester.
SlashPartialStake(day, k, late) ==
  LET m == calendar[day][k]
      minutes == Minutes(m.start, m.end)
      slashed == Slashed(m.staked, late, minutes)
  IN
  /\ late <= minutes
  /\ slashed # 0 /\ slashed # m.staked
  /\ HandleStake(day, k, slashed)

\* update_config
UpdateConfig(price, denom) ==
  /\ calendarConfig' = [price |-> price, denom |-> denom]
  /\ denoms' = denoms \cup {denom}
  /\ UNCHANGED <<now, calendar, held>>

-----------------------------------------------------------------------------
Time == 0 .. MaxTime

CalendarNext ==
  \/ CalendarTick
  \/ \E start, end \in Time : RequestMeeting(start, end)
  \/ \E x \in AllMeetings :
       \/ ReturnStake(x[1], x[2]) \/ SlashFullStake(x[1], x[2])
       \/ \E late \in 0 .. Day \div Minute : SlashPartialStake(x[1], x[2], late)
  \/ \E price \in Price, denom \in Denom : UpdateConfig(price, denom)

CalendarSpec == CalendarInit /\ [][CalendarNext]_calendarVars

-----------------------------------------------------------------------------
(* Properties *)

\* Every item has its type, and a meeting is filed under the local date of its first
\* and its last minute ("we cannot have a meeting longer than 24 hours").
CalendarTypeOK ==
  /\ now \in Time
  /\ calendarConfig \in [price : Price, denom : Denom]
  /\ \A d \in DOMAIN calendar : calendar[d] \in Seq(Meeting)
  /\ held \in [Denom -> Nat]
  /\ \A d \in DOMAIN calendar : \A k \in DOMAIN calendar[d] :
       {calendar[d][k].start + Offset, calendar[d][k].end + Offset} \subseteq d * Day .. d * Day + Closes

Overlap(m, n) == n.start < m.end /\ m.start < n.end

\* request_meeting: "Validate that there are no colisions", or MeetingConflictExists.
NoCollisions ==
  \A d \in DOMAIN calendar : \A k, l \in DOMAIN calendar[d] :
    k # l => ~Overlap(calendar[d][k], calendar[d][l])

\* What the code rules out: whatever the order of requests, a meeting that collides with
\* one that was booked before begins before it and ends after it.
CollisionsOnlyAround ==
  \A d \in DOMAIN calendar : \A k, l \in DOMAIN calendar[d] :
    LET m == calendar[d][k]
        n == calendar[d][l]
    IN k < l /\ Overlap(m, n) => n.start < m.start /\ m.end < n.end

\* A stake is shared out once: before, it is all there, and after, the requester and
\* the account have got what was paid, to the last coin.
StakesSharedOnce ==
  \A x \in AllMeetings : LET m == calendar[x[1]][x[2]] IN
    /\ m.staked \in {0, m.paid}
    /\ m.back + m.income = m.paid - m.staked
    /\ m.back >= 0 /\ m.income >= 0

\* What the open stakes add up to.
OpenStakes == FoldSet(LAMBDA x, sum : sum + calendar[x[1]][x[2]].staked, 0, AllMeetings)

\* As long as the denom is the same, the app has what the open stakes add up to, so
\* each of them can be settled.
StakesBacked == Cardinality(denoms) = 1 => held[calendarConfig.denom] = OpenStakes

\* Every coin that was staked is with the app, with the requester or with the account.
StakesAccountedFor == StakesSharedOnce /\ StakesBacked

\* Nobody loses or gets a stake before the meeting is over, and the record of a meeting
\* keeps its place and its times, which later messages go by.
SettledAfterwards ==
  [][\A x \in AllMeetings :
       LET m == calendar[x[1]][x[2]]
           n == calendar'[x[1]][x[2]]
       IN n.start = m.start /\ n.end = m.end /\ (n.staked # m.staked => now > m.end)]_calendarVars
=============================================================================
