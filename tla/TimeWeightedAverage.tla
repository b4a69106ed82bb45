------------------------ MODULE TimeWeightedAverage -------------------------
(***************************************************************************)
(* The time-weighted average of abstract-std                               *)
(* (objects/time_weighted_average.rs): a value that changes now and then is *)
(* accumulated over time, and averaged over periods.  Decimals are whole   *)
(* numbers of units, Unit of which are one; times are whole seconds.       *)
(***************************************************************************)
EXTENDS Integers

CONSTANT Unit

ASSUME UnitAssumption == Unit \in Nat \ {0}

TwaData == [cumulative : Nat, last : Nat, average : Nat, period : Nat,
            lastAveraging : Nat, lastCumulative : Nat]

\* instantiate
NewTwa(time, period) ==
  [cumulative |-> 0, last |-> time, average |-> 0, period |-> period,
   lastAveraging |-> time, lastCumulative |-> 0]

\* mul_floor
MulFloor(n, decimal) == (n * decimal) \div Unit

\* accumulate: the value counts for the time since the last call.
Accumulate(twa, time, value) ==
  IF time <= twa.last THEN twa
  ELSE [twa EXCEPT !.last = time, !.cumulative = @ + MulFloor(time - twa.last, value)]

\* needs_refresh
PeriodOver(twa, time) == time - twa.lastAveraging >= twa.period

\* try_update_value
TryUpdateValue(twa, time) ==
  IF ~PeriodOver(twa, time) THEN twa
  ELSE [twa EXCEPT !.average = ((twa.cumulative - twa.lastCumulative) * Unit)
                                 \div (time - twa.lastAveraging),
                   !.lastAveraging = time, !.lastCumulative = twa.cumulative]
=============================================================================
