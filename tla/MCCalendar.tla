----------------------------- MODULE MCCalendar -----------------------------
(* A small instance of Calendar for TLC: a minute is two seconds, a day five      *)
(* minutes, of which the calendar opens for the first four.                       *)
EXTENDS Calendar
=============================================================================
