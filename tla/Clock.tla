------------------------------- MODULE Clock --------------------------------
(***************************************************************************)
(* The block time (env.block.time), which the contracts read: it goes on   *)
(* between two messages and never back.                                    *)
(***************************************************************************)
EXTENDS Integers

CONSTANT MaxTime  \* bound: latest block time

VARIABLE now      \* block time

TimePasses == now < MaxTime /\ now' = now + 1
=============================================================================
