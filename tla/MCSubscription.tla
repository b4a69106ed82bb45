--------------------------- MODULE MCSubscription ---------------------------
(* A small instance of Subscription for TLC: prices and rates in halves.   *)
EXTENDS Subscription, TLC

CONSTANTS juno, ann, bob

MCAddr == {ann, bob}
AddrSymmetry == Permutations(MCAddr)

MCConfigs ==
  {[asset |-> juno, cost |-> 1, emission |-> "shared", rate |-> 3],
   [asset |-> juno, cost |-> 3, emission |-> "perUser", rate |-> 1],
   [asset |-> juno, cost |-> 0, emission |-> "none", rate |-> 0]}
MCPayment == [asset : {juno}, amount : 1 .. 3]
=============================================================================
