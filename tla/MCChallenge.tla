---------------------------- MODULE MCChallenge -----------------------------
(* A small instance of Challenge for TLC: two addresses, one of them known under *)
(* two names.                                                                    *)
EXTENDS Challenge

CONSTANTS ann, bob, annA, annB, bobA

MCFriendAddr == [f \in {annA, annB, bobA} |-> IF f = bobA THEN bob ELSE ann]
MCConfigs == {[percent |-> None, veto |-> 1], [percent |-> 50, veto |-> 0]}
MCRequests ==
  {[split |-> TRUE, amount |-> 3, limit |-> 1, duration |-> 3, proposal |-> 1,
    friends |-> {annA, bobA}]}
=============================================================================
