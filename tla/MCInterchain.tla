---------------------------- MODULE MCInterchain ----------------------------
(* A small instance of Interchain for TLC: two chains, connected both ways. *)
EXTENDS Interchain

CONSTANTS neutron, osmosis, there, back

MCHome == [n \in {there, back} |-> IF n = there THEN neutron ELSE osmosis]
MCPeer == [n \in {there, back} |-> IF n = there THEN osmosis ELSE neutron]

AccountOn(t) == [trace |-> t, seq |-> 1]

\* One account on neutron; on osmosis only what comes from there.
MCLocal == {[at |-> neutron, id |-> AccountOn(<< >>)]}
MCFund == {[at |-> osmosis, id |-> AccountOn(<<neutron>>)],
           [at |-> neutron, id |-> AccountOn(<<neutron, osmosis>>)],
           [at |-> osmosis, id |-> AccountOn(<<neutron, osmosis, neutron>>)]}
=============================================================================
