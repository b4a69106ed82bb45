----------------------------- MODULE MCRegistry -----------------------------
(* A small instance of Registry for TLC. *)
EXTENDS Registry, TLC

CONSTANTS abstractNs, ns1,   \* namespaces
          c0, c1, c2,        \* code ids
          host               \* a contract

Info(n, name, v) == [namespace |-> n, name |-> name, version |-> v]
AtCode(kind, c) == [kind |-> kind, at |-> c]

MCAccountModule == Info(abstractNs, "account", 1)
MCAccountRef == AtCode("account", c0)
MCHostModule == Info(abstractNs, "ibc-host", 1)
MCHostRef == AtCode("native", host)

\* Module life cycle: two references compete for one info.
App == Info(ns1, "app", 1)
LibraryModules == {MCAccountModule, App}
LibraryProposals ==
  {<<MCAccountModule, MCAccountRef>>,
   <<App, AtCode("app", c1)>>, <<App, AtCode("standalone", c2)>>}

\* Account contracts are interchangeable: no action names one of them.
AddrSymmetry == Permutations(Addr)
=============================================================================
