----------------------------- MODULE MCAnsHost ------------------------------
(* A small instance of AnsHost for TLC.  Assets and dexes have the same two *)
(* names, which is allowed, and one of the names is written in two ways.    *)
EXTENDS AnsHost

CONSTANTS x, y, X

MCLower == [n \in {x, y, X} |-> IF n = X THEN x ELSE n]
MCRank == [n \in Name |-> CASE n = x -> 2 [] n = y -> 1 [] n = X -> 0]
MCKeyRank == [k \in Name \X Name \X Name |->
                9 * MCRank[k[1]] + 3 * MCRank[k[2]] + MCRank[k[3]]]
MCPools == {[dex |-> X, assets |-> <<X, y>>], [dex |-> y, assets |-> <<x, x, y>>]}
=============================================================================
