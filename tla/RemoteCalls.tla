---------------------------- MODULE RemoteCalls ----------------------------
(***************************************************************************)
(* What a caller may rely on when it asks for something on another chain   *)
(* through the ibc client: the request takes effect there at most once and *)
(* only while it is open, and an answer, if one comes, comes once and says *)
(* truthfully whether it took effect.                                      *)
(***************************************************************************)
CONSTANTS Request, None

VARIABLES
  stage,   \* "idle", "open", "performed", "rejected", "closed"
  effect,  \* the request has taken effect on the other chain
  answer   \* what the caller was told: "ok", "error", or None

Stage == {"idle", "open", "performed", "rejected", "closed"}

callVars == <<stage, effect, answer>>

TypeOK ==
  /\ stage \in [Request -> Stage]
  /\ effect \in [Request -> BOOLEAN]
  /\ answer \in [Request -> {"ok", "error", None}]

Init ==
  /\ stage = [r \in Request |-> "idle"]
  /\ effect = [r \in Request |-> FALSE]
  /\ answer = [r \in Request |-> None]

Ask(r) ==
  /\ stage[r] = "idle"
  /\ stage' = [stage EXCEPT ![r] = "open"]
  /\ UNCHANGED <<effect, answer>>

Perform(r) ==
  /\ stage[r] = "open"
  /\ stage' = [stage EXCEPT ![r] = "performed"]
  /\ effect' = [effect EXCEPT ![r] = TRUE]
  /\ UNCHANGED answer

\* Refused on the other chain, or timed out before it got there.
Reject(r) ==
  /\ stage[r] = "open"
  /\ stage' = [stage EXCEPT ![r] = "rejected"]
  /\ UNCHANGED <<effect, answer>>

\* The caller may have asked for no answer, or the answer may be lost.
Close(r) ==
  /\ stage[r] \in {"performed", "rejected"}
  /\ stage' = [stage EXCEPT ![r] = "closed"]
  /\ \/ UNCHANGED answer
     \/ answer' = [answer EXCEPT ![r] = IF effect[r] THEN "ok" ELSE "error"]
  /\ UNCHANGED effect

Next == \E r \in Request : Ask(r) \/ Perform(r) \/ Reject(r) \/ Close(r)

Spec == Init /\ [][Next]_callVars
=============================================================================
