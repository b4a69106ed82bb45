------------------------------- MODULE Voting -------------------------------
(***************************************************************************)
(* The voting object of abstract-std (objects/voting.rs): a contract that  *)
(* keeps one creates proposals, lets the listed voters vote until the end, *)
(* vetoes them in the veto period that follows and counts the votes after  *)
(* it.  What a stored proposal is depends on the clock: load_proposal      *)
(* derives it.                                                             *)
(***************************************************************************)
EXTENDS Clock, Sequences, FiniteSets

CONSTANTS
  Voter,         \* addresses
  MaxProposals,  \* bound: proposals that are created
  None

ASSUME VotingAssumption ==
  /\ MaxTime \in Nat /\ MaxProposals \in Nat
  /\ IsFiniteSet(Voter) /\ None \notin BOOLEAN /\ None \notin Nat

VARIABLES
  voteConfig,  \* vote_config
  info,        \* proposals_info; next_proposal_id is its length
  votes        \* proposals: the vote of each listed voter, None before the first

votingVars == <<voteConfig, info, votes>>

\* VoteConfig: percent is None for Threshold::Majority, veto 0 for no veto.
VoteConfig == [percent : Nat \cup {None}, veto : Nat]

Outcome == {"passed", "failed", "canceled", "vetoed"}

ProposalInfo == [total : Nat, for : Nat, against : Nat, stored : Outcome \cup {"active"},
                 config : VoteConfig, end : Nat]

\* validate_percentage, at instantiation only.
ValidConfig(config) == config.percent # None => config.percent \in 1 .. 100

-----------------------------------------------------------------------------
VetoExpiration(p) == p.end + p.config.veto

\* load_proposal: the status at time t.
StatusAt(p, t) ==
  IF p.stored # "active" THEN p.stored
  ELSE IF t < p.end THEN "active"
  ELSE IF t < VetoExpiration(p) THEN "veto" ELSE "waiting"

\* Mutant: the votes are counted as soon as voting ends.
Early_CanCount(p) == StatusAt(p, now) \in {"veto", "waiting"}
CanCount(p) == StatusAt(p, now) = "waiting"

\* Mutant: the threshold is a share of the votes that were cast.
Cast_Required(p) ==
  IF p.config.percent = None THEN (p.for + p.against) \div 2 + 1
  ELSE ((p.for + p.against) * p.config.percent) \div 100

\* The votes a proposal needs: count_votes.
Required(p) ==
  IF p.config.percent = None THEN p.total \div 2 + 1
  ELSE (p.total * p.config.percent) \div 100

CountOutcome(p) == IF p.for >= Required(p) THEN "passed" ELSE "failed"

\* vote_update
VoteUpdate(p, previous, vote) ==
  [p EXCEPT !.for = @ + (IF vote THEN 1 ELSE 0) - (IF previous = TRUE THEN 1 ELSE 0),
            !.against = @ + (IF vote THEN 0 ELSE 1) - (IF previous = FALSE THEN 1 ELSE 0)]

\* finish_vote
FinishVote(p, outcome) == [p EXCEPT !.stored = outcome, !.end = now]

-----------------------------------------------------------------------------
(* The operations; a contract calls them within its own.                   *)

\* instantiate
VotingInit(configs) ==
  /\ voteConfig \in {c \in configs : ValidConfig(c)}
  /\ info = << >>
  /\ votes = << >>

\* update_vote_config, which validates nothing.
UpdateVoteConfig(config) ==
  /\ voteConfig' = config
  /\ UNCHANGED <<info, votes>>

\* assert_active_proposal
IsActive(p) == StatusAt(p, now) = "active"

\* cast_vote on the proposal id of ps, whose listed votes are vs.
CastVote(ps, vs, id, voter, vote) ==
  /\ IsActive(ps[id])
  /\ voter \in DOMAIN vs[id]
  /\ info' = [ps EXCEPT ![id] = VoteUpdate(@, vs[id][voter], vote)]
  /\ votes' = [vs EXCEPT ![id][voter] = vote]
  /\ UNCHANGED voteConfig

\* new_proposal, before anything is saved on it.
NewInfo(end, voters) ==
  Append(info, [total |-> Cardinality(voters), for |-> 0, against |-> 0, stored |-> "active",
                config |-> voteConfig, end |-> end])
NewVotes(voters) == Append(votes, [v \in voters |-> None])

\* cancel_proposal
CancelProposal(id) ==
  /\ IsActive(info[id])
  /\ info' = [info EXCEPT ![id] = FinishVote(@, "canceled")]
  /\ UNCHANGED <<voteConfig, votes>>

\* Mutant: the result is not stored.
Forgetful_Counted(id) == info
Counted(id) == [info EXCEPT ![id] = FinishVote(@, CountOutcome(@))]

\* count_votes
CountVotes(id) ==
  /\ CanCount(info[id])
  /\ info' = Counted(id)
  /\ UNCHANGED <<voteConfig, votes>>

\* veto_proposal, which keeps the end.
VetoProposal(id) ==
  /\ StatusAt(info[id], now) = "veto"
  /\ info' = [info EXCEPT ![id].stored = "vetoed"]
  /\ UNCHANGED <<voteConfig, votes>>

-----------------------------------------------------------------------------
VotingTypeOK ==
  /\ now \in 0 .. MaxTime
  /\ voteConfig \in VoteConfig
  /\ info \in Seq(ProposalInfo) /\ Len(info) <= MaxProposals
  /\ votes \in Seq(UNION {[V -> BOOLEAN \cup {None}] : V \in SUBSET Voter})
  /\ Len(votes) = Len(info)

VotesCast(id, vote) == {v \in DOMAIN votes[id] : votes[id][v] = vote}

\* However often voters change their minds, the tallies that decide a proposal are
\* those of the votes on record.
TalliesMatchVotes ==
  \A id \in DOMAIN info :
    /\ info[id].for = Cardinality(VotesCast(id, TRUE))
    /\ info[id].against = Cardinality(VotesCast(id, FALSE))
    /\ info[id].total = Cardinality(DOMAIN votes[id])

\* A proposal that was counted passed if and only if it had the support its own
\* configuration asks for, whatever became of the configuration since ("For cases config
\* got changed during voting"): of all voters, not of those who voted.  A percentage is
\* rounded down to whole votes.
PassedWithSupport ==
  \A id \in DOMAIN info : info[id].stored \in {"passed", "failed"} =>
    LET n == Cardinality(VotesCast(id, TRUE))
        all == Cardinality(DOMAIN votes[id])
        percent == info[id].config.percent
    IN info[id].stored = "passed" <=>
         (IF percent = None THEN 2 * n > all ELSE 100 * n > all * percent - 100)

\* The outcome of a proposal is what the recorded votes of the listed voters make it.
OutcomesMatchVotes == TalliesMatchVotes /\ PassedWithSupport

\* What is settled stays settled: once voting has ended the votes stand, a finished
\* proposal never changes, and a proposal keeps the configuration it began with.
Settled(id) ==
  /\ now >= info[id].end => votes'[id] = votes[id]
  /\ info[id].stored # "active" => info'[id] = info[id]
  /\ info'[id].config = info[id].config

\* The admin has the whole veto period that load_proposal derives: a proposal is vetoed
\* only in it, canceled only before it, and its outcome is final only after it.  (That
\* the votes are also counted only then is what the code does; the comment of
\* count_votes has it "finish or move to the veto period".)
VetoBeforeOutcome(id) ==
  info'[id].stored # info[id].stored =>
    CASE info'[id].stored \in {"passed", "failed"} -> now >= VetoExpiration(info[id])
      [] info'[id].stored = "vetoed" -> now >= info[id].end /\ now < VetoExpiration(info[id])
      [] OTHER -> now < info[id].end

\* A proposal is settled once, in its time, and for good.
SettledInTime == [][\A id \in DOMAIN info : Settled(id) /\ VetoBeforeOutcome(id)]_<<now, votingVars>>
=============================================================================
