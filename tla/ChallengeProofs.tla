-------------------------- MODULE ChallengeProofs ---------------------------
(***************************************************************************)
(* Theorems about the challenge app and the voting object it keeps, for    *)
(* every number of friends, every vote configuration and every clock.      *)
(* They rest on one invariant: the proposals of a challenge and their      *)
(* tallies (ProposalsInv), which proposal of a challenge is the running    *)
(* one (VotersAreFriends), and what has been charged (PenaltiesJustified). *)
(***************************************************************************)
EXTENDS Challenge, FoldLemmas, TLAPS

-----------------------------------------------------------------------------
(* One proposal and its votes *)

VoteFcn == UNION {[V -> BOOLEAN \cup {None}] : V \in SUBSET Voter}

Cast(v, vote) == {x \in DOMAIN v : v[x] = vote}

\* The tallies are those of the votes, and a proposal that passed had what it needed.
ProposalOK(p, v) ==
  /\ p \in ProposalInfo
  /\ v \in VoteFcn
  /\ p.for = Cardinality(Cast(v, TRUE))
  /\ p.against = Cardinality(Cast(v, FALSE))
  /\ p.total = Cardinality(DOMAIN v)
  /\ p.stored \in {"passed", "failed"} => (p.stored = "passed" <=> p.for >= Required(p))

LEMMA VotesFinite ==
  ASSUME NEW v \in VoteFcn
  PROVE  /\ DOMAIN v \subseteq Voter /\ IsFiniteSet(DOMAIN v)
         /\ \A vote : IsFiniteSet(Cast(v, vote))
         /\ \A x \in DOMAIN v : v[x] \in BOOLEAN \cup {None}
  <1>1. DOMAIN v \subseteq Voter /\ \A x \in DOMAIN v : v[x] \in BOOLEAN \cup {None}
    BY DEF VoteFcn
  <1>2. IsFiniteSet(DOMAIN v)
    BY <1>1, VotingAssumption, FS_Subset
  <1>3. \A vote : Cast(v, vote) \subseteq DOMAIN v
    BY DEF Cast
  <1>4. \A vote : IsFiniteSet(Cast(v, vote))
    BY <1>2, <1>3, FS_Subset
  <1> QED BY <1>1, <1>2, <1>4

\* What one voter's vote does to the set of those who voted so.
LEMMA CastChanges ==
  ASSUME NEW v \in VoteFcn, NEW voter \in DOMAIN v, NEW vote \in BOOLEAN, NEW b \in BOOLEAN
  PROVE  LET w == [v EXCEPT ![voter] = vote] IN
         Cardinality(Cast(w, b)) = Cardinality(Cast(v, b))
             + (IF vote = b THEN 1 ELSE 0) - (IF v[voter] = b THEN 1 ELSE 0)
  <1> DEFINE w == [v EXCEPT ![voter] = vote]
             others == Cast(v, b) \ {voter}
             n == Cardinality(others)
  <1>1. IsFiniteSet(Cast(v, b)) /\ IsFiniteSet(others) /\ n \in Nat
    BY VotesFinite, FS_RemoveElement, FS_CardinalityType
  <1>2. Cardinality(Cast(v, b)) = n + (IF v[voter] = b THEN 1 ELSE 0)
    <2>1. CASE v[voter] = b
      <3>1. Cast(v, b) = others \cup {voter} /\ voter \notin others
        BY <2>1 DEF Cast
      <3>2. Cardinality(others \cup {voter}) = n + 1
        BY <1>1, <3>1, FS_AddElement
      <3> QED BY <2>1, <3>1, <3>2
    <2>2. CASE v[voter] # b
      <3>1. Cast(v, b) = others
        BY <2>2 DEF Cast
      <3> QED BY <1>1, <2>2, <3>1
    <2> QED BY <2>1, <2>2
  <1>3. Cardinality(Cast(w, b)) = n + (IF vote = b THEN 1 ELSE 0)
    <2>0. DOMAIN w = DOMAIN v /\ w[voter] = vote /\ \A x \in DOMAIN v \ {voter} : w[x] = v[x]
      OBVIOUS
    <2> HIDE DEF w
    <2>1. CASE vote = b
      <3>1. Cast(w, b) = others \cup {voter} /\ voter \notin others
        BY <2>0, <2>1 DEF Cast
      <3>2. Cardinality(others \cup {voter}) = n + 1
        BY <1>1, <3>1, FS_AddElement
      <3> QED BY <2>1, <3>1, <3>2
    <2>2. CASE vote # b
      <3>1. Cast(w, b) = others
        BY <2>0, <2>2 DEF Cast
      <3> QED BY <1>1, <2>2, <3>1
    <2> QED BY <2>1, <2>2
  <1> HIDE DEF n, w
  <1>4. Cardinality(Cast(w, b)) = Cardinality(Cast(v, b))
             + (IF vote = b THEN 1 ELSE 0) - (IF v[voter] = b THEN 1 ELSE 0)
    BY <1>1, <1>2, <1>3
  <1> QED BY <1>4 DEF w

LEMMA BooleanTests ==
  ASSUME NEW vote \in BOOLEAN
  PROVE  /\ (IF vote = TRUE THEN 1 ELSE 0) = (IF vote THEN 1 ELSE 0)
         /\ (IF vote = FALSE THEN 1 ELSE 0) = (IF vote THEN 0 ELSE 1)
  OBVIOUS

\* cast_vote keeps the tallies right, whatever the voter voted before.
LEMMA VoteKeeps ==
  ASSUME NEW p, NEW v, ProposalOK(p, v), NEW voter \in DOMAIN v, NEW vote \in BOOLEAN,
         p.stored = "active"
  PROVE  LET q == VoteUpdate(p, v[voter], vote)
             w == [v EXCEPT ![voter] = vote]
         IN ProposalOK(q, w) /\ q.stored = p.stored /\ q.end = p.end /\ q.config = p.config
            /\ DOMAIN w = DOMAIN v
  <1> DEFINE w == [v EXCEPT ![voter] = vote]
             yes == Cardinality(Cast(w, TRUE))
             no == Cardinality(Cast(w, FALSE))
  <1>1. w \in VoteFcn /\ DOMAIN w = DOMAIN v
    <2>1. PICK V \in SUBSET Voter : v \in [V -> BOOLEAN \cup {None}]
      BY DEF ProposalOK, VoteFcn
    <2>2. w \in [V -> BOOLEAN \cup {None}]
      BY <2>1
    <2> QED BY <2>1, <2>2 DEF VoteFcn
  <1>2. yes \in Nat /\ no \in Nat
    <2> HIDE DEF w
    <2> QED BY <1>1, VotesFinite, FS_CardinalityType
  <1>3. /\ yes = p.for + (IF vote = TRUE THEN 1 ELSE 0) - (IF v[voter] = TRUE THEN 1 ELSE 0)
        /\ no = p.against + (IF vote = FALSE THEN 1 ELSE 0) - (IF v[voter] = FALSE THEN 1 ELSE 0)
    BY CastChanges DEF ProposalOK
  <1>4. /\ yes = p.for + (IF vote THEN 1 ELSE 0) - (IF v[voter] = TRUE THEN 1 ELSE 0)
        /\ no = p.against + (IF vote THEN 0 ELSE 1) - (IF v[voter] = FALSE THEN 1 ELSE 0)
    <2> HIDE DEF yes, no
    <2> QED BY <1>3, BooleanTests
  <1>5. VoteUpdate(p, v[voter], vote) = [p EXCEPT !.for = yes, !.against = no]
    <2> HIDE DEF yes, no
    <2> QED BY <1>4 DEF VoteUpdate
  <1> DEFINE q == [p EXCEPT !.for = yes, !.against = no]
  <1>6. /\ q \in ProposalInfo /\ q.for = yes /\ q.against = no /\ q.total = p.total
        /\ q.stored = p.stored /\ q.end = p.end /\ q.config = p.config
    <2> HIDE DEF yes, no
    <2> QED BY <1>2 DEF ProposalOK, ProposalInfo
  <1> HIDE DEF q, w, yes, no
  <1>7. ProposalOK(q, w)
    BY <1>1, <1>6 DEF ProposalOK, yes, no
  <1> QED BY <1>1, <1>5, <1>6, <1>7 DEF q, w

\* cancel_proposal and count_votes.
LEMMA FinishKeeps ==
  ASSUME NEW p, NEW v, ProposalOK(p, v), now \in Nat,
         NEW outcome \in {"canceled", CountOutcome(p)}
  PROVE  LET q == FinishVote(p, outcome) IN
         /\ ProposalOK(q, v) /\ q.stored = outcome /\ q.end = now /\ q.config = p.config
         /\ outcome \in Outcome
  <1>1. outcome \in Outcome
    BY DEF Outcome, CountOutcome
  <1> DEFINE q == [p EXCEPT !.stored = outcome, !.end = now]
  <1>2. /\ q \in ProposalInfo /\ q.for = p.for /\ q.against = p.against /\ q.total = p.total
        /\ q.stored = outcome /\ q.end = now /\ q.config = p.config
    BY <1>1 DEF ProposalOK, ProposalInfo
  <1> HIDE DEF q
  <1>3. Required(q) = Required(p)
    BY <1>2 DEF Required
  <1>4. outcome \in {"passed", "failed"} => (outcome = "passed" <=> p.for >= Required(p))
    BY DEF CountOutcome
  <1>5. ProposalOK(q, v)
    BY <1>2, <1>3, <1>4 DEF ProposalOK
  <1>6. FinishVote(p, outcome) = q
    BY DEF FinishVote, q
  <1> QED BY <1>1, <1>2, <1>5, <1>6

\* veto_proposal
LEMMA VetoKeeps ==
  ASSUME NEW p, NEW v, ProposalOK(p, v)
  PROVE  LET q == [p EXCEPT !.stored = "vetoed"] IN
         ProposalOK(q, v) /\ q.stored = "vetoed" /\ q.end = p.end /\ q.config = p.config
  <1> DEFINE q == [p EXCEPT !.stored = "vetoed"]
  <1>1. /\ q \in ProposalInfo /\ q.for = p.for /\ q.against = p.against /\ q.total = p.total
        /\ q.stored = "vetoed" /\ q.end = p.end /\ q.config = p.config
    BY DEF ProposalOK, ProposalInfo, Outcome
  <1> HIDE DEF q
  <1>2. ProposalOK(q, v)
    BY <1>1 DEF ProposalOK
  <1> QED BY <1>1, <1>2 DEF q

\* new_proposal
LEMMA NewKeeps ==
  ASSUME NEW voters \in SUBSET Voter, NEW end \in Nat, voteConfig \in VoteConfig
  PROVE  LET p == [total |-> Cardinality(voters), for |-> 0, against |-> 0, stored |-> "active",
                   config |-> voteConfig, end |-> end]
             v == [x \in voters |-> None]
         IN ProposalOK(p, v) /\ DOMAIN v = voters
  <1> DEFINE v == [x \in voters |-> None]
             p == [total |-> Cardinality(voters), for |-> 0, against |-> 0, stored |-> "active",
                   config |-> voteConfig, end |-> end]
  <1>1. v \in VoteFcn /\ DOMAIN v = voters
    <2>1. v \in [voters -> BOOLEAN \cup {None}]
      OBVIOUS
    <2> QED BY <2>1 DEF VoteFcn
  <1>2. Cast(v, TRUE) = {} /\ Cast(v, FALSE) = {}
    BY VotingAssumption DEF Cast
  <1>3. Cardinality(voters) \in Nat
    BY VotingAssumption, FS_Subset, FS_CardinalityType
  <1>4. p \in ProposalInfo
    BY <1>3 DEF ProposalInfo
  <1> HIDE DEF v
  <1>5. ProposalOK(p, v)
    BY <1>1, <1>2, <1>4, FS_EmptySet DEF ProposalOK
  <1> QED BY <1>1, <1>5 DEF v

-----------------------------------------------------------------------------
(* What an operation of the voting object does to the proposals *)

ProposalsInv ==
  /\ VotingTypeOK
  /\ \A id \in DOMAIN info : ProposalOK(info[id], votes[id])

\* A proposal that is voted on, counted, vetoed or canceled, in its time.
Moved(id) ==
  LET p == info[id]
      q == info'[id]
  IN
  /\ ProposalOK(q, votes'[id]) /\ q.config = p.config /\ p.stored = "active"
  /\ DOMAIN votes'[id] = DOMAIN votes[id]
  /\ \/ q.stored = "active" /\ q.end = p.end /\ now < p.end
     \/ votes'[id] = votes[id] /\ q.stored = CountOutcome(p) /\ VetoExpiration(p) <= now
     \/ votes'[id] = votes[id] /\ q.stored = "vetoed" /\ p.end <= now /\ now < VetoExpiration(p)
     \/ votes'[id] = votes[id] /\ q.stored = "canceled" /\ now < p.end

OneMoved(id) ==
  /\ id \in DOMAIN info
  /\ Moved(id)
  /\ info' \in Seq(ProposalInfo) /\ Len(info') = Len(info)
  /\ votes' \in Seq(VoteFcn) /\ Len(votes') = Len(votes)
  /\ \A other \in DOMAIN info \ {id} : info'[other] = info[other] /\ votes'[other] = votes[other]

LEMMA ProposalFacts ==
  ASSUME ProposalsInv, NEW id \in DOMAIN info
  PROVE  /\ info \in Seq(ProposalInfo) /\ votes \in Seq(VoteFcn) /\ Len(votes) = Len(info)
         /\ DOMAIN votes = DOMAIN info /\ DOMAIN info = 1 .. Len(info) /\ Len(info) \in Nat
         /\ ProposalOK(info[id], votes[id]) /\ info[id] \in ProposalInfo /\ votes[id] \in VoteFcn
         /\ now \in Nat /\ info[id].end \in Nat /\ VetoExpiration(info[id]) \in Nat
         /\ info[id].end <= VetoExpiration(info[id])
         /\ info[id].stored \in Outcome \cup {"active"}
  <1>1. /\ info \in Seq(ProposalInfo) /\ votes \in Seq(VoteFcn) /\ Len(votes) = Len(info)
    BY DEF ProposalsInv, VotingTypeOK, VoteFcn
  <1>2. DOMAIN votes = DOMAIN info /\ DOMAIN info = 1 .. Len(info) /\ Len(info) \in Nat
    BY <1>1
  <1>3. ProposalOK(info[id], votes[id]) /\ info[id] \in ProposalInfo /\ votes[id] \in VoteFcn
    BY DEF ProposalsInv, ProposalOK
  <1>4. now \in Nat
    BY VotingAssumption DEF ProposalsInv, VotingTypeOK
  <1>5. info[id].end \in Nat /\ info[id].config.veto \in Nat /\ info[id].stored \in Outcome \cup {"active"}
    BY <1>3 DEF ProposalInfo, VoteConfig
  <1>6. VetoExpiration(info[id]) \in Nat /\ info[id].end <= VetoExpiration(info[id])
    BY <1>5 DEF VetoExpiration
  <1> QED BY <1>1, <1>2, <1>3, <1>4, <1>5, <1>6

\* The status that load_proposal derives, read the other way.
LEMMA StatusMeans ==
  ASSUME NEW p, p.stored \in Outcome \cup {"active"}
  PROVE  /\ StatusAt(p, now) = "active" <=> p.stored = "active" /\ now < p.end
         /\ StatusAt(p, now) = "veto" => p.stored = "active" /\ ~(now < p.end) /\ now < VetoExpiration(p)
         /\ StatusAt(p, now) = "waiting" => p.stored = "active" /\ ~(now < VetoExpiration(p))
  BY DEF StatusAt, Outcome

LEMMA VoteMoves ==
  ASSUME ProposalsInv, NEW id \in DOMAIN info, NEW voter, NEW vote \in BOOLEAN,
         CastVote(info, votes, id, voter, vote)
  PROVE  OneMoved(id) /\ info'[id].stored = "active" /\ info'[id].end = info[id].end
  <1>1. /\ info[id].stored = "active" /\ now < info[id].end /\ voter \in DOMAIN votes[id]
    BY ProposalFacts, StatusMeans DEF CastVote, IsActive
  <1> DEFINE q == VoteUpdate(info[id], votes[id][voter], vote)
             w == [votes[id] EXCEPT ![voter] = vote]
  <1>2. ProposalOK(q, w) /\ q.stored = "active" /\ q.end = info[id].end /\ q.config = info[id].config
        /\ DOMAIN w = DOMAIN votes[id]
    BY <1>1, ProposalFacts, VoteKeeps
  <1>3. info' = [info EXCEPT ![id] = q] /\ votes' = [votes EXCEPT ![id] = w]
    BY DEF CastVote
  <1> HIDE DEF q, w
  <1>4. q \in ProposalInfo /\ w \in VoteFcn
    BY <1>2 DEF ProposalOK
  <1>5. info'[id] = q /\ votes'[id] = w
    BY <1>3, ProposalFacts
  <1>6. Moved(id)
    BY <1>1, <1>2, <1>5 DEF Moved
  <1> QED BY <1>2, <1>3, <1>4, <1>5, <1>6, ProposalFacts DEF OneMoved

\* The operations that leave the votes alone.
LEMMA OutcomeMoves ==
  ASSUME ProposalsInv, NEW id \in DOMAIN info, NEW q, info' = [info EXCEPT ![id] = q],
         votes' = votes, ProposalOK(q, votes[id]), q.config = info[id].config,
         info[id].stored = "active",
         \/ q.stored = CountOutcome(info[id]) /\ VetoExpiration(info[id]) <= now
         \/ q.stored = "vetoed" /\ info[id].end <= now /\ now < VetoExpiration(info[id])
         \/ q.stored = "canceled" /\ now < info[id].end
  PROVE  OneMoved(id) /\ info'[id] = q
  <1>1. q \in ProposalInfo
    BY DEF ProposalOK
  <1>2. info'[id] = q
    BY ProposalFacts
  <1>3. Moved(id)
    BY <1>2 DEF Moved
  <1> QED BY <1>1, <1>2, <1>3, ProposalFacts DEF OneMoved

LEMMA CancelMoves ==
  ASSUME ProposalsInv, NEW id \in DOMAIN info, CancelProposal(id)
  PROVE  OneMoved(id) /\ info'[id].stored = "canceled"
  <1> DEFINE q == FinishVote(info[id], "canceled")
  <1>1. info[id].stored = "active" /\ now < info[id].end
    BY ProposalFacts, StatusMeans DEF CancelProposal, IsActive
  <1>2. ProposalOK(q, votes[id]) /\ q.stored = "canceled" /\ q.config = info[id].config
    BY ProposalFacts, FinishKeeps
  <1>3. info' = [info EXCEPT ![id] = q] /\ votes' = votes
    BY DEF CancelProposal
  <1> HIDE DEF q
  <1> QED BY <1>1, <1>2, <1>3, OutcomeMoves

LEMMA CountMoves ==
  ASSUME ProposalsInv, NEW id \in DOMAIN info, CountVotes(id)
  PROVE  OneMoved(id) /\ info'[id].stored = CountOutcome(info[id])
  <1> DEFINE q == FinishVote(info[id], CountOutcome(info[id]))
  <1>1. info[id].stored = "active" /\ VetoExpiration(info[id]) <= now
    BY ProposalFacts, StatusMeans DEF CountVotes, CanCount
  <1>2. ProposalOK(q, votes[id]) /\ q.stored = CountOutcome(info[id]) /\ q.config = info[id].config
    BY ProposalFacts, FinishKeeps
  <1>3. info' = [info EXCEPT ![id] = q] /\ votes' = votes
    BY DEF CountVotes, Counted
  <1> HIDE DEF q
  <1> QED BY <1>1, <1>2, <1>3, OutcomeMoves

LEMMA VetoMoves ==
  ASSUME ProposalsInv, NEW id \in DOMAIN info, VetoProposal(id)
  PROVE  OneMoved(id) /\ info'[id].stored = "vetoed"
  <1> DEFINE q == [info[id] EXCEPT !.stored = "vetoed"]
  <1>1. info[id].stored = "active" /\ info[id].end <= now /\ now < VetoExpiration(info[id])
    BY ProposalFacts, StatusMeans DEF VetoProposal
  <1>2. ProposalOK(q, votes[id]) /\ q.stored = "vetoed" /\ q.config = info[id].config
    BY ProposalFacts, VetoKeeps
  <1>3. info' = [info EXCEPT ![id] = q] /\ votes' = votes
    BY ProposalFacts DEF VetoProposal
  <1> HIDE DEF q
  <1> QED BY <1>1, <1>2, <1>3, OutcomeMoves

-----------------------------------------------------------------------------
(* The invariant of the app *)

AppInv ==
  /\ challenges \in Seq(Entry) /\ Len(challenges) <= MaxChallenges
  /\ friends \in Seq(SUBSET Friend) /\ Len(friends) = Len(challenges)
  /\ charges \in Seq([challenge : Nat, proposal : Nat, friends : Nat \ {0}, each : Nat])
  /\ proposals \subseteq (DOMAIN challenges) \X (DOMAIN info)
  /\ \A id \in DOMAIN info : \E c \in DOMAIN challenges :
       \A d \in DOMAIN challenges : <<d, id>> \in proposals <=> d = c

ChallengeInv ==
  /\ ProposalsInv
  /\ AppInv
  /\ VotersAreFriends
  /\ PenaltiesJustified

\* last_proposal: the proposal with the highest id, if there is one.
LEMMA LastSpec ==
  ASSUME ProposalsInv, NEW c
  PROVE  /\ Of(c) = {} <=> Last(c) = None
         /\ Of(c) # {} => Last(c) \in Of(c) /\ \A other \in Of(c) : other <= Last(c)
         /\ Of(c) \subseteq DOMAIN info /\ DOMAIN info \subseteq Nat /\ DOMAIN info = 1 .. Len(info)
  <1>1. DOMAIN info = 1 .. Len(info) /\ Len(info) \in Nat
    BY DEF ProposalsInv, VotingTypeOK
  <1>2. Of(c) \subseteq DOMAIN info /\ DOMAIN info \subseteq Nat
    BY <1>1 DEF Of
  <1>3. ASSUME Of(c) # {} PROVE Last(c) \in Of(c) /\ \A other \in Of(c) : other <= Last(c)
    <2>1. \A id \in Of(c) : id <= Len(info)
      BY <1>1, <1>2
    <2>2. \E m \in Of(c) : \A other \in Of(c) : other <= m
      BY <1>1, <1>2, <1>3, <2>1, Highest
    <2>3. Max(Of(c)) \in Of(c) /\ \A other \in Of(c) : Max(Of(c)) >= other
      <3>1. \E m \in Of(c) : \A other \in Of(c) : m >= other
        BY <1>2, <2>2
      <3> QED BY <3>1 DEF Max
    <2> QED BY <1>2, <1>3, <2>3 DEF Last
  <1>4. Of(c) = {} => Last(c) = None
    BY DEF Last
  <1>5. Of(c) # {} => Last(c) # None
    BY <1>2, <1>3, VotingAssumption
  <1> QED BY <1>1, <1>2, <1>3, <1>4, <1>5

\* The last proposal of a challenge is one of its proposals.
LEMMA LastIsOne ==
  ASSUME ProposalsInv, NEW c, Last(c) # None
  PROVE  Last(c) \in DOMAIN info /\ <<c, Last(c)>> \in proposals
  BY LastSpec DEF Of

\* Active: as load_proposal says.
LEMMA ActiveMeans ==
  ASSUME ProposalsInv, NEW id \in DOMAIN info
  PROVE  IsActive(info[id]) <=> info[id].stored = "active" /\ now < info[id].end
  BY ProposalFacts, StatusMeans DEF IsActive

LEMMA InitInv == Init => ChallengeInv
  <1> SUFFICES ASSUME Init PROVE ChallengeInv
    OBVIOUS
  <1>1. /\ now = 0 /\ voteConfig \in VoteConfig /\ info = << >> /\ votes = << >>
        /\ challenges = << >> /\ friends = << >> /\ proposals = {} /\ charges = << >>
    BY ChallengeAssumption DEF Init, VotingInit
  <1>2. ProposalsInv
    BY <1>1, VotingAssumption DEF ProposalsInv, VotingTypeOK
  <1>3. AppInv
    BY <1>1, ChallengeAssumption DEF AppInv
  <1>4. VotersAreFriends
    BY <1>1 DEF VotersAreFriends
  <1>5. PenaltiesJustified
    BY <1>1 DEF PenaltiesJustified
  <1> QED BY <1>2, <1>3, <1>4, <1>5 DEF ChallengeInv

\* One proposal moves, and the app's own records of proposals and friends stay.
LEMMA MovedProposals ==
  ASSUME ProposalsInv, NEW id, OneMoved(id), UNCHANGED <<now, voteConfig>>
  PROVE  ProposalsInv'
  <1>1. /\ DOMAIN info' = DOMAIN info /\ Len(info') = Len(info) /\ Len(votes') = Len(votes)
        /\ Len(votes) = Len(info)
    BY DEF OneMoved, ProposalsInv, VotingTypeOK
  <1>2. \A j \in DOMAIN info' : ProposalOK(info'[j], votes'[j])
    BY <1>1 DEF OneMoved, Moved, ProposalsInv
  <1>3. VotingTypeOK'
    BY <1>1 DEF OneMoved, ProposalsInv, VotingTypeOK, VoteFcn
  <1> QED BY <1>2, <1>3 DEF ProposalsInv, ProposalOK, Required

LEMMA MovedFriends ==
  ASSUME ChallengeInv, NEW id, OneMoved(id),
         UNCHANGED <<now, voteConfig, proposals, friends>>, DOMAIN challenges' = DOMAIN challenges
  PROVE  VotersAreFriends'
  <1>1. DOMAIN info' = DOMAIN info /\ id \in DOMAIN info
    BY DEF OneMoved, ChallengeInv, ProposalsInv, VotingTypeOK
  <1>2. \A c : Of(c)' = Of(c) /\ Last(c)' = Last(c)
    BY <1>1 DEF Of, Last
  <1>3. ProposalsInv /\ ProposalsInv'
    BY MovedProposals DEF ChallengeInv
  <1> SUFFICES ASSUME NEW c \in DOMAIN challenges, NEW j \in Of(c), IsActive(info[j])'
               PROVE  j = Last(c) /\ DOMAIN votes'[j] = Addrs(friends[c])
    BY <1>2 DEF VotersAreFriends, Addrs
  <1>4. j \in DOMAIN info
    BY DEF Of
  <1>5. info'[j].stored = "active" /\ now < info'[j].end
    <2>1. info'[j].stored \in Outcome \cup {"active"}
      <3>1. info'[j] \in ProposalInfo
        BY <1>1, <1>4 DEF OneMoved
      <3> QED BY <3>1 DEF ProposalInfo
    <2>2. StatusAt(info'[j], now) = "active"
      BY DEF IsActive, StatusAt, VetoExpiration
    <2> QED BY <2>1, <2>2, StatusMeans
  <1>6. info[j].stored = "active" /\ now < info[j].end /\ DOMAIN votes'[j] = DOMAIN votes[j]
    <2>1. CASE j = id
      BY <1>5, <2>1 DEF OneMoved, Moved, CountOutcome
    <2>2. CASE j # id
      BY <1>4, <1>5, <2>2 DEF OneMoved
    <2> QED BY <2>1, <2>2
  <1>7. IsActive(info[j])
    BY <1>3, <1>4, <1>6, ActiveMeans
  <1> QED BY <1>6, <1>7 DEF VotersAreFriends, ChallengeInv

LEMMA ChargedProposals ==
  ASSUME ChallengeInv, NEW k \in DOMAIN charges
  PROVE  /\ charges[k].proposal \in DOMAIN info
         /\ info[charges[k].proposal].stored = "passed"
         /\ <<charges[k].challenge, charges[k].proposal>> \in proposals
  <1>1. /\ <<charges[k].challenge, charges[k].proposal>> \in proposals
        /\ info[charges[k].proposal].stored = "passed"
    BY DEF ChallengeInv, PenaltiesJustified
  <1>2. <<charges[k].challenge, charges[k].proposal>> \in (DOMAIN challenges) \X (DOMAIN info)
    BY <1>1 DEF ChallengeInv, AppInv
  <1> QED BY <1>1, <1>2

\* What is charged stays charged for.
LEMMA MovedPenalties ==
  ASSUME ChallengeInv, NEW id, OneMoved(id), info'[id].stored # "passed",
         UNCHANGED <<proposals, charges>>
  PROVE  PenaltiesJustified'
  <1>1. DOMAIN info' = DOMAIN info /\ info[id].stored = "active"
    BY DEF OneMoved, Moved, ChallengeInv, ProposalsInv, VotingTypeOK
  <1>2. \A k \in DOMAIN charges : charges[k].proposal \in DOMAIN info /\ charges[k].proposal # id
    BY <1>1, ChargedProposals
  <1>3. \A j \in DOMAIN info : info'[j].stored = "passed" <=> info[j].stored = "passed"
    BY <1>1 DEF OneMoved
  <1> QED BY <1>1, <1>2, <1>3 DEF PenaltiesJustified, ChallengeInv

LEMMA MovedApp ==
  ASSUME ChallengeInv, NEW id, OneMoved(id),
         UNCHANGED <<proposals, friends, charges>>,
         challenges' \in Seq(Entry), Len(challenges') = Len(challenges)
  PROVE  AppInv'
  <1>1. DOMAIN info' = DOMAIN info /\ DOMAIN challenges' = DOMAIN challenges
    BY DEF OneMoved, ChallengeInv, ProposalsInv, VotingTypeOK, AppInv
  <1> QED BY <1>1 DEF AppInv, ChallengeInv

\* One proposal moves without passing.
LEMMA MovedInv ==
  ASSUME ChallengeInv, NEW id, OneMoved(id), info'[id].stored # "passed",
         UNCHANGED <<now, voteConfig, proposals, friends, charges>>,
         challenges' \in Seq(Entry), Len(challenges') = Len(challenges)
  PROVE  ChallengeInv'
  <1>1. DOMAIN challenges' = DOMAIN challenges
    BY DEF ChallengeInv, AppInv
  <1>2. ProposalsInv' /\ AppInv' /\ VotersAreFriends' /\ PenaltiesJustified'
    BY <1>1, MovedProposals, MovedApp, MovedFriends, MovedPenalties DEF ChallengeInv
  <1> QED BY <1>2 DEF ChallengeInv

\* No proposal changes; time passes, or the app changes its challenges or friends.
LEMMA QuietInv ==
  ASSUME ChallengeInv, UNCHANGED <<info, votes, proposals, charges>>,
         now' \in 0 .. MaxTime, now <= now', voteConfig' \in VoteConfig,
         challenges' \in Seq(Entry), Len(challenges) <= Len(challenges'),
         Len(challenges') <= MaxChallenges,
         friends' \in Seq(SUBSET Friend), Len(friends') = Len(challenges'),
         \A c \in DOMAIN challenges : friends'[c] = friends[c] \/ FriendsEditable(c)
  PROVE  ChallengeInv'
  <1>1. DOMAIN challenges \subseteq DOMAIN challenges'
    BY DEF ChallengeInv, AppInv
  <1>2. ProposalsInv'
    <2>1. VotingTypeOK'
      BY DEF ChallengeInv, ProposalsInv, VotingTypeOK
    <2> QED BY <2>1 DEF ChallengeInv, ProposalsInv, ProposalOK, Required
  <1>3. AppInv'
    <2>1. proposals \subseteq (DOMAIN challenges) \X (DOMAIN info)
      BY DEF ChallengeInv, AppInv
    <2>2. proposals' \subseteq (DOMAIN challenges') \X (DOMAIN info')
      BY <1>1, <2>1
    <2>3. ASSUME NEW id \in DOMAIN info
          PROVE  \E c \in DOMAIN challenges' : \A d \in DOMAIN challenges' : <<d, id>> \in proposals <=> d = c
      <3>1. PICK c \in DOMAIN challenges :
              \A d \in DOMAIN challenges : <<d, id>> \in proposals <=> d = c
        BY DEF ChallengeInv, AppInv
      <3>2. \A d : <<d, id>> \in proposals => d \in DOMAIN challenges
        BY <2>1
      <3> QED BY <1>1, <3>1, <3>2
    <2> QED BY <2>2, <2>3 DEF ChallengeInv, AppInv
  <1>4. VotersAreFriends'
    <2>1. \A c : Of(c)' = Of(c) /\ Last(c)' = Last(c)
      BY DEF Of, Last
    <2> SUFFICES ASSUME NEW c \in DOMAIN challenges', NEW id \in Of(c), IsActive(info[id])'
                 PROVE  id = Last(c) /\ DOMAIN votes[id] = Addrs(friends'[c])
      BY <2>1 DEF VotersAreFriends, Addrs
    <2>2. id \in DOMAIN info /\ <<c, id>> \in proposals
      BY DEF Of
    <2>3. c \in DOMAIN challenges
      BY <2>2 DEF ChallengeInv, AppInv
    <2>4. info[id].stored = "active" /\ now < info[id].end
      <3>1. StatusAt(info[id], now') = "active"
        BY DEF IsActive, StatusAt, VetoExpiration
      <3>2. info[id].stored \in Outcome \cup {"active"} /\ now \in Nat /\ info[id].end \in Nat
        BY <2>2, ProposalFacts DEF ChallengeInv
      <3>3. info[id].stored = "active" /\ now' < info[id].end
        BY <3>1, <3>2 DEF StatusAt, Outcome
      <3> QED BY <3>2, <3>3
    <2>5. IsActive(info[id])
      BY <2>2, <2>4, ActiveMeans DEF ChallengeInv
    <2>6. id = Last(c) /\ DOMAIN votes[id] = Addrs(friends[c])
      BY <2>3, <2>5 DEF ChallengeInv, VotersAreFriends
    <2>7. ~FriendsEditable(c)
      <3>1. Last(c) # None
        BY LastSpec DEF ChallengeInv
      <3>2. now \in Nat /\ info[id].end \in Nat
        BY <2>2, ProposalFacts DEF ChallengeInv
      <3> QED BY <2>4, <2>6, <3>1, <3>2 DEF FriendsEditable
    <2> QED BY <2>3, <2>6, <2>7
  <1>5. PenaltiesJustified'
    BY DEF ChallengeInv, PenaltiesJustified
  <1> QED BY <1>2, <1>3, <1>4, <1>5 DEF ChallengeInv

\* The bounds of a quiet step that leaves the clock and the configuration alone.
LEMMA Bounds ==
  ASSUME ChallengeInv
  PROVE  /\ now \in 0 .. MaxTime /\ now \in Nat /\ now <= now /\ voteConfig \in VoteConfig
         /\ challenges \in Seq(Entry) /\ Len(challenges) \in Nat /\ Len(challenges) <= MaxChallenges
         /\ friends \in Seq(SUBSET Friend) /\ Len(friends) = Len(challenges)
         /\ DOMAIN friends = DOMAIN challenges
  BY VotingAssumption, ChallengeAssumption DEF ChallengeInv, ProposalsInv, VotingTypeOK, AppInv

LEMMA TickInv == ChallengeInv /\ Tick => ChallengeInv'
  <1> SUFFICES ASSUME ChallengeInv, Tick PROVE ChallengeInv'
    OBVIOUS
  <1>1. now' \in 0 .. MaxTime /\ now <= now'
    BY Bounds, VotingAssumption DEF Tick, TimePasses
  <1>2. UNCHANGED <<voteConfig, info, votes, challenges, friends, proposals, charges>>
    BY DEF Tick, TimePasses, votingVars, appVars
  <1> QED BY <1>1, <1>2, Bounds, QuietInv

LEMMA CreateInv ==
  ASSUME ChallengeInv, NEW req \in Requests, NEW text \in Text, CreateChallenge(req, text)
  PROVE  ChallengeInv'
  <1> DEFINE entry == [split |-> req.split, amount |-> req.amount, limit |-> req.limit,
                       end |-> now + req.duration, proposal |-> req.proposal, text |-> text]
  <1>1. /\ req.split \in BOOLEAN /\ req.amount \in Nat /\ req.limit \in Nat /\ req.duration \in Nat
        /\ req.proposal \in Nat /\ req.friends \in SUBSET Friend
    BY ChallengeAssumption
  <1>2. entry \in Entry
    BY <1>1, Bounds DEF Entry
  <1>3. challenges' = Append(challenges, entry) /\ friends' = Append(friends, req.friends)
    BY DEF CreateChallenge
  <1>4. UNCHANGED <<now, voteConfig, info, votes, proposals, charges>> /\ Len(challenges) < MaxChallenges
    BY DEF CreateChallenge, votingVars
  <1> HIDE DEF entry
  <1>5. /\ challenges' \in Seq(Entry) /\ Len(challenges') = Len(challenges) + 1
        /\ friends' \in Seq(SUBSET Friend) /\ Len(friends') = Len(challenges) + 1
        /\ \A c \in DOMAIN challenges : friends'[c] = friends[c]
    BY <1>1, <1>2, <1>3, Bounds
  <1>6. Len(challenges') <= MaxChallenges /\ Len(challenges) <= Len(challenges')
    BY <1>4, <1>5, Bounds, ChallengeAssumption
  <1> QED BY <1>4, <1>5, <1>6, Bounds, QuietInv

\* An entry keeps its type when its text or its end is replaced.
LEMMA EntryType ==
  ASSUME ChallengeInv, NEW c \in DOMAIN challenges, NEW text \in Text
  PROVE  /\ [challenges EXCEPT ![c].text = text] \in Seq(Entry)
         /\ Len([challenges EXCEPT ![c].text = text]) = Len(challenges)
         /\ [challenges EXCEPT ![c].end = now] \in Seq(Entry)
         /\ Len([challenges EXCEPT ![c].end = now]) = Len(challenges)
  <1>1. challenges \in Seq(Entry) /\ challenges[c] \in Entry /\ now \in Nat
    BY Bounds
  <1>2. [challenges[c] EXCEPT !.text = text] \in Entry /\ [challenges[c] EXCEPT !.end = now] \in Entry
    BY <1>1 DEF Entry
  <1>3. \A e \in Entry : [challenges EXCEPT ![c] = e] \in Seq(Entry)
                         /\ Len([challenges EXCEPT ![c] = e]) = Len(challenges)
    BY <1>1
  <1>4. /\ [challenges EXCEPT ![c].text = text] = [challenges EXCEPT ![c] = [challenges[c] EXCEPT !.text = text]]
        /\ [challenges EXCEPT ![c].end = now] = [challenges EXCEPT ![c] = [challenges[c] EXCEPT !.end = now]]
    OBVIOUS
  <1> QED BY <1>2, <1>3, <1>4

LEMMA UpdateInv ==
  ASSUME ChallengeInv, NEW c \in DOMAIN challenges, NEW text \in Text, UpdateChallenge(c, text)
  PROVE  ChallengeInv'
  <1>1. /\ challenges' \in Seq(Entry) /\ Len(challenges') = Len(challenges)
        /\ UNCHANGED <<now, voteConfig, info, votes, friends, proposals, charges>>
    BY EntryType DEF UpdateChallenge, votingVars
  <1>2. Len(challenges) <= Len(challenges')
    BY <1>1, Bounds
  <1> QED BY <1>1, <1>2, Bounds, QuietInv

LEMMA FriendsInv ==
  ASSUME ChallengeInv, NEW c \in DOMAIN challenges, NEW F \in SUBSET Friend,
         AddFriends(c, F) \/ RemoveFriends(c, F)
  PROVE  ChallengeInv'
  <1>1. /\ FriendsEditable(c)
        /\ friends' = [friends EXCEPT ![c] = friends[c] \cup F] \/ friends' = [friends EXCEPT ![c] = friends[c] \ F]
        /\ UNCHANGED <<now, voteConfig, info, votes, challenges, proposals, charges>>
    BY DEF AddFriends, RemoveFriends, votingVars
  <1>2. friends[c] \in SUBSET Friend /\ c \in DOMAIN friends
    BY Bounds
  <1>3. \A G \in SUBSET Friend : /\ [friends EXCEPT ![c] = G] \in Seq(SUBSET Friend)
                                 /\ Len([friends EXCEPT ![c] = G]) = Len(friends)
                                 /\ \A d \in DOMAIN challenges \ {c} : [friends EXCEPT ![c] = G][d] = friends[d]
    BY <1>2, Bounds
  <1>4. friends[c] \cup F \in SUBSET Friend /\ friends[c] \ F \in SUBSET Friend
    BY <1>2
  <1>5. /\ friends' \in Seq(SUBSET Friend) /\ Len(friends') = Len(challenges')
        /\ \A d \in DOMAIN challenges : friends'[d] = friends[d] \/ FriendsEditable(d)
    <2>1. PICK G \in SUBSET Friend : friends' = [friends EXCEPT ![c] = G]
      BY <1>1, <1>4
    <2>2. Len(friends) = Len(challenges) /\ challenges' = challenges
      BY <1>1, Bounds
    <2>3. friends' \in Seq(SUBSET Friend) /\ Len(friends') = Len(challenges')
      BY <1>3, <2>1, <2>2
    <2>4. \A d \in DOMAIN challenges \ {c} : friends'[d] = friends[d]
      BY <1>3, <2>1
    <2> QED BY <1>1, <2>3, <2>4
  <1>6. Len(challenges) <= Len(challenges') /\ now <= now'
    BY <1>1, Bounds
  <1> QED BY <1>1, <1>5, <1>6, Bounds, QuietInv

LEMMA ConfigInv ==
  ASSUME ChallengeInv, NEW config \in Configs, UpdateConfig(config)
  PROVE  ChallengeInv'
  <1>1. /\ UNCHANGED <<now, info, votes, challenges, friends, proposals, charges>>
        /\ voteConfig' \in VoteConfig
    BY ChallengeAssumption DEF UpdateConfig, UpdateVoteConfig, appVars
  <1>2. Len(challenges) <= Len(challenges')
    BY <1>1, Bounds
  <1> QED BY <1>1, <1>2, Bounds, QuietInv

LEMMA CancelInv ==
  ASSUME ChallengeInv, NEW c \in DOMAIN challenges, CancelChallenge(c)
  PROVE  ChallengeInv'
  <1>1. PICK text \in Text : TRUE
    <2>1. challenges[c] \in Entry
      BY Bounds
    <2>2. challenges[c].text \in Text
      BY <2>1 DEF Entry
    <2> QED BY <2>2
  <1>2. /\ challenges' \in Seq(Entry) /\ Len(challenges') = Len(challenges)
        /\ UNCHANGED <<now, friends, proposals, charges>>
    BY <1>1, EntryType DEF CancelChallenge
  <1>3. CASE Last(c) = None
    <2>1. UNCHANGED <<voteConfig, info, votes>>
      BY <1>3 DEF CancelChallenge, votingVars
    <2>2. Len(challenges) <= Len(challenges')
      BY <1>2, Bounds
    <2> QED BY <1>2, <2>1, <2>2, Bounds, QuietInv
  <1>4. CASE Last(c) # None
    <2>1. CancelProposal(Last(c)) /\ Last(c) \in DOMAIN info /\ ProposalsInv
      BY <1>4, LastIsOne DEF CancelChallenge, ChallengeInv
    <2>2. OneMoved(Last(c)) /\ info'[Last(c)].stored = "canceled" /\ voteConfig' = voteConfig
      BY <2>1, CancelMoves DEF CancelProposal
    <2> QED BY <1>2, <2>2, MovedInv
  <1> QED BY <1>3, <1>4

LEMMA RunningInv ==
  ASSUME ChallengeInv, NEW c \in DOMAIN challenges, NEW voter \in Voter, NEW vote \in BOOLEAN,
         VoteOnRunning(c, voter, vote)
  PROVE  ChallengeInv'
  <1>1. /\ CastVote(info, votes, Last(c), voter, vote) /\ Last(c) # None
        /\ UNCHANGED <<now, challenges, friends, proposals, charges>>
    BY DEF VoteOnRunning, Running, appVars
  <1>2. Last(c) \in DOMAIN info /\ ProposalsInv
    BY <1>1, LastIsOne DEF ChallengeInv
  <1>3. OneMoved(Last(c)) /\ info'[Last(c)].stored = "active" /\ voteConfig' = voteConfig
    BY <1>1, <1>2, VoteMoves DEF CastVote
  <1> QED BY <1>1, <1>3, Bounds, MovedInv

LEMMA VetoInv ==
  ASSUME ChallengeInv, NEW c \in DOMAIN challenges, Veto(c)
  PROVE  ChallengeInv'
  <1>1. VetoProposal(Last(c)) /\ Last(c) # None /\ UNCHANGED <<now, challenges, friends, proposals, charges>>
    BY DEF Veto, appVars
  <1>2. Last(c) \in DOMAIN info /\ ProposalsInv
    BY <1>1, LastIsOne DEF ChallengeInv
  <1>3. OneMoved(Last(c)) /\ info'[Last(c)].stored = "vetoed" /\ voteConfig' = voteConfig
    BY <1>1, <1>2, VetoMoves DEF VetoProposal
  <1> QED BY <1>1, <1>3, Bounds, MovedInv

\* What a new proposal with its first vote is.
LEMMA NewMoves ==
  ASSUME ChallengeInv, NEW c \in DOMAIN challenges, NEW voter \in Voter, NEW vote \in BOOLEAN,
         VoteOnNew(c, voter, vote)
  PROVE  LET n == Len(info) + 1 IN
         /\ info' \in Seq(ProposalInfo) /\ Len(info') = n
         /\ votes' \in Seq(VoteFcn) /\ Len(votes') = n
         /\ \A id \in DOMAIN info : info'[id] = info[id] /\ votes'[id] = votes[id]
         /\ ProposalOK(info'[n], votes'[n]) /\ info'[n].stored = "active"
         /\ DOMAIN votes'[n] = Addrs(friends[c])
         /\ voteConfig' = voteConfig /\ n <= MaxProposals
  <1> DEFINE n == Len(info) + 1
             voters == Addrs(friends[c])
             end == now + challenges[c].proposal
             p == [total |-> Cardinality(voters), for |-> 0, against |-> 0, stored |-> "active",
                   config |-> voteConfig, end |-> end]
             v == [x \in voters |-> None]
             q == VoteUpdate(p, v[voter], vote)
             w == [v EXCEPT ![voter] = vote]
             ps == Append(info, p)
             vs == Append(votes, v)
  <1>1. /\ info \in Seq(ProposalInfo) /\ votes \in Seq(VoteFcn) /\ Len(votes) = Len(info)
        /\ Len(info) \in Nat
    BY DEF ChallengeInv, ProposalsInv, VotingTypeOK, VoteFcn
  <1>2. voters \in SUBSET Voter
    <2>1. friends[c] \in SUBSET Friend
      BY Bounds
    <2> QED BY <2>1, ChallengeAssumption DEF Addrs
  <1>3. end \in Nat
    <2>1. challenges[c] \in Entry /\ now \in Nat
      BY Bounds
    <2>2. challenges[c].proposal \in Nat
      BY <2>1 DEF Entry
    <2> QED BY <2>1, <2>2
  <1>4. CastVote(ps, vs, n, voter, vote) /\ Len(info) < MaxProposals
    BY DEF VoteOnNew, NewInfo, NewVotes
  <1> HIDE DEF voters, end
  <1>5. ProposalOK(p, v) /\ DOMAIN v = voters /\ p.stored = "active"
    BY <1>2, <1>3, Bounds, NewKeeps
  <1> HIDE DEF p, v
  <1>6. /\ ps \in Seq(ProposalInfo) /\ Len(ps) = n /\ ps[n] = p /\ \A id \in DOMAIN info : ps[id] = info[id]
        /\ vs \in Seq(VoteFcn) /\ Len(vs) = n /\ vs[n] = v /\ \A id \in DOMAIN info : vs[id] = votes[id]
    <2>1. p \in ProposalInfo /\ v \in VoteFcn
      BY <1>5 DEF ProposalOK
    <2> QED BY <1>1, <2>1
  <1> HIDE DEF ps, vs
  <1>7. voter \in DOMAIN v
    BY <1>4, <1>6 DEF CastVote
  <1>8. ProposalOK(q, w) /\ q.stored = "active" /\ DOMAIN w = voters
    BY <1>5, <1>7, VoteKeeps
  <1>9. info' = [ps EXCEPT ![n] = q] /\ votes' = [vs EXCEPT ![n] = w] /\ voteConfig' = voteConfig
    BY <1>4, <1>6 DEF CastVote
  <1> HIDE DEF q, w
  <1>10. q \in ProposalInfo /\ w \in VoteFcn
    BY <1>8 DEF ProposalOK
  <1>11. n \in Nat /\ n <= MaxProposals /\ \A id \in DOMAIN info : id # n
    BY <1>1, <1>4, VotingAssumption
  <1>12. /\ info' \in Seq(ProposalInfo) /\ Len(info') = n /\ info'[n] = q
         /\ votes' \in Seq(VoteFcn) /\ Len(votes') = n /\ votes'[n] = w
         /\ \A id \in DOMAIN info : info'[id] = info[id] /\ votes'[id] = votes[id]
    <2> HIDE DEF n
    <2>1. DOMAIN ps = 1 .. n /\ DOMAIN vs = 1 .. n /\ n \in 1 .. n
      BY <1>1, <1>6, <1>11 DEF n
    <2>2. \A id \in DOMAIN info : id \in 1 .. n
      BY <1>1 DEF n
    <2> QED BY <1>6, <1>9, <1>10, <1>11, <2>1, <2>2
  <1> QED BY <1>8, <1>9, <1>11, <1>12 DEF voters

LEMMA NewInv ==
  ASSUME ChallengeInv, NEW c \in DOMAIN challenges, NEW voter \in Voter, NEW vote \in BOOLEAN,
         VoteOnNew(c, voter, vote)
  PROVE  ChallengeInv'
  <1> DEFINE n == Len(info) + 1
  <1>1. /\ info' \in Seq(ProposalInfo) /\ Len(info') = n
        /\ votes' \in Seq(VoteFcn) /\ Len(votes') = n
        /\ \A id \in DOMAIN info : info'[id] = info[id] /\ votes'[id] = votes[id]
        /\ ProposalOK(info'[n], votes'[n]) /\ info'[n].stored = "active"
        /\ DOMAIN votes'[n] = Addrs(friends[c])
        /\ voteConfig' = voteConfig /\ n <= MaxProposals
    BY NewMoves
  <1>2. /\ ~Running(c) /\ proposals' = proposals \cup {<<c, n>>}
        /\ UNCHANGED <<now, challenges, friends, charges>>
    BY DEF VoteOnNew, NewProposal
  <1>3. Len(info) \in Nat /\ DOMAIN info = 1 .. Len(info)
    BY DEF ChallengeInv, ProposalsInv, VotingTypeOK
  <1>4. DOMAIN info' = DOMAIN info \cup {n} /\ n \notin DOMAIN info /\ \A id \in DOMAIN info : id < n
    BY <1>1, <1>3
  <1> HIDE DEF n
  <1>5. ProposalsInv'
    <2>1. VotingTypeOK'
      BY <1>1, <1>2 DEF ChallengeInv, ProposalsInv, VotingTypeOK, VoteFcn
    <2>2. \A id \in DOMAIN info' : ProposalOK(info'[id], votes'[id])
      BY <1>1, <1>4 DEF ChallengeInv, ProposalsInv
    <2> QED BY <2>1, <2>2 DEF ProposalsInv, ProposalOK, Required
  <1>6. \A d : <<d, n>> \notin proposals
    BY <1>4 DEF ChallengeInv, AppInv
  <1>7. AppInv'
    <2>1. proposals' \subseteq (DOMAIN challenges) \X (DOMAIN info')
      BY <1>2, <1>4 DEF ChallengeInv, AppInv
    <2>2. ASSUME NEW id \in DOMAIN info'
          PROVE  \E a \in DOMAIN challenges : \A d \in DOMAIN challenges : <<d, id>> \in proposals' <=> d = a
      <3>1. CASE id = n
        BY <1>2, <1>6, <3>1
      <3>2. CASE id # n
        <4>1. id \in DOMAIN info /\ \A d : <<d, id>> \in proposals' <=> <<d, id>> \in proposals
          BY <1>2, <1>4, <3>2
        <4>2. PICK a \in DOMAIN challenges :
                \A d \in DOMAIN challenges : <<d, id>> \in proposals <=> d = a
          BY <4>1 DEF ChallengeInv, AppInv
        <4>3. \A d \in DOMAIN challenges : <<d, id>> \in proposals' <=> d = a
          BY <4>1, <4>2
        <4> QED BY <4>3
      <3> QED BY <3>1, <3>2
    <2> QED BY <1>2, <2>1, <2>2 DEF ChallengeInv, AppInv
  <1>8. Of(c)' = Of(c) \cup {n} /\ \A d \in DOMAIN challenges \ {c} : Of(d)' = Of(d) /\ Last(d)' = Last(d)
    <2>1. \A d : Of(d)' = {id \in DOMAIN info' : <<d, id>> \in proposals'}
      BY DEF Of
    <2>2. Of(c)' = Of(c) \cup {n}
      BY <1>2, <1>4, <2>1 DEF Of
    <2>3. \A d \in DOMAIN challenges \ {c} : Of(d)' = Of(d)
      BY <1>2, <1>4, <1>6, <2>1 DEF Of
    <2>4. \A d : Last(d)' = IF Of(d)' = {} THEN None ELSE Max(Of(d)')
      BY DEF Last
    <2> QED BY <2>2, <2>3, <2>4 DEF Last
  <1>9. Last(c)' = n
    <2> DEFINE S == Of(c) \cup {n}
    <2>1. Last(c)' = Max(S)
      BY <1>8 DEF Last
    <2>2. n \in S /\ S \subseteq Nat /\ \A other \in S : n >= other
      BY <1>3, <1>4 DEF Of, n
    <2> HIDE DEF S
    <2>3. Max(S) \in S /\ \A other \in S : Max(S) >= other
      BY <2>2 DEF Max
    <2>4. Max(S) \in Nat /\ n \in Nat /\ Max(S) >= n /\ n >= Max(S)
      BY <2>2, <2>3
    <2> QED BY <2>1, <2>4
  <1>10. \A id \in DOMAIN info : IsActive(info[id])' <=> IsActive(info[id])
    BY <1>1, <1>2 DEF IsActive, StatusAt, VetoExpiration
  <1>11. \A id \in Of(c) : ~IsActive(info[id])
    <2>1. \A id \in Of(c) : IsActive(info[id]) => id = Last(c)
      BY DEF ChallengeInv, VotersAreFriends
    <2>2. Of(c) # {} => Last(c) # None
      BY LastSpec DEF ChallengeInv
    <2> QED BY <1>2, <2>1, <2>2 DEF Running
  <1>12. VotersAreFriends'
    <2> SUFFICES ASSUME NEW d \in DOMAIN challenges, NEW id \in Of(d)', IsActive(info[id])'
                 PROVE  id = Last(d)' /\ DOMAIN votes'[id] = Addrs(friends[d])
      BY <1>2 DEF VotersAreFriends, Addrs
    <2>1. CASE d = c
      <3>1. id = n
        <4>1. id \in Of(c) => id \in DOMAIN info
          BY DEF Of
        <4> QED BY <1>8, <1>10, <1>11, <2>1, <4>1
      <3> QED BY <1>1, <1>9, <2>1, <3>1
    <2>2. CASE d # c
      <3>1. id \in Of(d) /\ id \in DOMAIN info /\ Last(d)' = Last(d)
        BY <1>8, <2>2 DEF Of
      <3>2. IsActive(info[id])
        BY <1>10, <3>1
      <3>3. id = Last(d) /\ DOMAIN votes[id] = Addrs(friends[d])
        BY <3>1, <3>2 DEF ChallengeInv, VotersAreFriends
      <3> QED BY <1>1, <3>1, <3>3
    <2> QED BY <2>1, <2>2
  <1>13. PenaltiesJustified'
    <2>1. \A k \in DOMAIN charges : charges[k].proposal \in DOMAIN info
      BY ChargedProposals
    <2> QED BY <1>1, <1>2, <1>4, <2>1 DEF ChallengeInv, PenaltiesJustified
  <1> QED BY <1>5, <1>7, <1>12, <1>13 DEF ChallengeInv

LEMMA CountInv ==
  ASSUME ChallengeInv, NEW c \in DOMAIN challenges, Count(c)
  PROVE  ChallengeInv'
  <1> DEFINE id == Last(c)
             n == Cardinality(friends[c])
  <1>1. CountVotes(id) /\ id # None /\ UNCHANGED <<now, challenges, friends, proposals>>
    BY DEF Count
  <1>2. id \in DOMAIN info /\ <<c, id>> \in proposals /\ ProposalsInv
    BY <1>1, LastIsOne DEF ChallengeInv
  <1>3. /\ OneMoved(id) /\ info'[id].stored = CountOutcome(info[id]) /\ voteConfig' = voteConfig
    BY <1>1, <1>2, CountMoves DEF CountVotes
  <1>4. CASE CountOutcome(info[id]) # "passed"
    <2>1. charges' = charges
      BY <1>4 DEF Count
    <2> QED BY <1>1, <1>3, <1>4, <2>1, Bounds, MovedInv
  <1>5. CASE CountOutcome(info[id]) = "passed"
    <2> DEFINE charge == [challenge |-> c, proposal |-> id, friends |-> n, each |-> PerFriend(c, n)]
    <2>1. charges' = Append(charges, charge) /\ n # 0
      BY <1>5 DEF Count
    <2>2. n \in Nat
      <3>1. friends[c] \in SUBSET Friend
        BY Bounds
      <3> QED BY <3>1, ChallengeAssumption, FS_Subset, FS_CardinalityType
    <2>3. PerFriend(c, n) \in Nat
      <3>1. challenges[c] \in Entry
        BY Bounds
      <3>2. challenges[c].amount \in Nat
        BY <3>1 DEF Entry
      <3> HIDE DEF n
      <3>3. n \in Nat /\ n # 0
        BY <2>1, <2>2
      <3>4. challenges[c].amount \div n \in Nat
        BY <3>2, <3>3
      <3> QED BY <3>2, <3>4 DEF PerFriend
    <2>4. c \in Nat /\ id \in Nat
      BY <1>2, Bounds, LastSpec
    <2> HIDE DEF n, id
    <2>5. charge \in [challenge : Nat, proposal : Nat, friends : Nat \ {0}, each : Nat]
      BY <2>1, <2>2, <2>3, <2>4
    <2>6. charge.proposal = id /\ charge.challenge = c
      OBVIOUS
    <2> HIDE DEF charge
    <2> DEFINE m == Len(charges) + 1
    <2>7. /\ charges' \in Seq([challenge : Nat, proposal : Nat, friends : Nat \ {0}, each : Nat])
          /\ DOMAIN charges' = DOMAIN charges \cup {m} /\ m \notin DOMAIN charges
          /\ charges'[m] = charge /\ \A k \in DOMAIN charges : charges'[k] = charges[k]
      <3> DEFINE Charge == [challenge : Nat, proposal : Nat, friends : Nat \ {0}, each : Nat]
      <3>1. charges \in Seq(Charge) /\ charge \in Charge
        BY <2>5 DEF ChallengeInv, AppInv
      <3> HIDE DEF Charge
      <3>2. /\ charges' \in Seq(Charge)
            /\ DOMAIN charges' = DOMAIN charges \cup {m} /\ m \notin DOMAIN charges
            /\ charges'[m] = charge /\ \A k \in DOMAIN charges : charges'[k] = charges[k]
        BY <2>1, <3>1
      <3> QED BY <3>2 DEF Charge
    <2> HIDE DEF m
    <2>8. DOMAIN info' = DOMAIN info /\ info[id].stored = "active" /\ info'[id].stored = "passed"
          /\ \A j \in DOMAIN info \ {id} : info'[j] = info[j]
      BY <1>3, <1>5 DEF OneMoved, Moved, ChallengeInv, ProposalsInv, VotingTypeOK, id
    <2>9. AppInv'
      BY <1>1, <2>7, <2>8 DEF ChallengeInv, AppInv
    <2>10. \A k \in DOMAIN charges : charges[k].proposal \in DOMAIN info /\ charges[k].proposal # id
      BY <2>8, ChargedProposals
    <2>11. PenaltiesJustified'
      <3>1. \A k \in DOMAIN charges' :
              /\ <<charges'[k].challenge, charges'[k].proposal>> \in proposals
              /\ info'[charges'[k].proposal].stored = "passed"
        BY <1>2, <2>6, <2>7, <2>8, <2>10, ChargedProposals DEF id
      <3>2. \A k, l \in DOMAIN charges' : charges'[l].proposal = charges'[k].proposal => l = k
        BY <2>6, <2>7, <2>10 DEF ChallengeInv, PenaltiesJustified
      <3>3. \A j \in DOMAIN info : info'[j].stored = "passed" => \E k \in DOMAIN charges' : charges'[k].proposal = j
        <4>1. ASSUME NEW j \in DOMAIN info \ {id}, info'[j].stored = "passed"
              PROVE  \E k \in DOMAIN charges' : charges'[k].proposal = j
          <5>1. PICK k \in DOMAIN charges : charges[k].proposal = j
            BY <2>8, <4>1 DEF ChallengeInv, PenaltiesJustified
          <5> QED BY <2>7, <5>1
        <4>2. charges'[m].proposal = id /\ m \in DOMAIN charges'
          BY <2>6, <2>7
        <4> QED BY <4>1, <4>2
      <3> QED BY <1>1, <2>8, <3>1, <3>2, <3>3 DEF PenaltiesJustified
    <2>12. ProposalsInv' /\ VotersAreFriends'
      <3>1. DOMAIN challenges' = DOMAIN challenges
        BY <1>1
      <3> QED BY <1>1, <1>2, <1>3, <3>1, MovedProposals, MovedFriends DEF id
    <2> QED BY <2>9, <2>11, <2>12 DEF ChallengeInv
  <1> QED BY <1>4, <1>5

LEMMA NextInv == ChallengeInv /\ [Next]_vars => ChallengeInv'
  <1> SUFFICES ASSUME ChallengeInv, [Next]_vars PROVE ChallengeInv'
    OBVIOUS
  <1>1. CASE NextAdmin
    <2>1. ASSUME NEW c \in DOMAIN challenges, NEW F \in SUBSET Friend \ {{}},
                 AddFriends(c, F) \/ RemoveFriends(c, F)
          PROVE  ChallengeInv'
      BY <2>1, FriendsInv
    <2> QED BY <1>1, <2>1, CreateInv, UpdateInv, CancelInv, VetoInv DEF NextAdmin
  <1>2. CASE NextFriends
    BY <1>2, RunningInv, NewInv, CountInv DEF NextFriends
  <1>3. CASE UNCHANGED vars
    <2>1. UNCHANGED <<now, voteConfig, info, votes, challenges, friends, proposals, charges>>
      BY <1>3 DEF vars, votingVars, appVars
    <2>2. Len(challenges) <= Len(challenges')
      BY <2>1, Bounds
    <2> QED BY <2>1, <2>2, Bounds, QuietInv
  <1> QED BY <1>1, <1>2, <1>3, TickInv, ConfigInv DEF Next

LEMMA InvHolds == Spec => []ChallengeInv
  BY InitInv, NextInv, PTL DEF Spec

-----------------------------------------------------------------------------
\* Every item has its type, and every proposal belongs to one challenge
\* (get_or_create_active_proposal files it under the challenge that is voted on).
THEOREM TypeCorrect == Spec => []TypeOK
  <1>1. ChallengeInv => TypeOK
    <2> SUFFICES ASSUME ChallengeInv PROVE TypeOK
      OBVIOUS
    <2>1. \A x \in proposals : x[1] \in DOMAIN challenges /\ x[2] \in DOMAIN info
      BY DEF ChallengeInv, AppInv
    <2> QED BY <2>1 DEF ChallengeInv, ProposalsInv, AppInv, TypeOK
  <1> QED BY <1>1, InvHolds, PTL

\* Of the proposals of a challenge only the last can be active, and its voters are then
\* the friends of the challenge (update_friends_for_challenge refuses to edit them).
THEOREM VotersAreAlwaysFriends == Spec => []VotersAreFriends
  BY InvHolds, PTL DEF ChallengeInv

\* The account is charged once for every vote that passed and for nothing else
\* (count_votes with charge_penalty).
THEOREM PenaltiesAreJustified == Spec => []PenaltiesJustified
  BY InvHolds, PTL DEF ChallengeInv

\* Whatever the order of votes, changes of mind, configuration changes and counts, the
\* tallies are those of the recorded votes, and a proposal that was counted passed if and
\* only if it had the share of all voters that its own configuration asks for, rounded
\* down to whole votes (cast_vote, vote_update, count_votes).
THEOREM OutcomesAlwaysMatchVotes == Spec => []OutcomesMatchVotes
  <1>1. ASSUME ProposalsInv, NEW id \in DOMAIN info
        PROVE  /\ info[id].for = Cardinality(VotesCast(id, TRUE))
               /\ info[id].against = Cardinality(VotesCast(id, FALSE))
               /\ info[id].total = Cardinality(DOMAIN votes[id])
               /\ info[id] \in ProposalInfo
               /\ info[id].stored \in {"passed", "failed"} =>
                    (info[id].stored = "passed" <=> info[id].for >= Required(info[id]))
    BY <1>1 DEF ProposalsInv, ProposalOK, VotesCast, Cast
  <1>2. ASSUME NEW for \in Nat, NEW total \in Nat
        PROVE  for >= total \div 2 + 1 <=> 2 * for > total
    OBVIOUS
  <1>3. ASSUME NEW for \in Nat, NEW x \in Nat
        PROVE  for >= x \div 100 <=> 100 * for > x - 100
    OBVIOUS
  <1>4. ChallengeInv => OutcomesMatchVotes
    <2> SUFFICES ASSUME ChallengeInv, NEW id \in DOMAIN info, info[id].stored \in {"passed", "failed"}
                 PROVE  LET n == Cardinality(VotesCast(id, TRUE))
                            all == Cardinality(DOMAIN votes[id])
                            percent == info[id].config.percent
                        IN info[id].stored = "passed" <=>
                             (IF percent = None THEN 2 * n > all ELSE 100 * n > all * percent - 100)
      BY <1>1 DEF ChallengeInv, OutcomesMatchVotes, TalliesMatchVotes, PassedWithSupport
    <2> DEFINE for == info[id].for
               total == info[id].total
               percent == info[id].config.percent
    <2>1. /\ for = Cardinality(VotesCast(id, TRUE)) /\ total = Cardinality(DOMAIN votes[id])
          /\ info[id] \in ProposalInfo
          /\ info[id].stored = "passed" <=> for >= Required(info[id])
      BY <1>1 DEF ChallengeInv
    <2>2. for \in Nat /\ total \in Nat /\ percent \in Nat \cup {None}
      BY <2>1 DEF ProposalInfo, VoteConfig
    <2>3. Required(info[id]) = IF percent = None THEN total \div 2 + 1 ELSE (total * percent) \div 100
      BY <2>1 DEF Required
    <2> HIDE DEF for, total, percent
    <2>4. percent = None => (for >= Required(info[id]) <=> 2 * for > total)
      BY <1>2, <2>2, <2>3
    <2>5. percent # None => (for >= Required(info[id]) <=> 100 * for > total * percent - 100)
      <3>1. percent # None => total * percent \in Nat
        BY <2>2
      <3> QED BY <1>3, <2>2, <2>3, <3>1
    <2> QED BY <2>1, <2>4, <2>5 DEF percent
  <1> QED BY <1>4, InvHolds, PTL

-----------------------------------------------------------------------------
(* What a step may do *)

\* A step moves one proposal, or leaves those there are alone.
MovedOrKept ==
  \/ \E id : OneMoved(id)
  \/ \A id \in DOMAIN info : info'[id] = info[id] /\ votes'[id] = votes[id]

LEMMA StepKinds ==
  ASSUME ChallengeInv, [Next]_vars
  PROVE  MovedOrKept
  <1>1. ASSUME UNCHANGED <<info, votes>> PROVE MovedOrKept
    BY <1>1 DEF MovedOrKept
  <1>2. Tick \/ (\E config \in Configs : UpdateConfig(config)) \/ UNCHANGED vars => UNCHANGED <<info, votes>>
    BY DEF Tick, TimePasses, UpdateConfig, UpdateVoteConfig, vars, votingVars
  <1>3. CASE NextAdmin
    <2>1. ASSUME NEW c \in DOMAIN challenges, CancelChallenge(c) PROVE MovedOrKept
      <3>1. CASE Last(c) = None
        BY <1>1, <2>1, <3>1 DEF CancelChallenge, votingVars, MovedOrKept
      <3>2. CASE Last(c) # None
        BY <2>1, <3>2, LastIsOne, CancelMoves DEF CancelChallenge, ChallengeInv, MovedOrKept
      <3> QED BY <3>1, <3>2
    <2>2. ASSUME NEW c \in DOMAIN challenges, Veto(c) PROVE MovedOrKept
      BY <2>2, LastIsOne, VetoMoves DEF Veto, ChallengeInv, MovedOrKept
    <2>3. ASSUME NEW c \in DOMAIN challenges, NEW F, AddFriends(c, F) \/ RemoveFriends(c, F) PROVE MovedOrKept
      BY <1>1, <2>3 DEF AddFriends, RemoveFriends, votingVars, MovedOrKept
    <2>4. ASSUME NEW c \in DOMAIN challenges, NEW text, UpdateChallenge(c, text) PROVE MovedOrKept
      BY <1>1, <2>4 DEF UpdateChallenge, votingVars, MovedOrKept
    <2>5. ASSUME NEW req, NEW text, CreateChallenge(req, text) PROVE MovedOrKept
      BY <1>1, <2>5 DEF CreateChallenge, votingVars, MovedOrKept
    <2> QED BY <1>3, <2>1, <2>2, <2>3, <2>4, <2>5 DEF NextAdmin
  <1>4. CASE NextFriends
    <2>1. ASSUME NEW c \in DOMAIN challenges, NEW voter \in Voter, NEW vote \in BOOLEAN,
                 VoteOnRunning(c, voter, vote)
          PROVE  MovedOrKept
      BY <2>1, LastIsOne, VoteMoves DEF VoteOnRunning, Running, ChallengeInv, MovedOrKept
    <2>2. ASSUME NEW c \in DOMAIN challenges, NEW voter \in Voter, NEW vote \in BOOLEAN,
                 VoteOnNew(c, voter, vote)
          PROVE  MovedOrKept
      BY <2>2, NewMoves DEF MovedOrKept
    <2>3. ASSUME NEW c \in DOMAIN challenges, Count(c) PROVE MovedOrKept
      BY <2>3, LastIsOne, CountMoves DEF Count, ChallengeInv, MovedOrKept
    <2> QED BY <1>4, <2>1, <2>2, <2>3 DEF NextFriends
  <1> QED BY <1>1, <1>2, <1>3, <1>4 DEF Next

\* A proposal is settled once, in its time and for good: votes stand when voting has
\* ended, the admin has the whole veto period, and a finished proposal never changes
\* (assert_active_proposal, count_votes, veto_proposal, cancel_proposal).
THEOREM ProposalsSettleInTime == Spec => SettledInTime
  <1> DEFINE Step == \A id \in DOMAIN info : Settled(id) /\ VetoBeforeOutcome(id)
  <1>1. ASSUME ChallengeInv, NEW id \in DOMAIN info, Moved(id) PROVE Settled(id) /\ VetoBeforeOutcome(id)
    <2>1. /\ now \in Nat /\ info[id].end \in Nat /\ VetoExpiration(info[id]) \in Nat
          /\ info[id].end <= VetoExpiration(info[id])
      BY <1>1, ProposalFacts DEF ChallengeInv
    <2>2. CountOutcome(info[id]) \in {"passed", "failed"}
      BY DEF CountOutcome
    <2>3. Settled(id)
      BY <1>1, <2>1 DEF Moved, Settled
    <2>4. VetoBeforeOutcome(id)
      <3>1. CASE info'[id].stored = "active"
        BY <1>1, <3>1 DEF Moved, VetoBeforeOutcome
      <3>2. CASE info'[id].stored \in {"passed", "failed"}
        BY <1>1, <2>1, <2>2, <3>2 DEF Moved, VetoBeforeOutcome
      <3>3. CASE info'[id].stored = "vetoed"
        BY <1>1, <2>1, <2>2, <3>3 DEF Moved, VetoBeforeOutcome
      <3>4. CASE info'[id].stored = "canceled"
        BY <1>1, <2>1, <2>2, <3>4 DEF Moved, VetoBeforeOutcome
      <3> QED BY <1>1, <2>2, <3>1, <3>2, <3>3, <3>4 DEF Moved
    <2> QED BY <2>3, <2>4
  <1>2. ASSUME NEW id \in DOMAIN info, info'[id] = info[id], votes'[id] = votes[id]
        PROVE  Settled(id) /\ VetoBeforeOutcome(id)
    BY <1>2 DEF Settled, VetoBeforeOutcome
  <1>3. ASSUME ChallengeInv, [Next]_vars PROVE Step
    <2>1. ASSUME NEW id, OneMoved(id) PROVE Step
      <3>1. id \in DOMAIN info /\ Moved(id)
        BY <2>1 DEF OneMoved
      <3>2. \A other \in DOMAIN info \ {id} : info'[other] = info[other] /\ votes'[other] = votes[other]
        BY <2>1 DEF OneMoved
      <3> QED BY <1>1, <1>2, <1>3, <3>1, <3>2
    <2> QED BY <1>2, <1>3, <2>1, StepKinds DEF MovedOrKept
  <1>4. ChallengeInv /\ [Next]_vars => [Step]_<<now, votingVars>>
    BY <1>3
  <1> QED BY <1>4, InvHolds, PTL DEF Spec, SettledInTime

\* A challenge that was cancelled or ran out asks for no more votes (cancel_challenge,
\* get_or_create_active_proposal).
THEOREM EndedAlwaysStaysEnded == Spec => EndedStaysEnded
  <1> DEFINE Ends == \A c \in DOMAIN challenges :
               /\ challenges'[c].end <= challenges[c].end
               /\ challenges'[c].end < challenges[c].end =>
                    \A id \in Of(c)' : StatusAt(info'[id], now) # "active"
             Begins == \A x \in proposals' \ proposals : now < challenges[x[1]].end
  <1>1. ASSUME ChallengeInv, [Next]_vars PROVE Ends /\ Begins
    <2>1. \A c \in DOMAIN challenges : challenges[c].end \in Nat
      <3>1. \A c \in DOMAIN challenges : challenges[c] \in Entry
        BY <1>1, Bounds
      <3> QED BY <3>1 DEF Entry
    <2>2. ASSUME \A c \in DOMAIN challenges : challenges'[c].end = challenges[c].end PROVE Ends
      BY <2>1, <2>2
    <2>3. ASSUME UNCHANGED proposals PROVE Begins
      BY <2>3
    <2>4. ASSUME UNCHANGED <<challenges, proposals>> PROVE Ends /\ Begins
      BY <2>2, <2>3, <2>4
    <2>5. ASSUME NEW c \in DOMAIN challenges, CancelChallenge(c) PROVE Ends /\ Begins
      <3>1. proposals' = proposals /\ now' = now /\ now < challenges[c].end
        BY <2>5 DEF CancelChallenge
      <3>2. \A d \in DOMAIN challenges : challenges'[d].end = IF d = c THEN now ELSE challenges[d].end
        <4>1. challenges[c] \in Entry /\ challenges \in Seq(Entry)
          BY <1>1, Bounds
        <4> QED BY <2>5, <4>1 DEF CancelChallenge, Entry
      <3>3. \A id \in Of(c)' : StatusAt(info'[id], now) # "active"
        <4>1. ProposalsInv
          BY <1>1 DEF ChallengeInv
        <4>2. CASE Last(c) = None
          <5>1. info' = info /\ Of(c) = {}
            BY <2>5, <4>1, <4>2, LastSpec DEF CancelChallenge, votingVars
          <5>2. Of(c)' = {}
            BY <3>1, <5>1 DEF Of
          <5> QED BY <5>2
        <4>3. CASE Last(c) # None
          <5>1. Last(c) \in DOMAIN info /\ CancelProposal(Last(c))
            BY <2>5, <4>1, <4>3, LastIsOne DEF CancelChallenge
          <5>2. OneMoved(Last(c)) /\ info'[Last(c)].stored = "canceled"
            BY <4>1, <5>1, CancelMoves
          <5>3. DOMAIN info' = DOMAIN info
            BY <4>1, <5>2 DEF OneMoved, ProposalsInv, VotingTypeOK
          <5>4. Of(c)' = Of(c) /\ Of(c) \subseteq DOMAIN info
            BY <3>1, <5>3 DEF Of
          <5>5. \A id \in Of(c) \ {Last(c)} : info'[id] = info[id] /\ ~IsActive(info[id])
            BY <1>1, <5>2, <5>4 DEF OneMoved, ChallengeInv, VotersAreFriends
          <5>6. StatusAt(info'[Last(c)], now) # "active"
            BY <5>2 DEF StatusAt
          <5> QED BY <5>4, <5>5, <5>6 DEF IsActive
        <4> QED BY <4>2, <4>3
      <3>4. now \in Nat
        BY <1>1, Bounds
      <3>5. Ends
        BY <2>1, <3>1, <3>2, <3>3, <3>4
      <3> QED BY <2>3, <3>1, <3>5
    <2>6. ASSUME NEW c \in DOMAIN challenges, NEW text \in Text, UpdateChallenge(c, text) PROVE Ends /\ Begins
      <3>1. challenges[c] \in Entry /\ challenges \in Seq(Entry)
        BY <1>1, Bounds
      <3>2. \A d \in DOMAIN challenges : challenges'[d].end = challenges[d].end
        BY <2>6, <3>1 DEF UpdateChallenge, Entry
      <3> QED BY <2>2, <2>3, <2>6, <3>2 DEF UpdateChallenge
    <2>7. ASSUME NEW req, NEW text, CreateChallenge(req, text) PROVE Ends /\ Begins
      <3>1. challenges \in Seq(Entry)
        BY <1>1, Bounds
      <3> DEFINE e == [split |-> req.split, amount |-> req.amount, limit |-> req.limit,
                       end |-> now + req.duration, proposal |-> req.proposal, text |-> text]
      <3>2. challenges' = Append(challenges, e) /\ proposals' = proposals
        BY <2>7 DEF CreateChallenge
      <3> HIDE DEF e
      <3>3. \A d \in DOMAIN challenges : challenges'[d] = challenges[d]
        BY <3>1, <3>2
      <3> QED BY <2>2, <2>3, <3>2, <3>3
    <2>8. ASSUME NEW c \in DOMAIN challenges, NEW voter \in Voter, NEW vote \in BOOLEAN,
                 VoteOnNew(c, voter, vote)
          PROVE  Ends /\ Begins
      <3>1. challenges' = challenges /\ proposals' = proposals \cup {<<c, Len(info) + 1>>} /\ now < challenges[c].end
        BY <2>8 DEF VoteOnNew, Ongoing, NewProposal
      <3>2. Begins
        BY <3>1
      <3> QED BY <2>2, <3>1, <3>2
    <2>9. (\/ Tick \/ \E config \in Configs : UpdateConfig(config)
           \/ UNCHANGED vars
           \/ \E c \in DOMAIN challenges :
                \/ Veto(c) \/ Count(c) \/ \E F : AddFriends(c, F) \/ RemoveFriends(c, F)
                \/ \E voter, vote : VoteOnRunning(c, voter, vote))
            => UNCHANGED <<challenges, proposals>>
      BY DEF Tick, TimePasses, UpdateConfig, vars, appVars, Veto, Count, AddFriends, RemoveFriends, VoteOnRunning
    <2> HIDE DEF Ends, Begins
    <2>10. CASE NextAdmin
      BY <2>4, <2>5, <2>6, <2>7, <2>9, <2>10 DEF NextAdmin
    <2>11. CASE NextFriends
      BY <2>4, <2>8, <2>9, <2>11 DEF NextFriends
    <2> QED BY <1>1, <2>4, <2>9, <2>10, <2>11 DEF Next
  <1>2. ChallengeInv /\ [Next]_vars => [Ends /\ Begins]_vars
    BY <1>1
  <1> QED BY <1>2, InvHolds, PTL DEF Spec, EndedStaysEnded
=============================================================================
