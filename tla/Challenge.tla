----------------------------- MODULE Challenge ------------------------------
(***************************************************************************)
(* The challenge app (modules/contracts/apps/challenge): the admin of an   *)
(* account sets itself challenges, friends vote whether it failed, and a   *)
(* vote that passes charges it.  A challenge's votes are proposals of one  *)
(* voting object; the first vote after the last proposal ended opens the   *)
(* next one.                                                               *)
(***************************************************************************)
EXTENDS Voting, FiniteSetsExt

CONSTANTS
  Friend, FriendAddr,     \* friends (address and name, or account id), and their addresses
  MAX_AMOUNT_OF_FRIENDS,
  Configs,                \* bound: vote configurations that are set
  Requests,               \* bound: challenges that are asked for
  Text,                   \* bound: names and descriptions
  MaxChallenges           \* bound: challenges that are created

ASSUME ChallengeAssumption ==
  /\ IsFiniteSet(Friend) /\ FriendAddr \in [Friend -> Voter]
  /\ MAX_AMOUNT_OF_FRIENDS \in Nat /\ MaxChallenges \in Nat
  /\ Configs \subseteq VoteConfig
  /\ Requests \subseteq [split : BOOLEAN, amount : Nat, limit : Nat, duration : Nat,
                         proposal : Nat, friends : SUBSET Friend]

VARIABLES
  challenges,  \* CHALLENGES; NEXT_ID is its length
  friends,     \* CHALLENGE_FRIENDS
  proposals,   \* CHALLENGE_PROPOSALS: <<challenge, proposal>>
  charges      \* history: the penalties that were charged

appVars == <<challenges, friends, proposals, charges>>
vars == <<now, votingVars, appVars>>

Entry == [split : BOOLEAN, amount : Nat, limit : Nat, end : Nat, proposal : Nat, text : Text]

Addrs(F) == {FriendAddr[f] : f \in F}

\* The uniqueness check over the addresses of a list of friends.
Unique(F) == \A f, g \in F : FriendAddr[f] = FriendAddr[g] => f = g

Of(c) == {id \in DOMAIN info : <<c, id>> \in proposals}

\* last_proposal: None, or the highest id.
Last(c) == IF Of(c) = {} THEN None ELSE Max(Of(c))

-----------------------------------------------------------------------------
\* instantiate_handler
Init ==
  /\ now = 0
  /\ VotingInit(Configs)
  /\ challenges = << >>
  /\ friends = << >>
  /\ proposals = {}
  /\ charges = << >>

Tick ==
  /\ TimePasses
  /\ UNCHANGED <<votingVars, appVars>>

\* create_challenge
CreateChallenge(req, text) ==
  /\ Len(challenges) < MaxChallenges
  /\ Cardinality(req.friends) < MAX_AMOUNT_OF_FRIENDS
  /\ Unique(req.friends)
  /\ friends' = Append(friends, req.friends)
  /\ challenges' = Append(challenges,
       [split |-> req.split, amount |-> req.amount, limit |-> req.limit,
        end |-> now + req.duration, proposal |-> req.proposal, text |-> text])
  /\ UNCHANGED <<now, votingVars, proposals, charges>>

\* update_challenge: the texts only.
UpdateChallenge(c, text) ==
  /\ challenges' = [challenges EXCEPT ![c].text = text]
  /\ UNCHANGED <<now, votingVars, friends, proposals, charges>>

\* cancel_challenge: a last proposal that is not active refuses to be cancelled.
CancelChallenge(c) ==
  /\ now < challenges[c].end
  /\ IF Last(c) = None THEN UNCHANGED votingVars ELSE CancelProposal(Last(c))
  /\ challenges' = [challenges EXCEPT ![c].end = now]
  /\ UNCHANGED <<now, friends, proposals, charges>>

\* Mutant: friends change whenever the admin likes.
Any_FriendsEditable(c) == TRUE

\* No proposal is running.
FriendsEditable(c) == Last(c) # None => now >= info[Last(c)].end

\* update_friends_for_challenge
AddFriends(c, F) ==
  /\ FriendsEditable(c)
  /\ Cardinality(F) + Cardinality(friends[c]) < MAX_AMOUNT_OF_FRIENDS
  /\ F \cap friends[c] = {} /\ Unique(friends[c] \cup F)
  /\ friends' = [friends EXCEPT ![c] = @ \cup F]
  /\ UNCHANGED <<now, votingVars, challenges, proposals, charges>>

RemoveFriends(c, F) ==
  /\ FriendsEditable(c)
  /\ friends' = [friends EXCEPT ![c] = @ \ F]
  /\ UNCHANGED <<now, votingVars, challenges, proposals, charges>>

\* Mutant: every vote opens a proposal.
Fresh_Running(c) == FALSE

\* get_or_create_active_proposal: the last proposal is used if it is active.
Running(c) == Last(c) # None /\ IsActive(info[Last(c)])

VoteOnRunning(c, voter, vote) ==
  /\ Running(c)
  /\ CastVote(info, votes, Last(c), voter, vote)
  /\ UNCHANGED <<now, appVars>>

Ongoing(c) == now < challenges[c].end

NewProposal(c) == <<c, Len(info) + 1>>

VoteOnNew(c, voter, vote) ==
  /\ ~Running(c)
  /\ Ongoing(c)
  /\ Len(info) < MaxProposals
  /\ LET voters == Addrs(friends[c]) IN
     CastVote(NewInfo(now + challenges[c].proposal, voters), NewVotes(voters), Len(info) + 1,
              voter, vote)
  /\ proposals' = proposals \cup {NewProposal(c)}
  /\ UNCHANGED <<now, challenges, friends, charges>>

\* charge_penalty: what each friend is paid.
PerFriend(c, n) ==
  IF challenges[c].split THEN challenges[c].amount \div n ELSE challenges[c].amount

\* count_votes with try_finish_challenge: a vote that passed charges the account for
\* its friends (nobody can be sent nothing), and the strike it is counts only in the
\* local copy of the entry.
Count(c) ==
  LET n == Cardinality(friends[c]) IN
  /\ Last(c) # None
  /\ CountVotes(Last(c))
  /\ IF CountOutcome(info[Last(c)]) = "passed"
     THEN /\ n # 0 /\ PerFriend(c, n) # 0
          /\ charges' = Append(charges, [challenge |-> c, proposal |-> Last(c),
                                         friends |-> n, each |-> PerFriend(c, n)])
     ELSE UNCHANGED charges
  /\ UNCHANGED <<now, challenges, friends, proposals>>

\* veto
Veto(c) ==
  /\ Last(c) # None
  /\ VetoProposal(Last(c))
  /\ UNCHANGED <<now, appVars>>

\* UpdateConfig
UpdateConfig(config) ==
  /\ UpdateVoteConfig(config)
  /\ UNCHANGED <<now, appVars>>

-----------------------------------------------------------------------------
NextAdmin ==
  \/ \E req \in Requests, text \in Text : CreateChallenge(req, text)
  \/ \E c \in DOMAIN challenges :
       \/ \E text \in Text : UpdateChallenge(c, text)
       \/ CancelChallenge(c)
       \/ \E F \in SUBSET Friend \ {{}} : AddFriends(c, F) \/ RemoveFriends(c, F)
       \/ Veto(c)

NextFriends ==
  \E c \in DOMAIN challenges :
    \/ \E voter \in Voter, vote \in BOOLEAN :
         VoteOnRunning(c, voter, vote) \/ VoteOnNew(c, voter, vote)
    \/ Count(c)

Next ==
  \/ Tick
  \/ NextAdmin
  \/ NextFriends
  \/ \E config \in Configs : UpdateConfig(config)

Spec == Init /\ [][Next]_vars

-----------------------------------------------------------------------------
(* Properties *)

\* Every item has its type; ids are handed out in order, and every proposal belongs
\* to one challenge.
TypeOK ==
  /\ VotingTypeOK
  /\ challenges \in Seq(Entry) /\ Len(challenges) <= MaxChallenges
  /\ friends \in Seq(SUBSET Friend) /\ Len(friends) = Len(challenges)
  /\ charges \in Seq([challenge : Nat, proposal : Nat, friends : Nat \ {0}, each : Nat])
  /\ \A x \in proposals : x[1] \in DOMAIN challenges /\ x[2] \in DOMAIN info
  /\ \A id \in DOMAIN info : \E c \in DOMAIN challenges :
       \A d \in DOMAIN challenges : <<d, id>> \in proposals <=> d = c

\* Friends all vote in one place: of the proposals of a challenge only the last can
\* be active, and while one is, its voters are the friends of the challenge ("Don't
\* allow edit friends if last proposal haven't ended yet").
VotersAreFriends ==
  \A c \in DOMAIN challenges : \A id \in Of(c) : IsActive(info[id]) =>
    id = Last(c) /\ DOMAIN votes[id] = Addrs(friends[c])

\* The account pays for a vote that passed, once, and for nothing else.
PenaltiesJustified ==
  /\ \A k \in DOMAIN charges :
       /\ <<charges[k].challenge, charges[k].proposal>> \in proposals
       /\ info[charges[k].proposal].stored = "passed"
       /\ \A l \in DOMAIN charges : charges[l].proposal = charges[k].proposal => l = k
  /\ \A id \in DOMAIN info : info[id].stored = "passed" =>
       \E k \in DOMAIN charges : charges[k].proposal = id

\* A challenge that was cancelled or ran out asks for no new vote: its end only ever
\* comes closer, no proposal begins after it, and cancelling leaves none running (one
\* that runs when the time is out goes on to its own end).
EndedStaysEnded ==
  [][/\ \A c \in DOMAIN challenges :
          /\ challenges'[c].end <= challenges[c].end
          /\ challenges'[c].end < challenges[c].end =>
               \A id \in Of(c)' : StatusAt(info'[id], now) # "active"
     /\ \A x \in proposals' \ proposals : now < challenges[x[1]].end]_vars

\* README.md of the app: "Strikes limit (max amount of times admin getting striked
\* for failing this challenge)".
StrikesLimited ==
  \A c \in DOMAIN challenges :
    Cardinality({k \in DOMAIN charges : charges[k].challenge = c}) <= challenges[c].limit
=============================================================================
