---------------------------- MODULE SubAccounts ----------------------------
(***************************************************************************)
(* Who owns an Abstract account, and which accounts are its sub-accounts   *)
(* (framework/contracts/account: contract.rs, sub_account.rs, config.rs;   *)
(* framework/packages/abstract-std/src/objects: gov_type.rs,               *)
(* ownership/gov_ownable.rs, ownership/nested_admin.rs).                   *)
(*                                                                         *)
(* A sub-account names its parent as owner, and the parent lists it in     *)
(* SUB_ACCOUNTS: two contracts keep one relation, by messages of the       *)
(* sub-account to the parent.  One action is one message together with the *)
(* messages it sends, which commit or revert with it, so a message that    *)
(* would be refused is a conjunct of the guard.  The namespace a renounced *)
(* account gives back is the registry's state (module Registry).           *)
(***************************************************************************)
EXTENDS Integers, FiniteSets

CONSTANTS
  User,               \* addresses that are no account: wallets, multisigs, other contracts
  Account,            \* account contracts
  Local,              \* accounts whose id has the local trace; the others come over IBC
  Token,              \* NFTs that can own an account
  MAX_ADMIN_RECURSION,
  FirstOwner,         \* bound: owners that are not accounts given to instantiate
  NewOwner,           \* bound: owners given to TransferOwnership
  Deadline,           \* bound: expiries given to TransferOwnership
  Suspendable,        \* bound: accounts whose owners use UpdateStatus
  Receiver,           \* bound: whom a token is handed to
  Speaker,            \* bound: accounts that are made to send UpdateSubAccount themselves
  None

Addr == User \cup Account

\* GovernanceDetails.  Monarchy, External and (without the xion feature)
\* AbstractAccount are an address that owns the account: "direct".
Direct(x) == [kind |-> "direct", at |-> x]
SubAccount(p) == [kind |-> "sub", at |-> p]
NFT(t) == [kind |-> "nft", at |-> t]
Renounced == [kind |-> "renounced", at |-> None]

Governance == [kind : {"direct"}, at : Addr] \cup [kind : {"sub"}, at : Account]
              \cup [kind : {"nft"}, at : Token] \cup {Renounced}

\* No expiry, an expiry that lies ahead, one that has been reached.
Expiry == {"never", "ahead", "reached"}

ASSUME AccountAssumption == Local \subseteq Account /\ MAX_ADMIN_RECURSION \in Nat \ {0}

ASSUME InputAssumption ==
  /\ FirstOwner \subseteq {g \in Governance : g.kind # "sub"}
  /\ NewOwner \subseteq Governance
  /\ Deadline \subseteq Expiry
  /\ Suspendable \subseteq Account /\ Speaker \subseteq Account
  /\ Receiver \subseteq Addr

\* An absent entry is not a value.
ASSUME NoneAssumption == None \notin Addr /\ None \notin Governance

VARIABLES
  owner,        \* OWNERSHIP.owner of each account; None before it is instantiated
  pending,      \* OWNERSHIP.pending_owner
  expiry,       \* OWNERSHIP.pending_expiry
  subAccounts,  \* SUB_ACCOUNTS of each account
  suspended,    \* accounts whose SUSPENSION_STATUS is set
  holder,       \* external: who holds each NFT, None if it is burned
  spoke         \* history: accounts that sent UpdateSubAccount of their own accord

vars == <<owner, pending, expiry, subAccounts, suspended, holder, spoke>>

-----------------------------------------------------------------------------
(* Ownership, seen from outside *)

Created == {a \in Account : owner[a] # None}

\* An account sends what its owner, or one of its modules, has it execute; also
\* after it was suspended, if an earlier message of one list suspends it.
Sender == User \cup Created

IsSub(g) == g.kind = "sub"

\* owner_address: the address behind an owner, if there is one.
OwnerAddress(g) == IF g.kind = "nft" THEN holder[g.at] ELSE g.at

\* Mutant: the loop asks the same account again.
Stuck_Climb(g) == g

\* One round of the loop of query_top_level_owner.
Climb(g) == IF IsSub(g) THEN owner[g.at] ELSE g

\* query_top_level_owner: from the owner of a, up MAX_ADMIN_RECURSION accounts
\* at most; what it finds then may still be an account.
TopLevelOwner(a) ==
  LET after[n \in 0 .. MAX_ADMIN_RECURSION] ==
        IF n = 0 THEN owner[a] ELSE Climb(after[n - 1])
  IN  after[MAX_ADMIN_RECURSION]

\* assert_owner
IsOwner(g, s) == s = OwnerAddress(g)

\* assert_nested_owner
IsNestedOwner(a, s) ==
  \/ IsOwner(owner[a], s)
  \/ IsSub(owner[a]) /\ IsOwner(TopLevelOwner(owner[a].at), s)

\* assert_nested_sender_can_change_owner: not while the owner at the top is an NFT.
CanChangeOwner(a, s) ==
  LET top == IF IsSub(owner[a]) THEN TopLevelOwner(owner[a].at) ELSE owner[a] IN
  /\ top.kind # "nft"
  /\ IsOwner(owner[a], s) \/ IsOwner(top, s)

\* verify, for the owners the model distinguishes: an account must be registered.
Verified(g) == IsSub(g) => g.at \in Created

Active(a) == a \in Created /\ a \notin suspended

-----------------------------------------------------------------------------
(* The messages between a sub-account and its parent *)

\* register_sub_account at p: the id is looked up with the local trace, and has
\* to be the sender's.
CanRegister(a, p) == Active(p) /\ a \in Local

\* Mutant: only an entry that is there can be removed.
Listed_CanUnregister(a, p) == Active(p) /\ a \in Local /\ a \in subAccounts[p]

\* unregister_sub_account at p: the same checks; removing a missing entry is no error.
CanUnregister(a, p) == Active(p) /\ a \in Local

Listed(subs, a, p) == [subs EXCEPT ![p] = @ \cup {a}]
Unlisted(subs, a, p) == [subs EXCEPT ![p] = @ \ {a}]

\* Mutant: the old parent is told, the new one is not.
Silent_Moved(a, g, h) ==
  IF IsSub(g) THEN Unlisted(subAccounts, a, g.at) ELSE subAccounts

\* SUB_ACCOUNTS after a has left owner g for owner h: unregister, then register.
Moved(a, g, h) ==
  LET left == IF IsSub(g) THEN Unlisted(subAccounts, a, g.at) ELSE subAccounts
  IN  IF IsSub(h) THEN Listed(left, a, h.at) ELSE left

MoveAllowed(a, g, h) ==
  /\ IsSub(g) => CanUnregister(a, g.at)
  /\ IsSub(h) => CanRegister(a, h.at)

-----------------------------------------------------------------------------
Init ==
  /\ owner = [a \in Account |-> None]
  /\ pending = [a \in Account |-> None]
  /\ expiry = [a \in Account |-> "never"]
  /\ subAccounts = [a \in Account |-> {}]
  /\ suspended = {}
  /\ holder \in [Token -> User]
  /\ spoke = {}

\* What instantiate leaves of a new account a with owner g.
NewAccount(a, g) ==
  /\ a \in Account \ Created
  /\ owner' = [owner EXCEPT ![a] = g]
  /\ subAccounts' = Moved(a, Renounced, g)
  /\ UNCHANGED <<pending, expiry, suspended, holder, spoke>>

\* instantiate with an owner that is no account; the holder of an NFT sends it.
Instantiate(s, a, g) ==
  /\ g.kind = "nft" => OwnerAddress(g) = s
  /\ NewAccount(a, g)

\* instantiate by an account that becomes the parent.
InstantiateSubAccount(p, a) ==
  /\ p \in Created
  /\ CanRegister(a, p)
  /\ NewAccount(a, SubAccount(p))

\* create_sub_account of p, which instantiates as above; its id is local.
CreateSubAccount(s, p, a) ==
  /\ Active(p)
  /\ IsNestedOwner(p, s)
  /\ InstantiateSubAccount(p, a)

\* GovAction::TransferOwnership: overwrites an earlier proposal.
TransferOwnership(s, a, g, d) ==
  /\ Active(a)
  /\ Verified(g)
  /\ OwnerAddress(g) # None
  /\ CanChangeOwner(a, s)
  /\ pending' = [pending EXCEPT ![a] = g]
  /\ expiry' = [expiry EXCEPT ![a] = d]
  /\ UNCHANGED <<owner, subAccounts, suspended, holder, spoke>>

\* The pending owner, or the top-level owner of a pending parent.
MayAccept(s, g) ==
  /\ OwnerAddress(g) # None
  /\ IsOwner(g, s) \/ (IsSub(g) /\ IsOwner(TopLevelOwner(g.at), s))

\* Everything that can refuse the message, or one of the messages it sends.
CanAccept(s, a) ==
  /\ Active(a)
  /\ pending[a] # None
  /\ MayAccept(s, pending[a])
  /\ expiry[a] # "reached"
  /\ MoveAllowed(a, owner[a], pending[a])

\* GovAction::AcceptOwnership, with the messages of maybe_update_sub_account_governance.
AcceptOwnership(s, a) ==
  /\ CanAccept(s, a)
  /\ owner' = [owner EXCEPT ![a] = pending[a]]
  /\ pending' = [pending EXCEPT ![a] = None]
  /\ expiry' = [expiry EXCEPT ![a] = "never"]
  /\ subAccounts' = Moved(a, owner[a], pending[a])
  /\ UNCHANGED <<suspended, holder, spoke>>

\* Mutants: sub-accounts do not matter; the proposal is kept.
Any_HasNoSubAccounts(a) == TRUE
Kept_Cancelled(a) == pending

HasNoSubAccounts(a) == subAccounts[a] = {}
Cancelled(a) == [pending EXCEPT ![a] = None]

\* GovAction::RenounceOwnership, with the messages of remove_account_from_contracts.
RenounceOwnership(s, a) ==
  /\ Active(a)
  /\ HasNoSubAccounts(a)
  /\ CanChangeOwner(a, s)
  /\ MoveAllowed(a, owner[a], Renounced)
  /\ owner' = [owner EXCEPT ![a] = Renounced]
  /\ pending' = Cancelled(a)
  /\ expiry' = [expiry EXCEPT ![a] = "never"]
  /\ subAccounts' = Moved(a, owner[a], Renounced)
  /\ UNCHANGED <<suspended, holder, spoke>>

\* UpdateSubAccount sent by account a itself, not as part of a change of owner.
RegisterSubAccount(a, p) ==
  /\ a \in Created
  /\ CanRegister(a, p)
  /\ subAccounts' = Listed(subAccounts, a, p)
  /\ spoke' = spoke \cup {a}
  /\ UNCHANGED <<owner, pending, expiry, suspended, holder>>

UnregisterSubAccount(a, p) ==
  /\ a \in Created
  /\ CanUnregister(a, p)
  /\ subAccounts' = Unlisted(subAccounts, a, p)
  /\ spoke' = spoke \cup {a}
  /\ UNCHANGED <<owner, pending, expiry, suspended, holder>>

\* update_suspension_status
UpdateStatus(s, a) ==
  /\ a \in Created
  /\ IsNestedOwner(a, s)
  /\ suspended' \in {suspended \cup {a}, suspended \ {a}}
  /\ UNCHANGED <<owner, pending, expiry, subAccounts, holder, spoke>>

\* External: the collection hands a token on, or burns it.
TransferToken(t, x) ==
  /\ holder[t] # None
  /\ holder' = [holder EXCEPT ![t] = x]
  /\ UNCHANGED <<owner, pending, expiry, subAccounts, suspended, spoke>>

\* Block time reaches the expiry of a proposal.
ReachExpiry(a) ==
  /\ expiry[a] = "ahead"
  /\ expiry' = [expiry EXCEPT ![a] = "reached"]
  /\ UNCHANGED <<owner, pending, subAccounts, suspended, holder, spoke>>

Next ==
  \/ \E s \in Sender, a \in Account, g \in FirstOwner : Instantiate(s, a, g)
  \/ \E p, a \in Account : InstantiateSubAccount(p, a)
  \/ \E s \in Sender, p, a \in Account : CreateSubAccount(s, p, a)
  \/ \E s \in Sender, a \in Account, g \in NewOwner, d \in Deadline :
       TransferOwnership(s, a, g, d)
  \/ \E s \in Sender, a \in Account : AcceptOwnership(s, a)
  \/ \E s \in Sender, a \in Account : RenounceOwnership(s, a)
  \/ \E a \in Speaker, p \in Account : RegisterSubAccount(a, p)
  \/ \E a \in Speaker, p \in Account : UnregisterSubAccount(a, p)
  \/ \E s \in Sender, a \in Suspendable : UpdateStatus(s, a)
  \/ \E t \in Token, x \in Receiver \cup {None} : TransferToken(t, x)
  \/ \E a \in Account : ReachExpiry(a)

Spec == Init /\ [][Next]_vars

-----------------------------------------------------------------------------
(* Properties *)

\* Every stored item has its type, and an account that has not been instantiated
\* has no state and is nobody's sub-account.
TypeOK ==
  /\ owner \in [Account -> Governance \cup {None}]
  /\ pending \in [Account -> Governance \cup {None}]
  /\ expiry \in [Account -> Expiry]
  /\ subAccounts \in [Account -> SUBSET Created]
  /\ suspended \subseteq Created
  /\ holder \in [Token -> Addr \cup {None}]
  /\ spoke \subseteq Created
  /\ \A a \in Account : /\ owner[a] = None => pending[a] = None /\ subAccounts[a] = {}
                        /\ owner[a] # None /\ IsSub(owner[a]) => owner[a].at \in Created
                        /\ pending[a] # None /\ IsSub(pending[a]) => pending[a].at \in Created

\* The two halves of the relation agree: an account is listed by exactly the
\* account that owns it, through creations, transfers and renunciations in any
\* order.  Only the account itself can disturb its own entry.
SubAccountsMatchOwners ==
  \A a \in Created \ spoke, p \in Account : owner[a] = SubAccount(p) <=> a \in subAccounts[p]

\* "Having sub accounts will prevent you from Renounce": at the moment it is
\* renounced an account owns no account, unless that one took itself off the list.
NoOrphans ==
  [][\A p \in Created : owner[p] # Renounced /\ owner'[p] = Renounced =>
       \A a \in Created \ spoke : owner[a] # SubAccount(p)]_vars

\* "permanently setting the contract's owner to vacant", "Cannot change NFT
\* ownership": a renounced account never gets an owner again, also not from a
\* proposal made before, and an account owned by an NFT stays with it.
FinalOwners ==
  [][\A a \in Created : owner[a].kind \in {"renounced", "nft"} => owner'[a] = owner[a]]_vars

\* While an account is suspended, its owner and its list of sub-accounts stand
\* still, whatever its sub-accounts and its future owners do.
SuspensionFreezes ==
  [][\A a \in suspended : /\ owner'[a] = owner[a] /\ pending'[a] = pending[a]
                          /\ subAccounts'[a] = subAccounts[a]]_vars

\* A proposal that is open can be accepted as long as nobody it concerns is
\* suspended: what an account did to its own entry does not stand in the way.
OpenTransferCanComplete ==
  \A a \in Created \cap Local :
    /\ pending[a] # None /\ OwnerAddress(pending[a]) \in Sender /\ expiry[a] # "reached"
    /\ \A b \in suspended : b # a /\ SubAccount(b) \notin {owner[a], pending[a]}
    => \E s \in Sender : CanAccept(s, a)

\* "The Owner can directly configure any Sub-Account": within the documented two
\* levels, the owner of the main account passes as owner of the sub-account.
OwnerReachesSubAccounts ==
  \A a, b, c \in Created :
    owner[a] = SubAccount(b) /\ owner[b] = SubAccount(c) /\ ~IsSub(owner[c]) =>
      \A s \in Sender : IsOwner(owner[c], s) => IsNestedOwner(a, s) /\ IsNestedOwner(b, s)
=============================================================================
