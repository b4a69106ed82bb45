------------------------- MODULE SubAccountsProofs -------------------------
(***************************************************************************)
(* Proofs about SubAccounts, for every set of users, accounts and tokens,  *)
(* every recursion limit and every bound on the inputs.                    *)
(***************************************************************************)
EXTENDS SubAccounts, FoldLemmas, TLAPS

\* An owner that is final has no proposal next to it: a proposal needs the consent
\* of an owner that can change, and both ways to a final owner clear it.
FinalIdle ==
  \A a \in Created : owner[a].kind \in {"renounced", "nft"} => pending[a] = None

\* The inductive invariant of this module.
OwnershipInv == TypeOK /\ SubAccountsMatchOwners /\ FinalIdle

-----------------------------------------------------------------------------
(* Facts about the operators *)

\* A sub-account's owner is one of the accounts, and nothing else is SubAccount(p).
LEMMA SubAccountOwner ==
  ASSUME NEW g \in Governance
  PROVE  /\ IsSub(g) => g.at \in Account /\ g = SubAccount(g.at)
         /\ \A p \in Account : g = SubAccount(p) => IsSub(g) /\ g.at = p
         /\ Renounced \in Governance /\ ~IsSub(Renounced)
  BY DEF Governance, IsSub, SubAccount, Renounced

\* SUB_ACCOUNTS after a move: a is in the new parent's list and in no other list
\* that it was not already in; no other entry changes.
LEMMA MovedEffect ==
  ASSUME NEW a \in Account, NEW g \in Governance, NEW h \in Governance,
         subAccounts \in [Account -> SUBSET Account]
  PROVE  /\ DOMAIN Moved(a, g, h) = Account
         /\ Moved(a, g, h) \in [Account -> SUBSET Account]
         /\ \A p \in Account, b \in Account : b # a =>
              (b \in Moved(a, g, h)[p] <=> b \in subAccounts[p])
         /\ \A p \in Account :
              a \in Moved(a, g, h)[p] <=> \/ h = SubAccount(p)
                                          \/ a \in subAccounts[p] /\ g # SubAccount(p)
         /\ \A p \in Account : g # SubAccount(p) /\ h # SubAccount(p) =>
              Moved(a, g, h)[p] = subAccounts[p]
  <1> DEFINE left == IF IsSub(g) THEN Unlisted(subAccounts, a, g.at) ELSE subAccounts
  <1>1. /\ IsSub(g) => g.at \in Account /\ g = SubAccount(g.at)
        /\ \A p \in Account : g = SubAccount(p) => IsSub(g) /\ g.at = p
        /\ IsSub(h) => h.at \in Account /\ h = SubAccount(h.at)
        /\ \A p \in Account : h = SubAccount(p) => IsSub(h) /\ h.at = p
    BY SubAccountOwner
  <1>2. /\ left \in [Account -> SUBSET Account]
        /\ \A p \in Account : left[p] = IF g = SubAccount(p) THEN subAccounts[p] \ {a}
                                                             ELSE subAccounts[p]
    BY <1>1 DEF Unlisted
  <1>3. Moved(a, g, h) = IF IsSub(h) THEN Listed(left, a, h.at) ELSE left
    BY DEF Moved
  <1> HIDE DEF left
  <1>4. /\ Moved(a, g, h) \in [Account -> SUBSET Account]
        /\ \A p \in Account : Moved(a, g, h)[p] = IF h = SubAccount(p) THEN left[p] \cup {a}
                                                                       ELSE left[p]
    BY <1>1, <1>2, <1>3 DEF Listed
  <1> QED BY <1>2, <1>4

-----------------------------------------------------------------------------
LEMMA InitEstablishesInvariant == Init => OwnershipInv
  BY DEF Init, OwnershipInv, TypeOK, SubAccountsMatchOwners, FinalIdle, Created, Expiry, Addr

-----------------------------------------------------------------------------
(* Type correctness *)

\* What the three actions that give an account an owner have in common: account a
\* leaves owner g (Renounced if it is new) for owner h.
Move(a, g, h) ==
  /\ a \in Account /\ g \in Governance /\ h \in Governance
  /\ owner[a] # None => g = owner[a]
  /\ owner[a] = None => g = Renounced
  /\ IsSub(h) => h.at \in Created
  /\ owner' = [owner EXCEPT ![a] = h]
  /\ subAccounts' = Moved(a, g, h)
  /\ suspended' = suspended /\ holder' = holder /\ spoke' = spoke

LEMMA NewAccountMoves ==
  ASSUME TypeOK, NEW a \in Account, NEW h \in Governance, NewAccount(a, h),
         IsSub(h) => h.at \in Created
  PROVE  Move(a, Renounced, h)
  BY SubAccountOwner, NoneAssumption DEF TypeOK, NewAccount, Move, Created

LEMMA AcceptMoves ==
  ASSUME TypeOK, NEW s, NEW a \in Account, AcceptOwnership(s, a)
  PROVE  Move(a, owner[a], pending[a])
  BY DEF TypeOK, AcceptOwnership, CanAccept, Move, Active, Created

LEMMA RenounceMoves ==
  ASSUME TypeOK, NEW s, NEW a \in Account, RenounceOwnership(s, a)
  PROVE  Move(a, owner[a], Renounced)
  BY SubAccountOwner DEF TypeOK, RenounceOwnership, Move, Active, Created

\* A move keeps the types of everything it writes.
LEMMA MoveKeepsTypes ==
  ASSUME TypeOK, NEW a, NEW g, NEW h, Move(a, g, h)
  PROVE  /\ owner' \in [Account -> Governance \cup {None}]
         /\ Created' = Created \cup {a}
         /\ subAccounts' \in [Account -> SUBSET Created']
         /\ suspended' \subseteq Created' /\ spoke' \subseteq Created'
         /\ holder' \in [Token -> Addr \cup {None}]
         /\ \A b \in Account : owner'[b] = None => owner[b] = None /\ subAccounts'[b] = {}
         /\ \A b \in Account : owner'[b] # None /\ IsSub(owner'[b]) => owner'[b].at \in Created'
  <1>1. subAccounts \in [Account -> SUBSET Account]
    BY DEF TypeOK, Created
  <1>2. /\ subAccounts' \in [Account -> SUBSET Account]
        /\ \A p \in Account, b \in Account : b # a =>
             (b \in subAccounts'[p] <=> b \in subAccounts[p])
        /\ \A p \in Account : g # SubAccount(p) /\ h # SubAccount(p) =>
             subAccounts'[p] = subAccounts[p]
    BY <1>1, MovedEffect DEF Move
  <1>3. /\ owner' \in [Account -> Governance \cup {None}]
        /\ \A b \in Account : owner'[b] = IF b = a THEN h ELSE owner[b]
        /\ h # None
    BY NoneAssumption DEF Move, TypeOK
  <1>4. Created' = Created \cup {a}
    BY <1>3 DEF Created, Move
  <1>5. subAccounts' \in [Account -> SUBSET Created']
    BY <1>2, <1>4 DEF TypeOK, Created
  <1>6. \A b \in Account : owner'[b] = None => owner[b] = None /\ subAccounts'[b] = {}
    <2> SUFFICES ASSUME NEW b \in Account, owner'[b] = None
                 PROVE  owner[b] = None /\ subAccounts'[b] = {}
      OBVIOUS
    <2>1. owner[b] = None /\ b # a
      BY <1>3
    <2>2. h # SubAccount(b)
      BY <2>1, SubAccountOwner DEF Move, Created
    <2>3. g # SubAccount(b)
      BY <2>1, SubAccountOwner DEF Move, Created, TypeOK
    <2> QED BY <1>2, <2>1, <2>2, <2>3 DEF TypeOK
  <1>7. \A b \in Account : owner'[b] # None /\ IsSub(owner'[b]) => owner'[b].at \in Created'
    BY <1>3, <1>4 DEF Move, TypeOK
  <1> QED
    BY <1>3, <1>4, <1>5, <1>6, <1>7 DEF Move, TypeOK

LEMMA NextKeepsTypes == TypeOK /\ [Next]_vars => TypeOK'
  <1> SUFFICES ASSUME TypeOK, [Next]_vars PROVE TypeOK'
    OBVIOUS
  <1> USE DEF Expiry
  <1>1. ASSUME NEW a \in Account, NEW h \in Governance, NewAccount(a, h),
               IsSub(h) => h.at \in Created
        PROVE  TypeOK'
    <2>1. Move(a, Renounced, h)
      BY <1>1, NewAccountMoves
    <2>2. pending' = pending /\ expiry' = expiry
      BY <1>1 DEF NewAccount
    <2> QED BY <2>1, <2>2, MoveKeepsTypes DEF TypeOK
  <1>2. ASSUME NEW s \in Sender, NEW a \in Account, NEW g \in FirstOwner, Instantiate(s, a, g)
        PROVE  TypeOK'
    <2>1. g \in Governance /\ ~IsSub(g)
      BY InputAssumption DEF IsSub
    <2> QED BY <1>1, <1>2, <2>1 DEF Instantiate
  <1>3. ASSUME NEW p \in Account, NEW a \in Account, InstantiateSubAccount(p, a)
        PROVE  TypeOK'
    <2>1. SubAccount(p) \in Governance /\ SubAccount(p).at = p
      BY DEF SubAccount, Governance
    <2> QED BY <1>1, <1>3, <2>1 DEF InstantiateSubAccount
  <1>4. ASSUME NEW s \in Sender, NEW p \in Account, NEW a \in Account, CreateSubAccount(s, p, a)
        PROVE  TypeOK'
    BY <1>3, <1>4 DEF CreateSubAccount
  <1>5. ASSUME NEW s \in Sender, NEW a \in Account, NEW g \in NewOwner, NEW d \in Deadline,
               TransferOwnership(s, a, g, d)
        PROVE  TypeOK'
    <2>1. /\ g \in Governance /\ d \in Expiry
          /\ Created' = Created
      BY <1>5, InputAssumption DEF TransferOwnership, Created
    <2> QED BY <1>5, <2>1 DEF TransferOwnership, TypeOK, Verified, Active, Created
  <1>6. ASSUME NEW s \in Sender, NEW a \in Account, AcceptOwnership(s, a)
        PROVE  TypeOK'
    <2>1. Move(a, owner[a], pending[a])
      BY <1>6, AcceptMoves
    <2>2. /\ pending' = [pending EXCEPT ![a] = None] /\ expiry' = [expiry EXCEPT ![a] = "never"]
      BY <1>6 DEF AcceptOwnership, CanAccept
    <2> QED BY <2>1, <2>2, MoveKeepsTypes DEF TypeOK
  <1>7. ASSUME NEW s \in Sender, NEW a \in Account, RenounceOwnership(s, a)
        PROVE  TypeOK'
    <2>1. Move(a, owner[a], Renounced)
      BY <1>7, RenounceMoves
    <2>2. /\ pending' = [pending EXCEPT ![a] = None] /\ expiry' = [expiry EXCEPT ![a] = "never"]
      BY <1>7 DEF RenounceOwnership, Cancelled
    <2> QED BY <2>1, <2>2, MoveKeepsTypes DEF TypeOK
  <1>8. ASSUME NEW a \in Speaker, NEW p \in Account, RegisterSubAccount(a, p)
        PROVE  TypeOK'
    BY <1>8, InputAssumption
    DEF RegisterSubAccount, CanRegister, Active, Listed, TypeOK, Created
  <1>9. ASSUME NEW a \in Speaker, NEW p \in Account, UnregisterSubAccount(a, p)
        PROVE  TypeOK'
    BY <1>9, InputAssumption
    DEF UnregisterSubAccount, CanUnregister, Active, Unlisted, TypeOK, Created
  <1>10. ASSUME NEW s \in Sender, NEW a \in Suspendable, UpdateStatus(s, a)
         PROVE  TypeOK'
    BY <1>10, InputAssumption DEF UpdateStatus, TypeOK, Created
  <1>11. ASSUME NEW t \in Token, NEW x \in Receiver \cup {None}, TransferToken(t, x)
         PROVE  TypeOK'
    BY <1>11, InputAssumption DEF TransferToken, TypeOK, Created
  <1>12. ASSUME NEW a \in Account, ReachExpiry(a)
         PROVE  TypeOK'
    BY <1>12 DEF ReachExpiry, TypeOK, Created
  <1>13. CASE UNCHANGED vars
    BY <1>13 DEF vars, TypeOK, Created
  <1> QED
    BY <1>2, <1>3, <1>4, <1>5, <1>6, <1>7, <1>8, <1>9, <1>10, <1>11, <1>12, <1>13 DEF Next

\* Every item of every account is well typed in every reachable state, and a
\* parent or proposed parent always is an account that exists.
THEOREM TypeCorrect == Spec => []TypeOK
  <1>1. Init => TypeOK
    BY InitEstablishesInvariant DEF OwnershipInv
  <1> QED BY <1>1, NextKeepsTypes, PTL DEF Spec

-----------------------------------------------------------------------------
(* The two halves of the relation *)

\* A move takes account a off its old list and puts it on its new one.
LEMMA MoveKeepsMatch ==
  ASSUME TypeOK, SubAccountsMatchOwners, NEW a, NEW g, NEW h, Move(a, g, h)
  PROVE  SubAccountsMatchOwners'
  <1>1. /\ \A p \in Account, b \in Account : b # a =>
             (b \in subAccounts'[p] <=> b \in subAccounts[p])
        /\ \A p \in Account :
             a \in subAccounts'[p] <=> \/ h = SubAccount(p)
                                       \/ a \in subAccounts[p] /\ g # SubAccount(p)
    <2>1. subAccounts \in [Account -> SUBSET Account]
      BY DEF TypeOK, Created
    <2> QED BY <2>1, MovedEffect DEF Move
  <1>2. /\ \A b \in Account : owner'[b] = IF b = a THEN h ELSE owner[b]
        /\ Created' = Created \cup {a} /\ spoke' = spoke /\ a \in Account
    <2>1. Created' = Created \cup {a}
      BY MoveKeepsTypes
    <2> QED BY <2>1 DEF Move, TypeOK
  <1> SUFFICES ASSUME NEW b \in Created' \ spoke', NEW p \in Account
               PROVE  owner'[b] = SubAccount(p) <=> b \in subAccounts'[p]
    BY DEF SubAccountsMatchOwners
  <1>3. CASE b # a
    BY <1>1, <1>2, <1>3 DEF SubAccountsMatchOwners, Created
  <1>4. CASE b = a
    <2>1. a \in subAccounts[p] => g = SubAccount(p)
      <3>1. CASE owner[a] = None
        BY <3>1, <1>2 DEF TypeOK, Created
      <3>2. CASE owner[a] # None
        BY <3>2, <1>2, <1>4 DEF SubAccountsMatchOwners, Created, Move
      <3> QED BY <3>1, <3>2
    <2> QED BY <1>1, <1>2, <1>4, <2>1
  <1> QED BY <1>3, <1>4

LEMMA NextKeepsMatch ==
  ASSUME TypeOK, SubAccountsMatchOwners, [Next]_vars
  PROVE  SubAccountsMatchOwners'
  <1>1. ASSUME NEW s \in Sender, NEW a \in Account, NEW g \in FirstOwner, Instantiate(s, a, g)
        PROVE  SubAccountsMatchOwners'
    <2>1. g \in Governance /\ ~IsSub(g)
      BY InputAssumption DEF IsSub
    <2>2. Move(a, Renounced, g)
      BY <1>1, <2>1, NewAccountMoves DEF Instantiate
    <2> QED BY <2>2, MoveKeepsMatch
  <1>2. ASSUME NEW p \in Account, NEW a \in Account, InstantiateSubAccount(p, a)
        PROVE  SubAccountsMatchOwners'
    <2>1. SubAccount(p) \in Governance /\ SubAccount(p).at = p
      BY DEF SubAccount, Governance
    <2>2. Move(a, Renounced, SubAccount(p))
      BY <1>2, <2>1, NewAccountMoves DEF InstantiateSubAccount
    <2> QED BY <2>2, MoveKeepsMatch
  <1>3. ASSUME NEW s \in Sender, NEW p \in Account, NEW a \in Account, CreateSubAccount(s, p, a)
        PROVE  SubAccountsMatchOwners'
    BY <1>2, <1>3 DEF CreateSubAccount
  <1>4. ASSUME NEW s \in Sender, NEW a \in Account, AcceptOwnership(s, a)
        PROVE  SubAccountsMatchOwners'
    BY <1>4, AcceptMoves, MoveKeepsMatch
  <1>5. ASSUME NEW s \in Sender, NEW a \in Account, RenounceOwnership(s, a)
        PROVE  SubAccountsMatchOwners'
    BY <1>5, RenounceMoves, MoveKeepsMatch
  <1>6. ASSUME NEW a \in Speaker, NEW p \in Account, RegisterSubAccount(a, p)
        PROVE  SubAccountsMatchOwners'
    BY <1>6 DEF RegisterSubAccount, Listed, SubAccountsMatchOwners, TypeOK, Created
  <1>7. ASSUME NEW a \in Speaker, NEW p \in Account, UnregisterSubAccount(a, p)
        PROVE  SubAccountsMatchOwners'
    BY <1>7 DEF UnregisterSubAccount, Unlisted, SubAccountsMatchOwners, TypeOK, Created
  <1>8. ASSUME UNCHANGED <<owner, subAccounts, spoke>>
        PROVE  SubAccountsMatchOwners'
    BY <1>8 DEF SubAccountsMatchOwners, Created
  <1> QED
    BY <1>1, <1>2, <1>3, <1>4, <1>5, <1>6, <1>7, <1>8
    DEF Next, TransferOwnership, UpdateStatus, TransferToken, ReachExpiry, vars

-----------------------------------------------------------------------------
(* Final owners *)

\* A renounced account has no owner to ask, and an NFT does not consent.
LEMMA FinalOwnerRefuses ==
  ASSUME TypeOK, NEW s \in Sender, NEW a \in Created, CanChangeOwner(a, s)
  PROVE  owner[a].kind \notin {"renounced", "nft"}
  <1>1. owner[a] \in Governance /\ s # None
    BY NoneAssumption DEF TypeOK, Created, Sender, Addr
  <1>2. owner[a].kind # "nft"
    BY DEF CanChangeOwner, IsSub
  <1>3. owner[a].kind # "renounced"
    <2> SUFFICES ASSUME owner[a].kind = "renounced" PROVE FALSE
      OBVIOUS
    <2>1. owner[a] = Renounced
      BY <1>1 DEF Governance
    <2> QED BY <1>1, <2>1 DEF CanChangeOwner, IsSub, IsOwner, OwnerAddress, Renounced
  <1> QED BY <1>2, <1>3

\* A final owner does not consent to a change, and a proposal is cleared on the
\* way to it.
LEMMA NextKeepsFinalIdle ==
  ASSUME TypeOK, FinalIdle, [Next]_vars
  PROVE  FinalIdle'
  <1>1. ASSUME NEW a \in Account, NEW h, NewAccount(a, h)
        PROVE  FinalIdle'
    BY <1>1 DEF NewAccount, FinalIdle, TypeOK, Created
  <1>2. ASSUME NEW s \in Sender, NEW a \in Account, NEW g, NEW d, TransferOwnership(s, a, g, d)
        PROVE  FinalIdle'
    <2>1. owner[a].kind \notin {"renounced", "nft"}
      BY <1>2, FinalOwnerRefuses DEF TransferOwnership, Active
    <2> QED BY <1>2, <2>1 DEF TransferOwnership, FinalIdle, TypeOK, Created
  <1>3. ASSUME NEW s \in Sender, NEW a \in Account, AcceptOwnership(s, a)
        PROVE  FinalIdle'
    BY <1>3 DEF AcceptOwnership, CanAccept, FinalIdle, TypeOK, Created, Active
  <1>4. ASSUME NEW s \in Sender, NEW a \in Account, RenounceOwnership(s, a)
        PROVE  FinalIdle'
    BY <1>4 DEF RenounceOwnership, Cancelled, FinalIdle, TypeOK, Created, Active
  <1>5. ASSUME UNCHANGED <<owner, pending>>
        PROVE  FinalIdle'
    BY <1>5 DEF FinalIdle, Created
  <1> QED
    BY <1>1, <1>2, <1>3, <1>4, <1>5
    DEF Next, Instantiate, InstantiateSubAccount, CreateSubAccount, RegisterSubAccount,
        UnregisterSubAccount, UpdateStatus, TransferToken, ReachExpiry, vars

\* The inductive invariant holds in every reachable state.
THEOREM OwnershipInvariant == Spec => []OwnershipInv
  <1>1. OwnershipInv /\ [Next]_vars => OwnershipInv'
    BY NextKeepsTypes, NextKeepsMatch, NextKeepsFinalIdle DEF OwnershipInv
  <1> QED BY InitEstablishesInvariant, <1>1, PTL DEF Spec

\* For any number of accounts and any order of creations, transfers, acceptances
\* and renunciations, SUB_ACCOUNTS lists exactly the accounts that name the parent
\* as owner, apart from accounts that sent UpdateSubAccount themselves.
THEOREM SubAccountsStayMatched == Spec => []SubAccountsMatchOwners
  BY OwnershipInvariant, PTL DEF OwnershipInv

-----------------------------------------------------------------------------
(* What no step does *)

\* A renounced account never gets an owner again, and an account that belongs to
\* an NFT stays with it, whatever was proposed before.
THEOREM OwnersAreFinal == Spec => FinalOwners
  <1>1. ASSUME OwnershipInv, [Next]_vars, NEW a \in Created,
               owner[a].kind \in {"renounced", "nft"}
        PROVE  owner'[a] = owner[a]
    <2> USE <1>1 DEF OwnershipInv
    <2>1. ASSUME NEW b \in Account, NEW h, NewAccount(b, h) PROVE owner'[a] = owner[a]
      BY <2>1 DEF NewAccount, TypeOK, Created
    <2>2. ASSUME NEW s \in Sender, NEW b \in Account, AcceptOwnership(s, b)
          PROVE  owner'[a] = owner[a]
      BY <2>2 DEF AcceptOwnership, CanAccept, FinalIdle, TypeOK, Created
    <2>3. ASSUME NEW s \in Sender, NEW b \in Account, RenounceOwnership(s, b)
          PROVE  owner'[a] = owner[a]
      <3>1. b # a
        BY <2>3, FinalOwnerRefuses DEF RenounceOwnership
      <3> QED BY <2>3, <3>1 DEF RenounceOwnership, TypeOK, Created
    <2>4. CASE UNCHANGED owner
      BY <2>4
    <2> QED
      BY <2>1, <2>2, <2>3, <2>4
      DEF Next, Instantiate, InstantiateSubAccount, CreateSubAccount, TransferOwnership,
          RegisterSubAccount, UnregisterSubAccount, UpdateStatus, TransferToken, ReachExpiry, vars
  <1>2. OwnershipInv /\ [Next]_vars =>
          \A a \in Created : owner[a].kind \in {"renounced", "nft"} => owner'[a] = owner[a]
    BY <1>1
  <1> QED BY <1>2, OwnershipInvariant, PTL DEF Spec, FinalOwners

\* At the moment an account is renounced, no account names it as owner, apart from
\* accounts that took themselves off its list.
THEOREM RenouncingLeavesNoOrphans == Spec => NoOrphans
  <1>1. ASSUME OwnershipInv, [Next]_vars, NEW p \in Created, owner[p] # Renounced,
               owner'[p] = Renounced, NEW a \in Created \ spoke
        PROVE  owner[a] # SubAccount(p)
    <2> USE <1>1 DEF OwnershipInv
    <2>1. ASSUME NEW b \in Account, NEW h, NewAccount(b, h) PROVE FALSE
      BY <2>1 DEF NewAccount, TypeOK, Created
    <2>2. ASSUME NEW s \in Sender, NEW b \in Account, AcceptOwnership(s, b) PROVE FALSE
      <3>1. pending[b] = Renounced
        BY <2>2 DEF AcceptOwnership, CanAccept, TypeOK, Created
      <3> QED BY <2>2, <3>1 DEF AcceptOwnership, CanAccept, MayAccept, OwnerAddress, Renounced
    <2>3. ASSUME NEW s \in Sender, NEW b \in Account, RenounceOwnership(s, b)
          PROVE  owner[a] # SubAccount(p)
      <3>1. b = p
        BY <2>3 DEF RenounceOwnership, TypeOK, Created
      <3>2. subAccounts[p] = {}
        BY <2>3, <3>1 DEF RenounceOwnership, HasNoSubAccounts
      <3> QED BY <3>2 DEF SubAccountsMatchOwners, Created
    <2>4. ASSUME UNCHANGED owner PROVE FALSE
      BY <2>4
    <2> QED
      BY <2>1, <2>2, <2>3, <2>4
      DEF Next, Instantiate, InstantiateSubAccount, CreateSubAccount, TransferOwnership,
          RegisterSubAccount, UnregisterSubAccount, UpdateStatus, TransferToken, ReachExpiry, vars
  <1>2. OwnershipInv /\ [Next]_vars =>
          \A p \in Created : owner[p] # Renounced /\ owner'[p] = Renounced =>
            \A a \in Created \ spoke : owner[a] # SubAccount(p)
    BY <1>1
  <1> QED BY <1>2, OwnershipInvariant, PTL DEF Spec, NoOrphans

\* Nothing about a suspended account changes but its suspension: no move starts
\* from it, ends at it, or concerns it.
THEOREM SuspensionAlwaysFreezes == Spec => SuspensionFreezes
  <1> DEFINE Still(a) == /\ owner'[a] = owner[a] /\ pending'[a] = pending[a]
                         /\ subAccounts'[a] = subAccounts[a]
  <1>1. ASSUME TypeOK, NEW a \in suspended, NEW b, NEW g, NEW h, Move(b, g, h), b # a,
               g # SubAccount(a), h # SubAccount(a)
        PROVE  owner'[a] = owner[a] /\ subAccounts'[a] = subAccounts[a]
    <2>1. subAccounts \in [Account -> SUBSET Account] /\ a \in Account
      BY <1>1 DEF TypeOK, Created
    <2> QED BY <1>1, <2>1, MovedEffect DEF Move, TypeOK
  <1>2. ASSUME TypeOK, [Next]_vars, NEW a \in suspended
        PROVE  Still(a)
    <2> USE <1>2
    <2>1. a \in Created /\ a \in Account /\ ~Active(a)
      BY DEF TypeOK, Created, Active
    <2>2. ASSUME NEW b \in Account, NEW h \in Governance, NewAccount(b, h),
                 IsSub(h) => Active(h.at)
          PROVE  Still(a)
      <3>1. Move(b, Renounced, h)
        BY <2>2, NewAccountMoves DEF Active
      <3>2. b # a /\ Renounced # SubAccount(a) /\ h # SubAccount(a)
        BY <2>1, <2>2, SubAccountOwner DEF NewAccount
      <3> QED BY <1>1, <2>2, <3>1, <3>2 DEF NewAccount
    <2>3. ASSUME NEW s \in Sender, NEW b \in Account, NEW g \in FirstOwner, Instantiate(s, b, g)
          PROVE  Still(a)
      <3>1. g \in Governance /\ ~IsSub(g)
        BY InputAssumption DEF IsSub
      <3> QED BY <2>2, <2>3, <3>1 DEF Instantiate
    <2>4. ASSUME NEW p \in Account, NEW b \in Account, InstantiateSubAccount(p, b)
          PROVE  Still(a)
      <3>1. SubAccount(p) \in Governance /\ SubAccount(p).at = p
        BY DEF SubAccount, Governance
      <3> QED BY <2>2, <2>4, <3>1 DEF InstantiateSubAccount, CanRegister
    <2>5. ASSUME NEW s \in Sender, NEW b \in Account, AcceptOwnership(s, b)
          PROVE  Still(a)
      <3>1. Move(b, owner[b], pending[b])
        BY <2>5, AcceptMoves
      <3>2. b # a /\ owner[b] # SubAccount(a) /\ pending[b] # SubAccount(a)
        BY <2>1, <2>5, <3>1, SubAccountOwner
        DEF AcceptOwnership, CanAccept, MoveAllowed, CanRegister, CanUnregister, Move
      <3> QED BY <1>1, <2>1, <2>5, <3>1, <3>2 DEF AcceptOwnership, CanAccept, TypeOK
    <2>6. ASSUME NEW s \in Sender, NEW b \in Account, RenounceOwnership(s, b)
          PROVE  Still(a)
      <3>1. Move(b, owner[b], Renounced)
        BY <2>6, RenounceMoves
      <3>2. b # a /\ owner[b] # SubAccount(a) /\ Renounced # SubAccount(a)
        BY <2>1, <2>6, <3>1, SubAccountOwner
        DEF RenounceOwnership, MoveAllowed, CanUnregister, Move
      <3> QED BY <1>1, <2>1, <2>6, <3>1, <3>2 DEF RenounceOwnership, Cancelled, TypeOK
    <2>7. ASSUME NEW s \in Sender, NEW b \in Account, NEW g, NEW d, TransferOwnership(s, b, g, d)
          PROVE  Still(a)
      BY <2>1, <2>7 DEF TransferOwnership, TypeOK
    <2>8. ASSUME NEW b \in Speaker, NEW p \in Account, RegisterSubAccount(b, p)
          PROVE  Still(a)
      BY <2>1, <2>8 DEF RegisterSubAccount, CanRegister, Listed, TypeOK
    <2>9. ASSUME NEW b \in Speaker, NEW p \in Account, UnregisterSubAccount(b, p)
          PROVE  Still(a)
      BY <2>1, <2>9 DEF UnregisterSubAccount, CanUnregister, Unlisted, TypeOK
    <2>10. CASE UNCHANGED <<owner, pending, subAccounts>>
      BY <2>10
    <2> HIDE DEF Still
    <2> QED
      BY <2>3, <2>4, <2>5, <2>6, <2>7, <2>8, <2>9, <2>10
      DEF Next, CreateSubAccount, UpdateStatus, TransferToken, ReachExpiry, vars
  <1>3. TypeOK /\ [Next]_vars =>
          \A a \in suspended : /\ owner'[a] = owner[a] /\ pending'[a] = pending[a]
                               /\ subAccounts'[a] = subAccounts[a]
    BY <1>2
  <1> QED BY <1>3, TypeCorrect, PTL DEF Spec, SuspensionFreezes

-----------------------------------------------------------------------------
(* What an owner can do *)

\* A proposal that is open can be accepted: the old parent and the new one exist, and
\* what they are told is refused only for a suspension or for a foreign id.
THEOREM OpenTransfersCanComplete == Spec => []OpenTransferCanComplete
  <1>1. TypeOK => OpenTransferCanComplete
    <2> SUFFICES ASSUME TypeOK, NEW a \in Created \cap Local, pending[a] # None,
                        OwnerAddress(pending[a]) \in Sender, expiry[a] # "reached",
                        \A b \in suspended : b # a /\ SubAccount(b) \notin {owner[a], pending[a]}
                 PROVE  \E s \in Sender : CanAccept(s, a)
      BY DEF OpenTransferCanComplete
    <2>1. a \in Account /\ Active(a)
      BY DEF Created, Active
    <2>2. MayAccept(OwnerAddress(pending[a]), pending[a])
      <3>1. None \notin Sender
        BY NoneAssumption DEF Sender, Addr, Created
      <3> QED BY <3>1 DEF MayAccept, IsOwner
    <2>3. MoveAllowed(a, owner[a], pending[a])
      <3>1. \A g \in {owner[a], pending[a]} : IsSub(g) => g = SubAccount(g.at) /\ g.at \in Created
        BY <2>1 DEF TypeOK, Created, Governance, IsSub, SubAccount, Direct, NFT, Renounced
      <3>2. \A g \in {owner[a], pending[a]} : IsSub(g) => Active(g.at)
        BY <3>1 DEF Active
      <3> QED BY <3>2 DEF MoveAllowed, CanRegister, CanUnregister
    <2>4. CanAccept(OwnerAddress(pending[a]), a)
      BY <2>1, <2>2, <2>3 DEF CanAccept
    <2> QED BY <2>4
  <1> QED BY <1>1, TypeCorrect, PTL

\* The owners that the loop of query_top_level_owner can meet.
Reachable == {g \in Governance : IsSub(g) => g.at \in Created}

\* The loop meets only owners of accounts that exist.
LEMMA ClimbStays ==
  ASSUME TypeOK
  PROVE  /\ \A a \in Created : owner[a] \in Reachable
         /\ \A g \in Reachable : Climb(g) \in Reachable
  BY DEF TypeOK, Reachable, Climb, Created

\* The loop, round by round.
LEMMA ClimbSteps ==
  ASSUME TypeOK, NEW a \in Created
  PROVE  \E h : /\ h[0] = owner[a]
                /\ \A n \in 1 .. MAX_ADMIN_RECURSION : h[n] = Climb(h[n - 1])
                /\ TopLevelOwner(a) = h[MAX_ADMIN_RECURSION]
  <1> DEFINE M == MAX_ADMIN_RECURSION
             Round(h) == [n \in 0 .. M |-> IF n = 0 THEN owner[a] ELSE Climb(h[n - 1])]
             F == [x \in Reachable \X (1 .. M) |-> Climb(x[1])]
             after == CHOOSE h : h = Round(h)
  <1>1. M \in Nat
    BY AccountAssumption
  <1>2. TopLevelOwner(a) = after[M]
    BY Zenon DEF TopLevelOwner
  <1>3. \E h : h = Round(h)
    <2>1. owner[a] \in Reachable /\ F \in Steps(Reachable, 1 .. M)
      BY ClimbStays DEF Steps
    <2> HIDE DEF M
    <2>2. PICK h \in [0 .. M -> Reachable] :
                 h[0] = owner[a] /\ \A n \in 1 .. M : h[n] = F[<<h[n - 1], n>>]
      <3> HIDE DEF F
      <3>1. Chains(M, Reachable, owner[a], F) # {}
        BY <1>1, <2>1, ChainExists
      <3> QED BY <3>1 DEF Chains
    <2>3. \A n \in 1 .. M : h[n - 1] \in Reachable
      BY <1>1, <2>2
    <2>4. \A n \in 1 .. M : h[n] = Climb(h[n - 1])
      BY <2>2, <2>3
    <2>5. \A n \in 0 .. M : h[n] = IF n = 0 THEN owner[a] ELSE Climb(h[n - 1])
      BY <1>1, <2>2, <2>4
    <2>6. h = Round(h)
      BY <2>5
    <2> QED BY <2>6
  <1>4. after = Round(after)
    <2> HIDE DEF Round
    <2> QED BY <1>3
  <1>5. after[0] = owner[a] /\ \A n \in 1 .. M : after[n] = Climb(after[n - 1])
    <2> HIDE DEF after, M
    <2> QED BY <1>1, <1>4
  <1> HIDE DEF after
  <1> QED BY <1>2, <1>5

\* Up to as many accounts as the loop has rounds, the top-level owner is the owner at
\* the end of the chain of parents.
LEMMA TopOfChain ==
  ASSUME TypeOK, NEW n \in 0 .. MAX_ADMIN_RECURSION, NEW c \in [0 .. n -> Created],
         \A i \in 1 .. n : owner[c[i - 1]] = SubAccount(c[i]), ~IsSub(owner[c[n]])
  PROVE  TopLevelOwner(c[0]) = owner[c[n]]
  <1> DEFINE M == MAX_ADMIN_RECURSION
  <1>1. M \in Nat /\ n \in Nat /\ n <= M
    BY AccountAssumption
  <1>2. c[0] \in Created
    BY <1>1
  <1>3. PICK h : /\ h[0] = owner[c[0]] /\ (\A k \in 1 .. M : h[k] = Climb(h[k - 1]))
                 /\ TopLevelOwner(c[0]) = h[M]
    BY <1>2, ClimbSteps
  <1> DEFINE P == {k \in 0 .. M : h[k] = IF k <= n THEN owner[c[k]] ELSE owner[c[n]]}
  <1> HIDE DEF M
  <1>4. 0 \in P
    BY <1>1, <1>3
  <1>5. ASSUME NEW k \in 1 .. M, k - 1 \in P PROVE k \in P
    <2>1. h[k] = Climb(h[k - 1])
      BY <1>3
    <2>2. CASE k <= n
      <3>1. h[k - 1] = SubAccount(c[k]) /\ k \in 1 .. n /\ k \in 0 .. n
        BY <1>1, <1>5, <2>2
      <3>2. Climb(SubAccount(c[k])) = owner[c[k]]
        BY DEF Climb, SubAccount, IsSub
      <3> QED BY <2>1, <2>2, <3>1, <3>2
    <2>3. CASE k > n
      <3>1. h[k - 1] = owner[c[n]]
        BY <1>1, <1>5, <2>3
      <3>2. Climb(owner[c[n]]) = owner[c[n]]
        BY DEF Climb
      <3> QED BY <1>1, <2>1, <2>3, <3>1, <3>2
    <2> QED BY <1>1, <2>2, <2>3
  <1>6. M \in P
    <2> HIDE DEF P
    <2>1. \A k \in 1 .. M : k - 1 \in P => k \in P
      BY <1>5
    <2>2. \A k \in 0 .. M : k \in P
      BY <1>1, <1>4, <2>1, Induction
    <2> QED BY <1>1, <2>2
  <1> QED BY <1>1, <1>3, <1>6

\* The owner of the main account passes as owner of its sub-accounts and of theirs, for
\* every number of rounds but none.
THEOREM OwnersReachSubAccounts == Spec => []OwnerReachesSubAccounts
  <1>1. TypeOK => OwnerReachesSubAccounts
    <2> SUFFICES ASSUME TypeOK, NEW a \in Created, NEW b \in Created, NEW c \in Created,
                        owner[a] = SubAccount(b), owner[b] = SubAccount(c), ~IsSub(owner[c]),
                        NEW s \in Sender, IsOwner(owner[c], s)
                 PROVE  IsNestedOwner(a, s) /\ IsNestedOwner(b, s)
      BY DEF OwnerReachesSubAccounts
    <2>1. MAX_ADMIN_RECURSION \in Nat /\ MAX_ADMIN_RECURSION >= 1
      BY AccountAssumption
    <2>2. TopLevelOwner(c) = owner[c]
      <3> DEFINE d == [i \in 0 .. 0 |-> c]
      <3>1. /\ 0 \in 0 .. MAX_ADMIN_RECURSION /\ d \in [0 .. 0 -> Created] /\ d[0] = c
            /\ \A i \in 1 .. 0 : owner[d[i - 1]] = SubAccount(d[i])
        BY <2>1
      <3> HIDE DEF d
      <3> QED BY <3>1, TopOfChain
    <2>3. TopLevelOwner(b) = owner[c]
      <3> DEFINE d == [i \in 0 .. 1 |-> IF i = 0 THEN b ELSE c]
      <3>1. /\ 1 \in 0 .. MAX_ADMIN_RECURSION /\ d \in [0 .. 1 -> Created]
            /\ d[0] = b /\ d[1] = c
        BY <2>1
      <3> HIDE DEF d
      <3>2. \A i \in 1 .. 1 : owner[d[i - 1]] = SubAccount(d[i])
        BY <3>1
      <3> QED BY <3>1, <3>2, TopOfChain
    <2> QED BY <2>2, <2>3 DEF IsNestedOwner, IsSub, SubAccount
  <1> QED BY <1>1, TypeCorrect, PTL
=============================================================================
