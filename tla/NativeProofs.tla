---------------------------- MODULE NativeProofs ----------------------------
(***************************************************************************)
(* Proofs about the native contracts: the registry, for any sets of users, *)
(* accounts, namespaces and modules, and the name service, for any names,  *)
(* assets, pools and lists in a message.                                   *)
(***************************************************************************)
EXTENDS Registry, AnsHost, FoldLemmas, TLAPS

USE DEF Put, Del

-----------------------------------------------------------------------------
(* The registry: types *)

\* Each message of the registry leaves well-typed maps behind.
LEMMA NamespaceStepType == TypeOK /\ NextNamespace => TypeOK'
<1> SUFFICES ASSUME TypeOK, NextNamespace PROVE TypeOK'
  OBVIOUS
<1> USE DEF TypeOK, moduleVars, configVars, accountVars, settingVars, adminVars
<1>1. ASSUME NEW s \in Sender, NEW id \in AccountId, NEW n \in Namespace,
             NEW paid \in BOOLEAN, ClaimNamespace(s, id, n, paid)
      PROVE  TypeOK'
  BY <1>1 DEF ClaimNamespace, ClaimNamespaceInternal
<1>2. ASSUME NEW s \in Sender, NEW n \in Namespace, ForgoNamespace(s, n)
      PROVE  TypeOK'
  BY <1>2 DEF ForgoNamespace, ReleaseNamespace, YankNamespace
<1> QED BY <1>1, <1>2 DEF NextNamespace

LEMMA AccountStepType == TypeOK /\ NextAccount => TypeOK'
<1> SUFFICES ASSUME TypeOK, NextAccount PROVE TypeOK'
  OBVIOUS
<1> USE DEF TypeOK, moduleVars, configVars, namespaceVars, settingVars, adminVars
<1>1. ASSUME NEW a \in Addr, NEW id \in AccountId, NEW u \in User,
             NEW n \in Namespace \cup {None}, NEW paid \in BOOLEAN,
             NEW creator \in User \cup Contract,
             AddAccount(a, id, u, n, paid, creator)
      PROVE  TypeOK'
  <2>1. sequence' \in 0 .. MaxSeq + 1
    BY <1>1, IdAssumption DEF AddAccount, NextSequence, LocalId
  <2>2. /\ namespaces' \in [Namespace -> AccountId \cup {None}]
        /\ revNamespaces' \in [AccountId -> Namespace \cup {None}]
    BY <1>1 DEF AddAccount, ClaimNamespaceInternal
  <2> QED BY <1>1, <2>1, <2>2 DEF AddAccount
<1>2. ASSUME NEW a \in Addr, NEW u \in User, AccountOwnerChanged(a, u)
      PROVE  TypeOK'
  BY <1>2 DEF AccountOwnerChanged
<1>3. ASSUME NEW id \in AccountId, RenounceAccount(id)
      PROVE  TypeOK'
  BY <1>3 DEF RenounceAccount, ReleaseNamespace, YankNamespace
<1> HIDE DEF TypeOK
<1> QED BY <1>1, <1>2, <1>3 DEF NextAccount

LEMMA ModuleStepType == TypeOK /\ NextModule => TypeOK'
<1> SUFFICES ASSUME TypeOK, NextModule PROVE TypeOK'
  OBVIOUS
<1> USE DEF TypeOK, configVars, namespaceVars, accountVars, settingVars, adminVars
<1>1. ASSUME NEW p \in Proposable PROVE p[1] \in Module /\ p[2] \in Ref
  BY <1>1, ModuleAssumption
<1>2. ASSUME NEW r \in Ref, r.kind = "standalone" PROVE r.at \in CodeId
  BY <1>2 DEF Ref
<1>3. ASSUME NEW r \in Ref, r.kind = "service" PROVE r.at \in Contract
  BY <1>3 DEF Ref
<1>4. ASSUME NEW s \in Sender, NEW p \in Proposable, ProposeForApproval(s, p[1], p[2])
      PROVE  TypeOK'
  BY <1>1, <1>4 DEF ProposeForApproval
<1>5. ASSUME NEW s \in Sender, NEW p \in Proposable, RegisterDirectly(s, p[1], p[2])
      PROVE  TypeOK'
  BY <1>1, <1>2, <1>3, <1>5
     DEF RegisterDirectly, SaveStandaloneInfo, SaveServiceInfo
<1>6. ASSUME NEW s \in Sender, NEW m \in Module, ApproveModule(s, m)
      PROVE  TypeOK'
  <2>1. pending[m] \in Ref
    BY <1>6 DEF ApproveModule
  <2> QED BY <1>2, <1>6, <2>1 DEF ApproveModule, SaveStandaloneInfo
<1>7. ASSUME NEW s \in Sender, NEW m \in Module, RejectModule(s, m)
      PROVE  TypeOK'
  BY <1>7 DEF RejectModule
<1>8. ASSUME NEW s \in Sender, NEW m \in Module, RemoveModule(s, m)
      PROVE  TypeOK'
  <2>1. standaloneInfos' \in [CodeId -> Module \cup {None}]
    BY <1>2, <1>8 DEF RemoveModule
  <2>2. defaultConfig' \in SUBSET ModuleName
    BY <1>8 DEF RemoveModule, DropDefaultConfig
  <2> QED BY <1>8, <2>1, <2>2 DEF RemoveModule, DropConfig
<1>9. ASSUME NEW s \in Sender, NEW m \in Module, YankModule(s, m)
      PROVE  TypeOK'
  BY <1>9 DEF YankModule
<1>10. ASSUME NEW s \in Sender, NEW m \in Module, NEW part \in PartInput,
              UpdateVersionedConfig(s, m, part)
       PROVE  TypeOK'
  BY <1>10, BoundAssumption DEF UpdateVersionedConfig, moduleVars
<1>11. ASSUME NEW s \in Sender, NEW name \in ModuleName, UpdateDefaultConfig(s, name)
       PROVE  TypeOK'
  BY <1>11 DEF UpdateDefaultConfig, moduleVars
<1> HIDE DEF TypeOK
<1> QED
  BY <1>4, <1>5, <1>6, <1>7, <1>8, <1>9, <1>10, <1>11 DEF NextModule

LEMMA AdminStepType == TypeOK /\ NextAdmin => TypeOK'
<1> SUFFICES ASSUME TypeOK, NextAdmin PROVE TypeOK'
  OBVIOUS
<1> USE DEF TypeOK, moduleVars, configVars, namespaceVars, accountVars
<1>1. ASSUME NEW s \in Sender, NEW sec \in BOOLEAN, NEW f \in FeeSetting,
             UpdateConfig(s, sec, f)
      PROVE  TypeOK'
  BY <1>1, BoundAssumption DEF UpdateConfig, adminVars
<1>2. ASSUME NEW s \in Sender, NEW new \in NewAdmin, TransferOwnership(s, new)
      PROVE  TypeOK'
  BY <1>2, BoundAssumption DEF TransferOwnership, settingVars
<1>3. ASSUME NEW s \in Sender, AcceptOwnership(s) \/ RenounceOwnership(s)
      PROVE  TypeOK'
  BY <1>3 DEF AcceptOwnership, RenounceOwnership, settingVars
<1> HIDE DEF TypeOK
<1> QED BY <1>1, <1>2, <1>3 DEF NextAdmin

\* Every reachable state of the registry is well typed.
THEOREM TypeCorrect == Spec => []TypeOK
<1>1. Init => TypeOK
  BY IdAssumption, NamespaceAssumption, BoundAssumption
     DEF Init, TypeOK, AccountId, LocalId, ABSTRACT_ACCOUNT_ID, Sender
<1>2. TypeOK /\ UNCHANGED vars => TypeOK'
  BY DEF TypeOK, vars, moduleVars, configVars, namespaceVars, accountVars,
         settingVars, adminVars
<1>3. TypeOK /\ [Next]_vars => TypeOK'
  BY <1>2, NamespaceStepType, AccountStepType, ModuleStepType, AdminStepType DEF Next
<1> QED BY <1>1, <1>3, PTL DEF Spec

-----------------------------------------------------------------------------
(* Namespaces *)

\* Module and admin messages never touch the two namespace maps.
LEMMA ModuleStepKeepsNamespaces == NextModule => UNCHANGED namespaceVars
BY DEF NextModule, ProposeForApproval, RegisterDirectly, ApproveModule, RejectModule,
       RemoveModule, YankModule, UpdateVersionedConfig, UpdateDefaultConfig

LEMMA AdminStepKeepsNamespaces == NextAdmin => UNCHANGED namespaceVars
BY DEF NextAdmin, UpdateConfig, TransferOwnership, AcceptOwnership, RenounceOwnership

\* Claiming a free namespace for an account without one keeps the maps inverse.
LEMMA ClaimKeepsInverse ==
  ASSUME TypeOK, NamespacesInverse,
         NEW id \in AccountId, NEW n \in Namespace, NEW paid, NEW addrs,
         ClaimNamespaceInternal(id, n, paid, addrs)
  PROVE  NamespacesInverse'
BY NoneAssumption DEF TypeOK, NamespacesInverse, ClaimNamespaceInternal

\* Releasing a namespace clears the entry of exactly the account that held it.
LEMMA ReleaseKeepsInverse ==
  ASSUME TypeOK, NamespacesInverse, NEW n \in Namespace, ReleaseNamespace(n)
  PROVE  NamespacesInverse'
BY NoneAssumption DEF TypeOK, NamespacesInverse, ReleaseNamespace

LEMMA UnchangedKeepsInverse ==
  NamespacesInverse /\ UNCHANGED namespaceVars => NamespacesInverse'
BY DEF NamespacesInverse, namespaceVars

\* In every reachable state an account holds at most one namespace, a namespace has
\* at most one account, and both maps agree on it.
THEOREM NamespacesStayInverse == Spec => []NamespacesInverse
<1>1. Init => NamespacesInverse
  BY IdAssumption, NamespaceAssumption, NoneAssumption
     DEF Init, NamespacesInverse, AccountId, LocalId, ABSTRACT_ACCOUNT_ID
<1>2. ASSUME TypeOK, NamespacesInverse, [Next]_vars
      PROVE  NamespacesInverse'
  <2>1. CASE NextNamespace
    <3>1. ASSUME NEW s \in Sender, NEW id \in AccountId, NEW n \in Namespace,
                 NEW paid \in BOOLEAN, ClaimNamespace(s, id, n, paid)
          PROVE  NamespacesInverse'
      BY <1>2, <3>1, ClaimKeepsInverse DEF ClaimNamespace
    <3>2. ASSUME NEW s \in Sender, NEW n \in Namespace, ForgoNamespace(s, n)
          PROVE  NamespacesInverse'
      BY <1>2, <3>2, ReleaseKeepsInverse DEF ForgoNamespace
    <3> QED BY <2>1, <3>1, <3>2 DEF NextNamespace
  <2>2. CASE NextAccount
    <3>1. ASSUME NEW a \in Addr, NEW id \in AccountId, NEW u \in User,
                 NEW n \in Namespace \cup {None}, NEW paid \in BOOLEAN,
                 NEW creator \in User \cup Contract,
                 AddAccount(a, id, u, n, paid, creator)
          PROVE  NamespacesInverse'
      <4>1. CASE n = None
        BY <1>2, <3>1, <4>1, UnchangedKeepsInverse DEF AddAccount
      <4>2. CASE n # None
        BY <1>2, <3>1, <4>2, ClaimKeepsInverse DEF AddAccount
      <4> QED BY <4>1, <4>2
    <3>2. ASSUME NEW a \in Addr, NEW u \in User, AccountOwnerChanged(a, u)
          PROVE  NamespacesInverse'
      BY <1>2, <3>2, UnchangedKeepsInverse DEF AccountOwnerChanged
    <3>3. ASSUME NEW id \in AccountId, RenounceAccount(id)
          PROVE  NamespacesInverse'
      <4>1. CASE revNamespaces[id] = None
        BY <1>2, <3>3, <4>1, UnchangedKeepsInverse DEF RenounceAccount
      <4>2. CASE revNamespaces[id] # None
        <5>1. revNamespaces[id] \in Namespace
          BY <1>2, <4>2 DEF TypeOK
        <5> QED BY <1>2, <3>3, <4>2, <5>1, ReleaseKeepsInverse DEF RenounceAccount
      <4> QED BY <4>1, <4>2
    <3> QED BY <2>2, <3>1, <3>2, <3>3 DEF NextAccount
  <2>3. CASE NextModule
    BY <1>2, <2>3, ModuleStepKeepsNamespaces, UnchangedKeepsInverse
  <2>4. CASE NextAdmin
    BY <1>2, <2>4, AdminStepKeepsNamespaces, UnchangedKeepsInverse
  <2>5. CASE UNCHANGED vars
    BY <1>2, <2>5, UnchangedKeepsInverse DEF vars
  <2> QED BY <1>2, <2>1, <2>2, <2>3, <2>4, <2>5 DEF Next
<1> QED BY <1>1, <1>2, TypeCorrect, PTL DEF Spec

-----------------------------------------------------------------------------
(* Account ids *)

\* Only add_account writes ACCOUNT_ADDRESSES and LOCAL_ACCOUNT_SEQUENCE.
LEMMA OnlyAddAccountAddsAccounts ==
  ASSUME [Next]_vars
  PROVE  \/ UNCHANGED <<addresses, sequence>>
         \/ \E a \in Addr, id \in AccountId, u \in User, n \in Namespace \cup {None},
               paid \in BOOLEAN, creator \in User \cup Contract :
              AddAccount(a, id, u, n, paid, creator)
<1> USE DEF accountVars
<1>1. CASE NextNamespace
  BY <1>1 DEF NextNamespace, ClaimNamespace, ForgoNamespace
<1>2. CASE NextAccount
  BY <1>2 DEF NextAccount, AccountOwnerChanged, RenounceAccount
<1>3. CASE NextModule
  BY <1>3 DEF NextModule, ProposeForApproval, RegisterDirectly, ApproveModule, RejectModule,
       RemoveModule, YankModule, UpdateVersionedConfig, UpdateDefaultConfig
<1>4. CASE NextAdmin
  BY <1>4 DEF NextAdmin, UpdateConfig, TransferOwnership, AcceptOwnership, RenounceOwnership
<1>5. CASE UNCHANGED vars
  BY <1>5 DEF vars
<1> QED BY <1>1, <1>2, <1>3, <1>4, <1>5 DEF Next

\* Sequenced account ids are handed out densely for any number of accounts.
THEOREM SequenceStaysDense == Spec => []SequenceDense
<1>1. Init => SequenceDense
  BY IdAssumption DEF Init, SequenceDense, AccountId, LocalId
<1>2. ASSUME TypeOK, SequenceDense, [Next]_vars
      PROVE  SequenceDense'
  <2>1. CASE UNCHANGED <<addresses, sequence>>
    BY <1>2, <2>1 DEF SequenceDense
  <2>2. ASSUME NEW a \in Addr, NEW id \in AccountId, NEW u \in User,
               NEW n \in Namespace \cup {None}, NEW paid \in BOOLEAN,
               NEW creator \in User \cup Contract,
               AddAccount(a, id, u, n, paid, creator)
        PROVE  SequenceDense'
    <3>1. a # None
      BY NoneAssumption
    <3>2. LocalId \subseteq AccountId
      BY DEF AccountId
    <3>3. CASE id \in LocalId
      BY <1>2, <2>2, <3>1, <3>2, <3>3, IdAssumption
         DEF TypeOK, SequenceDense, AddAccount, NextSequence, LocalId
    <3>4. CASE id \notin LocalId
      BY <1>2, <2>2, <3>1, <3>2, <3>4
         DEF TypeOK, SequenceDense, AddAccount, NextSequence
    <3> QED BY <3>3, <3>4
  <2> QED BY <1>2, <2>1, <2>2, OnlyAddAccountAddsAccounts
<1> QED BY <1>1, <1>2, TypeCorrect, PTL DEF Spec

\* No message ever rebinds a registered account id.
THEOREM AccountsArePermanent == Spec => AccountsPermanent
<1>1. ASSUME TypeOK, [Next]_vars
      PROVE  \A i \in AccountId : addresses[i] # None => addresses'[i] = addresses[i]
  <2>1. CASE UNCHANGED <<addresses, sequence>>
    BY <2>1
  <2>2. ASSUME NEW a \in Addr, NEW id \in AccountId, NEW u \in User,
               NEW n \in Namespace \cup {None}, NEW paid \in BOOLEAN,
               NEW creator \in User \cup Contract,
               AddAccount(a, id, u, n, paid, creator)
        PROVE  \A i \in AccountId : addresses[i] # None => addresses'[i] = addresses[i]
    BY <1>1, <2>2 DEF TypeOK, AddAccount, IdIsFree
  <2> QED BY <1>1, <2>1, <2>2, OnlyAddAccountAddsAccounts
<1> QED BY <1>1, TypeCorrect, PTL DEF Spec, AccountsPermanent

-----------------------------------------------------------------------------
(* The module library *)

\* The history variable is meant: as long as it is false security is on.
DirectMeansInsecure == ~direct => security

\* ExclusiveStatus is not inductive by itself: RegisterDirectly breaks it and is
\* excluded only because security is on in every state of such a history.
LibraryInv == DirectMeansInsecure /\ ExclusiveStatus

\* Messages that are not about modules change the library only by releasing a
\* namespace, and never switch security off without recording it.
LEMMA OtherStepsAndLibrary ==
  ASSUME TypeOK, NextNamespace \/ NextAccount \/ NextAdmin \/ UNCHANGED vars
  PROVE  /\ \/ UNCHANGED moduleVars
            \/ \E n \in Namespace : ReleaseNamespace(n)
         /\ \/ UNCHANGED settingVars
            \/ \E sec \in BOOLEAN : security' = sec /\ direct' = (direct \/ ~sec)
<1>1. CASE NextNamespace
  BY <1>1 DEF NextNamespace, ClaimNamespace, ForgoNamespace
<1>2. CASE NextAccount
  <2>1. ASSUME NEW id \in AccountId, RenounceAccount(id)
        PROVE  \/ UNCHANGED moduleVars
               \/ \E n \in Namespace : ReleaseNamespace(n)
    <3>1. revNamespaces[id] \in Namespace \cup {None}
      BY DEF TypeOK
    <3> QED BY <2>1, <3>1 DEF RenounceAccount
  <2>2. ASSUME NEW id \in AccountId, RenounceAccount(id)
        PROVE  UNCHANGED settingVars
    BY <2>2 DEF RenounceAccount
  <2> QED BY <1>2, <2>1, <2>2 DEF NextAccount, AddAccount, AccountOwnerChanged
<1>3. CASE NextAdmin
  BY <1>3 DEF NextAdmin, UpdateConfig, TransferOwnership, AcceptOwnership, RenounceOwnership
<1>4. CASE UNCHANGED vars
  BY <1>4 DEF vars
<1> QED BY <1>1, <1>2, <1>3, <1>4

\* The steps that are about modules keep the settings.
LEMMA ModuleStepKeepsSettings == NextModule => UNCHANGED settingVars
BY DEF NextModule, ProposeForApproval, RegisterDirectly, ApproveModule, RejectModule,
       RemoveModule, YankModule, UpdateVersionedConfig, UpdateDefaultConfig

LEMMA DirectMeansInsecureStep ==
  ASSUME TypeOK, DirectMeansInsecure, [Next]_vars
  PROVE  DirectMeansInsecure' /\ (direct => direct')
BY OtherStepsAndLibrary, ModuleStepKeepsSettings
   DEF Next, DirectMeansInsecure, settingVars, TypeOK

\* What one step may do to the three maps while security has always been on.
LibraryStep(m) ==
  \/ UNCHANGED <<pending[m], registered[m], yanked[m]>>
  \/ /\ pending[m] = None /\ registered[m] = None /\ yanked[m] = None
     /\ pending'[m] # None /\ registered'[m] = None /\ yanked'[m] = None
  \/ /\ pending[m] # None /\ registered'[m] = pending[m]
     /\ pending'[m] = None /\ yanked'[m] = yanked[m]
  \/ /\ pending[m] # None /\ pending'[m] = None
     /\ UNCHANGED <<registered[m], yanked[m]>>
  \/ registered'[m] = None /\ yanked'[m] = None /\ pending'[m] = pending[m]
  \/ /\ registered[m] # None /\ yanked'[m] = registered[m]
     /\ registered'[m] = None /\ pending'[m] = pending[m]

LEMMA SecureLibraryStep ==
  ASSUME TypeOK, security, [Next]_vars, NEW m \in Module
  PROVE  LibraryStep(m)
<1>1. CASE UNCHANGED moduleVars
  BY <1>1 DEF moduleVars, LibraryStep
<1>2. ASSUME NEW n \in Namespace, ReleaseNamespace(n) PROVE LibraryStep(m)
  BY <1>2 DEF ReleaseNamespace, YankNamespace, LibraryStep, TypeOK
<1>3. CASE NextModule
  <2>1. ASSUME NEW s \in Sender, NEW p \in Proposable, ProposeForApproval(s, p[1], p[2])
        PROVE  LibraryStep(m)
    <3>1. p[1] \in Module /\ p[2] \in Ref
      BY ModuleAssumption
    <3> QED BY <2>1, <3>1, NoneAssumption
            DEF ProposeForApproval, InLibrary, LibraryStep, TypeOK
  <2>2. ASSUME NEW s \in Sender, NEW p \in Proposable, RegisterDirectly(s, p[1], p[2])
        PROVE  FALSE
    BY <2>2 DEF RegisterDirectly
  <2>3. ASSUME NEW s \in Sender, NEW x \in Module, ApproveModule(s, x)
        PROVE  LibraryStep(m)
    BY <2>3 DEF ApproveModule, LibraryStep, TypeOK
  <2>4. ASSUME NEW s \in Sender, NEW x \in Module, RejectModule(s, x)
        PROVE  LibraryStep(m)
    BY <2>4 DEF RejectModule, LibraryStep, TypeOK
  <2>5. ASSUME NEW s \in Sender, NEW x \in Module, RemoveModule(s, x)
        PROVE  LibraryStep(m)
    BY <2>5 DEF RemoveModule, LibraryStep, TypeOK
  <2>6. ASSUME NEW s \in Sender, NEW x \in Module, YankModule(s, x)
        PROVE  LibraryStep(m)
    BY <2>6 DEF YankModule, LibraryStep, TypeOK
  <2>7. ASSUME NEW s \in Sender, NEW x \in Module, NEW part \in PartInput,
               UpdateVersionedConfig(s, x, part)
        PROVE  LibraryStep(m)
    BY <2>7, <1>1 DEF UpdateVersionedConfig
  <2>8. ASSUME NEW s \in Sender, NEW name \in ModuleName, UpdateDefaultConfig(s, name)
        PROVE  LibraryStep(m)
    BY <2>8, <1>1 DEF UpdateDefaultConfig
  <2> QED
    BY <1>3, <2>1, <2>2, <2>3, <2>4, <2>5, <2>6, <2>7, <2>8 DEF NextModule
<1> QED BY <1>1, <1>2, <1>3, OtherStepsAndLibrary DEF Next

LEMMA LibraryInvInductive ==
  ASSUME TypeOK, LibraryInv, [Next]_vars
  PROVE  LibraryInv'
<1>1. DirectMeansInsecure' /\ (direct => direct')
  BY DirectMeansInsecureStep DEF LibraryInv
<1>2. ASSUME ~direct', NEW m \in Module
      PROVE  /\ pending'[m] # None => registered'[m] = None /\ yanked'[m] = None
             /\ registered'[m] # None => yanked'[m] = None
  <2>1. LibraryStep(m)
    BY <1>1, <1>2, SecureLibraryStep DEF LibraryInv, DirectMeansInsecure
  <2>2. /\ pending[m] # None => registered[m] = None /\ yanked[m] = None
        /\ registered[m] # None => yanked[m] = None
    BY <1>1, <1>2 DEF LibraryInv, ExclusiveStatus
  <2> QED BY <2>1, <2>2 DEF LibraryStep
<1> QED BY <1>1, <1>2 DEF LibraryInv, ExclusiveStatus

LEMMA LibraryInvariant == Spec => []LibraryInv
<1>1. Init => LibraryInv
  BY DEF Init, LibraryInv, DirectMeansInsecure, ExclusiveStatus
<1> QED BY <1>1, LibraryInvInductive, TypeCorrect, PTL DEF Spec

\* While security has always been on, no module info is in two of the maps.
THEOREM StatusIsExclusive == Spec => []ExclusiveStatus
BY LibraryInvariant, PTL DEF LibraryInv

\* While security has always been on, a stored module reference is never replaced.
THEOREM ReferencesAreNeverSwapped == Spec => ReferenceNeverSwapped
<1>1. ASSUME TypeOK, LibraryInv, [Next]_vars
      PROVE  ~direct' => \A m \in Module :
               StoredRef(m) # {} => StoredRef(m)' = {} \/ StoredRef(m)' = StoredRef(m)
  <2> SUFFICES ASSUME ~direct', NEW m \in Module, StoredRef(m) # {}
               PROVE  StoredRef(m)' = {} \/ StoredRef(m)' = StoredRef(m)
    OBVIOUS
  <2>1. ~direct /\ security
    BY <1>1, DirectMeansInsecureStep DEF LibraryInv, DirectMeansInsecure
  <2>2. LibraryStep(m)
    BY <1>1, <2>1, SecureLibraryStep
  <2>3. /\ pending[m] # None => registered[m] = None /\ yanked[m] = None
        /\ registered[m] # None => yanked[m] = None
    BY <1>1, <2>1 DEF LibraryInv, ExclusiveStatus
  <2> QED BY <2>2, <2>3 DEF LibraryStep, StoredRef
<1> QED BY <1>1, TypeCorrect, LibraryInvariant, PTL DEF Spec, ReferenceNeverSwapped

\* A step that releases a namespace unregisters its modules; no other step takes one away.
THEOREM ForgoAlwaysUnregisters == Spec => ForgoUnregisters
<1>1. ASSUME TypeOK, [Next]_vars
      PROVE  \A n \in Namespace : namespaces[n] # None /\ namespaces'[n] = None =>
               \A m \in Module : m.namespace = n => registered'[m] = None
  <2>1. CASE UNCHANGED namespaceVars
    BY <2>1 DEF namespaceVars
  <2>2. ASSUME NEW k \in Namespace, ReleaseNamespace(k)
        PROVE  \A n \in Namespace : namespaces[n] # None /\ namespaces'[n] = None =>
                 \A m \in Module : m.namespace = n => registered'[m] = None
    BY <1>1, <2>2 DEF ReleaseNamespace, YankNamespace, TypeOK
  <2>3. ASSUME NEW id \in AccountId, NEW k \in Namespace, NEW paid, NEW addrs,
               ClaimNamespaceInternal(id, k, paid, addrs)
        PROVE  \A n \in Namespace : namespaces[n] # None => namespaces'[n] # None
    BY <1>1, <2>3, NoneAssumption DEF ClaimNamespaceInternal, TypeOK
  <2>4. CASE NextNamespace
    BY <2>2, <2>3, <2>4 DEF NextNamespace, ClaimNamespace, ForgoNamespace
  <2>5. CASE NextAccount
    <3>1. ASSUME NEW a \in Addr, NEW id \in AccountId, NEW u \in User,
                 NEW n \in Namespace \cup {None}, NEW paid \in BOOLEAN,
                 NEW creator \in User \cup Contract,
                 AddAccount(a, id, u, n, paid, creator)
          PROVE  \/ UNCHANGED namespaceVars
                 \/ n \in Namespace /\ ClaimNamespaceInternal(id, n, paid, addresses')
      BY <3>1 DEF AddAccount
    <3>2. ASSUME NEW id \in AccountId, RenounceAccount(id)
          PROVE  UNCHANGED namespaceVars \/ \E n \in Namespace : ReleaseNamespace(n)
      <4>1. revNamespaces[id] \in Namespace \cup {None}
        BY <1>1 DEF TypeOK
      <4> QED BY <3>2, <4>1 DEF RenounceAccount
    <3>3. ASSUME NEW a \in Addr, NEW u \in User, AccountOwnerChanged(a, u)
          PROVE  UNCHANGED namespaceVars
      BY <3>3 DEF AccountOwnerChanged
    <3> QED BY <2>1, <2>2, <2>3, <2>5, <3>1, <3>2, <3>3 DEF NextAccount
  <2>6. CASE NextModule \/ NextAdmin \/ UNCHANGED vars
    BY <2>1, <2>6, ModuleStepKeepsNamespaces, AdminStepKeepsNamespaces DEF vars
  <2> QED BY <1>1, <2>4, <2>5, <2>6 DEF Next
<1> QED BY <1>1, TypeCorrect, PTL DEF Spec, ForgoUnregisters

-----------------------------------------------------------------------------
(* Configuration *)

\* A module that the library still knows.
Kept(m) == registered[m] # None \/ yanked[m] # None

LEMMA KnownModulesBackConfig ==
  ASSUME TypeOK, ConfigBacked, UNCHANGED configVars, \A m \in Module : Kept(m) => Kept(m)'
  PROVE  ConfigBacked'
BY DEF ConfigBacked, configVars, Kept

\* Every step but a removal keeps what the library knows.
LEMMA ModulesStayKnown ==
  ASSUME TypeOK, [Next]_vars,
         \A s \in Sender, m \in Module : ~RemoveModule(s, m)
  PROVE  \A m \in Module : Kept(m) => Kept(m)'
<1>1. CASE UNCHANGED moduleVars
  BY <1>1 DEF moduleVars, Kept
<1>2. ASSUME NEW n \in Namespace, ReleaseNamespace(n)
      PROVE  \A m \in Module : Kept(m) => Kept(m)'
  BY <1>2 DEF ReleaseNamespace, YankNamespace, Kept, TypeOK
<1>3. CASE NextModule
  <2>1. ASSUME NEW s \in Sender, NEW p \in Proposable,
               ProposeForApproval(s, p[1], p[2]) \/ RegisterDirectly(s, p[1], p[2])
        PROVE  \A m \in Module : Kept(m) => Kept(m)'
    <3>1. p[1] \in Module /\ p[2] \in Ref
      BY ModuleAssumption
    <3> QED BY <2>1, <3>1, NoneAssumption DEF ProposeForApproval, RegisterDirectly, Kept, TypeOK
  <2>2. ASSUME NEW s \in Sender, NEW x \in Module,
               ApproveModule(s, x) \/ RejectModule(s, x) \/ YankModule(s, x)
        PROVE  \A m \in Module : Kept(m) => Kept(m)'
    BY <2>2 DEF ApproveModule, RejectModule, YankModule, Kept, TypeOK
  <2>3. ASSUME NEW s \in Sender, NEW x \in Module, NEW part \in PartInput,
               UpdateVersionedConfig(s, x, part)
        PROVE  UNCHANGED moduleVars
    BY <2>3 DEF UpdateVersionedConfig
  <2>4. ASSUME NEW s \in Sender, NEW name \in ModuleName, UpdateDefaultConfig(s, name)
        PROVE  UNCHANGED moduleVars
    BY <2>4 DEF UpdateDefaultConfig
  <2> QED BY <1>1, <1>3, <2>1, <2>2, <2>3, <2>4 DEF NextModule
<1> QED BY <1>1, <1>2, <1>3, OtherStepsAndLibrary DEF Next

\* Only these messages write a configuration.
LEMMA OnlyModuleMessagesConfigure ==
  ASSUME [Next]_vars
  PROVE  \/ UNCHANGED configVars
         \/ \E s \in Sender, m \in Module : RemoveModule(s, m)
         \/ \E s \in Sender, m \in Module, part \in PartInput : UpdateVersionedConfig(s, m, part)
         \/ \E s \in Sender, name \in ModuleName : UpdateDefaultConfig(s, name)
<1>1. CASE NextNamespace
  BY <1>1 DEF NextNamespace, ClaimNamespace, ForgoNamespace
<1>2. CASE NextAccount
  BY <1>2 DEF NextAccount, AddAccount, AccountOwnerChanged, RenounceAccount
<1>3. CASE NextModule
  BY <1>3 DEF NextModule, ProposeForApproval, RegisterDirectly, ApproveModule, RejectModule,
              YankModule
<1>4. CASE NextAdmin \/ UNCHANGED vars
  BY <1>4 DEF NextAdmin, UpdateConfig, TransferOwnership, AcceptOwnership, RenounceOwnership, vars
<1> QED BY <1>1, <1>2, <1>3, <1>4 DEF Next

LEMMA RemovalKeepsConfigBacked ==
  ASSUME TypeOK, ConfigBacked, NEW s \in Sender, NEW x \in Module, RemoveModule(s, x)
  PROVE  ConfigBacked'
<1>1. \A m \in Module \ {x} : Kept(m) => Kept(m)'
  BY DEF RemoveModule, Kept, TypeOK
<1>2. ASSUME NEW m \in Module, moduleConfig'[m] # {} PROVE Kept(m)'
  <2>1. m # x /\ moduleConfig[m] # {}
    BY <1>2 DEF RemoveModule, DropConfig, Put, TypeOK
  <2> QED BY <1>1, <2>1 DEF ConfigBacked, Kept
<1>3. ASSUME NEW name \in defaultConfig'
      PROVE  \E m \in Module : <<m.namespace, m.name>> = name /\ Kept(m)'
  <2>1. name \in defaultConfig
    BY <1>3 DEF RemoveModule, DropDefaultConfig
  <2>2. CASE name = <<x.namespace, x.name>>
    <3>1. RegisteredVersions(registered', name) # {}
      BY <1>3, <2>2 DEF RemoveModule, DropDefaultConfig
    <3> QED BY <3>1 DEF RegisteredVersions, Kept
  <2>3. CASE name # <<x.namespace, x.name>>
    <3>1. PICK m \in Module : <<m.namespace, m.name>> = name /\ Kept(m)
      BY <2>1 DEF ConfigBacked, Kept
    <3> QED BY <1>1, <2>3, <3>1
  <2> QED BY <2>2, <2>3
<1> QED BY <1>2, <1>3 DEF ConfigBacked, Kept

\* No configuration outlives the module, or the last module of the name, it is for.
THEOREM ConfigStaysBacked == Spec => []ConfigBacked
<1>1. Init => ConfigBacked
  BY DEF Init, ConfigBacked
<1>2. ASSUME TypeOK, ConfigBacked, [Next]_vars
      PROVE  ConfigBacked'
  <2>1. ASSUME NEW s \in Sender, NEW m \in Module, RemoveModule(s, m)
        PROVE  ConfigBacked'
    BY <1>2, <2>1, RemovalKeepsConfigBacked
  <2>2. ASSUME NEW s \in Sender, NEW x \in Module, NEW part \in PartInput,
               UpdateVersionedConfig(s, x, part)
        PROVE  ConfigBacked'
    BY <1>2, <2>2 DEF UpdateVersionedConfig, ConfigBacked, Put, TypeOK, moduleVars
  <2>3. ASSUME NEW s \in Sender, NEW name \in ModuleName, UpdateDefaultConfig(s, name)
        PROVE  ConfigBacked'
    <3>1. PICK m \in Module : <<m.namespace, m.name>> = name /\ registered[m] # None
      BY <2>3 DEF UpdateDefaultConfig, RegisteredVersions
    <3> QED BY <1>2, <2>3, <3>1 DEF UpdateDefaultConfig, ConfigBacked, moduleVars
  <2>4. CASE /\ UNCHANGED configVars
             /\ \A s \in Sender, m \in Module : ~RemoveModule(s, m)
    BY <1>2, <2>4, ModulesStayKnown, KnownModulesBackConfig
  <2> QED BY <1>2, <2>1, <2>2, <2>3, <2>4, OnlyModuleMessagesConfigure
<1> QED BY <1>1, <1>2, TypeCorrect, PTL DEF Spec

-----------------------------------------------------------------------------
(* The name service: what each entry of a list keeps, the list keeps *)

\* A list of entries leads nowhere that no single entry leads.  There is one lemma for
\* each kind of list, with the same proof, since no lemma can take the step as a parameter.
LEMMA SetEntriesStay ==
  ASSUME NEW E, NEW B, NEW n \in Nat, NEW list \in [1 .. n -> E], NEW b \in B,
         \A m \in B, x \in E : SetEntry(m, x) \in B
  PROVE  SetEntries(b, list) \in B
  <1> DEFINE F == [p \in B \X (1 .. n) |-> SetEntry(p[1], list[p[2]])]
             Body(it) == [s \in SUBSET (1 .. n) |-> IF s = {} THEN b ELSE SetEntry(it[s \ {Max(s)}], list[Max(s)])]
             fold == CHOOSE it : it = Body(it)
  <1>1. F \in Steps(B, 1 .. n) /\ \A m \in B, k \in 1 .. n : F[<<m, k>>] = SetEntry(m, list[k])
    BY DEF Steps
  <1>2. SetEntries(b, list) = fold[1 .. n]
    <2>1. DOMAIN list = 1 .. n
      OBVIOUS
    <2> QED BY <2>1, Zenon DEF SetEntries, FoldLeft, MapThenFoldSet
  <1> HIDE DEF F
  <1>3. PICK g : GoesThrough(g, n, B, b, F)
    BY <1>1, LeftFoldExists
  <1>4. g = Body(g)
    <2>1. \A s \in SUBSET (1 .. n) : g[s] = IF s = {} THEN b ELSE SetEntry(g[s \ {Max(s)}], list[Max(s)])
      BY <1>1, <1>3 DEF GoesThrough
    <2>2. g = [s \in SUBSET (1 .. n) |-> g[s]]
      BY <1>3 DEF GoesThrough
    <2> QED BY <2>1, <2>2, Zenon
  <1>5. fold = Body(fold)
    BY <1>4, Zenon
  <1> HIDE DEF fold
  <1>6. \A s \in SUBSET (1 .. n) : fold[s] = IF s = {} THEN b ELSE SetEntry(fold[s \ {Max(s)}], list[Max(s)])
    BY <1>5, Zenon
  <1> HIDE DEF Body
  <1>7. \A k \in 1 .. n : fold[1 .. k] = SetEntry(fold[1 .. (k - 1)], list[k])
    BY <1>6, Intervals
  <1>8. Follows(fold, n, B, b, F)
    BY <1>1, <1>6, <1>7 DEF Follows
  <1>9. fold[1 .. n] \in B
    BY <1>1, <1>8, LeftFoldStays
  <1> QED BY <1>2, <1>9

\* The same of the assets that are added,
LEMMA AddAssetsStay ==
  ASSUME NEW E, NEW B, NEW n \in Nat, NEW list \in [1 .. n -> E], NEW b \in B,
         \A m \in B, x \in E : AddAsset(m, x) \in B
  PROVE  AddAssets(b, list) \in B
  <1> DEFINE F == [p \in B \X (1 .. n) |-> AddAsset(p[1], list[p[2]])]
             Body(it) == [s \in SUBSET (1 .. n) |-> IF s = {} THEN b ELSE AddAsset(it[s \ {Max(s)}], list[Max(s)])]
             fold == CHOOSE it : it = Body(it)
  <1>1. F \in Steps(B, 1 .. n) /\ \A m \in B, k \in 1 .. n : F[<<m, k>>] = AddAsset(m, list[k])
    BY DEF Steps
  <1>2. AddAssets(b, list) = fold[1 .. n]
    <2>1. DOMAIN list = 1 .. n
      OBVIOUS
    <2> QED BY <2>1, Zenon DEF AddAssets, FoldLeft, MapThenFoldSet
  <1> HIDE DEF F
  <1>3. PICK g : GoesThrough(g, n, B, b, F)
    BY <1>1, LeftFoldExists
  <1>4. g = Body(g)
    <2>1. \A s \in SUBSET (1 .. n) : g[s] = IF s = {} THEN b ELSE AddAsset(g[s \ {Max(s)}], list[Max(s)])
      BY <1>1, <1>3 DEF GoesThrough
    <2>2. g = [s \in SUBSET (1 .. n) |-> g[s]]
      BY <1>3 DEF GoesThrough
    <2> QED BY <2>1, <2>2, Zenon
  <1>5. fold = Body(fold)
    BY <1>4, Zenon
  <1> HIDE DEF fold
  <1>6. \A s \in SUBSET (1 .. n) : fold[s] = IF s = {} THEN b ELSE AddAsset(fold[s \ {Max(s)}], list[Max(s)])
    BY <1>5, Zenon
  <1> HIDE DEF Body
  <1>7. \A k \in 1 .. n : fold[1 .. k] = AddAsset(fold[1 .. (k - 1)], list[k])
    BY <1>6, Intervals
  <1>8. Follows(fold, n, B, b, F)
    BY <1>1, <1>6, <1>7 DEF Follows
  <1>9. fold[1 .. n] \in B
    BY <1>1, <1>8, LeftFoldStays
  <1> QED BY <1>2, <1>9

\* of those that are removed,
LEMMA RemoveAssetsStay ==
  ASSUME NEW E, NEW B, NEW n \in Nat, NEW list \in [1 .. n -> E], NEW b \in B,
         \A m \in B, x \in E : RemoveAsset(m, x) \in B
  PROVE  RemoveAssets(b, list) \in B
  <1> DEFINE F == [p \in B \X (1 .. n) |-> RemoveAsset(p[1], list[p[2]])]
             Body(it) == [s \in SUBSET (1 .. n) |-> IF s = {} THEN b ELSE RemoveAsset(it[s \ {Max(s)}], list[Max(s)])]
             fold == CHOOSE it : it = Body(it)
  <1>1. F \in Steps(B, 1 .. n) /\ \A m \in B, k \in 1 .. n : F[<<m, k>>] = RemoveAsset(m, list[k])
    BY DEF Steps
  <1>2. RemoveAssets(b, list) = fold[1 .. n]
    <2>1. DOMAIN list = 1 .. n
      OBVIOUS
    <2> QED BY <2>1, Zenon DEF RemoveAssets, FoldLeft, MapThenFoldSet
  <1> HIDE DEF F
  <1>3. PICK g : GoesThrough(g, n, B, b, F)
    BY <1>1, LeftFoldExists
  <1>4. g = Body(g)
    <2>1. \A s \in SUBSET (1 .. n) : g[s] = IF s = {} THEN b ELSE RemoveAsset(g[s \ {Max(s)}], list[Max(s)])
      BY <1>1, <1>3 DEF GoesThrough
    <2>2. g = [s \in SUBSET (1 .. n) |-> g[s]]
      BY <1>3 DEF GoesThrough
    <2> QED BY <2>1, <2>2, Zenon
  <1>5. fold = Body(fold)
    BY <1>4, Zenon
  <1> HIDE DEF fold
  <1>6. \A s \in SUBSET (1 .. n) : fold[s] = IF s = {} THEN b ELSE RemoveAsset(fold[s \ {Max(s)}], list[Max(s)])
    BY <1>5, Zenon
  <1> HIDE DEF Body
  <1>7. \A k \in 1 .. n : fold[1 .. k] = RemoveAsset(fold[1 .. (k - 1)], list[k])
    BY <1>6, Intervals
  <1>8. Follows(fold, n, B, b, F)
    BY <1>1, <1>6, <1>7 DEF Follows
  <1>9. fold[1 .. n] \in B
    BY <1>1, <1>8, LeftFoldStays
  <1> QED BY <1>2, <1>9

\* of the dexes that are registered,
LEMMA RegisterDexesStay ==
  ASSUME NEW E, NEW B, NEW n \in Nat, NEW list \in [1 .. n -> E], NEW b \in B,
         \A m \in B, x \in E : RegisterDex(m, x) \in B
  PROVE  RegisterDexes(b, list) \in B
  <1> DEFINE F == [p \in B \X (1 .. n) |-> RegisterDex(p[1], list[p[2]])]
             Body(it) == [s \in SUBSET (1 .. n) |-> IF s = {} THEN b ELSE RegisterDex(it[s \ {Max(s)}], list[Max(s)])]
             fold == CHOOSE it : it = Body(it)
  <1>1. F \in Steps(B, 1 .. n) /\ \A m \in B, k \in 1 .. n : F[<<m, k>>] = RegisterDex(m, list[k])
    BY DEF Steps
  <1>2. RegisterDexes(b, list) = fold[1 .. n]
    <2>1. DOMAIN list = 1 .. n
      OBVIOUS
    <2> QED BY <2>1, Zenon DEF RegisterDexes, FoldLeft, MapThenFoldSet
  <1> HIDE DEF F
  <1>3. PICK g : GoesThrough(g, n, B, b, F)
    BY <1>1, LeftFoldExists
  <1>4. g = Body(g)
    <2>1. \A s \in SUBSET (1 .. n) : g[s] = IF s = {} THEN b ELSE RegisterDex(g[s \ {Max(s)}], list[Max(s)])
      BY <1>1, <1>3 DEF GoesThrough
    <2>2. g = [s \in SUBSET (1 .. n) |-> g[s]]
      BY <1>3 DEF GoesThrough
    <2> QED BY <2>1, <2>2, Zenon
  <1>5. fold = Body(fold)
    BY <1>4, Zenon
  <1> HIDE DEF fold
  <1>6. \A s \in SUBSET (1 .. n) : fold[s] = IF s = {} THEN b ELSE RegisterDex(fold[s \ {Max(s)}], list[Max(s)])
    BY <1>5, Zenon
  <1> HIDE DEF Body
  <1>7. \A k \in 1 .. n : fold[1 .. k] = RegisterDex(fold[1 .. (k - 1)], list[k])
    BY <1>6, Intervals
  <1>8. Follows(fold, n, B, b, F)
    BY <1>1, <1>6, <1>7 DEF Follows
  <1>9. fold[1 .. n] \in B
    BY <1>1, <1>8, LeftFoldStays
  <1> QED BY <1>2, <1>9

\* and of the pass over the list of dexes that leaves some out.
LEMMA DeregisterDexesStay ==
  ASSUME NEW E, NEW B, NEW n \in Nat, NEW list \in [1 .. n -> E], << >> \in B, NEW remove,
         \A m \in B, x \in E : Retain(m, x, ToSet(remove)) \in B
  PROVE  DeregisterDexes(list, remove) \in B
  <1> DEFINE F == [p \in B \X (1 .. n) |-> Retain(p[1], list[p[2]], ToSet(remove))]
             Body(it) == [s \in SUBSET (1 .. n) |-> IF s = {} THEN << >> ELSE Retain(it[s \ {Max(s)}], list[Max(s)], ToSet(remove))]
             fold == CHOOSE it : it = Body(it)
  <1>1. F \in Steps(B, 1 .. n) /\ \A m \in B, k \in 1 .. n : F[<<m, k>>] = Retain(m, list[k], ToSet(remove))
    BY DEF Steps
  <1>2. DeregisterDexes(list, remove) = fold[1 .. n]
    <2>1. DOMAIN list = 1 .. n
      OBVIOUS
    <2> QED BY <2>1, Zenon DEF DeregisterDexes, FoldLeft, MapThenFoldSet
  <1> HIDE DEF F
  <1>3. PICK g : GoesThrough(g, n, B, << >>, F)
    BY <1>1, LeftFoldExists
  <1>4. g = Body(g)
    <2>1. \A s \in SUBSET (1 .. n) : g[s] = IF s = {} THEN << >> ELSE Retain(g[s \ {Max(s)}], list[Max(s)], ToSet(remove))
      BY <1>1, <1>3 DEF GoesThrough
    <2>2. g = [s \in SUBSET (1 .. n) |-> g[s]]
      BY <1>3 DEF GoesThrough
    <2> QED BY <2>1, <2>2, Zenon
  <1>5. fold = Body(fold)
    BY <1>4, Zenon
  <1> HIDE DEF fold
  <1>6. \A s \in SUBSET (1 .. n) : fold[s] = IF s = {} THEN << >> ELSE Retain(fold[s \ {Max(s)}], list[Max(s)], ToSet(remove))
    BY <1>5, Zenon
  <1> HIDE DEF Body
  <1>7. \A k \in 1 .. n : fold[1 .. k] = Retain(fold[1 .. (k - 1)], list[k], ToSet(remove))
    BY <1>6, Intervals
  <1>8. Follows(fold, n, B, << >>, F)
    BY <1>1, <1>6, <1>7 DEF Follows
  <1>9. fold[1 .. n] \in B
    BY <1>1, <1>8, LeftFoldStays
  <1> QED BY <1>2, <1>9

-----------------------------------------------------------------------------
(* The name service: names *)

Lowered == {Lower[n] : n \in Name}

\* Maps from names to values of V, kept under the names in lower case.
Books(V) == {b \in [Name -> V \cup {Absent}] : \A n \in Name \ Lowered : b[n] = Absent}

\* The name and the asset were only ever given to each other.
Exclusive(G, n, i) == \A x \in G : x[1] = n <=> x[2] = i

\* The two maps of assets when G was given: both say only what was given, and agree
\* on what is exclusive.
Maps(G) ==
  {m \in [there : Books(Info), back : [Info -> Lowered \cup {Absent}]] :
     /\ \A n \in Name : m.there[n] # Absent => <<n, m.there[n]>> \in G
     /\ \A i \in Info : m.back[i] # Absent => <<m.back[i], i>> \in G
     /\ \A n \in Name, i \in Info : Exclusive(G, n, i) => (m.there[n] = i <=> m.back[i] = n)}

NamesInv ==
  /\ contracts \in Books(Place) /\ channels \in Books(Place)
  /\ given \subseteq Lowered \X Info
  /\ [there |-> assets, back |-> revAssets] \in Maps(given)
  /\ dexes \in Seq(Lowered)

\* Writing a name in lower case once is enough.
LEMMA LowerFacts ==
  /\ \A n \in Name : Lower[n] \in Name /\ Lower[n] \in Lowered /\ Lower[Lower[n]] = Lower[n]
  /\ Lowered \subseteq Name /\ Absent \notin Lowered /\ \A n \in Lowered : Lower[n] = n
  /\ AssetName \subseteq Name /\ DexName \subseteq Name /\ BookName \subseteq Name
  <1>1. \A n \in Name : Lower[n] \in Name /\ Lower[n] \in Lowered /\ Lower[Lower[n]] = Lower[n]
    BY AnsAssumption DEF Lowered
  <1> QED BY <1>1, AnsAssumption DEF Lowered

\* An entry is stored under its name in lower case.
LEMMA SetEntryType ==
  ASSUME NEW V, NEW b \in Books(V), NEW x \in BookName \X (V \cup {Absent})
  PROVE  SetEntry(b, x) \in Books(V)
  <1>1. x[1] \in Name /\ x[2] \in V \cup {Absent}
    BY LowerFacts
  <1>2. Lower[x[1]] \in Lowered /\ Lower[x[1]] \in Name
    BY <1>1, LowerFacts
  <1> QED BY <1>1, <1>2 DEF SetEntry, Books

\* The books of contracts and of channels.
LEMMA UpdatedType ==
  ASSUME NEW V, NEW b \in Books(V), NEW add \in ListOf(BookName \X V), NEW remove \in ListOf(BookName)
  PROVE  Updated(b, add, remove) \in Books(V)
  <1> DEFINE E == BookName \X (V \cup {Absent})
             gone == [k \in DOMAIN remove |-> <<remove[k], Absent>>]
  <1>1. PICK n \in 0 .. MaxList : add \in [1 .. n -> BookName \X V]
    BY DEF ListOf
  <1>2. PICK m \in 0 .. MaxList : remove \in [1 .. m -> BookName]
    BY DEF ListOf
  <1>3. n \in Nat /\ m \in Nat /\ n + m \in Nat
    BY AnsAssumption
  <1>4. add \in Seq(E) /\ Len(add) = n
    BY <1>1, <1>3
  <1>5. gone \in Seq(E) /\ Len(gone) = m
    BY <1>2, <1>3
  <1> HIDE DEF gone
  <1>6. add \o gone \in [1 .. (n + m) -> E]
    <2> HIDE DEF E
    <2>1. add \o gone \in Seq(E)
      BY <1>4, <1>5
    <2>2. Len(add \o gone) = n + m
      BY <1>4, <1>5
    <2> DEFINE q == add \o gone
    <2> HIDE DEF q
    <2>3. q \in Seq(E) /\ Len(q) = n + m
      BY <2>1, <2>2 DEF q
    <2>4. q \in [1 .. Len(q) -> E]
      BY <2>3
    <2> QED BY <2>3, <2>4 DEF q
  <1>7. \A c \in Books(V), x \in E : SetEntry(c, x) \in Books(V)
    BY SetEntryType
  <1> HIDE DEF E
  <1>8. SetEntries(b, add \o gone) \in Books(V)
    BY <1>3, <1>6, <1>7, SetEntriesStay
  <1> QED BY <1>8 DEF Updated, gone

\* What more is given asks less of the maps.
LEMMA MapsGrow ==
  ASSUME NEW G, NEW H, H \subseteq G
  PROVE  Maps(H) \subseteq Maps(G)
  BY DEF Maps, Exclusive

\* A name and an asset that were given to each other only find each other after one of
\* the additions that gave them,
LEMMA AddAssetKeeps ==
  ASSUME NEW G, NEW m \in Maps(G), NEW x \in AssetName \X Info, <<Lower[x[1]], x[2]>> \in G
  PROVE  AddAsset(m, x) \in Maps(G)
  <1> DEFINE l == Lower[x[1]]
             j == x[2]
             new == AddAsset(m, x)
  <1>1. l \in Name /\ l \in Lowered /\ j \in Info /\ Absent \notin Info /\ Absent \notin Name
    BY LowerFacts, AnsAssumption
  <1>2. m.there \in Books(Info) /\ m.back \in [Info -> Lowered \cup {Absent}]
    BY DEF Maps
  <1>3. new.there = [m.there EXCEPT ![l] = j] /\ new.back = [m.back EXCEPT ![j] = l]
    BY DEF AddAsset
  <1>4. new.there \in Books(Info) /\ new.back \in [Info -> Lowered \cup {Absent}]
    BY <1>1, <1>2, <1>3 DEF Books
  <1>5. new \in [there : Books(Info), back : [Info -> Lowered \cup {Absent}]]
    BY <1>4 DEF AddAsset
  <1> HIDE DEF l, j, new
  <1>6. ASSUME NEW n \in Name, new.there[n] # Absent PROVE <<n, new.there[n]>> \in G
    <2>1. CASE n = l
      BY <1>2, <1>3, <2>1 DEF Books, l, j
    <2>2. CASE n # l
      <3>1. new.there[n] = m.there[n]
        BY <1>2, <1>3, <2>2 DEF Books
      <3> QED BY <1>6, <3>1 DEF Maps
    <2> QED BY <2>1, <2>2
  <1>7. ASSUME NEW i \in Info, new.back[i] # Absent PROVE <<new.back[i], i>> \in G
    <2>1. CASE i = j
      BY <1>2, <1>3, <2>1 DEF l, j
    <2>2. CASE i # j
      <3>1. new.back[i] = m.back[i]
        BY <1>2, <1>3, <2>2
      <3> QED BY <1>7, <3>1 DEF Maps
    <2> QED BY <2>1, <2>2
  <1>8. ASSUME NEW n \in Name, NEW i \in Info, Exclusive(G, n, i)
        PROVE  new.there[n] = i <=> new.back[i] = n
    <2>1. l = n <=> j = i
      <3>1. <<l, j>> \in G
        BY DEF l, j
      <3> QED BY <1>8, <3>1 DEF Exclusive
    <2>2. CASE l = n
      BY <1>1, <1>2, <1>3, <2>1, <2>2 DEF Books
    <2>3. CASE l # n
      <3>1. new.there[n] = m.there[n] /\ new.back[i] = m.back[i]
        BY <1>1, <1>2, <1>3, <2>1, <2>3 DEF Books
      <3> QED BY <1>8, <3>1 DEF Maps
    <2> QED BY <2>2, <2>3
  <1>9. new \in Maps(G)
    BY <1>5, <1>6, <1>7, <1>8 DEF Maps
  <1> QED BY <1>9 DEF new

\* and after a removal, which finds the way back through the name.
LEMMA RemoveAssetKeeps ==
  ASSUME NEW G, NEW m \in Maps(G), NEW name \in AssetName
  PROVE  RemoveAsset(m, name) \in Maps(G)
  <1> DEFINE l == Lower[name]
             j == m.there[l]
             new == RemoveAsset(m, name)
  <1>1. CASE j = Absent
    BY <1>1 DEF RemoveAsset
  <1>2. CASE j # Absent
    <2>1. l \in Name /\ l \in Lowered /\ Absent \notin Info /\ Absent \notin Name
      BY LowerFacts, AnsAssumption
    <2>2. m.there \in Books(Info) /\ m.back \in [Info -> Lowered \cup {Absent}]
      BY DEF Maps
    <2>3. j \in Info /\ <<l, j>> \in G
      BY <1>2, <2>1, <2>2 DEF Books, Maps
    <2>4. new = [there |-> [m.there EXCEPT ![l] = Absent], back |-> [m.back EXCEPT ![j] = Absent]]
      BY <1>2 DEF RemoveAsset
    <2>5. new.there = [m.there EXCEPT ![l] = Absent] /\ new.back = [m.back EXCEPT ![j] = Absent]
      BY <2>4
    <2>6. new.there \in Books(Info) /\ new.back \in [Info -> Lowered \cup {Absent}]
      BY <2>1, <2>2, <2>5 DEF Books
    <2>7. new \in [there : Books(Info), back : [Info -> Lowered \cup {Absent}]]
      BY <2>4, <2>6
    <2> HIDE DEF l, j, new
    <2>8. ASSUME NEW n \in Name, new.there[n] # Absent PROVE <<n, new.there[n]>> \in G
      <3>1. new.there[n] = m.there[n]
        BY <2>2, <2>5, <2>8 DEF Books
      <3> QED BY <2>8, <3>1 DEF Maps
    <2>9. ASSUME NEW i \in Info, new.back[i] # Absent PROVE <<new.back[i], i>> \in G
      <3>1. new.back[i] = m.back[i]
        BY <2>2, <2>5, <2>9
      <3> QED BY <2>9, <3>1 DEF Maps
    <2>10. ASSUME NEW n \in Name, NEW i \in Info, Exclusive(G, n, i)
           PROVE  new.there[n] = i <=> new.back[i] = n
      <3>1. l = n <=> j = i
        BY <2>3, <2>10 DEF Exclusive
      <3>2. CASE l = n
        <4>1. new.there[n] = Absent /\ new.back[i] = Absent
          BY <2>1, <2>2, <2>3, <2>5, <3>1, <3>2 DEF Books
        <4> QED BY <2>1, <4>1
      <3>3. CASE l # n
        <4>1. new.there[n] = m.there[n] /\ new.back[i] = m.back[i]
          BY <2>1, <2>2, <2>3, <2>5, <3>1, <3>3 DEF Books
        <4> QED BY <2>10, <4>1 DEF Maps
      <3> QED BY <3>2, <3>3
    <2>11. new \in Maps(G)
      BY <2>7, <2>8, <2>9, <2>10 DEF Maps
    <2> QED BY <2>11 DEF new
  <1> QED BY <1>1, <1>2

\* update_asset_addresses keeps all that, for lists of any length.
LEMMA AssetsUpdated ==
  ASSUME NamesInv, NEW add \in ListOf(AssetName \X Info), NEW remove \in ListOf(AssetName),
         UpdateAssetAddresses(add, remove)
  PROVE  NamesInv'
  <1> DEFINE before == [there |-> assets, back |-> revAssets]
             middle == AddAssets(before, add)
             after == RemoveAssets(middle, remove)
             E == {x \in AssetName \X Info : <<Lower[x[1]], x[2]>> \in given'}
  <1>1. PICK n \in 0 .. MaxList : add \in [1 .. n -> AssetName \X Info]
    BY DEF ListOf
  <1>2. PICK m \in 0 .. MaxList : remove \in [1 .. m -> AssetName]
    BY DEF ListOf
  <1>3. n \in Nat /\ m \in Nat
    BY AnsAssumption
  <1>4. given' = given \cup {<<Lower[add[k][1]], add[k][2]>> : k \in DOMAIN add}
    BY DEF UpdateAssetAddresses
  <1>5. given' \subseteq Lowered \X Info /\ given \subseteq given'
    <2>1. \A k \in DOMAIN add : add[k][1] \in AssetName /\ add[k][2] \in Info
      BY <1>1
    <2>2. \A k \in DOMAIN add : Lower[add[k][1]] \in Lowered /\ add[k][2] \in Info
      BY <2>1, LowerFacts
    <2> QED BY <1>4, <2>2 DEF NamesInv
  <1>6. add \in [1 .. n -> E]
    BY <1>1, <1>4
  <1>7. before \in Maps(given')
    BY <1>5, MapsGrow DEF NamesInv
  <1>8. \A c \in Maps(given'), x \in E : AddAsset(c, x) \in Maps(given')
    BY AddAssetKeeps
  <1> HIDE DEF E, before
  <1>10. middle \in Maps(given')
    BY <1>3, <1>6, <1>7, <1>8, AddAssetsStay
  <1>11. \A c \in Maps(given'), x \in AssetName : RemoveAsset(c, x) \in Maps(given')
    BY RemoveAssetKeeps
  <1> HIDE DEF middle
  <1>13. after \in Maps(given')
    BY <1>2, <1>3, <1>10, <1>11, RemoveAssetsStay
  <1>14. assets' = after.there /\ revAssets' = after.back
    BY DEF UpdateAssetAddresses, before, middle
  <1> HIDE DEF after
  <1>15. [there |-> assets', back |-> revAssets'] = after
    BY <1>13, <1>14 DEF Maps
  <1> QED BY <1>5, <1>13, <1>15 DEF NamesInv, UpdateAssetAddresses, bookVars, poolVars

\* update_dex_registry stores names in lower case only.
LEMMA DexesUpdated ==
  ASSUME NamesInv, NEW add \in ListOf(DexName), NEW remove \in ListOf(DexName), UpdateDexes(add, remove)
  PROVE  NamesInv'
  <1> DEFINE more == RegisterDexes(dexes, add)
             B == Seq(Lowered)
  <1>1. PICK n \in 0 .. MaxList : add \in [1 .. n -> DexName]
    BY DEF ListOf
  <1>2. n \in Nat
    BY AnsAssumption
  <1>3. \A l \in B, d \in DexName : RegisterDex(l, d) \in B
    <2>1. \A d \in DexName : Lower[d] \in Lowered
      BY LowerFacts
    <2> QED BY <2>1 DEF RegisterDex
  <1>4. dexes \in B
    BY DEF NamesInv
  <1> HIDE DEF B
  <1>6. more \in B
    BY <1>1, <1>2, <1>3, <1>4, RegisterDexesStay
  <1> HIDE DEF more
  <1>7. Len(more) \in Nat /\ more \in [1 .. Len(more) -> Lowered]
    BY <1>6 DEF B
  <1>8. /\ \A l \in B, d \in Lowered : Retain(l, d, ToSet(remove)) \in B
        /\ << >> \in B
    BY DEF B, Retain
  <1>10. DeregisterDexes(more, remove) \in B
    BY <1>7, <1>8, DeregisterDexesStay
  <1>11. dexes' \in Seq(Lowered)
    BY <1>10 DEF UpdateDexes, more, B
  <1> QED BY <1>11 DEF NamesInv, UpdateDexes, bookVars, assetVars

\* The invariant of the names holds at first, is kept by every message, and so holds.
LEMMA NamesInit == AnsInit => NamesInv
  <1> SUFFICES ASSUME AnsInit PROVE NamesInv
    OBVIOUS
  <1>1. [there |-> assets, back |-> revAssets] \in Maps(given)
    <2> DEFINE m == [there |-> assets, back |-> revAssets]
    <2>1. assets \in Books(Info) /\ revAssets \in [Info -> Lowered \cup {Absent}] /\ given = {}
      BY DEF AnsInit, Books
    <2>2. m \in [there : Books(Info), back : [Info -> Lowered \cup {Absent}]] /\ m.there = assets /\ m.back = revAssets
      BY <2>1
    <2>3. \A n \in Name, i \in Info : assets[n] = Absent /\ revAssets[i] = Absent /\ n # Absent /\ i # Absent
      BY AnsAssumption DEF AnsInit
    <2> HIDE DEF m
    <2>4. m \in Maps(given)
      <3>1. \A n \in Name : m.there[n] = Absent
        BY <2>2 DEF AnsInit
      <3>2. \A i \in Info : m.back[i] = Absent
        BY <2>2 DEF AnsInit
      <3> QED BY <2>2, <2>3, <3>1, <3>2 DEF Maps
    <2> QED BY <2>4 DEF m
  <1>2. contracts \in Books(Place) /\ channels \in Books(Place)
    BY DEF AnsInit, Books
  <1> QED BY <1>1, <1>2 DEF AnsInit, NamesInv

LEMMA NamesNext == NamesInv /\ [AnsNext]_ansVars => NamesInv'
  <1> SUFFICES ASSUME NamesInv, [AnsNext]_ansVars PROVE NamesInv'
    OBVIOUS
  <1>1. ASSUME NEW add \in ListOf(BookName \X Place), NEW remove \in ListOf(BookName),
               UpdateContractAddresses(add, remove) \/ UpdateChannels(add, remove)
        PROVE  NamesInv'
    <2>1. CASE UpdateContractAddresses(add, remove)
      <3>1. contracts' \in Books(Place)
        BY <2>1, UpdatedType DEF UpdateContractAddresses, NamesInv
      <3> QED BY <2>1, <3>1 DEF NamesInv, UpdateContractAddresses, assetVars, poolVars
    <2>2. CASE UpdateChannels(add, remove)
      <3>1. channels' \in Books(Place)
        BY <2>2, UpdatedType DEF UpdateChannels, NamesInv
      <3> QED BY <2>2, <3>1 DEF NamesInv, UpdateChannels, assetVars, poolVars
    <2> QED BY <1>1, <2>1, <2>2
  <1>2. ASSUME NEW add \in ListOf(AssetName \X Info), NEW remove \in ListOf(AssetName),
               UpdateAssetAddresses(add, remove)
        PROVE  NamesInv'
    BY <1>2, AssetsUpdated
  <1>3. ASSUME NEW add \in ListOf(DexName), NEW remove \in ListOf(DexName), UpdateDexes(add, remove)
        PROVE  NamesInv'
    BY <1>3, DexesUpdated
  <1>4. ASSUME UNCHANGED <<bookVars, assetVars, dexes>> PROVE NamesInv'
    BY <1>4 DEF NamesInv, bookVars, assetVars
  <1>5. ASSUME NEW add \in ListOf(PoolInput), NEW remove \in ListOf(1 .. MaxPools), UpdatePools(add, remove)
        PROVE  NamesInv'
    BY <1>4, <1>5 DEF UpdatePools
  <1>6. ASSUME NEW limit \in 1 .. MAX_LIMIT + 1, ReadPage(limit) PROVE NamesInv'
    BY <1>4, <1>6 DEF ReadPage, poolVars
  <1>7. CASE ReadEnd \/ UNCHANGED ansVars
    BY <1>4, <1>7 DEF ReadEnd, poolVars, ansVars
  <1> QED BY <1>1, <1>2, <1>3, <1>5, <1>6, <1>7 DEF AnsNext

LEMMA NamesHold == AnsSpec => []NamesInv
  BY NamesInit, NamesNext, PTL DEF AnsSpec

-----------------------------------------------------------------------------
(* The name service: pools *)

Pools == [dex : Name, assets : Seq(Lowered)]

PoolsInv ==
  /\ nextPool \in 1 .. MaxPools + 1
  /\ DOMAIN metadata \subseteq 1 .. nextPool - 1
  /\ \A id \in DOMAIN metadata : metadata[id] \in Pools
  /\ pairings = UNION {Registered(metadata[id], id) : id \in DOMAIN metadata}

\* validate_pool_assets gives a pool names in lower case.
LEMMA FormattedType == ASSUME NEW pool \in PoolInput PROVE Formatted(pool) \in Pools
  <1>1. pool \in [dex : Name, assets : Seq(Name)]
    BY AnsAssumption
  <1> DEFINE list == [k \in DOMAIN pool.assets |-> Lower[pool.assets[k]]]
  <1>2. pool.assets \in Seq(Name) /\ pool.dex \in Name
    BY <1>1
  <1>3. \A k \in DOMAIN pool.assets : Lower[pool.assets[k]] \in Lowered
    BY <1>2, LowerFacts
  <1>4. list \in Seq(Lowered)
    BY <1>2, <1>3
  <1>5. Formatted(pool) = [pool EXCEPT !.assets = list]
    BY DEF Formatted
  <1> HIDE DEF list
  <1> QED BY <1>1, <1>2, <1>4, <1>5 DEF Pools

\* The entries of a pool carry its id, and the same are removed as were registered.
LEMMA RegisteredIs ==
  ASSUME NEW pool, NEW id
  PROVE  /\ Registered(pool, id) = {Pairing(pair, pool.dex, id) : pair \in PairsOf(pool)}
         /\ \A e \in Registered(pool, id) : e[4] = id
  BY DEF Registered, Pairing

\* update_pools keeps the entries those of the pools on file, also of pools that it adds
\* and removes at once; it takes nothing out behind the back of the reader.
LEMMA PoolsUpdated ==
  ASSUME PoolsInv, NEW add \in ListOf(PoolInput), NEW remove \in ListOf(1 .. MaxPools),
         UpdatePools(add, remove)
  PROVE  /\ PoolsInv'
         /\ lasting' \subseteq lasting /\ (lasting \subseteq DOMAIN metadata => lasting' \subseteq DOMAIN metadata')
  <1> DEFINE new == [id \in nextPool .. nextPool + Len(add) - 1 |-> Formatted(add[id - nextPool + 1])]
             all == [id \in DOMAIN metadata \cup DOMAIN new |->
                       IF id \in DOMAIN new THEN new[id] ELSE metadata[id]]
             gone == ToSet(remove) \cap DOMAIN all
  <1>1. PICK n \in 0 .. MaxList : add \in [1 .. n -> PoolInput]
    BY DEF ListOf
  <1>2. n \in Nat /\ Len(add) = n
    <2>1. n \in Nat
      BY AnsAssumption
    <2> QED BY <1>1, <2>1
  <1>3. nextPool \in Nat /\ nextPool >= 1 /\ MaxPools \in Nat /\ nextPool + n - 1 <= MaxPools /\ nextPool' = nextPool + n
    BY <1>2, AnsAssumption DEF PoolsInv, UpdatePools, NextPool
  <1>4. /\ metadata' = [id \in DOMAIN all \ gone |-> all[id]]
        /\ pairings' = (pairings \cup UNION {Registered(new[id], id) : id \in DOMAIN new})
                   \ UNION {{Pairing(pair, all[id].dex, id) : pair \in PairsOf(all[id])} : id \in gone}
        /\ lasting' = lasting \ gone
    BY DEF UpdatePools
  <1>5. DOMAIN new = nextPool .. nextPool + n - 1 /\ \A id \in DOMAIN new : new[id] \in Pools
    <2>1. \A id \in nextPool .. nextPool + n - 1 : id - nextPool + 1 \in 1 .. n
      BY <1>2, <1>3
    <2>2. \A id \in nextPool .. nextPool + n - 1 : Formatted(add[id - nextPool + 1]) \in Pools
      BY <1>1, <2>1, FormattedType
    <2> QED BY <1>2, <2>2
  <1>6. DOMAIN new \cap DOMAIN metadata = {}
    BY <1>2, <1>3, <1>5 DEF PoolsInv
  <1> HIDE DEF new
  <1>7. /\ DOMAIN all = DOMAIN metadata \cup DOMAIN new
        /\ \A id \in DOMAIN metadata : all[id] = metadata[id]
        /\ \A id \in DOMAIN new : all[id] = new[id]
    BY <1>6
  <1> HIDE DEF all
  <1>8. DOMAIN metadata' = DOMAIN all \ gone /\ \A id \in DOMAIN all \ gone : metadata'[id] = all[id]
    BY <1>4
  <1>9. nextPool' \in 1 .. MaxPools + 1 /\ DOMAIN metadata' \subseteq 1 .. nextPool' - 1
    BY <1>2, <1>3, <1>5, <1>7, <1>8 DEF PoolsInv
  <1>10. \A id \in DOMAIN metadata' : metadata'[id] \in Pools
    BY <1>5, <1>7, <1>8 DEF PoolsInv
  <1>11. \A e : e \in pairings' <=> \E id \in DOMAIN metadata' : e \in Registered(metadata'[id], id)
    <2> SUFFICES ASSUME NEW e
                 PROVE  e \in pairings' <=> \E id \in DOMAIN metadata' : e \in Registered(metadata'[id], id)
      OBVIOUS
    <2>1. e \in pairings \cup UNION {Registered(new[id], id) : id \in DOMAIN new}
            <=> \E id \in DOMAIN all : e \in Registered(all[id], id)
      <3>1. e \in pairings <=> \E id \in DOMAIN metadata : e \in Registered(all[id], id)
        BY <1>7 DEF PoolsInv
      <3>2. e \in UNION {Registered(new[id], id) : id \in DOMAIN new}
              <=> \E id \in DOMAIN new : e \in Registered(all[id], id)
        BY <1>7
      <3> QED BY <1>7, <3>1, <3>2
    <2>2. e \in UNION {{Pairing(pair, all[id].dex, id) : pair \in PairsOf(all[id])} : id \in gone}
            <=> \E id \in gone : e \in Registered(all[id], id)
      <3>1. \A id \in gone : Registered(all[id], id) = {Pairing(pair, all[id].dex, id) : pair \in PairsOf(all[id])}
        BY RegisteredIs
      <3>2. e \in UNION {{Pairing(pair, all[id].dex, id) : pair \in PairsOf(all[id])} : id \in gone}
              <=> \E id \in gone : e \in {Pairing(pair, all[id].dex, id) : pair \in PairsOf(all[id])}
        BY Zenon
      <3> QED BY <3>1, <3>2, Zenon
    <2>3. e \in pairings' <=> /\ \E id \in DOMAIN all : e \in Registered(all[id], id)
                              /\ ~ \E id \in gone : e \in Registered(all[id], id)
      BY <1>4, <2>1, <2>2
    <2>4. \A id \in DOMAIN all : e \in Registered(all[id], id) => e[4] = id
      BY RegisteredIs
    <2>5. gone \subseteq DOMAIN all
      OBVIOUS
    <2>6. e \in pairings' <=> \E id \in DOMAIN all \ gone : e \in Registered(all[id], id)
      <3> HIDE DEF gone
      <3> QED BY <2>3, <2>4, <2>5
    <2> QED BY <1>8, <2>6
  <1>12. pairings' = UNION {Registered(metadata'[id], id) : id \in DOMAIN metadata'}
    BY <1>11
  <1>13. PoolsInv'
    BY <1>9, <1>10, <1>12 DEF PoolsInv
  <1>14. lasting' \subseteq lasting /\ (lasting \subseteq DOMAIN metadata => lasting' \subseteq DOMAIN metadata')
    BY <1>4, <1>7, <1>8
  <1> QED BY <1>13, <1>14

\* The invariant of the pools holds at first, is kept by every message, and so holds.
LEMMA PoolsInit == AnsInit => PoolsInv
  BY AnsAssumption DEF AnsInit, PoolsInv

LEMMA PoolsNext == PoolsInv /\ [AnsNext]_ansVars => PoolsInv'
  <1> SUFFICES ASSUME PoolsInv, [AnsNext]_ansVars PROVE PoolsInv'
    OBVIOUS
  <1>1. ASSUME UNCHANGED <<pairings, metadata, nextPool>> PROVE PoolsInv'
    BY <1>1 DEF PoolsInv
  <1>2. ASSUME NEW add \in ListOf(PoolInput), NEW remove \in ListOf(1 .. MaxPools), UpdatePools(add, remove)
        PROVE  PoolsInv'
    BY <1>2, PoolsUpdated
  <1>3. ASSUME NEW add, NEW remove,
               \/ UpdateContractAddresses(add, remove) \/ UpdateChannels(add, remove)
               \/ UpdateAssetAddresses(add, remove) \/ UpdateDexes(add, remove)
        PROVE  UNCHANGED <<pairings, metadata, nextPool>>
    BY <1>3 DEF UpdateContractAddresses, UpdateChannels, UpdateAssetAddresses, UpdateDexes, poolVars
  <1>4. ASSUME NEW limit, ReadPage(limit) \/ ReadEnd \/ UNCHANGED ansVars
        PROVE  UNCHANGED <<pairings, metadata, nextPool>>
    BY <1>4 DEF ReadPage, ReadEnd, ansVars, poolVars
  <1> QED BY <1>1, <1>2, <1>3, <1>4 DEF AnsNext

LEMMA PoolsHold == AnsSpec => []PoolsInv
  BY PoolsInit, PoolsNext, PTL DEF AnsSpec

-----------------------------------------------------------------------------
(* The name service: pages *)

IsAscending(q, S) ==
  /\ q \in [1 .. Cardinality(S) -> S]
  /\ \A j, k \in 1 .. Cardinality(S) : j < k => q[j] < q[k]

\* A set of ids can be written down in ascending order.
LEMMA AscendingExists ==
  ASSUME NEW M \in Nat, NEW S \in SUBSET (1 .. M)
  PROVE  \E q : IsAscending(q, S)
  <1> DEFINE N == Cardinality(S)
             Sized(n) == {T \in SUBSET S : Cardinality(T) = n}
             P == {n \in 0 .. N : \A T \in Sized(n) : \E q : IsAscending(q, T)}
  <1>0. N \in Nat /\ \A T \in SUBSET S : IsFiniteSet(T) /\ T \subseteq Nat /\ \A k \in T : k <= M
    <2>1. IsFiniteSet(1 .. M)
      BY FS_Interval
    <2>2. IsFiniteSet(S)
      BY <2>1, FS_Subset
    <2>3. \A T \in SUBSET S : IsFiniteSet(T)
      BY <2>2, FS_Subset
    <2>4. N \in Nat
      BY <2>2, FS_CardinalityType
    <2> QED BY <2>3, <2>4
  <1> HIDE DEF N
  <1>1. 0 \in P
    <2> SUFFICES ASSUME NEW T \in Sized(0) PROVE \E q : IsAscending(q, T)
      BY <1>0
    <2>1. IsAscending([k \in 1 .. 0 |-> 0], T)
      BY DEF IsAscending
    <2> QED BY <2>1
  <1>2. ASSUME NEW n \in 1 .. N, n - 1 \in P PROVE n \in P
    <2> SUFFICES ASSUME NEW T \in Sized(n) PROVE \E q : IsAscending(q, T)
      BY <1>0
    <2>1. IsFiniteSet(T) /\ T \subseteq Nat /\ Cardinality(T) = n /\ n \in Nat /\ n # 0 /\ T \in SUBSET S
      BY <1>0
    <2>2. T # {}
      BY <2>1, FS_EmptySet
    <2>3. \A k \in T : k <= M
      BY <1>0, <2>1
    <2>4. PICK top \in T : \A k \in T : k <= top
      BY <2>1, <2>2, <2>3, Highest
    <2> DEFINE U == T \ {top}
    <2>5. Cardinality(U) = n - 1 /\ U \in SUBSET S
      BY <2>1, FS_RemoveElement
    <2>6. U \in Sized(n - 1)
      BY <2>5
    <2>7. PICK q : IsAscending(q, U)
      BY <1>2, <2>6
    <2> DEFINE r == [k \in 1 .. n |-> IF k = n THEN top ELSE q[k]]
    <2>8. \A k \in 1 .. n : k # n => k \in 1 .. (n - 1) /\ q[k] \in T /\ q[k] \in Nat /\ q[k] # top /\ q[k] <= top
      <3> SUFFICES ASSUME NEW k \in 1 .. n, k # n
                   PROVE  k \in 1 .. (n - 1) /\ q[k] \in T /\ q[k] \in Nat /\ q[k] # top /\ q[k] <= top
        OBVIOUS
      <3>1. k \in 1 .. (n - 1)
        BY <2>1
      <3>2. q[k] \in U
        BY <2>5, <2>7, <3>1 DEF IsAscending
      <3> QED BY <2>1, <2>4, <3>1, <3>2
    <2>9. r \in [1 .. n -> T]
      BY <2>8
    <2>10. ASSUME NEW j \in 1 .. n, NEW k \in 1 .. n, j < k PROVE r[j] < r[k]
      <3>1. j # n
        BY <2>1, <2>10
      <3>2. CASE k = n
        BY <2>1, <2>4, <2>8, <3>1, <3>2
      <3>3. CASE k # n
        BY <2>5, <2>7, <2>8, <2>10, <3>1, <3>3 DEF IsAscending
      <3> QED BY <3>2, <3>3
    <2> HIDE DEF r
    <2>11. IsAscending(r, T)
      BY <2>1, <2>9, <2>10 DEF IsAscending
    <2> QED BY <2>11
  <1>3. N \in P
    <2> HIDE DEF P
    <2> QED BY <1>0, <1>1, <1>2, Induction
  <1>4. S \in Sized(N)
    BY DEF N
  <1> QED BY <1>3, <1>4

\* Ascending(S) is all of S, in order.
LEMMA AscendingIs ==
  ASSUME NEW M \in Nat, NEW S \in SUBSET (1 .. M)
  PROVE  /\ IsAscending(Ascending(S), S)
         /\ \A s \in S : \E k \in 1 .. Cardinality(S) : Ascending(S)[k] = s
  <1> DEFINE N == Cardinality(S)
             q == Ascending(S)
  <1>1. PICK r : IsAscending(r, S)
    BY AscendingExists
  <1>2. r \in [1 .. N -> S] /\ \A j, k \in 1 .. N : j < k => r[j] < r[k]
    BY <1>1 DEF IsAscending
  <1>3. q \in [1 .. N -> S] /\ \A j, k \in 1 .. N : j < k => q[j] < q[k]
    BY <1>2, Zenon DEF Ascending
  <1>0. IsFiniteSet(S)
    <2>1. IsFiniteSet(1 .. M)
      BY FS_Interval
    <2> QED BY <2>1, FS_Subset
  <1>4. N \in Nat /\ IsFiniteSet(1 .. N) /\ Cardinality(1 .. N) = N
    <2>1. N \in Nat
      BY <1>0, FS_CardinalityType
    <2> HIDE DEF N
    <2>2. IsFiniteSet(1 .. N) /\ Cardinality(1 .. N) = N
      BY <2>1, FS_Interval
    <2> QED BY <2>1, <2>2
  <1> HIDE DEF q
  <1>5. q \in Injection(1 .. N, S)
    <2>1. \A j, k \in 1 .. N : q[j] = q[k] => j = k
      <3> SUFFICES ASSUME NEW j \in 1 .. N, NEW k \in 1 .. N, q[j] = q[k], j # k PROVE FALSE
        OBVIOUS
      <3> HIDE DEF N
      <3>1. j < k \/ k < j
        BY <1>4
      <3>2. q[j] < q[k] \/ q[k] < q[j]
        BY <1>3, <3>1
      <3>3. q[j] \in S /\ q[k] \in S
        BY <1>3
      <3>4. \A s \in S : s \in Nat
        OBVIOUS
      <3>5. q[j] \in Nat /\ q[k] \in Nat
        BY <3>3, <3>4
      <3> QED BY <3>2, <3>5
    <2> QED BY <1>3, <2>1 DEF Injection, IsInjective
  <1>6. q \in Surjection(1 .. N, S)
    <2>1. Cardinality(1 .. N) = Cardinality(S)
      BY <1>4
    <2> HIDE DEF N
    <2> QED BY <1>0, <1>5, <2>1, FS_Injection
  <1>7. \A s \in S : \E k \in 1 .. N : q[k] = s
    BY <1>6 DEF Surjection
  <1> QED BY <1>3, <1>7 DEF IsAscending, q

\* A page is the lowest ids after the cursor, and ends with the highest of them.
LEMMA PageIs ==
  ASSUME PoolsInv, NEW limit \in 1 .. MAX_LIMIT + 1, Page(limit) # << >>
  PROVE  /\ Page(limit) \in Seq(After) /\ Len(Page(limit)) \in Nat \ {0}
         /\ \A j, k \in DOMAIN Page(limit) : j < k => Page(limit)[j] < Page(limit)[k]
         /\ \A id \in After : id <= Page(limit)[Len(Page(limit))] =>
              \E k \in DOMAIN Page(limit) : Page(limit)[k] = id
  <1> DEFINE M == nextPool - 1
             N == Cardinality(After)
             q == Ascending(After)
             most == Limited(limit)
             c == IF most < Len(q) THEN most ELSE Len(q)
             page == SubSeq(q, 1, c)
  <1>1. M \in Nat /\ After \in SUBSET (1 .. M)
    BY AnsAssumption DEF PoolsInv, After
  <1>2. /\ IsAscending(q, After)
        /\ \A id \in After : \E k \in 1 .. N : q[k] = id
    <2> HIDE DEF M
    <2> QED BY <1>1, AscendingIs
  <1>3. N \in Nat
    <2>1. IsFiniteSet(1 .. M)
      <3> HIDE DEF M
      <3> QED BY <1>1, FS_Interval
    <2>2. IsFiniteSet(After)
      BY <1>1, <2>1, FS_Subset
    <2> QED BY <2>2, FS_CardinalityType
  <1>4. q \in [1 .. N -> After] /\ \A j, k \in 1 .. N : j < k => q[j] < q[k]
    BY <1>2 DEF IsAscending
  <1>5. most \in Nat /\ Page(limit) = page
    <2>1. most \in Nat
      BY AnsAssumption DEF Limited
    <2> QED BY <2>1 DEF Page
  <1> HIDE DEF N, q, most, M
  <1>6. q \in Seq(After) /\ Len(q) = N
    BY <1>3, <1>4
  <1>7. c \in Nat /\ c <= N
    BY <1>3, <1>5, <1>6
  <1> HIDE DEF c
  <1>8. page \in Seq(After) /\ Len(page) = c /\ DOMAIN page = 1 .. c /\ \A k \in 1 .. c : page[k] = q[k]
    <2>1. page \in Seq(After)
      BY <1>6, <1>7
    <2>2. Len(page) = c
      BY <1>6, <1>7
    <2>3. \A k \in 1 .. c : page[k] = q[k]
      BY <1>6, <1>7
    <2> HIDE DEF page
    <2> QED BY <2>1, <2>2, <2>3
  <1> HIDE DEF page
  <1>9. c # 0
    BY <1>5, <1>8
  <1>10. \A j, k \in 1 .. c : j < k => page[j] < page[k]
    BY <1>3, <1>4, <1>7, <1>8
  <1>11. ASSUME NEW id \in After, id <= page[c] PROVE \E k \in 1 .. c : page[k] = id
    <2>1. PICK k \in 1 .. N : q[k] = id
      BY <1>2
    <2>2. c \in 1 .. N /\ page[c] = q[c]
      BY <1>3, <1>7, <1>8, <1>9
    <2>3. id \in Nat /\ q[c] \in Nat
      <3>1. \A s \in After : s \in Nat
        BY <1>1
      <3>2. q[c] \in After
        BY <1>4, <2>2
      <3> QED BY <3>1, <3>2
    <2>4. ~(c < k)
      BY <1>4, <1>11, <2>1, <2>2, <2>3
    <2>5. k \in 1 .. c
      BY <1>3, <1>7, <2>4
    <2> QED BY <1>8, <2>1, <2>5
  <1>12. Len(page) \in Nat \ {0}
    BY <1>7, <1>8, <1>9
  <1> QED BY <1>5, <1>8, <1>10, <1>11, <1>12

\* What a reader that is in the middle of the list has seen.
ReaderInv ==
  /\ lasting \subseteq DOMAIN metadata
  /\ cursor \in Nat \cup {Absent}
  /\ seen \in Seq(Nat)
  /\ \A k, l \in DOMAIN seen : k < l => seen[k] < seen[l]
  /\ cursor # Absent =>
       /\ \A k \in DOMAIN seen : seen[k] <= cursor
       /\ \A id \in lasting : id <= cursor => \E k \in DOMAIN seen : seen[k] = id

\* A page goes on where the last one ended, and leaves out nothing on the way.
LEMMA PageRead ==
  ASSUME PoolsInv, ReaderInv, NEW limit \in 1 .. MAX_LIMIT + 1, ReadPage(limit)
  PROVE  ReaderInv'
  <1> DEFINE page == Page(limit)
             n == Len(page)
             old == IF cursor = Absent THEN << >> ELSE seen
             m == Len(old)
  <1>1. /\ page # << >> /\ cursor' = page[n] /\ seen' = old \o page
        /\ lasting' = IF cursor = Absent THEN DOMAIN metadata ELSE lasting
        /\ metadata' = metadata
    BY DEF ReadPage, poolVars
  <1>2. /\ page \in Seq(After) /\ n \in Nat \ {0}
        /\ \A j, k \in DOMAIN page : j < k => page[j] < page[k]
        /\ \A id \in After : id <= page[n] => \E k \in DOMAIN page : page[k] = id
    BY <1>1, PageIs
  <1>3. Absent \notin Nat /\ After \subseteq Nat
    BY AnsAssumption DEF PoolsInv, After
  <1>4. old \in Seq(Nat) /\ m \in Nat /\ \A j, k \in DOMAIN old : j < k => old[j] < old[k]
    BY DEF ReaderInv
  <1>5. \A j \in DOMAIN old : cursor \in Nat /\ old[j] <= cursor
    BY <1>3 DEF ReaderInv
  <1>6. \A id \in After : cursor = Absent \/ (cursor \in Nat /\ id > cursor)
    BY DEF After, ReaderInv
  <1> HIDE DEF page, old
  <1>7. /\ DOMAIN page = 1 .. n /\ DOMAIN old = 1 .. m
        /\ \A k \in 1 .. n : page[k] \in After /\ page[k] \in Nat
        /\ \A k \in 1 .. m : old[k] \in Nat
    <2>1. DOMAIN page = 1 .. n /\ DOMAIN old = 1 .. m /\ \A k \in 1 .. m : old[k] \in Nat
      BY <1>2, <1>4
    <2>2. \A k \in 1 .. n : page[k] \in After
      BY <1>2
    <2>3. \A s \in After : s \in Nat
      BY <1>3
    <2> QED BY <2>1, <2>2, <2>3
  <1>8. /\ old \o page \in Seq(Nat) /\ DOMAIN (old \o page) = 1 .. (m + n)
        /\ \A k \in 1 .. m : (old \o page)[k] = old[k]
        /\ \A k \in (m + 1) .. (m + n) : (old \o page)[k] = page[k - m] /\ k - m \in 1 .. n
    <2>1. page \in Seq(Nat)
      BY <1>2, <1>7
    <2>2. old \o page \in Seq(Nat) /\ Len(old \o page) = m + n
      BY <1>4, <2>1
    <2>3. DOMAIN (old \o page) = 1 .. (m + n)
      BY <2>2
    <2>4. \A k \in 1 .. m : (old \o page)[k] = old[k]
      BY <1>2, <1>4, <2>1
    <2>5. \A k \in (m + 1) .. (m + n) : (old \o page)[k] = page[k - m] /\ k - m \in 1 .. n
      BY <1>2, <1>4, <2>1
    <2> QED BY <2>2, <2>3, <2>4, <2>5
  <1>9. \A j \in 1 .. m, k \in 1 .. n : old[j] < page[k]
    <2> SUFFICES ASSUME NEW j \in 1 .. m, NEW k \in 1 .. n PROVE old[j] < page[k]
      OBVIOUS
    <2>1. cursor \in Nat /\ old[j] <= cursor /\ old[j] \in Nat /\ page[k] \in Nat
      BY <1>5, <1>7
    <2>2. page[k] > cursor
      BY <1>3, <1>6, <1>7, <2>1
    <2> QED BY <2>1, <2>2
  <1> DEFINE all == old \o page
  <1> HIDE DEF all, n, m
  <1>10. /\ all \in Seq(Nat) /\ DOMAIN all = 1 .. (m + n) /\ m \in Nat /\ n \in Nat \ {0}
         /\ \A k \in 1 .. m : all[k] = old[k]
         /\ \A k \in (m + 1) .. (m + n) : all[k] = page[k - m] /\ k - m \in 1 .. n
    BY <1>2, <1>4, <1>8 DEF all
  <1>11. ASSUME NEW j \in DOMAIN all, NEW k \in DOMAIN all, j < k PROVE all[j] < all[k]
    <2>1. CASE k \in 1 .. m
      <3>1. j \in 1 .. m
        BY <1>10, <1>11, <2>1
      <3> QED BY <1>4, <1>7, <1>10, <1>11, <2>1, <3>1
    <2>2. CASE k \in (m + 1) .. (m + n) /\ j \in 1 .. m
      BY <1>9, <1>10, <2>2
    <2>3. CASE k \in (m + 1) .. (m + n) /\ j \in (m + 1) .. (m + n)
      <3>1. j - m \in 1 .. n /\ k - m \in 1 .. n /\ j - m < k - m
        BY <1>10, <1>11, <2>3
      <3> QED BY <1>2, <1>7, <1>10, <2>3, <3>1
    <2> QED BY <1>10, <2>1, <2>2, <2>3
  <1>12. \A k \in DOMAIN all : all[k] <= page[n]
    <2>1. n \in 1 .. n /\ m + n \in DOMAIN all /\ all[m + n] = page[n]
      BY <1>10
    <2> SUFFICES ASSUME NEW k \in DOMAIN all PROVE all[k] <= page[n]
      OBVIOUS
    <2>2. all[k] \in Nat /\ page[n] \in Nat
      BY <1>7, <1>10, <2>1
    <2>3. k = m + n \/ k < m + n
      BY <1>10
    <2> QED BY <1>11, <2>1, <2>2, <2>3
  <1>13. ASSUME NEW id \in lasting', id <= page[n] PROVE \E k \in DOMAIN all : all[k] = id
    <2>1. id \in DOMAIN metadata
      BY <1>1 DEF ReaderInv
    <2>2. CASE id \in After
      <3>1. PICK k \in 1 .. n : page[k] = id
        BY <1>2, <1>7, <1>13, <2>2
      <3>2. k + m \in (m + 1) .. (m + n) /\ (k + m) - m = k
        BY <1>10
      <3>3. all[k + m] = id /\ k + m \in DOMAIN all
        BY <1>10, <3>1, <3>2
      <3> QED BY <3>3
    <2>3. CASE id \notin After
      <3>1. cursor # Absent /\ cursor \in Nat /\ id \in Nat /\ ~(id > cursor)
        BY <1>3, <2>1, <2>3, AnsAssumption DEF After, ReaderInv, PoolsInv
      <3>2. id \in lasting /\ id <= cursor /\ old = seen
        BY <1>1, <1>13, <3>1 DEF old
      <3>3. PICK k \in DOMAIN old : old[k] = id
        BY <3>1, <3>2 DEF ReaderInv
      <3>4. k \in DOMAIN all /\ all[k] = id
        BY <1>7, <1>10, <3>3
      <3> QED BY <3>4
    <2> QED BY <2>2, <2>3
  <1>14. cursor' = page[n] /\ seen' = all /\ cursor' \in Nat
    <2>1. n \in 1 .. n
      BY <1>10
    <2> QED BY <1>1, <1>7, <2>1 DEF all, n
  <1>15. lasting' \subseteq DOMAIN metadata'
    BY <1>1 DEF ReaderInv
  <1> QED BY <1>10, <1>11, <1>12, <1>13, <1>14, <1>15 DEF ReaderInv

\* The invariant of the reader holds at first and is kept, given that of the pools.
LEMMA ReaderInit == AnsInit => ReaderInv
  BY DEF AnsInit, ReaderInv

LEMMA ReaderNext == PoolsInv /\ ReaderInv /\ [AnsNext]_ansVars => ReaderInv'
  <1> SUFFICES ASSUME PoolsInv, ReaderInv, [AnsNext]_ansVars PROVE ReaderInv'
    OBVIOUS
  <1>1. ASSUME UNCHANGED <<readerVars, metadata>> PROVE ReaderInv'
    BY <1>1 DEF ReaderInv, readerVars
  <1>2. ASSUME NEW add \in ListOf(PoolInput), NEW remove \in ListOf(1 .. MaxPools), UpdatePools(add, remove)
        PROVE  ReaderInv'
    <2>1. lasting' \subseteq lasting /\ lasting' \subseteq DOMAIN metadata'
      BY <1>2, PoolsUpdated DEF ReaderInv
    <2>2. UNCHANGED <<cursor, seen>>
      BY <1>2 DEF UpdatePools
    <2> QED BY <2>1, <2>2 DEF ReaderInv
  <1>3. ASSUME NEW add, NEW remove,
               \/ UpdateContractAddresses(add, remove) \/ UpdateChannels(add, remove)
               \/ UpdateAssetAddresses(add, remove) \/ UpdateDexes(add, remove)
        PROVE  UNCHANGED <<readerVars, metadata>>
    BY <1>3 DEF UpdateContractAddresses, UpdateChannels, UpdateAssetAddresses, UpdateDexes, poolVars
  <1>4. ASSUME NEW limit \in 1 .. MAX_LIMIT + 1, ReadPage(limit) PROVE ReaderInv'
    BY <1>4, PageRead
  <1>5. CASE ReadEnd
    BY <1>5 DEF ReadEnd, poolVars, ReaderInv
  <1>6. CASE UNCHANGED ansVars
    BY <1>1, <1>6 DEF ansVars, poolVars
  <1> QED BY <1>1, <1>2, <1>3, <1>4, <1>5, <1>6 DEF AnsNext

-----------------------------------------------------------------------------
\* Every item of the name service has its type and every name is stored in lower case,
\* however the names of a message are written and whatever lists it brings
\* (update_asset_addresses, update_contract_addresses, update_channels,
\* update_dex_registry, update_pools).
THEOREM AnsTypeCorrect == AnsSpec => []AnsTypeOK
  <1>1. NamesInv /\ PoolsInv => AnsTypeOK
    <2> SUFFICES ASSUME NamesInv, PoolsInv PROVE AnsTypeOK
      OBVIOUS
    <2>1. assets \in Books(Info) /\ revAssets \in [Info -> Lowered \cup {Absent}]
      BY DEF NamesInv, Maps
    <2> QED BY <2>1 DEF NamesInv, PoolsInv, AnsTypeOK, Books, Pools, Lowered
  <1> QED BY <1>1, NamesHold, PoolsHold, PTL

\* The entry of a key is the pools on file that trade its assets on its dex.
LEMMA EntriesAre ==
  ASSUME PoolsInv, NEW x \in Name, NEW y \in Name, NEW dex \in Name
  PROVE  PoolEntries(x, y, dex) = Trading(x, y, dex)
  <1>1. ASSUME NEW id
        PROVE  id \in PoolEntries(x, y, dex) <=>
                 id \in DOMAIN metadata /\ <<x, y, dex, id>> \in Registered(metadata[id], id)
    <2>1. id \in PoolEntries(x, y, dex) <=> \E e \in pairings : e[4] = id /\ e[1] = x /\ e[2] = y /\ e[3] = dex
      BY DEF PoolEntries
    <2>2. \A e : e \in pairings <=> \E i \in DOMAIN metadata : e \in Registered(metadata[i], i)
      BY DEF PoolsInv
    <2>3. \A i \in DOMAIN metadata : \A e \in Registered(metadata[i], i) :
            e = <<e[1], e[2], e[3], e[4]>> /\ e[4] = i
      BY DEF Registered
    <2> QED BY <2>1, <2>2, <2>3
  <1>2. ASSUME NEW id \in DOMAIN metadata
        PROVE  <<x, y, dex, id>> \in Registered(metadata[id], id) <=>
                 /\ x # y /\ {x, y} \subseteq ToSet(metadata[id].assets)
                 /\ Lower[metadata[id].dex] = dex
    <2>1. <<x, y, dex, id>> \in Registered(metadata[id], id) <=>
            <<x, y>> \in PairsOf(metadata[id]) /\ Lower[metadata[id].dex] = dex
      <3>1. \A pair \in PairsOf(metadata[id]) : pair = <<pair[1], pair[2]>>
        BY DEF PairsOf
      <3> QED BY <3>1 DEF Registered
    <2>2. <<x, y>> \in PairsOf(metadata[id]) <=>
            x # y /\ \E k, l \in DOMAIN metadata[id].assets : metadata[id].assets[k] = x /\ metadata[id].assets[l] = y
      BY DEF PairsOf
    <2>3. {x, y} \subseteq ToSet(metadata[id].assets) <=>
            \E k, l \in DOMAIN metadata[id].assets : metadata[id].assets[k] = x /\ metadata[id].assets[l] = y
      BY DEF ToSet
    <2> QED BY <2>1, <2>2, <2>3
  <1> QED BY <1>1, <1>2 DEF Trading

\* The keys are those of entries that are not empty.
LEMMA KeysAre ==
  ASSUME PoolsInv
  PROVE  /\ PairingKeys \subseteq Name \X Name \X Name
         /\ \A x, y, dex \in Name : <<x, y, dex>> \in PairingKeys <=> PoolEntries(x, y, dex) # {}
         /\ \A key \in PairingKeys : \E id \in DOMAIN metadata : key[3] = Lower[metadata[id].dex]
  <1>1. ASSUME NEW e \in pairings
        PROVE  /\ e[1] \in Name /\ e[2] \in Name /\ e[3] \in Name
               /\ \E id \in DOMAIN metadata : e[3] = Lower[metadata[id].dex]
    <2>1. PICK id \in DOMAIN metadata : e \in Registered(metadata[id], id)
      BY DEF PoolsInv
    <2>2. metadata[id].dex \in Name /\ metadata[id].assets \in Seq(Lowered) /\ Lowered \subseteq Name
      BY LowerFacts DEF PoolsInv, Pools
    <2>3. PICK pair \in PairsOf(metadata[id]) : e = <<pair[1], pair[2], Lower[metadata[id].dex], id>>
      BY <2>1 DEF Registered
    <2>4. pair[1] \in Name /\ pair[2] \in Name
      BY <2>2 DEF PairsOf
    <2> QED BY <2>2, <2>3, <2>4, LowerFacts
  <1>2. PairingKeys \subseteq Name \X Name \X Name
    BY <1>1 DEF PairingKeys
  <1>3. \A x, y, dex \in Name : <<x, y, dex>> \in PairingKeys <=> PoolEntries(x, y, dex) # {}
    BY DEF PairingKeys, PoolEntries
  <1>4. \A key \in PairingKeys : \E id \in DOMAIN metadata : key[3] = Lower[metadata[id].dex]
    BY <1>1 DEF PairingKeys
  <1> QED BY <1>2, <1>3, <1>4

\* Two assets have finitely many entries.
LEMMA PairAfterFinite ==
  ASSUME PoolsInv, NEW x, NEW y, NEW start
  PROVE  IsFiniteSet(PairAfter(x, y, start))
  <1> DEFINE f == [id \in DOMAIN metadata |-> <<x, y, Lower[metadata[id].dex]>>]
             T == {f[id] : id \in DOMAIN metadata}
  <1>1. IsFiniteSet(DOMAIN metadata)
    <2>1. nextPool - 1 \in Nat
      BY AnsAssumption DEF PoolsInv
    <2>2. IsFiniteSet(1 .. nextPool - 1)
      BY <2>1, FS_Interval
    <2> QED BY <2>2, FS_Subset DEF PoolsInv
  <1>2. f \in Surjection(DOMAIN metadata, T)
    BY DEF Surjection
  <1>3. IsFiniteSet(T)
    <2> HIDE DEF f, T
    <2> QED BY <1>1, <1>2, FS_Surjection
  <1>4. PairAfter(x, y, start) \in SUBSET T
    <2> SUFFICES ASSUME NEW k \in PairAfter(x, y, start) PROVE k \in T
      OBVIOUS
    <2>1. k \in PairingKeys /\ k[1] = x /\ k[2] = y
      BY DEF PairAfter
    <2>2. k = <<k[1], k[2], k[3]>>
      BY <2>1 DEF PairingKeys
    <2>3. PICK id \in DOMAIN metadata : k[3] = Lower[metadata[id].dex]
      BY <2>1, KeysAre
    <2> QED BY <2>1, <2>2, <2>3
  <1> QED BY <1>3, <1>4, FS_Subset

\* The first entries of a finite set of keys come before the others, and there are some.
LEMMA FirstKeys ==
  ASSUME NEW S \in SUBSET (Name \X Name \X Name), IsFiniteSet(S), NEW n \in Nat \ {0}
  PROVE  LET page == {k \in S : Cardinality({l \in S : KeyRank[l] < KeyRank[k]}) < n} IN
         /\ \A k \in page, l \in S \ page : KeyRank[k] < KeyRank[l]
         /\ S # {} => page # {}
  <1> DEFINE Before(k) == {l \in S : KeyRank[l] < KeyRank[k]}
             page == {k \in S : Cardinality(Before(k)) < n}
  <1>1. \A k \in S : KeyRank[k] \in Nat
    BY AnsAssumption
  <1>2. \A k \in S : IsFiniteSet(Before(k)) /\ Cardinality(Before(k)) \in Nat
    BY FS_Subset, FS_CardinalityType
  <1>3. ASSUME NEW k \in page, NEW l \in S \ page PROVE KeyRank[k] < KeyRank[l]
    <2>1. CASE KeyRank[l] <= KeyRank[k]
      <3>1. Before(l) \in SUBSET Before(k)
        BY <1>1, <2>1
      <3>2. Cardinality(Before(l)) <= Cardinality(Before(k))
        <4> HIDE DEF Before
        <4> QED BY <1>2, <3>1, FS_Subset
      <3> HIDE DEF Before
      <3> QED BY <1>2, <3>2
    <2> QED BY <1>1, <2>1
  <1>4. ASSUME S # {} PROVE page # {}
    <2> DEFINE R == {KeyRank[k] : k \in S}
    <2>1. R # {} /\ R \subseteq Nat
      BY <1>1, <1>4
    <2>2. PICK low \in R : \A v \in R : low <= v
      <3> HIDE DEF R
      <3> QED BY <2>1, Lowest
    <2>3. PICK k \in S : KeyRank[k] = low
      OBVIOUS
    <2>4. Before(k) = {}
      BY <1>1, <2>2, <2>3
    <2>5. Cardinality(Before(k)) = 0
      BY <2>4, FS_EmptySet
    <2> HIDE DEF Before
    <2> QED BY <2>3, <2>5
  <1> QED BY <1>3, <1>4

\* Every query for pools gives exactly those there are (update_pools,
\* register_pool_pairings, remove_pool_pairings), and a page of the dexes of two assets
\* begins with the first of them: the entries are at all times those of the pools on file.
THEOREM PairingsAlwaysMatch == AnsSpec => []PairingsMatchPools
  <1>1. ASSUME PoolsInv, NEW x \in Name, NEW y \in Name, NEW dex \in Name
        PROVE  /\ PoolEntries(x, y, dex) = Trading(x, y, dex)
               /\ ListPoolEntries(x, y, dex) = Trading(x, y, Lower[dex])
               /\ \A d \in {dex, Absent} :
                    <<x, y, dex>> \in ListEntries(d, Absent) <=> Trading(x, y, dex) # {}
    <2>1. PoolEntries(x, y, dex) = Trading(x, y, dex)
      BY <1>1, EntriesAre
    <2>2. ListPoolEntries(x, y, dex) = Trading(x, y, Lower[dex])
      BY <1>1, EntriesAre, LowerFacts DEF ListPoolEntries
    <2>3. \A d \in {dex, Absent} : <<x, y, dex>> \in ListEntries(d, Absent) <=> <<x, y, dex>> \in PairingKeys
      BY DEF ListEntries
    <2>4. <<x, y, dex>> \in PairingKeys <=> PoolEntries(x, y, dex) # {}
      BY <1>1, KeysAre
    <2> QED BY <2>1, <2>2, <2>3, <2>4
  <1>2. ASSUME PoolsInv, NEW key \in PairingKeys, NEW start, NEW limit \in 1 .. MAX_LIMIT + 1
        PROVE  LET after == PairAfter(key[1], key[2], start)
                   page == PairPage(key[1], key[2], start, limit)
               IN
               /\ \A k \in page, l \in after \ page : KeyRank[k] < KeyRank[l]
               /\ after # {} => page # {}
    <2> DEFINE after == PairAfter(key[1], key[2], start)
    <2>1. Limited(limit) \in Nat \ {0}
      BY AnsAssumption DEF Limited
    <2>2. IsFiniteSet(after)
      BY <1>2, PairAfterFinite
    <2>3. after \in SUBSET (Name \X Name \X Name)
      BY <1>2, KeysAre DEF PairAfter
    <2>4. PairPage(key[1], key[2], start, limit)
            = {k \in after : Cardinality({l \in after : KeyRank[l] < KeyRank[k]}) < Limited(limit)}
      BY DEF PairPage
    <2> HIDE DEF after
    <2>5. LET page == {k \in after : Cardinality({l \in after : KeyRank[l] < KeyRank[k]}) < Limited(limit)} IN
          /\ \A k \in page, l \in after \ page : KeyRank[k] < KeyRank[l]
          /\ after # {} => page # {}
      BY <2>1, <2>2, <2>3, FirstKeys
    <2> QED BY <2>4, <2>5 DEF after
  <1>3. PoolsInv => PairingsMatchPools
    BY <1>1, <1>2 DEF PairingsMatchPools
  <1> QED BY <1>3, PoolsHold, PTL

\* A name and an asset that have only ever been given to each other find each other,
\* after any messages and in any order of their entries (update_asset_addresses).
THEOREM NamesAlwaysFindBack == AnsSpec => []NamesFindBack
  <1>1. NamesInv => NamesFindBack
    <2> SUFFICES ASSUME NamesInv, NEW n \in Name, NEW i \in Info, Lower[n] = n,
                        \A x \in given : x[1] = n <=> x[2] = i
                 PROVE  QueryAssets(n) = i <=> QueryAssetInfos(i) = n
      BY DEF NamesFindBack
    <2> DEFINE m == [there |-> assets, back |-> revAssets]
    <2>1. m \in Maps(given) /\ m.there = assets /\ m.back = revAssets
      BY DEF NamesInv
    <2>2. Exclusive(given, n, i)
      BY DEF Exclusive
    <2> HIDE DEF m
    <2>3. m.there[n] = i <=> m.back[i] = n
      BY <2>1, <2>2 DEF Maps
    <2> QED BY <2>1, <2>3 DEF QueryAssets, QueryAssetInfos
  <1> QED BY <1>1, NamesHold, PTL

\* A reader is shown no pool twice, and every pool that was there all the while, whatever
\* the owner adds and removes between two pages (list_pool_metadata_entries).
THEOREM PagingNeverMisses == AnsSpec => []PagingMissesNothing
  <1>1. ReaderInv => PagingMissesNothing
    <2>1. \A id : (\E k \in DOMAIN seen : seen[k] = id) <=> id \in ToSet(seen)
      BY DEF ToSet
    <2> QED BY <2>1 DEF ReaderInv, PagingMissesNothing
  <1> QED BY <1>1, ReaderInit, ReaderNext, PoolsHold, PTL DEF AnsSpec
=============================================================================
