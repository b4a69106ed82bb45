------------------------------ MODULE Registry ------------------------------
(***************************************************************************)
(* The Abstract registry contract                                          *)
(* (framework/contracts/native/registry): the module library with its      *)
(* approval queue and its yanked shelf, the namespaces and the accounts    *)
(* that hold them, and the map from account ids to account contracts.      *)
(*                                                                         *)
(* One action is one execute message, with the whole of its handler.  The  *)
(* messages that take a list (propose, approve, reject, forgo) are         *)
(* modelled with one element: a list is the same steps one after another,  *)
(* committed together.  A failed message changes nothing, so an error path *)
(* is the negation of a guard.                                             *)
(***************************************************************************)
EXTENDS Integers, FiniteSets

CONSTANTS
  User,          \* externally owned addresses that send messages
  Addr,          \* addresses of account contracts
  MaxSeq,        \* bound: local account ids that follow the sequence are 0..MaxSeq
  PredictableId, \* local ids >= 2147483648, chosen by the creator
  RemoteId,      \* ids with a remote trace, created by the ibc host
  Namespace,
  Abstract,      \* the "abstract" namespace
  Module,        \* module infos: [namespace, name, version]
  CodeId, Contract,
  Proposable,    \* <<module, ref>> pairs that pass the checks made on every proposal
  DataValid,     \* those whose deployed contract also reports that name and version
  AccountModule, \* info under which the account code is registered
  AccountRef,    \* the reference of that code
  IbcHostModule, \* info of the ibc host, and the host itself
  IbcHostRef,
  InitialAdmin,  \* the admin named at instantiation
  NewAdmin,      \* bound: addresses the admin role is offered to
  FeeSetting,    \* bound: namespace fee switched off / on
  PartInput,     \* bound: parts of a versioned configuration that are set
  None           \* an absent map entry

LocalId == 0 .. MaxSeq
AccountId == LocalId \cup PredictableId \cup RemoteId
ABSTRACT_ACCOUNT_ID == 0

Ref == [kind : {"account", "app", "standalone"}, at : CodeId]
         \cup [kind : {"native", "adapter", "service"}, at : Contract]

Sender == User \cup Addr

\* The parts of a module's configuration that its owner may set.
ConfigPart == {"metadata", "monetization", "instantiation_funds"}

ModuleName == {<<m.namespace, m.name>> : m \in Module}

\* Module infos are records over the declared namespaces.
ASSUME ModuleAssumption ==
  /\ Module \subseteq [namespace : Namespace, name : STRING, version : Nat]
  /\ Proposable \subseteq Module \X Ref
  /\ AccountModule \in Module

\* Sequenced ids are an initial segment; the other ids are not integers of it.
ASSUME IdAssumption ==
  /\ MaxSeq \in Nat
  /\ LocalId \cap (PredictableId \cup RemoteId) = {}
  /\ PredictableId \cap RemoteId = {}

ASSUME NamespaceAssumption == Abstract \in Namespace

ASSUME BoundAssumption ==
  /\ InitialAdmin \in User
  /\ NewAdmin \subseteq Sender
  /\ FeeSetting \subseteq BOOLEAN
  /\ PartInput \subseteq ConfigPart

\* An absent entry is not a value.
ASSUME NoneAssumption ==
  /\ None \notin Ref /\ None \notin Module /\ None \notin Namespace
  /\ None \notin AccountId /\ None \notin Addr /\ None \notin User

VARIABLES
  pending, registered, yanked,  \* PENDING_, REGISTERED_, YANKED_MODULES
  standaloneInfos,              \* STANDALONE_INFOS: code id -> module
  serviceInfos,                 \* SERVICE_INFOS: address -> module
  moduleConfig,                 \* MODULE_CONFIG: the parts set; no entry reads as the default, {}
  defaultConfig,                \* MODULE_DEFAULT_CONFIG: names that have one
  namespaces, revNamespaces,    \* NAMESPACES, REV_NAMESPACES
  addresses, sequence,          \* ACCOUNT_ADDRESSES, LOCAL_ACCOUNT_SEQUENCE
  security, fee,                \* CONFIG
  admin, pendingAdmin,          \* cw_ownable's owner of the contract
  owner,                        \* external: owner address of each account contract
  direct                        \* history: security was off in some state so far

moduleVars == <<pending, registered, yanked, standaloneInfos, serviceInfos>>
configVars == <<moduleConfig, defaultConfig>>
namespaceVars == <<namespaces, revNamespaces>>
accountVars == <<addresses, sequence, owner>>
settingVars == <<security, fee, direct>>
adminVars == <<admin, pendingAdmin>>
vars == <<moduleVars, configVars, namespaceVars, accountVars, settingVars, adminVars>>

-----------------------------------------------------------------------------
(* Helpers *)

Put(f, k, v) == [f EXCEPT ![k] = v]
Del(f, k) == [f EXCEPT ![k] = None]

IsAdmin(s) == s = admin

\* The account contract that holds namespace n, or None.
HolderOf(n) == IF namespaces[n] = None THEN None ELSE addresses[namespaces[n]]

\* validate_account_owner: the holding account itself or that account's owner.
IsNamespaceOwner(s, n) ==
  /\ HolderOf(n) # None
  /\ s = HolderOf(n) \/ s = owner[HolderOf(n)]

\* Only the admin manages abstract modules.
MayEditModulesOf(s, n) ==
  IF n = Abstract THEN IsAdmin(s) ELSE IsNamespaceOwner(s, n)

\* Modules of one name that are registered in the library reg.
RegisteredVersions(reg, n) ==
  {m \in Module : <<m.namespace, m.name>> = n /\ reg[m] # None}

-----------------------------------------------------------------------------
Init ==
  /\ pending = [m \in Module |-> None]
  /\ registered = [m \in Module |-> None]
  /\ yanked = [m \in Module |-> None]
  /\ standaloneInfos = [c \in CodeId |-> None]
  /\ serviceInfos = [c \in Contract |-> None]
  /\ moduleConfig = [m \in Module |-> {}]
  /\ defaultConfig = {}
  /\ namespaces = [n \in Namespace |-> IF n = Abstract THEN ABSTRACT_ACCOUNT_ID ELSE None]
  /\ revNamespaces = [i \in AccountId |-> IF i = ABSTRACT_ACCOUNT_ID THEN Abstract ELSE None]
  /\ addresses = [i \in AccountId |-> None]
  /\ sequence = 0
  /\ security \in BOOLEAN
  /\ fee \in FeeSetting
  /\ admin = InitialAdmin
  /\ pendingAdmin = None
  /\ owner = [a \in Addr |-> None]
  /\ direct = ~security

-----------------------------------------------------------------------------
(* Namespaces *)

\* claim_namespace_internal: one namespace per account, the fee goes to account 0
\* (so that account must exist), the namespace must be free.
ClaimNamespaceInternal(id, n, paid, addrs) ==
  /\ revNamespaces[id] = None
  /\ fee => paid /\ addrs[ABSTRACT_ACCOUNT_ID] # None
  /\ namespaces[n] = None
  /\ namespaces' = Put(namespaces, n, id)
  /\ revNamespaces' = Put(revNamespaces, id, n)

\* The admin claims for any id while security is on; otherwise the account's owner.
ClaimNamespace(s, id, n, paid) ==
  /\ IF security
       THEN IsAdmin(s)
       ELSE addresses[id] # None /\ s = owner[addresses[id]]
  /\ ClaimNamespaceInternal(id, n, paid, addresses)
  /\ UNCHANGED <<moduleVars, configVars, accountVars, settingVars, adminVars>>

\* Registered modules of a released namespace move to the yanked shelf.
YankNamespace(n) ==
  /\ yanked' = [m \in Module |->
       IF m.namespace = n /\ registered[m] # None THEN registered[m] ELSE yanked[m]]
  /\ registered' = [m \in Module |-> IF m.namespace = n THEN None ELSE registered[m]]
  /\ UNCHANGED <<pending, standaloneInfos, serviceInfos>>

\* Mutant: the reverse entry is left behind.
ReleaseNamespaceKeepsReverse(n) ==
  /\ namespaces[n] # None
  /\ YankNamespace(n)
  /\ UNCHANGED revNamespaces
  /\ namespaces' = Del(namespaces, n)

\* forgo_namespace after its permission checks.
ReleaseNamespace(n) ==
  /\ namespaces[n] # None
  /\ YankNamespace(n)
  /\ revNamespaces' = Del(revNamespaces, namespaces[n])
  /\ namespaces' = Del(namespaces, n)

ForgoNamespace(s, n) ==
  /\ IsAdmin(s) \/ IsNamespaceOwner(s, n)
  /\ ReleaseNamespace(n)
  /\ UNCHANGED <<configVars, accountVars, settingVars, adminVars>>

-----------------------------------------------------------------------------
(* Accounts *)

IdIsFree(id) == addresses[id] = None

\* Mutant: every new account advances the sequence.
NextSequenceAlways(id) == sequence + 1
\* LOCAL_ACCOUNT_SEQUENCE after account id was added.
NextSequence(id) == IF id \in LocalId THEN sequence + 1 ELSE sequence

\* add_account, sent by a new account contract a while it is instantiated for
\* owner u: its code must be the registered account code, its id must be free,
\* a sequenced id must be the next one, a remote id must come from the ibc host.
AddAccount(a, id, u, n, paid, creator) ==
  /\ \A i \in AccountId : addresses[i] # a
  /\ IdIsFree(id)
  /\ registered[AccountModule] = AccountRef
  /\ id \in LocalId => id = sequence
  /\ id \in RemoteId => /\ registered[IbcHostModule] = IbcHostRef
                        /\ creator = IbcHostRef.at
  /\ sequence' = NextSequence(id)
  /\ addresses' = Put(addresses, id, a)
  /\ owner' = Put(owner, a, u)
  /\ IF n = None
       THEN UNCHANGED namespaceVars
       ELSE ClaimNamespaceInternal(id, n, paid, addresses')
  /\ UNCHANGED <<moduleVars, configVars, settingVars, adminVars>>

\* External: the account's own ownership protocol hands it to another address.
AccountOwnerChanged(a, u) ==
  /\ owner[a] # None
  /\ owner' = Put(owner, a, u)
  /\ UNCHANGED <<moduleVars, configVars, namespaceVars, addresses, sequence,
                 settingVars, adminVars>>

\* An account without sub-accounts is renounced: it forgoes its namespace in the
\* same transaction, calling the registry as the account.
RenounceAccount(id) ==
  LET a == addresses[id] IN
  /\ a # None
  /\ owner[a] # None
  /\ owner' = Put(owner, a, None)
  /\ IF revNamespaces[id] # None
       THEN ReleaseNamespace(revNamespaces[id])
       ELSE UNCHANGED <<moduleVars, namespaceVars>>
  /\ UNCHANGED <<configVars, addresses, sequence, settingVars, adminVars>>

-----------------------------------------------------------------------------
(* Modules *)

\* Mutants: a yanked, or a waiting, module info may be proposed again.
InLibraryForgetsYanked(m) == pending[m] # None \/ registered[m] # None
InLibraryForgetsPending(m) == registered[m] # None \/ yanked[m] # None

\* propose_modules' store_has_module
InLibrary(m) == pending[m] # None \/ registered[m] # None \/ yanked[m] # None

SaveStandaloneInfo(m, r) ==
  standaloneInfos' = IF r.kind = "standalone" THEN Put(standaloneInfos, r.at, m)
                                              ELSE standaloneInfos

SaveServiceInfo(m, r) ==
  serviceInfos' = IF r.kind = "service" THEN Put(serviceInfos, r.at, m)
                                        ELSE serviceInfos

\* propose_modules with security on: a new info waits for approval.
ProposeForApproval(s, m, r) ==
  /\ security
  /\ ~InLibrary(m)
  /\ <<m, r>> \in Proposable
  /\ MayEditModulesOf(s, m.namespace)
  /\ pending' = Put(pending, m, r)
  /\ UNCHANGED <<registered, yanked, standaloneInfos, serviceInfos>>
  /\ UNCHANGED <<configVars, namespaceVars, accountVars, settingVars, adminVars>>

\* propose_modules with security off: registered at once, over any older entry.
RegisterDirectly(s, m, r) ==
  /\ ~security
  /\ <<m, r>> \in Proposable
  /\ MayEditModulesOf(s, m.namespace)
  /\ <<m, r>> \in DataValid
  /\ registered' = Put(registered, m, r)
  /\ SaveStandaloneInfo(m, r)
  /\ SaveServiceInfo(m, r)
  /\ UNCHANGED <<pending, yanked>>
  /\ UNCHANGED <<configVars, namespaceVars, accountVars, settingVars, adminVars>>

ApproveModule(s, m) ==
  /\ IsAdmin(s)
  /\ pending[m] # None
  /\ registered' = Put(registered, m, pending[m])
  /\ pending' = Del(pending, m)
  /\ SaveStandaloneInfo(m, pending[m])
  /\ UNCHANGED <<yanked, serviceInfos>>
  /\ UNCHANGED <<configVars, namespaceVars, accountVars, settingVars, adminVars>>

RejectModule(s, m) ==
  /\ IsAdmin(s)
  /\ pending[m] # None
  /\ pending' = Del(pending, m)
  /\ UNCHANGED <<registered, yanked, standaloneInfos, serviceInfos>>
  /\ UNCHANGED <<configVars, namespaceVars, accountVars, settingVars, adminVars>>

DropConfig(m) == moduleConfig' = Put(moduleConfig, m, {})

\* Mutant: looks for remaining versions before the module is removed.
DropDefaultConfigEarly(name) ==
  defaultConfig' = IF RegisteredVersions(registered, name) = {}
                     THEN defaultConfig \ {name} ELSE defaultConfig
\* The default configuration goes with the last registered version.
DropDefaultConfig(name) ==
  defaultConfig' = IF RegisteredVersions(registered', name) = {}
                     THEN defaultConfig \ {name} ELSE defaultConfig

RemoveModule(s, m) ==
  /\ IsAdmin(s)
  /\ registered[m] # None \/ yanked[m] # None
  /\ registered' = Del(registered, m)
  /\ yanked' = Del(yanked, m)
  /\ DropConfig(m)
  /\ DropDefaultConfig(<<m.namespace, m.name>>)
  /\ standaloneInfos' =
       IF registered[m] # None /\ registered[m].kind = "standalone"
         THEN Del(standaloneInfos, registered[m].at)
         ELSE standaloneInfos
  /\ UNCHANGED <<pending, serviceInfos>>
  /\ UNCHANGED <<namespaceVars, accountVars, settingVars, adminVars>>

YankModule(s, m) ==
  /\ IsNamespaceOwner(s, m.namespace)
  /\ registered[m] # None
  /\ yanked' = Put(yanked, m, registered[m])
  /\ registered' = Del(registered, m)
  /\ UNCHANGED <<pending, standaloneInfos, serviceInfos>>
  /\ UNCHANGED <<configVars, namespaceVars, accountVars, settingVars, adminVars>>

\* update_module_config, UpdateModule::Default
UpdateDefaultConfig(s, name) ==
  /\ MayEditModulesOf(s, name[1])
  /\ RegisteredVersions(registered, name) # {}
  /\ defaultConfig' = defaultConfig \cup {name}
  /\ UNCHANGED moduleConfig
  /\ UNCHANGED <<moduleVars, namespaceVars, accountVars, settingVars, adminVars>>

\* update_module_config, UpdateModule::Versioned: only instantiated modules take funds.
UpdateVersionedConfig(s, m, part) ==
  /\ MayEditModulesOf(s, m.namespace)
  /\ registered[m] # None
  /\ part = "instantiation_funds" => registered[m].kind \in {"app", "standalone"}
  /\ moduleConfig' = Put(moduleConfig, m, moduleConfig[m] \cup {part})
  /\ UNCHANGED defaultConfig
  /\ UNCHANGED <<moduleVars, namespaceVars, accountVars, settingVars, adminVars>>

-----------------------------------------------------------------------------
(* Settings and the contract's owner *)

UpdateConfig(s, sec, f) ==
  /\ IsAdmin(s)
  /\ security' = sec
  /\ fee' = f
  /\ direct' = (direct \/ ~sec)
  /\ UNCHANGED <<moduleVars, configVars, namespaceVars, accountVars, adminVars>>

\* cw_ownable's update_ownership.  Letting a transfer expire is not accepting it.
TransferOwnership(s, new) ==
  /\ IsAdmin(s)
  /\ pendingAdmin' = new
  /\ UNCHANGED admin
  /\ UNCHANGED <<moduleVars, configVars, namespaceVars, accountVars, settingVars>>

AcceptOwnership(s) ==
  /\ pendingAdmin = s
  /\ admin' = s
  /\ pendingAdmin' = None
  /\ UNCHANGED <<moduleVars, configVars, namespaceVars, accountVars, settingVars>>

RenounceOwnership(s) ==
  /\ IsAdmin(s)
  /\ admin' = None
  /\ pendingAdmin' = None
  /\ UNCHANGED <<moduleVars, configVars, namespaceVars, accountVars, settingVars>>

-----------------------------------------------------------------------------
NextNamespace ==
  \/ \E s \in Sender, id \in AccountId, n \in Namespace, paid \in BOOLEAN :
       ClaimNamespace(s, id, n, paid)
  \/ \E s \in Sender, n \in Namespace : ForgoNamespace(s, n)

NextAccount ==
  \/ \E a \in Addr, id \in AccountId, u \in User, n \in Namespace \cup {None},
        paid \in BOOLEAN, creator \in User \cup Contract :
       AddAccount(a, id, u, n, paid, creator)
  \/ \E a \in Addr, u \in User : AccountOwnerChanged(a, u)
  \/ \E id \in AccountId : RenounceAccount(id)

NextModule ==
  \/ \E s \in Sender, p \in Proposable :
       ProposeForApproval(s, p[1], p[2]) \/ RegisterDirectly(s, p[1], p[2])
  \/ \E s \in Sender, m \in Module :
       \/ ApproveModule(s, m)
       \/ RejectModule(s, m)
       \/ RemoveModule(s, m)
       \/ YankModule(s, m)
       \/ \E part \in PartInput : UpdateVersionedConfig(s, m, part)
  \/ \E s \in Sender, name \in ModuleName : UpdateDefaultConfig(s, name)

NextAdmin ==
  \/ \E s \in Sender, sec \in BOOLEAN, f \in FeeSetting : UpdateConfig(s, sec, f)
  \/ \E s \in Sender, new \in NewAdmin : TransferOwnership(s, new)
  \/ \E s \in Sender : AcceptOwnership(s) \/ RenounceOwnership(s)

Next == NextNamespace \/ NextAccount \/ NextModule \/ NextAdmin

Spec == Init /\ [][Next]_vars

-----------------------------------------------------------------------------
(* Properties *)

\* Every map entry and setting has the type the contract declares for it.
TypeOK ==
  /\ pending \in [Module -> Ref \cup {None}]
  /\ registered \in [Module -> Ref \cup {None}]
  /\ yanked \in [Module -> Ref \cup {None}]
  /\ standaloneInfos \in [CodeId -> Module \cup {None}]
  /\ serviceInfos \in [Contract -> Module \cup {None}]
  /\ moduleConfig \in [Module -> SUBSET ConfigPart]
  /\ defaultConfig \in SUBSET ModuleName
  /\ namespaces \in [Namespace -> AccountId \cup {None}]
  /\ revNamespaces \in [AccountId -> Namespace \cup {None}]
  /\ addresses \in [AccountId -> Addr \cup {None}]
  /\ sequence \in 0 .. MaxSeq + 1
  /\ owner \in [Addr -> User \cup {None}]
  /\ admin \in Sender \cup {None} /\ pendingAdmin \in Sender \cup {None}
  /\ security \in BOOLEAN /\ fee \in BOOLEAN /\ direct \in BOOLEAN

\* NAMESPACES and REV_NAMESPACES are inverse to each other after any sequence of
\* claims, releases, renounced accounts and account registrations.
NamespacesInverse ==
  \A n \in Namespace, i \in AccountId : namespaces[n] = i <=> revNamespaces[i] = n

\* The sequenced account ids in use are exactly those below the sequence, whatever
\* predictable and remote ids are registered in between: no id is skipped or taken
\* twice.
SequenceDense == \A i \in LocalId : addresses[i] # None <=> i < sequence

\* As long as security was never switched off, a module info is in at most one of
\* the pending, registered and yanked maps.
ExclusiveStatus ==
  ~direct => \A m \in Module :
    /\ pending[m] # None => registered[m] = None /\ yanked[m] = None
    /\ registered[m] # None => yanked[m] = None

\* A versioned configuration belongs to a registered or a yanked module, and a default
\* configuration to a name with a version that is not removed: a module proposed again
\* after its removal starts without either.
ConfigBacked ==
  /\ \A m \in Module : moduleConfig[m] # {} => registered[m] # None \/ yanked[m] # None
  /\ \A name \in defaultConfig : \E m \in Module :
       <<m.namespace, m.name>> = name /\ (registered[m] # None \/ yanked[m] # None)

\* An account id, once registered, denotes the same contract forever.
AccountsPermanent ==
  [][\A i \in AccountId : addresses[i] # None => addresses'[i] = addresses[i]]_vars

\* "This data can not be changed": while security has always been on, a reference
\* stored for a module info in any of the three maps is only ever moved or deleted,
\* never replaced by another one.
StoredRef(m) == {pending[m], registered[m], yanked[m]} \ {None}
ReferenceNeverSwapped ==
  [][~direct' => \A m \in Module :
       StoredRef(m) # {} => StoredRef(m)' = {} \/ StoredRef(m)' = StoredRef(m)]_vars

\* A step that releases a namespace leaves none of its modules installable.
ForgoUnregisters ==
  [][\A n \in Namespace : namespaces[n] # None /\ namespaces'[n] = None =>
       \A m \in Module : m.namespace = n => registered'[m] = None]_vars

\* Module factory: "this namespace is claimed because modules gets unregistered when
\* namespace is unclaimed".  Stated for the namespaces the admin does not manage.
RegisteredNamespaceClaimed ==
  \A m \in Module : registered[m] # None /\ m.namespace # Abstract =>
    namespaces[m.namespace] # None
=============================================================================
