--------------------------- MODULE AccountModules ---------------------------
(***************************************************************************)
(* The modules of one Abstract account (framework/contracts/account:       *)
(* modules.rs, modules/migration.rs, versioning.rs, reply.rs, config.rs):  *)
(* which modules are installed and where, which of them may execute        *)
(* through the account, and which modules each module is needed by.        *)
(*                                                                         *)
(* One action is one execute message together with the sub-messages and    *)
(* the reply it ends with: they commit or revert together.  The temporary  *)
(* items INSTALL_MODULES_CONTEXT, MIGRATE_CONTEXT and CALLING_TO_AS_ADMIN  *)
(* live inside one such transaction, so they are values of it and not      *)
(* variables.  A reverted transaction changes nothing, so every error path *)
(* is the negation of a guard.                                             *)
(***************************************************************************)
EXTENDS Integers, Sequences, FiniteSets

CONSTANTS
  Id,            \* module ids, the account's own id included
  Version,       \* version numbers, in the order of semver
  Release,       \* those without a prerelease tag
  Info,          \* published versions: records [id, version]
  Kind,          \* kind of reference each of them is registered with
  Reports,       \* version that the code of each of them writes in its own storage
  HasCw2,        \* those whose contract has a cw2 record, and
  HasData,       \* those whose contract has a MODULE record (dependencies) as well
  Deps,          \* dependencies in that record: [id, req], req the versions admitted
  TextRank,      \* place of a version's text in the registry's key order
  Bump,          \* <<from, to>> pairs assert_contract_upgrade accepts
  Account,       \* id of the account contract itself
  IbcClient,     \* id of the one native contract that can be installed
  Sender, NestedOwner,
  WHITELIST_SIZE_LIMIT,
  InstallInput,  \* bound: lists of versions given to InstallModules
  UpgradeInput,  \* bound: lists of [to, latest] given to Upgrade
  AddressEdit,   \* bound: [id, to] entries given to UpdateModuleAddresses
  WhitelistEdit, \* bound: [add, remove] given to UpdateWhitelist
  Changing,      \* bound: versions that the registry yanks or registers
  None

\* An adapter, native or service has one address; an app or standalone gets
\* the instantiate2 address of its code for this account.  Either way the
\* version that was first put there names the address.
Addr == Info

Dependency == [id : Id, req : SUBSET Version]

ASSUME VersionAssumption ==
  /\ Version \subseteq Nat /\ Release \subseteq Version
  /\ Bump \subseteq {p \in Version \X Version : p[1] < p[2]}
  /\ TextRank \in [Version -> Nat]

ASSUME InfoAssumption ==
  /\ Info \subseteq [id : Id, version : Version]
  /\ Kind \in [Info -> {"account", "native", "adapter", "app", "standalone", "service"}]
  /\ Reports \in [Info -> Version]
  /\ HasData \subseteq HasCw2 /\ HasCw2 \subseteq Info
  /\ Deps \in [Info -> SUBSET Dependency]
  /\ Account \in Id

ASSUME InputAssumption ==
  /\ NestedOwner \subseteq Sender
  /\ InstallInput \subseteq Seq(Info)
  /\ UpgradeInput \subseteq Seq([to : Info, latest : BOOLEAN])
  /\ AddressEdit \subseteq [id : Id, to : Addr \cup {None}]
  /\ WhitelistEdit \subseteq [add : SUBSET Addr, remove : SUBSET Addr]
  /\ Changing \subseteq Info
  /\ WHITELIST_SIZE_LIMIT \in Nat
  /\ None \notin Info

VARIABLES
  modules,     \* ACCOUNT_MODULES: id -> address
  dependents,  \* DEPENDENTS: id -> ids of the modules that depend on it; no entry reads as {}
  whitelist,   \* WHITELISTED_MODULES
  suspended,   \* SUSPENSION_STATUS
  version,     \* the account's own cw2 version
  code,        \* chain: the version whose code runs at each address
  registered,  \* registry: the versions in REGISTERED_MODULES
  manual,      \* history: the owner has edited the configuration by hand
  doubled      \* history: allowlisted by a list that named the module again later

vars == <<modules, dependents, whitelist, suspended, version, code, registered, manual, doubled>>

-----------------------------------------------------------------------------
(* Helpers *)

BatchSet(batch) == {batch[k] : k \in DOMAIN batch}

InCode(i) == Kind[i] \in {"app", "standalone"}

should_be_whitelisted(i) ==
  Kind[i] \in {"adapter", "app"} \/ (Kind[i] = "native" /\ i.id = IbcClient)

\* The dependencies recorded at an address that runs c; a contract without the
\* record has none (assert_install_requirements_standalone).
DepsOf(c) == IF c \in HasData THEN Deps[c] ELSE {}

DependsOn(c, d) == \E dep \in DepsOf(c) : dep.id = d

\* assert_dependency_requirements, in a state with these addresses and codes.
RequirementsMet(mods, codes, deps) ==
  \A dep \in deps :
    /\ mods[dep.id] # None
    /\ codes[mods[dep.id]] \in HasCw2
    /\ Reports[codes[mods[dep.id]]] \in dep.req

\* assert_module_data_validity
DataValid(i) ==
  /\ i \in HasCw2 => Reports[i] = i.version
  /\ Kind[i] \in {"app", "adapter", "native"} => i \in HasCw2
  /\ Kind[i] \in {"app", "adapter"} => i \in HasData

\* _update_whitelisted_modules: the length expected from the two lists must be
\* within the limit, and must be the length that results.
CanUpdateWhitelist(add, remove) ==
  LET new_len == Cardinality(whitelist) + Cardinality(add) - Cardinality(remove) IN
  /\ new_len \in 0 .. WHITELIST_SIZE_LIMIT
  /\ add \cap whitelist = {}
  /\ Cardinality((whitelist \cup add) \ remove) = new_len

UpdateWhitelisted(add, remove) ==
  /\ CanUpdateWhitelist(add, remove)
  /\ whitelist' = (whitelist \cup add) \ remove

-----------------------------------------------------------------------------
Init ==
  /\ modules = [m \in Id |-> None]
  /\ dependents = [m \in Id |-> {}]
  /\ whitelist = {}
  /\ suspended = FALSE
  /\ version \in {i.version : i \in {j \in Info : j.id = Account}}
  /\ code = [a \in Addr |-> IF InCode(a) \/ Kind[a] = "account" THEN None ELSE a]
  /\ registered = Info
  /\ manual = FALSE
  /\ doubled = {}

-----------------------------------------------------------------------------
(* Installing *)

\* The factory installs apps, standalones, adapters, services and the ibc client.
Installable(i) ==
  Kind[i] \in {"app", "standalone", "adapter", "service"}
    \/ (Kind[i] = "native" /\ i.id = IbcClient)

\* Checks on one module of the list, made against the state before the message.
CanInstall(i) ==
  /\ i \in registered
  /\ modules[i.id] = None
  /\ Installable(i)
  /\ InCode(i) => code[i] = None
  /\ DataValid(i)

\* Naming one version twice fails when its address is whitelisted or created
\* the second time; only a service survives it.
NoRepeat(batch) ==
  \A j, k \in DOMAIN batch : j # k /\ batch[j] = batch[k] => Kind[batch[j]] = "service"

\* Addresses are saved in the order of the list: the last one of an id stays.
IsLastOf(batch, k, m) ==
  batch[k].id = m /\ \A j \in DOMAIN batch : batch[j].id = m => j <= k

AddModules(mods, batch) ==
  [m \in Id |-> IF \E k \in DOMAIN batch : IsLastOf(batch, k, m)
                THEN batch[CHOOSE k \in DOMAIN batch : IsLastOf(batch, k, m)] ELSE mods[m]]

Instantiate(codes, new) == [a \in Addr |-> IF a \in new /\ InCode(a) THEN a ELSE codes[a]]

\* set_as_dependent for every module of new, its dependencies read at its address.
SetAsDependent(new, codes, mods) ==
  [d \in Id |-> dependents[d] \cup
     {i.id : i \in {j \in new : Kind[j] \in {"app", "adapter", "standalone"}
                                /\ DependsOn(codes[mods[j.id]], d)}}]

\* register_dependencies: every new module finds its dependencies installed.
RegisterDependencies(new, codes, mods) ==
  /\ \A i \in new :
       Kind[i] \in {"app", "adapter", "standalone"}
         => RequirementsMet(mods, codes, DepsOf(codes[mods[i.id]]))
  /\ dependents' = SetAsDependent(new, codes, mods)

InstallModules(s, batch) ==
  LET new == BatchSet(batch) IN
  /\ s \in NestedOwner /\ ~suspended
  /\ \A i \in new : CanInstall(i)
  /\ NoRepeat(batch)
  /\ UpdateWhitelisted({i \in new : should_be_whitelisted(i)}, {})
  /\ modules' = AddModules(modules, batch)
  /\ code' = Instantiate(code, new)
  /\ RegisterDependencies(new, code', modules')
  /\ doubled' = doubled \cup {i \in new : should_be_whitelisted(i) /\ modules'[i.id] # i}
  /\ UNCHANGED <<suspended, version, registered, manual>>

-----------------------------------------------------------------------------
(* Uninstalling *)

HasNoDependents(m) == dependents[m] = {}

Kept_RemoveAsDependent(m, c) == dependents
RemoveAsDependent(m, c) ==
  [d \in Id |-> IF DependsOn(c, d) THEN dependents[d] \ {m} ELSE dependents[d]]

\* The module is looked up in the registry under the version it reports.
UninstallChecks(m) ==
  /\ HasNoDependents(m)
  /\ modules[m] # None
  /\ code[modules[m]] \in HasData

RunningVersion(m) == [id |-> code[modules[m]].id, version |-> Reports[code[modules[m]]]]

\* Everything that can refuse the message.
CanUninstall(s, m) ==
  /\ s \in NestedOwner /\ ~suspended
  /\ UninstallChecks(m)
  /\ RunningVersion(m) \in registered
  /\ should_be_whitelisted(RunningVersion(m)) => CanUpdateWhitelist({}, {modules[m]})

UninstallModule(s, m) ==
  /\ CanUninstall(s, m)
  /\ IF should_be_whitelisted(RunningVersion(m))
     THEN UpdateWhitelisted({}, {modules[m]})
     ELSE UNCHANGED whitelist
  /\ dependents' = RemoveAsDependent(m, code[modules[m]])
  /\ modules' = [modules EXCEPT ![m] = None]
  /\ UNCHANGED <<suspended, version, code, registered, manual, doubled>>

-----------------------------------------------------------------------------
(* Upgrading *)

Current(m) == code[modules[m]]

Any_NotOlder(m, v) == TRUE
\* query_module: a named version is not older than the one that runs; the
\* latest version is what the registry answers and is not compared.
NotOlder(m, v) == IF m = Account THEN version <= v ELSE Reports[Current(m)] <= v

\* handle_modules_query: the registry goes down the keys of the module, which
\* are texts, and skips prereleases until it finds a release.
IsLatest(i) ==
  /\ i.version \in Release
  /\ \A j \in registered :
       j.id = i.id /\ j.version \in Release => TextRank[j.version] <= TextRank[i.version]

Requested(q) ==
  /\ q.to \in registered
  /\ IF q.latest THEN IsLatest(q.to) ELSE NotOlder(q.to.id, q.to.version)

\* What is put in MIGRATE_CONTEXT: apps and adapters, standalones not.
InContext(i) == Kind[i] \in {"app", "adapter"}

\* The dependent m has been put in the context before position k of the list.
AlreadyMigrating(batch, k, m) ==
  \E j \in 1 .. k - 1 : InContext(batch[j].to) /\ batch[j].to.id = m

Unchecked_AcceptedByDependents(batch, k) == TRUE

\* assert_migrate_requirements: dependents admit the version unless they migrate too.
AcceptedByDependents(batch, k) ==
  LET i == batch[k].to IN
  \A m \in dependents[i.id] :
    \/ AlreadyMigrating(batch, k, m)
    \/ /\ modules[m] # None
       /\ Current(m) \in HasData
       /\ \A dep \in Deps[Current(m)] : dep.id = i.id => i.version \in dep.req

\* handle_adapter_migration and replace_adapter: the old contract answers as an adapter.
CanReplaceAdapter(i) ==
  /\ Kind[i] = "adapter"
  /\ Current(i.id) \in HasData /\ Kind[Current(i.id)] = "adapter"

\* The migrate entry point of the new code: abstract apps and standalones
\* accept only the next version of the same contract.
CanMigrateApp(i) ==
  /\ Kind[i] = "app" /\ i \in HasData
  /\ Current(i.id) \in HasData /\ InCode(Current(i.id))
  /\ Current(i.id).id = i.id
  /\ <<Reports[Current(i.id)], Reports[i]>> \in Bump

CanMigrateStandalone(i) ==
  /\ Kind[i] = "standalone" /\ InCode(Current(i.id))
  /\ i \in HasData => /\ Current(i.id) \in HasCw2 /\ Current(i.id).id = i.id
                      /\ <<Reports[Current(i.id)], Reports[i]>> \in Bump

CanMigrateAccount(i) ==
  /\ Kind[i] = "account" /\ i.id = Account
  /\ <<version, Reports[i]>> \in Bump

CanMigrate(batch, k) ==
  LET i == batch[k].to IN
  \/ CanMigrateAccount(i)
  \/ /\ i.id # Account /\ modules[i.id] # None /\ Current(i.id) # None
     /\ InContext(i) => AcceptedByDependents(batch, k)
     /\ CanReplaceAdapter(i) \/ CanMigrateApp(i) \/ CanMigrateStandalone(i)

Targets(batch) == {q.to : q \in BatchSet(batch)}

\* The adapter's new address takes the place of the old one.
MoveAdapters(T) ==
  [m \in Id |-> IF \E i \in T : i.id = m /\ Kind[i] = "adapter"
                THEN CHOOSE i \in T : i.id = m ELSE modules[m]]

\* The migrate messages: the contract keeps its address and runs the new code.
RunMigrations(T) ==
  [a \in Addr |-> IF \E i \in T : InCode(i) /\ modules[i.id] = a
                  THEN CHOOSE i \in T : InCode(i) /\ modules[i.id] = a ELSE code[a]]

\* maybe_remove_old_deps and maybe_add_new_deps compare whole dependencies, the
\* admitted versions included.
Lost(m, d, codes, mods) == \E dep \in DepsOf(Current(m)) \ DepsOf(codes[mods[m]]) : dep.id = d
Gained(m, d, codes, mods) == \E dep \in DepsOf(codes[mods[m]]) \ DepsOf(Current(m)) : dep.id = d

Swapped_UpdateDependents(ctx, codes, mods) ==
  [d \in Id |-> (dependents[d] \cup {m \in ctx : Gained(m, d, codes, mods)})
                  \ {m \in ctx : Lost(m, d, codes, mods)}]

UpdateDependents(ctx, codes, mods) ==
  [d \in Id |-> (dependents[d] \ {m \in ctx : Lost(m, d, codes, mods)})
                  \cup {m \in ctx : Gained(m, d, codes, mods)}]
None_OldAdapters(T) == {}

\* The contracts of the adapters that are replaced.
OldAdapters(T) == {modules[i.id] : i \in {j \in T : Kind[j] = "adapter"}}
NewAdapters(T) == {i \in T : Kind[i] = "adapter"}

UpgradeModules(s, batch) ==
  LET T == Targets(batch)
      ctx == {i.id : i \in {j \in T : InContext(j)}} IN
  /\ s \in NestedOwner /\ ~suspended
  /\ batch # <<>>
  /\ \A j, k \in DOMAIN batch : j # k => batch[j].to.id # batch[k].to.id
  /\ \A k \in DOMAIN batch : CanMigrate(batch, k) /\ Requested(batch[k])
  /\ UpdateWhitelisted(NewAdapters(T), OldAdapters(T))
  /\ modules' = MoveAdapters(T)
  /\ code' = RunMigrations(T)
  /\ \A m \in ctx :
       /\ code'[modules'[m]] \in HasData
       /\ RequirementsMet(modules', code', Deps[code'[modules'[m]]])
  /\ dependents' = UpdateDependents(ctx, code', modules')
  /\ \/ \E i \in T : i.id = Account /\ version' = Reports[i]
     \/ (\A i \in T : i.id # Account) /\ version' = version
  /\ UNCHANGED <<suspended, registered, manual, doubled>>

-----------------------------------------------------------------------------
(* Configuration *)

UpdateModuleAddresses(s, edit) ==
  /\ s \in NestedOwner /\ ~suspended
  /\ modules' = [modules EXCEPT ![edit.id] = edit.to]
  /\ manual' = TRUE
  /\ UNCHANGED <<dependents, whitelist, suspended, version, code, registered, doubled>>

UpdateWhitelist(s, edit) ==
  /\ s \in NestedOwner /\ ~suspended
  /\ UpdateWhitelisted(edit.add, edit.remove)
  /\ manual' = TRUE
  /\ UNCHANGED <<modules, dependents, suspended, version, code, registered, doubled>>

UpdateStatus(s, b) ==
  /\ s \in NestedOwner
  /\ suspended' = b
  /\ UNCHANGED <<modules, dependents, whitelist, version, code, registered, manual, doubled>>

\* The registry yanks a version, or registers it (again).
RegistryChange(i) ==
  /\ registered' = IF i \in registered THEN registered \ {i} ELSE registered \cup {i}
  /\ UNCHANGED <<modules, dependents, whitelist, suspended, version, code, manual, doubled>>

Next ==
  \/ \E s \in Sender :
       \/ \E batch \in InstallInput : InstallModules(s, batch)
       \/ \E m \in Id : UninstallModule(s, m)
       \/ \E batch \in UpgradeInput : UpgradeModules(s, batch)
       \/ \E edit \in AddressEdit : UpdateModuleAddresses(s, edit)
       \/ \E edit \in WhitelistEdit : UpdateWhitelist(s, edit)
       \/ \E b \in BOOLEAN : UpdateStatus(s, b)
  \/ \E i \in Changing : RegistryChange(i)

Spec == Init /\ [][Next]_vars

-----------------------------------------------------------------------------
(* What a publisher is expected to keep to; each is a hypothesis of the    *)
(* property that needs it and not a check the account makes.               *)

\* The code of a version reports that version.
HonestCode == \A i \in Info : Reports[i] = i.version

\* A module names each dependency once.
OneBoundPerDependency ==
  \A i \in Info : \A d, e \in Deps[i] : d.id = e.id => d = e

\* A module keeps its kind from version to version.
KindStable == \A i, j \in Info : i.id = j.id => Kind[i] = Kind[j]

\* Nothing depends on a standalone, whose own dependencies never change.
StandaloneInert ==
  \A i \in Info : Kind[i] = "standalone" =>
    /\ \A j \in Info : i.id = j.id => DepsOf(i) = DepsOf(j)
    /\ \A j \in Info : ~DependsOn(j, i.id)

\* Natives and services declare no dependencies: the account does not track them.
PlainContracts ==
  \A i \in Info : Kind[i] \in {"native", "service"} => DepsOf(i) = {}

Discipline ==
  /\ HonestCode /\ OneBoundPerDependency /\ KindStable
  /\ StandaloneInert /\ PlainContracts

-----------------------------------------------------------------------------
(* Properties *)

\* The types of the stored items.
TypeOK ==
  /\ modules \in [Id -> Addr \cup {None}]
  /\ dependents \in [Id -> SUBSET Id]
  /\ whitelist \subseteq Addr
  /\ suspended \in BOOLEAN
  /\ version \in Version
  /\ code \in [Addr -> Info \cup {None}]
  /\ registered \subseteq Info
  /\ manual \in BOOLEAN
  /\ doubled \subseteq Addr

Installed == {m \in Id : modules[m] # None}

\* Unless the owner edited the addresses by hand, DEPENDENTS is exactly the
\* inverse of the dependencies of the installed modules (VERSIONING.md: "if a
\* module A depends on B and C, then B and C will have A as a dependent"):
\* install, uninstall and upgrade keep it so, also when an upgrade changes
\* only the admitted versions.
DependentsExact ==
  ~manual =>
    \A d \in Id : dependents[d] = {m \in Installed : DependsOn(Current(m), d)}

\* Unless the owner edited the addresses by hand, every installed module finds
\* each of its dependencies installed in a version that it admits ("we
\* programmed the system to disallow any upgrade actions that would break your
\* system's version requirements").
VersionRequirementsHold ==
  ~manual =>
    \A m \in Installed : RequirementsMet(modules, code, DepsOf(Current(m)))

\* Unless the owner edited it by hand, the allowlist holds the addresses of the
\* installed adapters, apps and ibc client and no other contract: after an
\* uninstall or the replacement of an adapter the old contract cannot act for
\* the account any more.  The one exception is a version that an install list
\* named before another version of the same module: it is allowlisted, never
\* installed, and no later message but the owner's own edit takes it off.
AllowlistMatchesModules ==
  ~manual =>
    whitelist = doubled \cup
      {modules[m] : m \in {n \in Installed : should_be_whitelisted(Current(n))}}

\* Manual edits included, the allowlist stays within WHITELIST_SIZE_LIMIT.
AllowlistBounded == Cardinality(whitelist) <= WHITELIST_SIZE_LIMIT

\* A module that keeps its module data, that no installed module depends on and
\* whose version is still registered can be uninstalled: neither a stale
\* dependent nor a missing allowlist entry stands in the way.
NoStuckModule ==
  \A m \in Installed :
    /\ ~manual /\ ~suspended /\ NestedOwner # {}
    /\ Current(m) \in HasData /\ Current(m) \in registered
    /\ \A n \in Installed : ~DependsOn(Current(n), m)
    => \E s \in Sender : CanUninstall(s, m)

\* No message replaces the account's own code by an older version.  The code of
\* an installed module goes back only to what the registry then calls latest (the
\* version that ran was yanked, is a prerelease or sorts before it as a text),
\* and only where no migration of the contract itself can refuse: an adapter,
\* whose address is exchanged, or a contract without module data.
NoDowngrade ==
  [][/\ version <= version'
     /\ ~manual' =>
          \A m \in Installed : modules'[m] # None =>
            LET new == code'[modules'[m]] IN
            \/ Reports[Current(m)] <= Reports[new]
            \/ IsLatest(new) /\ (Kind[new] = "adapter" \/ new \notin HasData)]_vars
=============================================================================
