------------------------ MODULE AccountModulesProofs ------------------------
(***************************************************************************)
(* Proofs about the modules of an account, for any library of modules and  *)
(* any lists of modules to install and upgrade.                            *)
(***************************************************************************)
EXTENDS AccountModules, FoldLemmas, TLAPS

\* The messages that can change what is stored about modules.
ModuleStep(s) ==
  \/ \E batch \in InstallInput : InstallModules(s, batch)
  \/ \E m \in Id : UninstallModule(s, m)
  \/ \E batch \in UpgradeInput : UpgradeModules(s, batch)

-----------------------------------------------------------------------------
(* Facts about published versions and lists of them *)

LEMMA InfoFacts == \A i \in Info : i.id \in Id /\ i.version \in Version
BY InfoAssumption

LEMMA InstallListFacts ==
  ASSUME NEW batch \in InstallInput
  PROVE  /\ BatchSet(batch) \subseteq Info
         /\ \A k \in DOMAIN batch : batch[k] \in Info
BY InputAssumption DEF BatchSet

LEMMA UpgradeListFacts ==
  ASSUME NEW batch \in UpgradeInput
  PROVE  /\ Targets(batch) \subseteq Info
         /\ \A k \in DOMAIN batch : batch[k].to \in Info /\ batch[k].to \in Targets(batch)
         /\ \A i \in Targets(batch) : \E k \in DOMAIN batch : batch[k].to = i
<1> DEFINE Request == [to : Info, latest : BOOLEAN]
<1>1. \A k \in DOMAIN batch : batch[k] \in Request
  <2>1. batch \in Seq(Request)
    BY InputAssumption
  <2> HIDE DEF Request
  <2> QED BY <2>1
<1>2. Targets(batch) = {batch[k].to : k \in DOMAIN batch}
  BY DEF Targets, BatchSet
<1> QED BY <1>1, <1>2

-----------------------------------------------------------------------------
(* Types *)

LEMMA InstallType ==
  ASSUME TypeOK, NEW s, NEW batch \in InstallInput, InstallModules(s, batch)
  PROVE  TypeOK'
<1> USE InstallListFacts, InfoFacts DEF TypeOK, InstallModules
<1>1. modules' \in [Id -> Addr \cup {None}]
  <2>1. \A m \in Id : (\E k \in DOMAIN batch : IsLastOf(batch, k, m))
          => batch[CHOOSE k \in DOMAIN batch : IsLastOf(batch, k, m)] \in Addr
    BY DEF Addr
  <2> QED BY <2>1 DEF AddModules
<1>2. code' \in [Addr -> Info \cup {None}]
  BY DEF Instantiate, Addr
<1>3. dependents' \in [Id -> SUBSET Id]
  BY DEF RegisterDependencies, SetAsDependent
<1>4. whitelist' \subseteq Addr /\ doubled' \subseteq Addr
  BY DEF UpdateWhitelisted, Addr
<1> QED BY <1>1, <1>2, <1>3, <1>4

LEMMA UninstallType ==
  ASSUME TypeOK, NEW s, NEW m \in Id, UninstallModule(s, m)
  PROVE  TypeOK'
<1> USE DEF TypeOK, UninstallModule, CanUninstall, RunningVersion
<1>1. dependents' \in [Id -> SUBSET Id]
  BY DEF RemoveAsDependent
<1>2. whitelist' \subseteq Addr
  BY DEF UpdateWhitelisted
<1> QED BY <1>1, <1>2

LEMMA UpgradeType ==
  ASSUME TypeOK, NEW s, NEW batch \in UpgradeInput, UpgradeModules(s, batch)
  PROVE  TypeOK'
<1> DEFINE T == Targets(batch)
<1> USE UpgradeListFacts, InfoFacts DEF TypeOK, UpgradeModules
<1>1. modules' \in [Id -> Addr \cup {None}]
  <2>1. \A m \in Id : (\E i \in T : i.id = m /\ Kind[i] = "adapter")
          => (CHOOSE i \in T : i.id = m) \in Addr
    BY DEF Addr
  <2> QED BY <2>1 DEF MoveAdapters
<1>2. code' \in [Addr -> Info \cup {None}]
  <2>1. \A a \in Addr : (\E i \in T : InCode(i) /\ modules[i.id] = a)
          => (CHOOSE i \in T : InCode(i) /\ modules[i.id] = a) \in Info
    OBVIOUS
  <2> QED BY <2>1 DEF RunMigrations
<1>3. dependents' \in [Id -> SUBSET Id]
  <2>1. {i.id : i \in {j \in T : InContext(j)}} \subseteq Id
    OBVIOUS
  <2> QED BY <2>1 DEF UpdateDependents
<1>4. whitelist' \subseteq Addr
  BY DEF UpdateWhitelisted, NewAdapters, Addr
<1>5. version' \in Version
  BY InfoAssumption
<1> QED BY <1>1, <1>2, <1>3, <1>4, <1>5

\* Every item the account stores keeps its type under every message.
THEOREM TypeCorrect == Spec => []TypeOK
<1>1. Init => TypeOK
  <2> SUFFICES ASSUME Init PROVE TypeOK
    OBVIOUS
  <2>1. version \in Version
    BY InfoFacts DEF Init
  <2>2. code \in [Addr -> Info \cup {None}]
    BY DEF Init, Addr
  <2> QED BY <2>1, <2>2 DEF Init, TypeOK
<1>2. TypeOK /\ [Next]_vars => TypeOK'
  <2> SUFFICES ASSUME TypeOK, [Next]_vars PROVE TypeOK'
    OBVIOUS
  <2>1. ASSUME NEW s \in Sender, ModuleStep(s) PROVE TypeOK'
    BY <2>1, InstallType, UninstallType, UpgradeType DEF ModuleStep
  <2>2. ASSUME NEW s \in Sender, NEW edit \in AddressEdit, UpdateModuleAddresses(s, edit)
        PROVE  TypeOK'
    BY <2>2, InputAssumption DEF UpdateModuleAddresses, TypeOK
  <2>3. ASSUME NEW s \in Sender, NEW edit \in WhitelistEdit, UpdateWhitelist(s, edit)
        PROVE  TypeOK'
    BY <2>3, InputAssumption DEF UpdateWhitelist, UpdateWhitelisted, TypeOK
  <2>4. ASSUME NEW s \in Sender, NEW b \in BOOLEAN, UpdateStatus(s, b) PROVE TypeOK'
    BY <2>4 DEF UpdateStatus, TypeOK
  <2>5. ASSUME NEW i \in Changing, RegistryChange(i) PROVE TypeOK'
    BY <2>5, InputAssumption DEF RegistryChange, TypeOK
  <2>6. CASE UNCHANGED vars
    BY <2>6 DEF vars, TypeOK
  <2> QED BY <2>1, <2>2, <2>3, <2>4, <2>5, <2>6 DEF Next, ModuleStep
<1> QED BY <1>1, <1>2, PTL DEF Spec

-----------------------------------------------------------------------------
(* The size of the allowlist *)

\* The owner's edits included, no message takes the allowlist over its limit.
THEOREM AllowlistStaysBounded == Spec => []AllowlistBounded
<1>1. Init => AllowlistBounded
  BY FS_EmptySet, InputAssumption DEF Init, AllowlistBounded
<1>2. ASSUME NEW add, NEW remove, UpdateWhitelisted(add, remove) PROVE AllowlistBounded'
  BY <1>2, InputAssumption DEF UpdateWhitelisted, CanUpdateWhitelist, AllowlistBounded
<1>3. AllowlistBounded /\ [Next]_vars => AllowlistBounded'
  <2> SUFFICES ASSUME AllowlistBounded, [Next]_vars PROVE AllowlistBounded'
    OBVIOUS
  <2>1. CASE UNCHANGED whitelist
    BY <2>1 DEF AllowlistBounded
  <2>2. CASE Next
    BY <2>1, <2>2, <1>2 DEF Next, InstallModules, UninstallModule, CanUninstall, RunningVersion, UpgradeModules,
       UpdateModuleAddresses, UpdateWhitelist, UpdateStatus, RegistryChange
  <2> QED BY <2>1, <2>2 DEF vars
<1> QED BY <1>1, <1>3, PTL DEF Spec

-----------------------------------------------------------------------------
(* The inductive invariant *)

\* Every module's address and the code there belong to that module.
Placed ==
  ~manual => \A m \in Installed :
    modules[m].id = m /\ Current(m) \in Info /\ Current(m).id = m

\* An adapter, native or service contract is never migrated by the account.
Fixed == \A a \in Addr : ~InCode(a) /\ Kind[a] # "account" => code[a] = a

\* An address that a list allowlisted without installing it stays out of use: an
\* adapter or native there cannot be allowlisted again, an app there exists already.
Unused ==
  ~manual => /\ \A m \in Installed : modules[m] \notin doubled
             /\ \A a \in doubled : should_be_whitelisted(a) /\ (InCode(a) => code[a] # None)

ModuleInv ==
  TypeOK /\ Placed /\ Fixed /\ Unused
    /\ DependentsExact /\ VersionRequirementsHold /\ AllowlistMatchesModules

\* An id that a list names has a last place in it.
LEMMA LastPlace ==
  ASSUME NEW batch \in InstallInput, NEW i \in BatchSet(batch)
  PROVE  \E k \in DOMAIN batch : IsLastOf(batch, k, i.id)
<1> DEFINE S == {j \in DOMAIN batch : batch[j].id = i.id}
<1>1. Len(batch) \in Nat /\ DOMAIN batch = 1 .. Len(batch)
  BY InputAssumption
<1>2. S # {} /\ S \subseteq Nat /\ \A j \in S : j <= Len(batch)
  BY <1>1 DEF BatchSet
<1>3. PICK k \in S : \A j \in S : j <= k
  <2> HIDE DEF S
  <2> QED BY <1>1, <1>2, Highest
<1> QED BY <1>3 DEF IsLastOf

\* Where the modules of an installed list end up, and that nothing else moves: of the
\* versions of one module the list names, one is installed.
LEMMA InstallPlacement ==
  ASSUME TypeOK, Placed, Fixed, ~manual,
         NEW s, NEW batch \in InstallInput, InstallModules(s, batch)
  PROVE  /\ \A i \in BatchSet(batch) :
              /\ modules[i.id] = None /\ code'[i] = i
              /\ modules'[i.id] \in BatchSet(batch) /\ modules'[i.id].id = i.id
         /\ \A m \in Id : (\A i \in BatchSet(batch) : i.id # m) => modules'[m] = modules[m]
         /\ \A m \in Installed : modules'[m] = modules[m] /\ code'[modules[m]] = code[modules[m]]
         /\ Installed' = Installed \cup {i.id : i \in BatchSet(batch)}
<1> DEFINE new == BatchSet(batch)
<1>0. new \subseteq Info /\ None \notin Info
  BY InstallListFacts, InputAssumption
<1>1. ASSUME NEW i \in new
      PROVE  modules'[i.id] \in new /\ modules'[i.id].id = i.id
  <2> DEFINE k == CHOOSE k \in DOMAIN batch : IsLastOf(batch, k, i.id)
  <2>1. i.id \in Id
    BY <1>0, InfoFacts
  <2>2. k \in DOMAIN batch /\ IsLastOf(batch, k, i.id)
    BY LastPlace
  <2>3. modules'[i.id] = batch[k]
    BY <2>1, LastPlace DEF InstallModules, AddModules
  <2> HIDE DEF k
  <2> QED BY <2>2, <2>3 DEF IsLastOf, BatchSet
<1>2. ASSUME NEW i \in new
      PROVE  modules[i.id] = None /\ code'[i] = i
  <2>1. CanInstall(i)
    BY DEF InstallModules
  <2>2. code'[i] = i
    BY <1>0, <2>1 DEF InstallModules, Instantiate, CanInstall, Installable, Fixed, Addr, InCode
  <2> QED BY <2>1, <2>2 DEF CanInstall
<1>3. ASSUME NEW m \in Id, \A i \in new : i.id # m
      PROVE  modules'[m] = modules[m]
  <2>1. \A k \in DOMAIN batch : batch[k].id # m
    BY <1>3 DEF BatchSet
  <2> QED BY <2>1 DEF InstallModules, AddModules, IsLastOf
<1>4. ASSUME NEW m \in Installed
      PROVE  modules'[m] = modules[m] /\ code'[modules[m]] = code[modules[m]]
  <2>1. \A i \in new : i.id # m
    BY <1>2 DEF Installed
  <2>2. modules[m] \in Addr /\ code[modules[m]] # None
    BY <1>0 DEF Placed, Installed, Current, TypeOK
  <2>3. ~(modules[m] \in new /\ InCode(modules[m]))
    BY <2>2 DEF InstallModules, CanInstall
  <2> QED BY <1>3, <2>1, <2>2, <2>3 DEF InstallModules, Instantiate, Installed
<1>5. Installed' = Installed \cup {i.id : i \in new}
  BY <1>0, <1>1, <1>3, <1>4, InfoFacts DEF Installed
<1> HIDE DEF new
<1> QED BY <1>1, <1>2, <1>3, <1>4, <1>5 DEF new

LEMMA InstallInvariant ==
  ASSUME Discipline, ModuleInv, ~manual,
         NEW s, NEW batch \in InstallInput, InstallModules(s, batch)
  PROVE  Placed' /\ Unused' /\ DependentsExact' /\ VersionRequirementsHold'
           /\ AllowlistMatchesModules'
<1> DEFINE new == BatchSet(batch)
           At(m) == modules'[m]
<1>0. /\ PlainContracts /\ KindStable
      /\ TypeOK /\ Placed /\ Fixed /\ Unused
      /\ DependentsExact /\ VersionRequirementsHold /\ AllowlistMatchesModules
  BY DEF Discipline, ModuleInv
<1>1. new \subseteq Info /\ None \notin Info
  BY InstallListFacts, InputAssumption
<1>2. /\ \A i \in new : modules[i.id] = None /\ code'[i] = i
      /\ \A i \in new : At(i.id) \in new /\ At(i.id).id = i.id
      /\ \A m \in Installed : At(m) = modules[m] /\ code'[modules[m]] = code[modules[m]]
      /\ Installed' = Installed \cup {i.id : i \in new}
  BY <1>0, InstallPlacement
<1>3. ~manual'
  BY DEF InstallModules
<1>4. \A i \in new : /\ code'[At(i.id)] = At(i.id)
                     /\ Kind[At(i.id)] = Kind[i]
                     /\ should_be_whitelisted(At(i.id)) <=> should_be_whitelisted(i)
  BY <1>0, <1>1, <1>2 DEF KindStable, should_be_whitelisted
<1>5. \A i \in new : Kind[i] \notin {"app", "adapter", "standalone"} => DepsOf(At(i.id)) = {}
  BY <1>0, <1>1, <1>2, <1>4 DEF PlainContracts, InstallModules, CanInstall, Installable
<1>6. Placed'
  BY <1>0, <1>1, <1>2, <1>4 DEF Placed, Current
<1>7. DependentsExact'
  <2>1. \A d \in Id : dependents'[d] = dependents[d] \cup
          {i.id : i \in {j \in new : Kind[j] \in {"app", "adapter", "standalone"}
                                     /\ DependsOn(code'[At(j.id)], d)}}
    BY DEF InstallModules, RegisterDependencies, SetAsDependent
  <2>2. \A j \in new, d \in Id :
          DependsOn(code'[At(j.id)], d) => Kind[j] \in {"app", "adapter", "standalone"}
    BY <1>4, <1>5 DEF DependsOn
  <2> SUFFICES ASSUME NEW d \in Id
               PROVE  dependents'[d] = {m \in Installed' : DependsOn(code'[At(m)], d)}
    BY DEF DependentsExact, Current
  <2>3. dependents[d] = {m \in Installed : DependsOn(code[modules[m]], d)}
    BY <1>0 DEF DependentsExact, Current
  <2>4. dependents'[d] = dependents[d] \cup {i.id : i \in {j \in new : DependsOn(code'[At(j.id)], d)}}
    BY <2>1, <2>2
  <2> HIDE DEF new, At
  <2> QED BY <1>2, <2>3, <2>4
<1>8. VersionRequirementsHold'
  <2> SUFFICES ASSUME NEW m \in Installed'
               PROVE  RequirementsMet(modules', code', DepsOf(code'[At(m)]))
    BY DEF VersionRequirementsHold, Current
  <2>1. CASE m \in Installed
    <3>1. RequirementsMet(modules, code, DepsOf(code[modules[m]]))
      BY <1>0, <2>1 DEF VersionRequirementsHold, Current
    <3>2. \A dep \in DepsOf(code[modules[m]]) : dep.id \in Id
      BY <1>0, <2>1, InfoAssumption DEF DepsOf, Placed, Current, Dependency
    <3>3. \A dep \in DepsOf(code[modules[m]]) : dep.id \in Installed
      BY <3>1, <3>2 DEF RequirementsMet, Installed
    <3> QED BY <1>2, <2>1, <3>1, <3>3 DEF RequirementsMet, Installed
  <2>2. CASE m \notin Installed
    <3>1. PICK i \in new : i.id = m
      BY <1>2, <2>2
    <3>2. CASE Kind[i] \in {"app", "adapter", "standalone"}
      BY <3>1, <3>2 DEF InstallModules, RegisterDependencies
    <3>3. CASE Kind[i] \notin {"app", "adapter", "standalone"}
      BY <1>4, <1>5, <3>1, <3>3 DEF RequirementsMet
    <3> QED BY <3>2, <3>3
  <2> QED BY <2>1, <2>2
<1>9. doubled' = doubled \cup {i \in new : should_be_whitelisted(i) /\ At(i.id) # i}
  BY DEF InstallModules
<1>10. {i \in new : should_be_whitelisted(i)} \cap whitelist = {}
  BY DEF InstallModules, UpdateWhitelisted, CanUpdateWhitelist
<1>11. doubled \subseteq whitelist
  BY <1>0 DEF AllowlistMatchesModules
<1>12. Unused'
  <2>1. ASSUME NEW m \in Installed' PROVE At(m) \notin doubled'
    <3>1. CASE m \in Installed
      <4>1. At(m) = modules[m] /\ modules[m] \notin doubled /\ modules[m].id = m
        BY <1>0, <1>2, <3>1 DEF Unused, Placed
      <4>2. modules[m] \notin new
        BY <1>2, <3>1, <4>1 DEF Installed
      <4> QED BY <1>9, <4>1, <4>2
    <3>2. CASE m \notin Installed
      <4>1. PICK i \in new : i.id = m
        BY <1>2, <3>2
      <4>2. At(m) \in new /\ At(m).id = m
        BY <1>2, <4>1
      <4>3. At(m) \in doubled => should_be_whitelisted(At(m))
        BY <1>0 DEF Unused
      <4> HIDE DEF At, new
      <4> QED BY <1>9, <1>10, <1>11, <4>2, <4>3
    <3> QED BY <3>1, <3>2
  <2>2. ASSUME NEW a \in doubled' PROVE should_be_whitelisted(a) /\ (InCode(a) => code'[a] # None)
    <3>1. CASE a \in new
      <4>1. a \in doubled => should_be_whitelisted(a)
        BY <1>0 DEF Unused
      <4> QED BY <1>1, <1>2, <1>9, <3>1, <4>1
    <3>2. CASE a \notin new
      <4>1. a \in doubled /\ should_be_whitelisted(a) /\ (InCode(a) => code[a] # None)
        BY <1>0, <1>9, <3>2 DEF Unused
      <4>2. a \in Addr
        BY <1>0, <4>1 DEF TypeOK
      <4> QED BY <3>2, <4>1, <4>2 DEF InstallModules, Instantiate
    <3> QED BY <3>1, <3>2
  <2> QED BY <2>1, <2>2 DEF Unused
<1>13. AllowlistMatchesModules'
  <2> DEFINE Listed == {m \in Installed : should_be_whitelisted(code[modules[m]])}
             ListedNow == {m \in Installed' : should_be_whitelisted(code'[At(m)])}
  <2>1. whitelist' = whitelist \cup {i \in new : should_be_whitelisted(i)}
    BY DEF InstallModules, UpdateWhitelisted
  <2>2. whitelist = doubled \cup {modules[m] : m \in Listed}
    BY <1>0 DEF AllowlistMatchesModules, Current
  <2>3. ASSUME NEW a \in whitelist' PROVE a \in doubled' \cup {At(m) : m \in ListedNow}
    <3>1. CASE a \in whitelist
      BY <1>2, <1>9, <2>2, <3>1
    <3>2. CASE a \notin whitelist
      <4>1. a \in new /\ should_be_whitelisted(a)
        BY <2>1, <2>3, <3>2
      <4>2. CASE At(a.id) # a
        BY <1>9, <4>1, <4>2
      <4>3. CASE At(a.id) = a
        BY <1>2, <1>4, <4>1, <4>3
      <4> QED BY <4>2, <4>3
    <3> QED BY <3>1, <3>2
  <2>4. ASSUME NEW m \in ListedNow PROVE At(m) \in whitelist'
    <3>1. CASE m \in Installed
      BY <1>2, <2>1, <2>2, <3>1
    <3>2. CASE m \notin Installed
      <4>1. PICK i \in new : i.id = m
        BY <1>2, <3>2
      <4>2. At(m) \in new /\ should_be_whitelisted(At(m))
        BY <1>2, <1>4, <4>1
      <4> QED BY <2>1, <4>2
    <3> QED BY <3>1, <3>2
  <2>5. doubled' \subseteq whitelist'
    BY <1>9, <1>11, <2>1
  <2>6. whitelist' = doubled' \cup {At(m) : m \in ListedNow}
    <3> HIDE DEF At, ListedNow
    <3> QED BY <2>3, <2>4, <2>5
  <2> QED BY <2>6 DEF AllowlistMatchesModules, Current
<1> QED BY <1>6, <1>7, <1>8, <1>12, <1>13

LEMMA UninstallInvariant ==
  ASSUME Discipline, ModuleInv, ~manual,
         NEW s, NEW m \in Id, UninstallModule(s, m)
  PROVE  Placed' /\ Unused' /\ DependentsExact' /\ VersionRequirementsHold'
           /\ AllowlistMatchesModules'
<1> DEFINE c == code[modules[m]]
<1>0. /\ HonestCode
      /\ TypeOK /\ Placed /\ Fixed /\ Unused
      /\ DependentsExact /\ VersionRequirementsHold /\ AllowlistMatchesModules
  BY DEF Discipline, ModuleInv
<1>1. /\ ~manual' /\ code' = code /\ doubled' = doubled
      /\ modules[m] # None
      /\ modules'[m] = None
      /\ \A n \in Id \ {m} : modules'[n] = modules[n]
  BY <1>0 DEF UninstallModule, CanUninstall, RunningVersion, UninstallChecks, TypeOK
<1>2. Installed' = Installed \ {m} /\ m \in Installed
  BY <1>1 DEF Installed
<1>3. c \in Info /\ [id |-> c.id, version |-> Reports[c]] = c
  <2>1. c \in Info
    BY <1>0, <1>2 DEF Placed, Current
  <2> QED BY <2>1, <1>0, InfoAssumption DEF HonestCode
<1>4. Placed'
  BY <1>0, <1>1, <1>2 DEF Placed, Current, Installed
<1>5. \A d \in Id : dependents[d] = {n \in Installed : DependsOn(code[modules[n]], d)}
  BY <1>0 DEF DependentsExact, Current
<1>6. DependentsExact'
  <2> SUFFICES ASSUME NEW d \in Id
               PROVE  dependents'[d] = {n \in Installed' : DependsOn(code'[modules'[n]], d)}
    BY DEF DependentsExact, Current
  <2>1. dependents'[d] = IF DependsOn(c, d) THEN dependents[d] \ {m} ELSE dependents[d]
    BY DEF UninstallModule, CanUninstall, RunningVersion, RemoveAsDependent
  <2> QED BY <1>1, <1>2, <1>5, <2>1 DEF Installed
<1>7. VersionRequirementsHold'
  <2> SUFFICES ASSUME NEW n \in Installed'
               PROVE  RequirementsMet(modules', code', DepsOf(code'[modules'[n]]))
    BY DEF VersionRequirementsHold, Current
  <2>1. n \in Installed /\ n # m /\ modules'[n] = modules[n]
    BY <1>1, <1>2 DEF Installed
  <2>2. RequirementsMet(modules, code, DepsOf(code[modules[n]]))
    BY <1>0, <2>1 DEF VersionRequirementsHold, Current
  <2>3. ~DependsOn(code[modules[n]], m)
    BY <1>5, <2>1 DEF UninstallModule, CanUninstall, RunningVersion, UninstallChecks, HasNoDependents
  <2>4. \A dep \in DepsOf(code[modules[n]]) : dep.id \in Id /\ dep.id # m
    BY <1>0, <2>1, <2>3, InfoAssumption DEF DepsOf, DependsOn, Placed, Current, Dependency
  <2> QED BY <1>1, <2>1, <2>2, <2>4 DEF RequirementsMet
<1>8. AllowlistMatchesModules'
  <2> DEFINE W == {n \in Installed : should_be_whitelisted(code[modules[n]])}
  <2>1. whitelist = doubled \cup {modules[n] : n \in W} /\ modules[m] \notin doubled
    BY <1>0, <1>2 DEF AllowlistMatchesModules, Current, Unused
  <2>2. \A n \in Installed \ {m} : modules[n] # modules[m]
    BY <1>0, <1>2 DEF Placed
  <2>3. whitelist' = doubled \cup {modules[n] : n \in W \ {m}}
    <3>1. CASE should_be_whitelisted(c)
      <4>1. whitelist' = whitelist \ {modules[m]}
        BY <1>3, <3>1 DEF UninstallModule, CanUninstall, RunningVersion, UpdateWhitelisted
      <4> QED BY <2>1, <2>2, <4>1
    <3>2. CASE ~should_be_whitelisted(c)
      <4>1. whitelist' = whitelist /\ m \notin W
        BY <1>3, <3>2 DEF UninstallModule, CanUninstall, RunningVersion
      <4> QED BY <2>1, <4>1
    <3> QED BY <3>1, <3>2
  <2>4. W \ {m} = {n \in Installed' : should_be_whitelisted(code'[modules'[n]])}
    BY <1>1, <1>2 DEF Installed
  <2>5. \A n \in W \ {m} : modules'[n] = modules[n]
    BY <1>1 DEF Installed
  <2>6. whitelist' = doubled' \cup {modules'[n] : n \in W \ {m}}
    <3> HIDE DEF W
    <3> QED BY <1>1, <2>3, <2>5
  <2> QED BY <2>4, <2>6 DEF AllowlistMatchesModules, Current
<1>9. Unused'
  BY <1>0, <1>1, <1>2 DEF Unused, Installed
<1> QED BY <1>4, <1>6, <1>7, <1>8, <1>9

\* Where the modules of an upgrade end up, and that nothing else moves.
LEMMA UpgradePlacement ==
  ASSUME TypeOK, Placed, Fixed, ~manual,
         NEW s, NEW batch \in UpgradeInput, UpgradeModules(s, batch)
  PROVE  /\ \A i, j \in Targets(batch) : i.id = j.id => i = j
         /\ \A i \in Targets(batch) : Kind[i] = "adapter" =>
              /\ i.id \in Installed /\ Kind[Current(i.id)] = "adapter"
              /\ modules'[i.id] = i /\ code'[i] = i
         /\ \A i \in Targets(batch) : InCode(i) =>
              /\ i.id \in Installed /\ InCode(Current(i.id))
              /\ modules'[i.id] = modules[i.id] /\ code'[modules[i.id]] = i
         /\ \A i \in Targets(batch) : Kind[i] \in {"adapter", "app", "standalone", "account"}
         /\ \A m \in Installed :
              (\A i \in Targets(batch) : i.id = m => Kind[i] = "account")
                => modules'[m] = modules[m] /\ code'[modules[m]] = code[modules[m]]
         /\ Installed' = Installed
<1> DEFINE T == Targets(batch)
<1>0. /\ T \subseteq Info /\ None \notin Info
      /\ \A i \in T : i.id \in Id
  BY UpgradeListFacts, InputAssumption, InfoFacts
<1>1. \A i, j \in T : i.id = j.id => i = j
  BY UpgradeListFacts DEF UpgradeModules
<1>2. ASSUME NEW i \in T
      PROVE  \/ CanMigrateAccount(i)
             \/ /\ modules[i.id] # None
                /\ CanReplaceAdapter(i) \/ CanMigrateApp(i) \/ CanMigrateStandalone(i)
  <2>1. PICK k \in DOMAIN batch : batch[k].to = i
    BY UpgradeListFacts
  <2>2. CanMigrate(batch, k)
    BY DEF UpgradeModules
  <2> QED BY <2>1, <2>2 DEF CanMigrate
<1>3. \A i \in T : Kind[i] \in {"adapter", "app", "standalone", "account"}
  BY <1>2 DEF CanMigrateAccount, CanReplaceAdapter, CanMigrateApp, CanMigrateStandalone
<1>4. \A i \in T : Kind[i] = "adapter" => i.id \in Installed /\ Kind[Current(i.id)] = "adapter"
  BY <1>0, <1>2 DEF CanMigrateAccount, CanReplaceAdapter, CanMigrateApp, CanMigrateStandalone,
     Installed
<1>5. \A i \in T : InCode(i) => i.id \in Installed /\ InCode(Current(i.id))
  BY <1>0, <1>2 DEF CanMigrateAccount, CanReplaceAdapter, CanMigrateApp, CanMigrateStandalone,
     Installed, InCode
<1>6. \A m \in Id : modules'[m] = IF \E i \in T : i.id = m /\ Kind[i] = "adapter"
                                  THEN CHOOSE i \in T : i.id = m ELSE modules[m]
  BY DEF UpgradeModules, MoveAdapters
<1>7. \A a \in Addr : code'[a] = IF \E i \in T : InCode(i) /\ modules[i.id] = a
                                 THEN CHOOSE i \in T : InCode(i) /\ modules[i.id] = a ELSE code[a]
  BY DEF UpgradeModules, RunMigrations
<1>8. \A m \in Installed : modules[m] \in Addr /\ modules[m].id = m
  BY DEF Placed, Installed, TypeOK
<1>9. ASSUME NEW i \in T, Kind[i] = "adapter"
      PROVE  modules'[i.id] = i /\ code'[i] = i
  <2>1. modules'[i.id] = i
    BY <1>0, <1>1, <1>6, <1>9
  <2>2. ~\E j \in T : InCode(j) /\ modules[j.id] = i
    BY <1>1, <1>5, <1>8, <1>9 DEF InCode
  <2>3. code[i] = i
    BY <1>0, <1>9 DEF Fixed, Addr, InCode
  <2> QED BY <1>0, <1>7, <2>1, <2>2, <2>3 DEF Addr
<1>10. ASSUME NEW i \in T, InCode(i)
       PROVE  modules'[i.id] = modules[i.id] /\ code'[modules[i.id]] = i
  <2>1. modules'[i.id] = modules[i.id]
    BY <1>0, <1>1, <1>6, <1>10 DEF InCode
  <2>2. \A j \in T : InCode(j) /\ modules[j.id] = modules[i.id] => j = i
    BY <1>1, <1>5, <1>8, <1>10
  <2>3. (CHOOSE j \in T : InCode(j) /\ modules[j.id] = modules[i.id]) = i
    BY <2>2, <1>10
  <2> QED BY <1>5, <1>7, <1>8, <1>10, <2>1, <2>3
<1>11. ASSUME NEW m \in Installed, \A i \in T : i.id = m => Kind[i] = "account"
       PROVE  modules'[m] = modules[m] /\ code'[modules[m]] = code[modules[m]]
  <2>1. modules'[m] = modules[m]
    BY <1>6, <1>11 DEF Installed
  <2>2. ~\E j \in T : InCode(j) /\ modules[j.id] = modules[m]
    BY <1>5, <1>8, <1>11 DEF InCode
  <2> QED BY <1>7, <1>8, <2>1, <2>2
<1>12. Installed' = Installed
  <2>1. \A m \in Id : modules[m] = None => modules'[m] = None
    BY <1>4, <1>6 DEF Installed
  <2>2. \A m \in Id : modules[m] # None => modules'[m] # None
    BY <1>0, <1>1, <1>6
  <2> QED BY <2>1, <2>2 DEF Installed
<1> HIDE DEF T
<1> QED BY <1>1, <1>3, <1>4, <1>5, <1>9, <1>10, <1>11, <1>12 DEF T

LEMMA UpgradeInvariant ==
  ASSUME Discipline, ModuleInv, ~manual,
         NEW s, NEW batch \in UpgradeInput, UpgradeModules(s, batch)
  PROVE  Placed' /\ Unused' /\ DependentsExact' /\ VersionRequirementsHold'
           /\ AllowlistMatchesModules'
<1> DEFINE T == Targets(batch)
           ctx == {i.id : i \in {j \in T : InContext(j)}}
           New(m) == code'[modules'[m]]
<1>0. /\ HonestCode /\ OneBoundPerDependency /\ KindStable /\ StandaloneInert
      /\ TypeOK /\ Placed /\ Fixed /\ Unused
      /\ DependentsExact /\ VersionRequirementsHold /\ AllowlistMatchesModules
  BY DEF Discipline, ModuleInv
<1>1. /\ T \subseteq Info
      /\ \A i \in T : i.id \in Id
  BY UpgradeListFacts, InfoFacts
<1>2. /\ \A i, j \in T : i.id = j.id => i = j
      /\ \A i \in T : Kind[i] = "adapter" =>
           i.id \in Installed /\ Kind[Current(i.id)] = "adapter" /\ modules'[i.id] = i /\ New(i.id) = i
      /\ \A i \in T : InCode(i) =>
           i.id \in Installed /\ InCode(Current(i.id)) /\ modules'[i.id] = modules[i.id] /\ New(i.id) = i
      /\ \A i \in T : Kind[i] \in {"adapter", "app", "standalone", "account"}
      /\ \A m \in Installed :
           (\A i \in T : i.id = m => Kind[i] = "account")
             => modules'[m] = modules[m] /\ New(m) = Current(m)
      /\ Installed' = Installed
  BY <1>0, UpgradePlacement DEF Current
<1>3. ~manual' /\ \A m \in Installed : m \in Id /\ Current(m) \in Info /\ Current(m).id = m
  BY <1>0 DEF UpgradeModules, Placed, Installed
<1>4. \A m \in Installed : \/ \E i \in T : i.id = m /\ Kind[i] = "adapter"
                           \/ \E i \in T : i.id = m /\ InCode(i)
                           \/ \A i \in T : i.id = m => Kind[i] = "account"
  BY <1>2 DEF InCode
<1>5. Placed'
  BY <1>0, <1>1, <1>2, <1>3, <1>4 DEF Placed, Current
<1>6. \A m \in Installed \ ctx : DepsOf(New(m)) = DepsOf(Current(m))
  <2> SUFFICES ASSUME NEW m \in Installed \ ctx
               PROVE  DepsOf(New(m)) = DepsOf(Current(m))
    OBVIOUS
  <2>1. CASE \E i \in T : i.id = m /\ Kind[i] = "adapter"
    BY <2>1 DEF InContext
  <2>2. CASE \E i \in T : i.id = m /\ InCode(i)
    <3>1. PICK i \in T : i.id = m /\ InCode(i)
      BY <2>2
    <3>2. Kind[i] = "standalone" /\ New(m) = i
      BY <1>2, <3>1 DEF InCode, InContext
    <3> QED BY <1>0, <1>1, <1>3, <3>1, <3>2 DEF StandaloneInert
  <2>3. CASE \A i \in T : i.id = m => Kind[i] = "account"
    BY <1>2, <2>3
  <2> QED BY <1>4, <2>1, <2>2, <2>3
<1>7. \A d \in Id : dependents[d] = {n \in Installed : DependsOn(Current(n), d)}
  BY <1>0 DEF DependentsExact
<1>8. ctx \subseteq Installed
  BY <1>2 DEF InContext, InCode
<1>9. DependentsExact'
  <2> SUFFICES ASSUME NEW d \in Id
               PROVE  dependents'[d] = {n \in Installed : DependsOn(New(n), d)}
    BY <1>2 DEF DependentsExact, Current
  <2>1. dependents'[d] = (dependents[d] \ {m \in ctx : Lost(m, d, code', modules')})
                           \cup {m \in ctx : Gained(m, d, code', modules')}
    BY DEF UpgradeModules, UpdateDependents
  <2>2. \A m \in Installed \ ctx : DependsOn(New(m), d) <=> DependsOn(Current(m), d)
    BY <1>6 DEF DependsOn
  <2>3. ASSUME NEW m \in ctx
        PROVE  DependsOn(New(m), d)
                 <=> \/ DependsOn(Current(m), d) /\ ~Lost(m, d, code', modules')
                     \/ Gained(m, d, code', modules')
    <3>1. \A x, y \in DepsOf(Current(m)) : x.id = y.id => x = y
      BY <1>0, <1>3, <1>8 DEF OneBoundPerDependency, DepsOf
    <3> QED BY <3>1 DEF DependsOn, Lost, Gained
  <2>4. \A m \in ctx : m \in dependents[d] <=> DependsOn(Current(m), d)
    BY <1>7, <1>8
  <2>5. \A m \in Installed \ ctx : m \in dependents[d] <=> DependsOn(Current(m), d)
    BY <1>7
  <2>6. dependents[d] \subseteq Installed
    BY <1>7
  <2> HIDE DEF ctx, New
  <2> QED BY <1>8, <2>1, <2>2, <2>3, <2>4, <2>5, <2>6
<1>10. VersionRequirementsHold'
  <2> SUFFICES ASSUME NEW m \in Installed
               PROVE  RequirementsMet(modules', code', DepsOf(New(m)))
    BY <1>2 DEF VersionRequirementsHold, Current
  <2>1. CASE m \in ctx
    BY <2>1 DEF UpgradeModules, DepsOf
  <2>2. CASE m \notin ctx
    <3>1. DepsOf(New(m)) = DepsOf(Current(m))
      BY <1>6, <2>2
    <3>2. RequirementsMet(modules, code, DepsOf(Current(m)))
      BY <1>0 DEF VersionRequirementsHold
    <3> SUFFICES ASSUME NEW dep \in DepsOf(Current(m))
                 PROVE  modules'[dep.id] # None /\ New(dep.id) \in HasCw2
                          /\ Reports[New(dep.id)] \in dep.req
      BY <3>1 DEF RequirementsMet
    <3>3. dep.id \in Id /\ DependsOn(Current(m), dep.id)
      BY <1>3, InfoAssumption DEF DepsOf, DependsOn, Dependency
    <3>4. dep.id \in Installed /\ m \in dependents[dep.id]
      BY <1>7, <3>2, <3>3 DEF RequirementsMet, Installed
    <3>5. dep.id \in Installed' => modules'[dep.id] # None
      BY DEF Installed
    <3>6. ASSUME NEW i \in T, i.id = dep.id, InContext(i)
          PROVE  New(dep.id) = i /\ i \in HasCw2 /\ Reports[i] \in dep.req
      <4>1. New(dep.id) = i
        BY <1>2, <3>6 DEF InContext, InCode
      <4>2. i \in HasCw2
        BY <3>6, <4>1, InfoAssumption DEF UpgradeModules
      <4>3. PICK k \in DOMAIN batch : batch[k].to = i
        BY UpgradeListFacts
      <4>4. AcceptedByDependents(batch, k)
        BY <3>6, <4>3 DEF UpgradeModules, CanMigrate, CanMigrateAccount, InContext
      <4>5. ~AlreadyMigrating(batch, k, m)
        <5>1. \A j \in 1 .. k - 1 : j \in DOMAIN batch
          BY InputAssumption, <4>3
        <5> QED BY <2>2, <5>1, UpgradeListFacts DEF AlreadyMigrating
      <4>6. dep \in Deps[Current(m)]
        BY DEF DepsOf
      <4>7. i.version \in dep.req
        BY <3>4, <3>6, <4>3, <4>4, <4>5, <4>6 DEF AcceptedByDependents
      <4> QED BY <1>0, <1>1, <4>1, <4>2, <4>7 DEF HonestCode
    <3>7. CASE \E i \in T : i.id = dep.id /\ InContext(i)
      BY <1>2, <3>4, <3>5, <3>6, <3>7
    <3>8. CASE \A i \in T : i.id = dep.id => ~InContext(i)
      <4>1. \A i \in T : i.id = dep.id => Kind[i] # "standalone"
        BY <1>0, <1>1, <1>3, <3>3 DEF StandaloneInert
      <4>2. \A i \in T : i.id = dep.id => Kind[i] = "account"
        BY <1>2, <3>8, <4>1 DEF InContext
      <4>3. modules'[dep.id] = modules[dep.id] /\ New(dep.id) = Current(dep.id)
        BY <1>2, <3>4, <4>2
      <4> QED BY <3>2, <4>3 DEF RequirementsMet, Current
    <3> QED BY <3>7, <3>8
  <2> QED BY <2>1, <2>2
<1>11. AllowlistMatchesModules'
  <2> DEFINE W == {n \in Installed : should_be_whitelisted(Current(n))}
             A == {i \in T : Kind[i] = "adapter"}
             Moved == {i.id : i \in A}
  <2>1. /\ whitelist = doubled \cup {modules[n] : n \in W} /\ doubled' = doubled
        /\ \A n \in Installed : modules[n] \notin doubled
    BY <1>0 DEF AllowlistMatchesModules, Unused, UpgradeModules
  <2>2. \A n \in Installed : should_be_whitelisted(New(n)) <=> should_be_whitelisted(Current(n))
    BY <1>0, <1>1, <1>2, <1>3, <1>4 DEF KindStable, should_be_whitelisted
  <2>3. \A m, n \in Installed : modules[m] = modules[n] => m = n
    BY <1>0 DEF Placed
  <2>4. Moved \subseteq W
    BY <1>2 DEF should_be_whitelisted
  <2>5. \A n \in W \ Moved : modules'[n] = modules[n]
    BY <1>2, <1>4
  <2>6. \A i \in A : modules'[i.id] = i
    BY <1>2
  <2>7. whitelist' = (whitelist \cup A) \ {modules[n] : n \in Moved}
    BY DEF UpgradeModules, UpdateWhitelisted, NewAdapters, OldAdapters
  <2>8. A \cap whitelist = {}
    BY DEF UpgradeModules, UpdateWhitelisted, NewAdapters, CanUpdateWhitelist
  <2>9. whitelist' = doubled' \cup {modules'[n] : n \in W}
    <3>1. W \subseteq Installed /\ \A n \in Moved : \E i \in A : i.id = n
      OBVIOUS
    <3>2. \A i \in A : i.id \in Moved
      OBVIOUS
    <3> HIDE DEF W, A, Moved
    <3>3. \A n \in W : modules'[n] \in whitelist'
      BY <2>1, <2>3, <2>4, <2>5, <2>6, <2>7, <2>8, <3>1, <3>2
    <3>4. \A a \in whitelist' : a \in doubled \/ \E n \in W : modules'[n] = a
      BY <2>1, <2>3, <2>4, <2>5, <2>6, <2>7, <2>8, <3>1, <3>2
    <3>5. \A a \in doubled : a \in whitelist'
      BY <2>1, <2>4, <2>7, <3>1
    <3> QED BY <2>1, <3>3, <3>4, <3>5
  <2>10. W = {n \in Installed' : should_be_whitelisted(New(n))}
    BY <1>2, <2>2
  <2> QED BY <2>9, <2>10 DEF AllowlistMatchesModules, Current
<1>12. Unused'
  <2>1. /\ doubled' = doubled /\ doubled \subseteq Addr
        /\ \A n \in Installed : modules[n] \notin doubled
        /\ \A a \in doubled : should_be_whitelisted(a) /\ (InCode(a) => code[a] # None)
    BY <1>0 DEF Unused, TypeOK, UpgradeModules
  <2>2. doubled \subseteq whitelist /\ {i \in T : Kind[i] = "adapter"} \cap whitelist = {}
    BY <1>0 DEF AllowlistMatchesModules, UpgradeModules, UpdateWhitelisted, NewAdapters,
       CanUpdateWhitelist
  <2>3. \A n \in Installed : modules'[n] \notin doubled
    BY <1>2, <1>4, <2>1, <2>2
  <2>4. ASSUME NEW a \in doubled, InCode(a) PROVE code'[a] # None
    <3>1. CASE \E i \in T : InCode(i) /\ modules[i.id] = a
      <4>1. PICK i \in T : InCode(i) /\ modules[i.id] = a
        BY <3>1
      <4> QED BY <1>2, <2>1, <4>1
    <3>2. CASE ~\E i \in T : InCode(i) /\ modules[i.id] = a
      BY <2>1, <2>4, <3>2 DEF UpgradeModules, RunMigrations
    <3> QED BY <3>1, <3>2
  <2> QED BY <1>2, <2>1, <2>3, <2>4 DEF Unused
<1> QED BY <1>5, <1>9, <1>10, <1>11, <1>12

LEMMA FixedStep ==
  ASSUME TypeOK, Fixed, NEW s, ModuleStep(s)
  PROVE  Fixed'
<1>1. ASSUME NEW batch \in InstallInput, InstallModules(s, batch) PROVE Fixed'
  BY <1>1 DEF InstallModules, Instantiate, Fixed
<1>2. ASSUME NEW m \in Id, UninstallModule(s, m) PROVE Fixed'
  BY <1>2 DEF UninstallModule, CanUninstall, RunningVersion, Fixed
<1>3. ASSUME NEW batch \in UpgradeInput, UpgradeModules(s, batch) PROVE Fixed'
  <2>1. ASSUME NEW i \in Targets(batch), InCode(i) PROVE InCode(code[modules[i.id]])
    <3>1. PICK k \in DOMAIN batch : batch[k].to = i
      BY UpgradeListFacts
    <3>2. CanMigrate(batch, k)
      BY <1>3 DEF UpgradeModules
    <3> QED BY <2>1, <3>1, <3>2 DEF CanMigrate, CanMigrateAccount, CanReplaceAdapter,
          CanMigrateApp, CanMigrateStandalone, Current, InCode
  <2>2. ASSUME NEW a \in Addr, ~InCode(a), Kind[a] # "account" PROVE code'[a] = a
    <3>1. code[a] = a
      BY <2>2 DEF Fixed
    <3>2. ~\E i \in Targets(batch) : InCode(i) /\ modules[i.id] = a
      BY <2>1, <2>2, <3>1
    <3> QED BY <1>3, <3>1, <3>2 DEF UpgradeModules, RunMigrations
  <2> QED BY <2>2 DEF Fixed
<1> QED BY <1>1, <1>2, <1>3 DEF ModuleStep

LEMMA ModuleInvariant ==
  ASSUME Discipline
  PROVE  Spec => []ModuleInv
<1>1. Init => ModuleInv
  <2> SUFFICES ASSUME Init PROVE ModuleInv
    OBVIOUS
  <2>1. Installed = {}
    BY DEF Init, Installed
  <2>2. Fixed
    BY DEF Init, Fixed
  <2>3. TypeOK
    <3>1. version \in Version
      BY InfoFacts DEF Init
    <3>2. code \in [Addr -> Info \cup {None}]
      BY DEF Init, Addr
    <3> QED BY <3>1, <3>2 DEF Init, TypeOK
  <2>4. Placed /\ VersionRequirementsHold /\ Unused
    BY <2>1 DEF Placed, VersionRequirementsHold, Unused, Init
  <2>5. DependentsExact /\ AllowlistMatchesModules
    BY <2>1 DEF DependentsExact, AllowlistMatchesModules, Init
  <2> QED BY <2>2, <2>3, <2>4, <2>5 DEF ModuleInv
<1>2. ModuleInv /\ [Next]_vars => ModuleInv'
  <2> SUFFICES ASSUME ModuleInv, [Next]_vars PROVE ModuleInv'
    OBVIOUS
  <2> USE DEF ModuleInv
  <2>1. ASSUME NEW s \in Sender, ModuleStep(s) PROVE ModuleInv'
    <3>1. TypeOK' /\ Fixed'
      BY <2>1, InstallType, UninstallType, UpgradeType, FixedStep DEF ModuleStep
    <3>2. CASE manual
      <4>1. manual'
        BY <2>1, <3>2 DEF ModuleStep, InstallModules, UninstallModule, CanUninstall, RunningVersion, UpgradeModules
      <4> QED BY <3>1, <4>1 DEF Placed, Unused, DependentsExact, VersionRequirementsHold,
            AllowlistMatchesModules
    <3>3. CASE ~manual
      <4> HIDE DEF ModuleInv
      <4>1. Placed' /\ Unused' /\ DependentsExact' /\ VersionRequirementsHold'
              /\ AllowlistMatchesModules'
        BY <2>1, <3>3, InstallInvariant, UninstallInvariant, UpgradeInvariant DEF ModuleStep
      <4> QED BY <3>1, <4>1 DEF ModuleInv
    <3> QED BY <3>2, <3>3
  <2>2. ASSUME NEW s \in Sender, NEW edit \in AddressEdit, UpdateModuleAddresses(s, edit)
        PROVE  ModuleInv'
    <3>1. TypeOK'
      BY <2>2, InputAssumption DEF UpdateModuleAddresses, TypeOK
    <3> QED BY <2>2, <3>1 DEF UpdateModuleAddresses, Placed, Fixed, Unused,
          DependentsExact, VersionRequirementsHold, AllowlistMatchesModules
  <2>3. ASSUME NEW s \in Sender, NEW edit \in WhitelistEdit, UpdateWhitelist(s, edit)
        PROVE  ModuleInv'
    <3>1. TypeOK'
      BY <2>3, InputAssumption DEF UpdateWhitelist, UpdateWhitelisted, TypeOK
    <3> QED BY <2>3, <3>1 DEF UpdateWhitelist, Placed, Fixed, Unused,
          DependentsExact, VersionRequirementsHold, AllowlistMatchesModules
  <2>4. ASSUME UNCHANGED <<modules, dependents, whitelist, code, manual, doubled>>, TypeOK'
        PROVE  ModuleInv'
    BY <2>4 DEF Placed, Fixed, Unused, DependentsExact, VersionRequirementsHold,
       AllowlistMatchesModules, Installed, Current
  <2>5. ASSUME NEW s \in Sender, NEW b \in BOOLEAN, UpdateStatus(s, b) PROVE ModuleInv'
    BY <2>4, <2>5 DEF UpdateStatus, TypeOK
  <2>6. ASSUME NEW i \in Changing, RegistryChange(i) PROVE ModuleInv'
    BY <2>4, <2>6, InputAssumption DEF RegistryChange, TypeOK
  <2>7. CASE UNCHANGED vars
    BY <2>4, <2>7 DEF vars, TypeOK
  <2> HIDE DEF ModuleInv
  <2> QED BY <2>1, <2>2, <2>3, <2>5, <2>6, <2>7 DEF Next, ModuleStep
<1> QED BY <1>1, <1>2, PTL DEF Spec

\* For a library whose publishers keep to Discipline, DEPENDENTS is the inverse
\* of the dependencies after any sequence of installs, uninstalls and upgrades.
THEOREM DependentsStayExact ==
  ASSUME Discipline
  PROVE  Spec => []DependentsExact
<1>1. ModuleInv => DependentsExact
  BY DEF ModuleInv
<1> QED BY <1>1, ModuleInvariant, PTL

\* For such a library no sequence of installs, uninstalls and upgrades leaves an
\* installed module without a dependency in a version it admits.
THEOREM RequirementsAlwaysHold ==
  ASSUME Discipline
  PROVE  Spec => []VersionRequirementsHold
<1>1. ModuleInv => VersionRequirementsHold
  BY DEF ModuleInv
<1> QED BY <1>1, ModuleInvariant, PTL

\* For such a library the allowlist is always the addresses of the installed
\* adapters, apps and ibc client, and of the versions an install list named before
\* another one of the same module.
THEOREM AllowlistStaysExact ==
  ASSUME Discipline
  PROVE  Spec => []AllowlistMatchesModules
<1>1. ModuleInv => AllowlistMatchesModules
  BY DEF ModuleInv
<1> QED BY <1>1, ModuleInvariant, PTL

-----------------------------------------------------------------------------
(* Nothing gets stuck *)

\* The entries of a list are a finite set.
LEMMA BatchFinite ==
  ASSUME NEW S, NEW batch \in Seq(S)
  PROVE  IsFiniteSet(BatchSet(batch))
<1>1. Len(batch) \in Nat /\ DOMAIN batch = 1 .. Len(batch)
  OBVIOUS
<1>2. batch \in Surjection(1 .. Len(batch), BatchSet(batch))
  BY <1>1 DEF Surjection, BatchSet
<1>3. ExistsSurjection(1 .. Len(batch), BatchSet(batch))
  BY <1>2 DEF ExistsSurjection
<1> QED BY <1>1, <1>3, FS_NatSurjection

\* What the messages put on the allowlist is finite; an edit by hand can name anything.
AllowlistFinite == ~manual => IsFiniteSet(whitelist)

\* Each message adds finitely many addresses.
LEMMA AllowlistStaysFinite == Spec => []AllowlistFinite
<1>1. Init => AllowlistFinite
  BY FS_EmptySet DEF Init, AllowlistFinite
<1>2. ASSUME AllowlistFinite, ~manual, NEW add, NEW remove, IsFiniteSet(add),
             whitelist' = (whitelist \cup add) \ remove
      PROVE  AllowlistFinite'
  <2>1. IsFiniteSet(whitelist \cup add)
    BY <1>2, FS_Union DEF AllowlistFinite
  <2>2. IsFiniteSet((whitelist \cup add) \ remove)
    BY <2>1, FS_Difference
  <2> QED BY <1>2, <2>2 DEF AllowlistFinite
<1>3. AllowlistFinite /\ [Next]_vars => AllowlistFinite'
  <2> SUFFICES ASSUME AllowlistFinite, [Next]_vars PROVE AllowlistFinite'
    OBVIOUS
  <2>1. CASE manual'
    BY <2>1 DEF AllowlistFinite
  <2>2. CASE UNCHANGED <<whitelist, manual>>
    BY <2>2 DEF AllowlistFinite
  <2>3. ASSUME NEW s, NEW batch \in InstallInput, InstallModules(s, batch), ~manual'
        PROVE  AllowlistFinite'
    <3> DEFINE add == {i \in BatchSet(batch) : should_be_whitelisted(i)}
    <3>1. IsFiniteSet(BatchSet(batch))
      BY BatchFinite, InputAssumption
    <3>2. IsFiniteSet(add)
      BY <3>1, FS_Subset
    <3>3. ~manual /\ whitelist' = (whitelist \cup add) \ {}
      BY <2>3 DEF InstallModules, UpdateWhitelisted
    <3> HIDE DEF add
    <3> QED BY <1>2, <3>2, <3>3
  <2>4. ASSUME NEW s, NEW m \in Id, UninstallModule(s, m), ~manual'
        PROVE  AllowlistFinite'
    <3>1. ~manual
      BY <2>4 DEF UninstallModule
    <3>2. CASE whitelist' = whitelist
      BY <3>1, <3>2 DEF AllowlistFinite
    <3>3. CASE whitelist' = (whitelist \cup {}) \ {modules[m]}
      BY <1>2, <3>1, <3>3, FS_EmptySet
    <3> QED BY <2>4, <3>2, <3>3 DEF UninstallModule, UpdateWhitelisted
  <2>5. ASSUME NEW s, NEW batch \in UpgradeInput, UpgradeModules(s, batch), ~manual'
        PROVE  AllowlistFinite'
    <3> DEFINE T == Targets(batch)
               Request == [to : Info, latest : BOOLEAN]
    <3>1. ~manual /\ whitelist' = (whitelist \cup NewAdapters(T)) \ OldAdapters(T)
      BY <2>5 DEF UpgradeModules, UpdateWhitelisted
    <3>2. IsFiniteSet(T)
      <4> DEFINE to == [k \in DOMAIN batch |-> batch[k].to]
      <4>1. batch \in Seq(Request)
        BY InputAssumption
      <4>2. Len(batch) \in Nat /\ DOMAIN batch = 1 .. Len(batch)
        <5> HIDE DEF Request
        <5> QED BY <4>1
      <4>3. to \in Seq(Info)
        BY <4>2, UpgradeListFacts
      <4>4. BatchSet(to) = T
        BY UpgradeListFacts DEF BatchSet
      <4> HIDE DEF to, T
      <4> QED BY <4>3, <4>4, BatchFinite
    <3>3. IsFiniteSet(NewAdapters(T))
      <4>1. NewAdapters(T) \in SUBSET T
        BY DEF NewAdapters
      <4> QED BY <3>2, <4>1, FS_Subset
    <3> QED BY <1>2, <3>1, <3>3
  <2> QED BY <2>1, <2>2, <2>3, <2>4, <2>5 DEF Next, vars, UpdateModuleAddresses,
        UpdateWhitelist, UpdateStatus, RegistryChange
<1> QED BY <1>1, <1>3, PTL DEF Spec

\* For a library whose publishers keep to Discipline, a module that nobody depends on
\* can be uninstalled: DEPENDENTS has no stale entry for it, and the allowlist has the
\* entry that is to be removed.
THEOREM NoModuleGetsStuck ==
  ASSUME Discipline
  PROVE  Spec => []NoStuckModule
<1>1. ModuleInv /\ AllowlistFinite /\ AllowlistBounded => NoStuckModule
  <2> SUFFICES ASSUME ModuleInv, AllowlistFinite, AllowlistBounded, NEW m \in Installed,
                      ~manual, ~suspended, NestedOwner # {},
                      Current(m) \in HasData, Current(m) \in registered,
                      \A n \in Installed : ~DependsOn(Current(n), m)
               PROVE  \E s \in Sender : CanUninstall(s, m)
    BY DEF NoStuckModule
  <2>1. PICK s \in Sender : s \in NestedOwner
    BY InputAssumption
  <2>2. m \in Id /\ modules[m] # None /\ Current(m) \in Info
    BY DEF Installed, ModuleInv, Placed
  <2>3. UninstallChecks(m)
    BY <2>2 DEF UninstallChecks, HasNoDependents, ModuleInv, DependentsExact, Current
  <2>4. RunningVersion(m) = Current(m)
    BY <2>2, InfoAssumption DEF RunningVersion, Current, Discipline, HonestCode
  <2>5. ASSUME should_be_whitelisted(Current(m)) PROVE CanUpdateWhitelist({}, {modules[m]})
    <3>1. modules[m] \in whitelist
      BY <2>5 DEF ModuleInv, AllowlistMatchesModules
    <3>2. IsFiniteSet(whitelist) /\ Cardinality(whitelist) \in Nat
      BY FS_CardinalityType DEF AllowlistFinite
    <3>3. Cardinality(whitelist \ {modules[m]}) = Cardinality(whitelist) - 1
      BY <3>1, <3>2, FS_RemoveElement
    <3>4. Cardinality(whitelist) # 0
      BY <3>1, <3>2, FS_EmptySet
    <3>5. Cardinality({}) = 0 /\ Cardinality({modules[m]}) = 1
      BY FS_EmptySet, FS_Singleton
    <3>6. (whitelist \cup {}) \ {modules[m]} = whitelist \ {modules[m]}
      OBVIOUS
    <3> QED BY <3>2, <3>3, <3>4, <3>5, <3>6, InputAssumption
          DEF CanUpdateWhitelist, AllowlistBounded
  <2>6. CanUninstall(s, m)
    BY <2>1, <2>3, <2>4, <2>5 DEF CanUninstall
  <2> QED BY <2>6
<1> QED BY <1>1, ModuleInvariant, AllowlistStaysFinite, AllowlistStaysBounded, PTL

-----------------------------------------------------------------------------
(* Upgrades do not go back *)

\* The account's own version only rises, whatever the library.
LEMMA VersionRises ==
  ASSUME TypeOK, [Next]_vars
  PROVE  version <= version'
<1>0. version \in Nat
  BY VersionAssumption DEF TypeOK
<1>1. ASSUME NEW s \in Sender, NEW batch \in UpgradeInput, UpgradeModules(s, batch)
      PROVE  version <= version'
  <2>1. CASE version' = version
    BY <1>0, <2>1
  <2>2. CASE \E i \in Targets(batch) : i.id = Account /\ version' = Reports[i]
    <3>1. PICK i \in Targets(batch) : i.id = Account /\ version' = Reports[i]
      BY <2>2
    <3>2. PICK k \in DOMAIN batch : batch[k].to = i
      BY UpgradeListFacts
    <3>3. CanMigrate(batch, k)
      BY <1>1 DEF UpgradeModules
    <3>4. <<version, Reports[i]>> \in Bump
      BY <3>1, <3>2, <3>3 DEF CanMigrate, CanMigrateAccount
    <3>5. \A u, v : <<u, v>> \in Bump => u \in Nat /\ v \in Nat /\ u < v
      BY VersionAssumption
    <3>6. Reports[i] \in Nat /\ version < Reports[i]
      BY <3>4, <3>5
    <3> QED BY <1>0, <3>1, <3>6
  <2> QED BY <1>1, <2>1, <2>2 DEF UpgradeModules
<1>2. CASE version' = version
  BY <1>0, <1>2
<1>3. CASE Next
  BY <1>1, <1>2, <1>3 DEF Next, InstallModules, UninstallModule, CanUninstall, RunningVersion, UpdateModuleAddresses,
     UpdateWhitelist, UpdateStatus, RegistryChange
<1> QED BY <1>2, <1>3 DEF vars

\* What a list admits is not older than what runs, or it is what the registry calls
\* latest for a contract that does not check its own migration.
LEMMA RequestsRise ==
  ASSUME HonestCode, TypeOK, NEW s, NEW batch \in UpgradeInput, UpgradeModules(s, batch),
         NEW i \in Targets(batch), Kind[i] # "account", Current(i.id) \in Info
  PROVE  \/ Reports[Current(i.id)] <= Reports[i]
         \/ IsLatest(i) /\ (Kind[i] = "adapter" \/ i \notin HasData)
<1> DEFINE c == Current(i.id)
<1>1. PICK k \in DOMAIN batch : batch[k].to = i
  BY UpgradeListFacts
<1>2. /\ CanMigrate(batch, k) /\ Requested(batch[k])
      /\ i \in Info /\ Reports[i] = i.version
      /\ Reports[i] \in Nat /\ Reports[c] \in Nat
  BY <1>1, UpgradeListFacts, InfoAssumption, VersionAssumption DEF UpgradeModules, HonestCode
<1>3. CanReplaceAdapter(i) \/ CanMigrateApp(i) \/ CanMigrateStandalone(i)
  BY <1>1, <1>2 DEF CanMigrate, CanMigrateAccount
<1>4. CASE Kind[i] # "adapter" /\ i \in HasData
  <2>1. <<Reports[c], Reports[i]>> \in Bump
    BY <1>3, <1>4 DEF CanReplaceAdapter, CanMigrateApp, CanMigrateStandalone
  <2>2. \A u, v : <<u, v>> \in Bump => u < v
    BY VersionAssumption
  <2> QED BY <1>2, <2>1, <2>2
<1>5. CASE Kind[i] = "adapter" \/ i \notin HasData
  <2>1. IsLatest(i) \/ NotOlder(i.id, i.version)
    BY <1>1, <1>2 DEF Requested
  <2>2. i.id # Account
    BY <1>1, <1>2 DEF CanMigrate, CanMigrateAccount
  <2> QED BY <1>2, <1>5, <2>1, <2>2 DEF NotOlder
<1> QED BY <1>4, <1>5

\* For a library whose publishers keep to Discipline, whatever the texts of its
\* versions: no message takes the account's own code back, and the code of an installed
\* module goes back only to what the registry calls latest, for an adapter or a contract
\* without module data.
THEOREM UpgradesNeverGoBack ==
  ASSUME Discipline
  PROVE  Spec => NoDowngrade
<1> DEFINE Rises(m, new) ==
             \/ Reports[Current(m)] <= Reports[new]
             \/ IsLatest(new) /\ (Kind[new] = "adapter" \/ new \notin HasData)
           Kept == \A m \in Installed : modules'[m] # None => Rises(m, code'[modules'[m]])
<1>1. ASSUME ModuleInv, [Next]_vars, ~manual' PROVE Kept
  <2> SUFFICES ASSUME NEW m \in Installed, modules'[m] # None
               PROVE  Rises(m, code'[modules'[m]])
    OBVIOUS
  <2>0. /\ HonestCode /\ TypeOK /\ Placed /\ Fixed /\ m \in Id
    BY <1>1 DEF Discipline, ModuleInv, Installed
  <2>1. ~manual
    BY <1>1 DEF Next, InstallModules, UninstallModule, CanUninstall, RunningVersion, UpgradeModules, UpdateModuleAddresses,
       UpdateWhitelist, UpdateStatus, RegistryChange, vars
  <2>2. Current(m) \in Info
    BY <2>0, <2>1 DEF Placed
  <2>3. CASE modules'[m] = modules[m] /\ code'[modules[m]] = code[modules[m]]
    <3>1. Reports[Current(m)] \in Nat
      BY <2>2, InfoAssumption, VersionAssumption
    <3> QED BY <2>3, <3>1 DEF Current
  <2>4. ASSUME NEW s \in Sender, NEW batch \in InstallInput, InstallModules(s, batch)
        PROVE  modules'[m] = modules[m] /\ code'[modules[m]] = code[modules[m]]
    BY <2>0, <2>1, <2>4, InstallPlacement
  <2>5. ASSUME NEW s \in Sender, NEW n \in Id, UninstallModule(s, n)
        PROVE  modules'[m] = modules[m] /\ code'[modules[m]] = code[modules[m]]
    BY <2>0, <2>5 DEF UninstallModule, CanUninstall, RunningVersion, TypeOK
  <2>6. ASSUME NEW s \in Sender, NEW batch \in UpgradeInput, UpgradeModules(s, batch)
        PROVE  Rises(m, code'[modules'[m]])
    <3>1. /\ \A i \in Targets(batch) : Kind[i] = "adapter" => modules'[i.id] = i /\ code'[i] = i
          /\ \A i \in Targets(batch) : InCode(i) =>
               modules'[i.id] = modules[i.id] /\ code'[modules[i.id]] = i
          /\ \A i \in Targets(batch) : Kind[i] \in {"adapter", "app", "standalone", "account"}
          /\ (\A i \in Targets(batch) : i.id = m => Kind[i] = "account")
               => modules'[m] = modules[m] /\ code'[modules[m]] = code[modules[m]]
      BY <2>0, <2>1, <2>6, UpgradePlacement
    <3>2. CASE \A i \in Targets(batch) : i.id = m => Kind[i] = "account"
      BY <2>3, <3>1, <3>2
    <3>3. CASE \E i \in Targets(batch) : i.id = m /\ Kind[i] # "account"
      <4>1. PICK i \in Targets(batch) : i.id = m /\ Kind[i] # "account"
        BY <3>3
      <4>2. Rises(m, i)
        BY <2>0, <2>2, <2>6, <4>1, RequestsRise
      <4>3. code'[modules'[m]] = i
        BY <3>1, <4>1 DEF InCode
      <4> HIDE DEF Rises
      <4> QED BY <4>2, <4>3
    <3> QED BY <3>2, <3>3
  <2>7. ASSUME NEW s \in Sender, NEW edit \in AddressEdit, UpdateModuleAddresses(s, edit)
        PROVE  FALSE
    BY <1>1, <2>7 DEF UpdateModuleAddresses
  <2>8. CASE UNCHANGED <<modules, code>>
    BY <2>3, <2>8
  <2> QED BY <1>1, <2>3, <2>4, <2>5, <2>6, <2>7, <2>8
        DEF Next, UpdateWhitelist, UpdateStatus, RegistryChange, vars
<1>2. ModuleInv /\ [Next]_vars => [version <= version' /\ (~manual' => Kept)]_vars
  BY <1>1, VersionRises DEF ModuleInv
<1> QED BY <1>2, ModuleInvariant, PTL DEF Spec, NoDowngrade
=============================================================================
