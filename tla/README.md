# Abstract: a verification project

TLA+ models of the on-chain core of Abstract, the TLC configurations that check
them on small instances, and TLAPS proofs of their main properties for every
value of the constants. Everything is translated from the contracts under
`src/framework` and the applications under `src/modules`; `PROJECT.json` names,
for each definition, the lines it stands for.

- [The system](#the-system) - components, state, operations, interactions
- [What is hard](#what-is-hard) - where the code can go wrong unnoticed
- [The modules](#the-modules) - how each one corresponds to the code
- [The runs](#the-runs) - what each checks, its bounds, what it shows
- [The proofs](#the-proofs) - what holds for every instance, and why
- [Disagreements found](#disagreements-found)
- [What is not modelled](#what-is-not-modelled)
- [What comes next](#what-comes-next)

## The system

Abstract is a set of CosmWasm contracts. An **account** is a contract that holds
a user's assets and runs the modules the user installs. A **registry** knows
every account, every published module and the namespaces they are published
under. A **module factory** instantiates modules, a **name service** maps names
to addresses and assets, and an **IBC client** and **IBC host** let an account act
on other chains. Applications (voting, subscriptions, payments) are modules.

A contract runs one message at a time, and a message commits with everything it
sends to other contracts, or reverts with it. So there is no interleaving within
a transaction; the concurrency is between transactions of different senders, and
between two chains.

| Component | State | Operations that change it | Correct when |
|---|---|---|---|
| registry | `PENDING_`, `REGISTERED_`, `YANKED_MODULES`, `STANDALONE_INFOS`, `SERVICE_INFOS`, `MODULE_CONFIG`, `MODULE_DEFAULT_CONFIG`, `NAMESPACES`, `REV_NAMESPACES`, `ACCOUNT_ADDRESSES`, `LOCAL_ACCOUNT_SEQUENCE`, `CONFIG`, the contract's owner | propose, approve, reject, yank, remove; configure a module; claim and forgo a namespace; add an account; change the settings and the admin | each module info has one status and one code; namespaces and holders are inverse; account ids are unique and permanent; configuration does not outlive its module |
| account: modules | `ACCOUNT_MODULES`, `DEPENDENTS`, `WHITELISTED_MODULES`, cw2 version, `SUSPENSION_STATUS` | install, uninstall, upgrade, manual edits, suspend | dependencies are present in a version that fits; dependents are exact; only the contracts of installed modules may act |
| account: ownership | `OWNERSHIP` (owner, pending owner, expiry), `SUB_ACCOUNTS` | instantiate, create a sub-account, transfer, accept, renounce, (un)register, suspend | parent and sub-account agree; renouncing leaves no orphan; the top-level owner reaches its sub-accounts |
| account: execution | `CALLING_TO_AS_ADMIN`, `WHITELISTED_MODULES` | execute messages, admin execute, execute on a module, ICA actions | rights given for one call do not outlive it |
| module factory | `CONFIG`, owner | install several modules with their fees | each module gets the funds its configuration asks for |
| ans-host | assets, contracts, channels, dexes, pools and the reverse maps | add and remove entries | both directions of every mapping agree; a pool is found by every pair it trades |
| ibc-client | `IBC_INFRA`, `REVERSE_POLYTONE_NOTE`, `ACCOUNTS`, `ICS20_ACCOUNT_CALLBACKS` and their payloads | register infrastructure, register an account, remote action, send funds, callbacks | the client knows the remote account that exists; funds that do not arrive come back once |
| ibc-host | `CHAIN_PROXIES`, `REVERSE_CHAIN_PROXIES`, `TEMP_ACTION_AFTER_CREATION` | register and remove proxies, execute a packet, create the account first if it is missing | one account per remote id; an action runs at most once |
| voting object | proposals, votes, vote configuration | new proposal, vote, count, veto, cancel | a proposal is decided once, by what its configuration said |
| challenge app | challenges, proposals, friends | create, edit, vote, count, veto, cancel | the account pays for a vote that passed, once; a challenge that ended stays ended |
| calendar app | meetings per day, stakes, price and denom | book, return or slash a stake, configure | meetings do not collide; a stake is shared out once, to the last coin, and can be paid |
| subscription app, time-weighted average | subscribers, expiry, emissions, accumulated income | pay, unsubscribe, claim, refresh | nobody is served unpaid, nobody is paid twice |
| protocol adapters, other apps, SDK, client, macros, integrations | fee configuration, or none | translate one request into messages | listed in `PROJECT.json`, not modelled |

How they interact:

- the **account** asks the **registry** for every module it installs, upgrades or
  uninstalls, and for its own code when it migrates; it registers itself in the
  registry when it is instantiated, and gives its namespace back when it is
  renounced;
- a **sub-account** tells its **parent** about itself when it is created, moved or
  renounced, by messages in the same transaction;
- installation goes from the account through the **module factory** to the chain,
  and ends in a reply of the account; an upgrade sends migrate messages and ends
  in a callback of the account to itself;
- the **IBC client** and **host** exchange packets through Polytone. Nothing
  bounds how long a packet travels; it may time out, and an ICS-20 transfer
  travels separately from the message that belongs to it.

## What is hard

`PROJECT.json` lists every hazard at its line with the properties that would
catch it. They fall into seven groups.

1. **One relation kept in two places.** `NAMESPACES` and `REV_NAMESPACES`;
   `SUB_ACCOUNTS` of the parent and `OWNERSHIP` of the sub-account;
   `ACCOUNT_MODULES`, `DEPENDENTS` and `WHITELISTED_MODULES`; names, pools and their
   indexes; subscribers and their counter. Each operation updates every side
   itself, and each early return is a chance to update one.
2. **A decision that outlives its reason.** A module is proposed, then its
   namespace is released; a transfer is offered, then the account is renounced or
   suspended; a version is installed, then yanked; friends are listed as voters,
   then edited; a stake is paid, then price and denom change.
3. **Lists handled one element at a time.** A batch of upgrades passes states in
   which requirements do not hold; a check made per element does not see what
   earlier elements of the same list will do.
4. **Limits, rounding and order of numbers.** Sequenced account ids next to ids
   chosen by the creator from 2^31 on; an allowlist with a hard limit; versions
   sorted as text; recursion over owners that stops after two accounts; income,
   prices, thresholds and penalties that are rounded in different directions; a
   number of seconds that is cut to 64 bits.
5. **Clocks read lazily.** The status of a proposal is derived when it is loaded;
   income is accumulated when somebody calls; whoever changes a price or a count
   has to bring the books up to date first.
6. **Rights within one transaction.** `CALLING_TO_AS_ADMIN` is set before a message
   and cleared by its reply, while the called contract may call back, fail and be
   caught.
7. **Two chains.** A packet that times out or is refused, an account created on the
   way and never reported, channels removed while packets fly, funds that come
   back to the wrong contract.

## The modules

| Module | Models | State and actions |
|---|---|---|
| `Registry` | `contracts/native/registry` | one variable per stored map; one action per execute message |
| `AccountModules` | `contracts/account`: modules.rs, modules/migration.rs, versioning.rs, reply.rs, config.rs | one account; one action per message with its sub-messages and its reply |
| `SubAccounts` | `contracts/account`: contract.rs, sub_account.rs, config.rs; `abstract-std`: gov_type.rs, gov_ownable.rs, nested_admin.rs | any number of accounts; one action per message with the messages it sends |
| `AdminCalls` | `contracts/account`: execution.rs, modules/migration.rs; `abstract-std`: nested_admin.rs; `abstract-adapter`: endpoints/execute.rs | the tree of calls of a transaction; one action per call, return and failure |
| `RemoteCalls` | what a caller of the IBC client may rely on | an abstract specification: a request is asked, performed or rejected, closed |
| `Interchain` | `contracts/native/ibc-client`, `contracts/native/ibc-host`; Polytone, ICS-20 and the relayer as external | the maps of the clients and hosts of any number of chains, and the packets; one action per transaction on one chain |
| `AnsHost` | `contracts/native/ans-host` | one variable per map; one action per execute message; a reader that pages through the pools |
| `Clock` | the block time | the clock the applications read, shared by the modules below |
| `Voting` | `abstract-std`: voting.rs | the maps of the object; its operations, for a contract to use within its own |
| `Challenge` | `modules/contracts/apps/challenge`, on `Voting` | one action per execute message |
| `TimeWeightedAverage` | `abstract-std`: time_weighted_average.rs | pure operators on the stored record |
| `Subscription` | `modules/contracts/apps/subscription`, on `TimeWeightedAverage` | one action per execute message |
| `Calendar` | `modules/contracts/apps/calendar` | one action per execute message |
| `MC...` | | the small instances TLC checks |
| `NativeProofs` | | the theorems about `Registry` and `AnsHost` |
| `AppProofs` | | the theorems about `Subscription` and `Calendar` |
| other `...Proofs` | | the theorems about the module of that name |
| `FoldLemmas` | | induction, recursive functions, folds and sums, for the proofs |

The mutated definitions (`IdIsFreeUnchecked`, `Silent_Moved`, ...) are plausible
slips of the code, each next to the definition it varies. No specification uses
them; with one of them in place of the original the property named in
`PROJECT.json` fails, which shows the property depends on that code.

**Common conventions.** A failed message changes nothing, so every error path is
the negation of a guard. A map is a function into its values and `None` (`Absent` in
`AnsHost`). `AnsHost` and `Calendar` say `AnsSpec`, `CalendarSpec` and so on, because each
shares a module of proofs with another specification. Time
is a clock in the applications; elsewhere it appears only as an expiry that lies
ahead or has been reached. Either way its passing is a step of the environment. Whoever may send a message is a constant set; the
guard decides who is heard.

### Registry

`pending`, `registered` and `yanked` are the three module maps; `InLibrary` is the
check of a proposal against all three. A proposal goes to the queue
(`ProposeForApproval`) while security is enabled and straight into the library
(`RegisterDirectly`) otherwise, where the admin may also overwrite. `ApproveModule`,
`RejectModule`, `YankModule` and `RemoveModule` are the other steps; the last
clears the versioned configuration, and the default one with the last version of
the name. `ForgoNamespace` and `RenounceAccount` release a namespace and yank its
modules (`YankNamespace`). `AddAccount` is the message an account sends when it is
instantiated; its id is the next of the sequence, a predictable one or a remote
one, and it may claim a namespace in the same message.

Decisions worth knowing:

- Lists of modules or namespaces in one message are modelled one element at a
  time. The elements are handled one after another without looking at each other,
  so the states between them are the only extra states.
- A deployed contract that reports another name or version than proposed is
  refused; which pairs pass is the constant `DataValid`, and `Proposable` are those
  that pass the checks made on every proposal.
- An account contract, its owner and its owner's changes are external
  (`AccountOwnerChanged`): the registry queries them and does not keep them.
- A fee is paid or not; the balances are the bank's. An admin transfer that
  expires is one that is never accepted.
- `direct` records that security was off in some state. Two properties hold only
  as long as it was not.

### AccountModules

An address is named by the version first put there, since an adapter has one
address per version and an app gets the address of its code for this account.
`code` says which version runs at an address after migrations; `Current(m)` is the
version of `m` that runs. `Deps` are the requirements written in a module's own
storage, and `Reports` the version it reports there, because the account trusts
those and not the registry.

`InstallModules` checks each element against the installed modules, writes them,
and in the reply checks the requirements of the apps, adapters and standalones
and adds their dependents. `UpgradeModules` walks the list in order: an adapter is
replaced by another address, an app is migrated in place, a standalone is
migrated without further checks, and the account itself goes last; the callback
afterwards checks the requirements of everything that changed, and the dependents
are moved for the dependencies that came or went. A request names a version, or the
latest one: `IsLatest` is the registry's answer, the last of the keys, which are texts
(`TextRank`), that is not a prerelease (`Release` are the others). `UninstallModule` needs that
nobody depends on the module and that its version is still registered (`CanUninstall`
is everything that can refuse it).
`UpdateModuleAddresses` and `UpdateWhitelist` are `UpdateInternalConfig`: the owner
edits the maps by hand, which `manual` records. `RegistryChange` is the registry
yanking a version or registering it. `doubled` records the addresses that an install list
put on the allowlist although a later element of the same list took their place.

`INSTALL_MODULES_CONTEXT`, `MIGRATE_CONTEXT` and `CALLING_TO_AS_ADMIN` live inside one
transaction and are not variables.

### SubAccounts

`Direct`, `SubAccount`, `NFT` and `Renounced` are the kinds of `GovernanceDetails` the
code treats differently. `TopLevelOwner` follows the owners of sub-accounts at most
`MAX_ADMIN_RECURSION` times, as the query does, and `IsNestedOwner` is the check made
of the sender of most messages. `Moved` is the pair of messages to the old and the
new parent that a change of owner sends; `CanRegister` and `CanUnregister` are what
those parents answer. `CanAccept` collects everything that can refuse an acceptance, in
the account or in the parents it tells. Any created account may send a message, because its owner or
one of its modules can have it execute one; so an account may also take itself off
its parent's list, which `spoke` records. NFTs change hands and burn outside the
system (`TransferToken`).

### AdminCalls

The other modules treat a transaction as one step. This one opens it up, for the
rights an account has in the middle of one. `stack` holds the messages under way;
a frame remembers who sent the message, what its contract has still to send, and
what was stored when it began. A free contract (the owner, an installed app, a
stranger) sends what it likes and may catch failures; the account sends the list
it was asked for and hears of success only. `Fail(k)` undoes everything back to the
frame whose sender catches. `mark` is `CALLING_TO_AS_ADMIN`: `AdminExecute` sets it to
the contract it calls, `Upgrade` to a wildcard, whatever it was, and the reply clears
it (`MarkAfter`). An adapter takes a message from the account for the admin's if the
mark says so (`IsAdminCall`). Upgrading an adapter reads the authorised addresses at
once and moves them by messages (`ReplaceMsgs`), among which the app's migration may
run and change them.

### Interchain and RemoteCalls

One action is one transaction on one chain. A request is a packet from its sending
on: `status` goes from `unsent` over `flying` to `done` or `failed`, and with the
acknowledgement to `closed`. Packets may be executed in any order, at any time or
never before their timeout (`Fail`, which also stands for a host that refuses and
undoes). Acknowledgements come in any order, and are ignored if the note is not
registered any more (`AckIgnored`). `HostAccountId` and `ClientToHostModuleAccountId`
are the two ways a host turns the id of an account into that of its counterpart.
Notes and proxies are registered and removed on both sides independently. `Fund` may
be called by anybody, for any remote account. The coin of a transfer is external and
is in one place: in transit, on the other chain, with the client contract or with the
account. `effect`, `answer` and `acted` are history. `TEMP_ACTION_AFTER_CREATION` and
`ICS20_ACCOUNT_CALLBACK_PAYLOAD` live inside one transaction.

`RemoteCalls` is the promise to a caller: a request takes effect at most once, only
while it is open, and an answer, if one comes, says truthfully whether it did.
`Interchain` implements it with `stage` mapped by `StageOf(status)`, and `effect` and
`answer` as they are.

### AnsHost

Lists of one message are handled in order, adds before removes, by folds as the code
does: one operator for an entry (`SetEntry`, `AddAsset`, `RegisterDex`) and one for the list
(`SetEntries`, `AddAssets`, `RegisterDexes`). `Lower` is the formatting of names; what is stored in lower case, and what is
compared as it was written, follows the code for each map. A pool is indexed under
every ordered pair of different assets (`PairsOf`) and removed by what its metadata
says. The query of pools has four forms, which read the dex differently: by key as it is
written (`PoolEntries`), by pair and dex in lower case (`ListPoolEntries`), by pair in pages
in the order of the keys (`PairPage`, `KeyRank`), and without a pair, where a dex is
compared as it is written and the limit is ignored (`ListEntries`). The reader asks for pages of `list_pool_metadata_entries` with the last id it
was shown, and the owner goes on between two pages.

### Voting and Challenge

`StatusAt` derives what a stored proposal is from the clock, as `load_proposal` does.
`Challenge` calls the operations within its own messages: the first vote after the
last proposal has ended opens the next (`VoteOnNew`), and a vote that passed charges
the account when it is counted (`Count`). A friend is an address and a name, or an
account, so two friends may have one address. `charges` is history.

### Subscription and TimeWeightedAverage

Decimals are whole numbers of units, `Unit` of which make one, so every rounding of
the code is there. A payment buys `Bought` seconds, of which `PaidSeconds` are credited: the
code casts the number to 64 bits, so the remainder by `U64` (2^64 in the code). A payment subscribes, extends or renews; `Unsubscribe` takes a
list in order, by anybody; `ClaimEmissions` pays for the seconds since the last claim.
The histories count the seconds an address has been on the list, those it was paid
emissions for, and those of all subscriptions.

### Calendar

Times are seconds, dates are local (`DateOf`, `TimeOf` with `Offset`), and a meeting is
filed under its date in the order of requests. `HandleStake` is the part the three
messages share. The stake is paid in the denom of the configuration at the time.

## The runs

All sizes are distinct states of an exhaustive search. Deadlock is not checked:
each contract only reacts to messages, nobody is obliged to send one, and some
states (a renounced account, a registry without admin) accept hardly any.

| Run | States | Checks | Shows |
|---|---|---|---|
| `registry_library` | 2,030,424 | `NamespacesInverse`, `ExclusiveStatus`, `ConfigBacked`, `ReferenceNeverSwapped`, `SequenceDense` | the life cycle of a module info under every order of proposals, decisions, releases, accounts that register and are renounced, settings and admins |
| `modules_lifecycle` | 824,368 | `DependentsExact`, `VersionRequirementsHold`, `AllowlistMatchesModules`, `NoStuckModule`, `NoDowngrade` | one account through installs, upgrades in batches of any order and to the latest version, uninstalls, yanks, suspension and manual edits |
| `sub_accounts_ownership` | 328,770 | `SubAccountsMatchOwners`, `OpenTransferCanComplete`, `OwnerReachesSubAccounts`, `NoOrphans`, `FinalOwners` | three accounts created under, offered to and renounced by each other in any order |
| `admin_calls` | 968,938 | `AdminRightsFromOwner`, `AuthorizedByOwner`, `UpgradeMovesAuthorized` | every tree of calls up to four deep, each call failing or caught anywhere |
| `interchain_calls` | 387,996 | `RecordedAccountsExist`, `ControlFollowsTrace`, `ModulesCallBack`, `TransfersSettle`, `ImplementsRemoteCalls`, `CallersAreTold`, `RefundsArrive` | two chains, requests of every kind in both directions, packets lost, late and refused, channels removed and registered again; the refinement and the liveness |
| `ans_names` | 251,712 | `AnsTypeOK`, `PairingsMatchPools`, `NamesFindBack`, `PagingMissesNothing` | names, dexes and pools added and removed under a reader that pages and asks in every form |
| `challenge_votes` | 948,598 | `OutcomesMatchVotes`, `VotersAreFriends`, `PenaltiesJustified`, `SettledInTime`, `EndedStaysEnded` | votes, changes of mind, edits, vetoes, counts and a clock that passes every deadline |
| `subscription_income` | 2,443,968 | `CountMatchesList`, `SecondsRewardedOnce`, `IncomeTracksSubscribers`, `PaidTimeIsServed` | payments, claims and removals while price and emissions change |
| `calendar_stakes` | 761,808 | `StakesAccountedFor` | meetings booked and settled in every order and way while price and denom change |
| `registry_orphans`, `challenge_strikes`, `calendar_collisions` | | one property each | a sentence of the documentation or a comment that the code does not keep; see [below](#disagreements-found) |

Type invariants are proved for every instance (see [below](#the-proofs)). Only the run of
`AnsHost` checks one, since there it also says how names are stored.

### Bounds, and why they are enough

- `registry_library`: one module info besides the account's own code, with two
  references of different kinds that compete for it, two accounts and one
  namespace besides `abstract`. Every property speaks of one info, one name or one
  namespace with its holder. Two accounts are needed for a namespace that changes
  hands and two references for one that is swapped. The ids are two of the sequence,
  since a gap or a reuse needs two, and a predictable one that may come between them; a
  remote id differs in one more guard and is left to the proofs. The namespace fee can be
  switched on, and a claim then needs account 0 to exist. Only one part of a versioned
  configuration is set, because the parts are never compared. `Addr` is a symmetry
  set: no action names an account contract.
- `modules_lifecycle`: an adapter, two apps of which one needs the other, a
  standalone, a service, the IBC client and the account, two versions of each that
  is upgraded and a prerelease of the adapter between its two; one install list names
  both versions of the adapter. Requirements differ between versions, so that some batches work in
  one order only, a dependency appears with an upgrade, and some upgrades must be
  refused. The allowlist holds three entries (15 in the code), so that it fills up.
- `sub_accounts_ownership`: a chain of three accounts is the depth the
  documentation promises; the first comes from another chain, and such an account
  cannot become a sub-account. One person, one NFT held by that person or by an
  account, and offers to a person, to the NFT and to an account (itself included).
  `MAX_ADMIN_RECURSION` is 2, as in the code. Deadlines all lie ahead at first, and
  one account suspends and one edits its own entry, which is enough for every
  guard that looks at either.
- `admin_calls`: four messages within each other are an admin call or upgrade of the
  owner, the contract it reaches, what that has the account do, and the contract
  reached by it. One authorised address is allowed, so that the limit is met. The
  messages the account is asked for are to the owner, to the app, and updates that
  add the app, remove it, and take its place in the new version.
- `interchain_calls`: two chains connected both ways, one local account, two packets
  in all. Every property is about one request, its record or its coin, and what a
  second request, a removal or a direct funding does to it. Traces up to two
  chains (6 in the code) let an account go and come back, which is where ids are
  shortened; three would be refused, and is tried.
- `ans_names`: two assets and two dexes under the same two names, one written in two ways,
  two pools of which one names an asset twice, pages of at most two entries (a limit above
  the highest is asked for too) and lists of at most one add and one remove, so that one
  message can add a pool and remove it. Both pools trade the same pair on different
  dexes, so that the pages of a pair differ.
- `challenge_votes`: one challenge, since challenges share nothing but the vote
  configuration and the counter of proposals; two proposals in sequence; two voters,
  one under two names; a majority configuration with a veto period and a percentage
  without. Four time steps pass the end of voting, of the veto and of the challenge.
- `subscription_income`: two addresses (a symmetry set), prices of half, three halves
  and nothing, so that each rounding loses something, shared, per-user and no
  emissions; payments of up to three, and a counter of six values, so that one payment is
  for as many seconds as it has; three seconds with an averaging period of one, so that expiry,
  re-subscription and several averages happen.
- `calendar_stakes`: three meetings and an offset that moves midnight, so that there are
  two local days and three meetings can meet each other in each way; two prices
  and two denoms. Two meetings are enough for a collision.

### Fairness

The contracts do nothing by themselves, so no liveness is claimed within one chain.
What can be asked for instead is that the way out exists: `NoStuckModule` (a module
nobody needs can be uninstalled) and `OpenTransferCanComplete` (an open offer can be
accepted). Both name the guard of the message (`CanUninstall`, `CanAccept`) and are plain
invariants, and so can be proved.

Between chains there is a relayer, and `Interchain` assumes that it is weakly fair for
each packet: a packet under way is executed, refused or timed out (every packet
carries a lifetime, `PACKET_LIFETIME`), and its acknowledgement is delivered. IBC gives
no more and anybody may relay, so this is the weakest assumption under which
something arrives. No fairness is assumed of accounts, modules or admins. The
acknowledgement of a transfer whose actions have to run on the account is exempt,
unless the transfer failed: the actions may fail for as long as they like and the
acknowledgement with them. Under this, `CallersAreTold` and `RefundsArrive` hold; the
first excepts a note whose registration was taken back, because the client then
refuses the callback, although the documentation promises it.

## The proofs

Each `...Proofs` module proves its theorems from the named assumptions on the
constants in the module it extends, which say that inputs have their types, that
`None` is no value, and for times and amounts that they are natural numbers. Nothing
bounds the number of accounts, modules, namespaces, versions, senders, chains,
packets, friends, subscribers, meetings, names or pools, nor the length of a list or the
depth of calls. The type invariant of every component is proved (`TypeCorrect`,
`CalendarTypeCorrect`, `AnsTypeCorrect`).

Every invariant and every action property that a passing run checks is also a theorem.

**FoldLemmas.** The induction theorems of the library take a predicate as a parameter,
and the installed provers cannot supply one. Induction is done by minimal elements
instead: `Lowest` and `Induction` speak of a set of numbers and follow from the
well-foundedness of the naturals (`NatLessThanWellFounded`, `WFMin`), and the facts about
sums from that of the subsets of a finite set (`FS_StrictSubsetOrderingWellFounded`). A
function that is defined by recursion is a `CHOOSE` of one that satisfies its equation,
so there has to be one: `ChainExists` gives it along the naturals and `FoldExists` over the
subsets of a finite set. On these rest `LeftFoldStays` (a list none of whose entries
leads out of a set does not lead out of it, for `FoldLeft`) and `SumIs`, `SumTakesOut`,
`SumGrows` and `SumChanges` (what a sum is, that its order does not matter, and how it
moves with one member).

**Registry.** `TypeCorrect` needs only itself. `NamespacesStayInverse` is inductive
with types: the step that matters is a claim, which needs both the namespace and
the account to be free, and the lemmas are about the two ways the pair of maps
changes (`ClaimKeepsInverse`, `ReleaseKeepsInverse`). `SequenceStaysDense` and
`AccountsArePermanent` rest on `OnlyAddAccountAddsAccounts`. `StatusIsExclusive` and
`ReferencesAreNeverSwapped` need the stronger `LibraryInv`: exclusive status alone is
not inductive, since a direct registration breaks it; `DirectMeansInsecure` adds
that the history variable is set whenever security is off, so that the steps to be
examined are those of a registry that was always secure. `ConfigStaysBacked` needs
only types and looks at the steps that take a module out of the library: removal
clears the configuration, and the other steps move the module. `ForgoAlwaysUnregisters`
is about single steps.

**AccountModules.** `TypeCorrect` and `AllowlistStaysBounded` hold without hypotheses;
the second covers manual edits. `DependentsStayExact`, `RequirementsAlwaysHold` and
`AllowlistStaysExact` are proved together, from `ModuleInv`: types, `Placed` (an
installed module sits at an address made for it and runs a version of its own id), `Fixed` (an adapter, service or native still runs the version its address
was made for), `Unused` (an address in `doubled` is allowlisted and not an installed module's), and the three properties. None is inductive alone. That an upgrade
is allowed is decided by asking the dependents, so requirements need
`DependentsExact`; that dependents are moved correctly needs the requirements of the
module before and after; and the old address leaves the allowlist only if it was
there. The hypothesis `Discipline` collects what the account trusts and does not
check:

- `HonestCode`: code reports the version it is registered under;
- `OneBoundPerDependency`: a module names each dependency once;
- `KindStable`: a module keeps its kind from version to version;
- `StandaloneInert`: nothing depends on a standalone, and its dependencies never
  change (upgrading a standalone skips every check);
- `PlainContracts`: natives and services declare no dependencies.

Install lists are arbitrary: one that names a module twice leaves the addresses in
`doubled` on the allowlist, and `Unused` keeps these apart from what is installed.

`NoModuleGetsStuck` follows from the same invariant and `AllowlistFinite`: the dependents of
the module are exact, so none is stale, and its entry on the allowlist is there; removing
it makes the list shorter, which is where the list has to be finite.
`UpgradesNeverGoBack` needs no assumption on the order of texts: a request by version is
refused if it is older, an app and the account refuse when they migrate, and what is left
is a request for the latest version of an adapter, which is in the statement.

**SubAccounts.** Every theorem holds without hypotheses. `OwnershipInv` is types,
`SubAccountsMatchOwners` and `FinalIdle` (an account that is renounced or owned by an
NFT has no open offer). `FinalIdle` is the strengthening that makes owners final:
without it an offer made before could be accepted after. `MovedEffect` says once
what the two messages to the parents do to all lists, and every step that changes
an owner cites it. From the invariant follow `SubAccountsStayMatched`,
`OwnersAreFinal`, `RenouncingLeavesNoOrphans` and `SuspensionAlwaysFreezes`.
`OpenTransfersCanComplete` needs that parents and proposed parents are accounts that
exist, which the types say. `OwnersReachSubAccounts` is about the loop of
`query_top_level_owner`: `ClimbSteps` shows that the recursive function computes the loop
round by round, and `TopOfChain` that up to as many accounts as it has rounds it ends at
the owner outside the chain and stays there. The two levels that are documented need
one round, so the limit may be any number but 0 (`MAX_ADMIN_RECURSION \in Nat \ {0}`; 2 in
the code).

**AdminCalls.** `CallsInv` is types, `AdminRightsFromOwner` and, for every frame of the
stack, `FrameInv`: a mark that was stored when the frame began was granted by a frame
below it, the lists stored then kept their limit, and what an upgrade has still to
send to the new version is what it read from the old one. So a failure that is
caught is harmless, since what it restores again satisfies the invariant of what is
left of the stack, whatever its depth. From it follow
`AdminRightsAlwaysFromOwner`, `NoMarkLeftOver` (no transaction leaves the mark behind,
wherever it fails), `OnlyOwnerAuthorizes` and `UpgradesMoveAuthorized`. The second to last
says which rights: the mark names the contract that is called, so what another adapter
hears meanwhile is not taken for the owner's.

**Interchain.** `InterchainInv` is types, `CallsInv` (packets belong to their notes,
have taken effect exactly when they were executed, and have the entry and the coin
their status says), `ChannelsInv` (the maps of notes and of proxies are inverse, and a
note stands for its own chain only), and `AccountsInv` (the account of a registration
that was executed is there when its answer arrives; what is recorded exists; whose
rights a packet used). `Implements` proves the refinement of `RemoteCalls`:
initial states map to initial states, and each of the actions to one abstract step or
a stutter. `RecordsAreTrue`, `TransfersAlwaysSettle`, `ControlAlwaysFollowsTrace`,
`ModulesAlwaysCallBack` and `ChannelsStayInverse` follow from the same invariant.

**Challenge.** `ChallengeInv` is `ProposalsInv` (tallies are those of the votes, a
proposal that was counted passed exactly if it has the support it needs), `AppInv` (each proposal belongs to one
challenge), `VotersAreFriends` and `PenaltiesJustified`.
Every step either moves one proposal or adds one (`Moved`, `OneMoved`), and the lemmas
about the highest proposal of a challenge rest on the well-foundedness of the
naturals. `OutcomesAlwaysMatchVotes` covers any number of changes of mind, any
threshold and a configuration that changes during the vote.

**Subscription.** `SubscriptionInv` is the types, with the times that are subtracted, and
the count; `CountAlwaysMatches` covers lists of any length and repetitions in them.
`SecondsAreRewardedOnce` is inductive on top of it. `IncomeInv` names a highest and a lowest price there has been
and bounds the accumulated income by the seconds served at each, with one unit per
call that rounds; it is stronger than `IncomeTracksSubscribers`, whose two witnesses
could change. `PaidTimeIsAlwaysServed` is the arithmetic of rounding a price up and a
time down, and of the remainder by `U64`: a payment for fewer seconds is credited whole.

**Calendar.** `CalendarInv` is the types and, for every meeting, `Filed`: its local date is
the one it is filed under, it lasts a minute at least, and its stake is untouched or
shared out. `CollisionsStayAround` holds for any offset and length of the day, and says that
the collision `calendar_collisions` finds is of the only kind there is.
`StakesAreSharedOnce` and `SettlementsComeAfter` are about the records.
`StakesAreAccountedFor` adds that the app holds what the open stakes add up to. `BackedInv`
says so of the sum over the finite set of meetings (`Backs`), and that as long as there
was one denom it is the one of the configuration; `BackedBySums` says that the fold of
`OpenStakes` is that sum, a booking adds a member to it (`SumGrows`), and a settlement
changes what one member weighs (`SumChanges`).

**AnsHost.** Three invariants. `NamesInv` puts the pair of asset maps in `Maps(given)`: both
say only what was once given, and they agree on each name and asset that were given to
nobody else. That is what one added or removed entry keeps (`AddAssetKeeps`,
`RemoveAssetKeeps`), so a list of any length does; `NamesFindBack` alone is not inductive,
since a removal follows the way back from whatever the name stands for at that moment. `PoolsInv` says that
the set of pairings is exactly the one registered for the pools on file, and that ids lie
below the next one; each form of the query is a selection from that set, and that a page
is the beginning of what comes after its start is shown once for any order of keys. `ReaderInv` adds to `PagingMissesNothing` that the pools which lasted are
still there and that the cursor is at or after everything shown; that a page is in
ascending order and leaves nothing out is proved of `Ascending`, for which a list has to
exist. From these follow `AnsTypeCorrect`, `PairingsAlwaysMatch`, `NamesAlwaysFindBack` and
`PagingNeverMisses`. Beyond types the assumptions are that writing a name in lower case
twice is the same as once, that no two keys have one place in the order, and that the
limits are natural numbers, that of a page not 0.

**Only model-checked.** `CallersAreTold` and `RefundsArrive`, which are liveness under
fairness and out of the prover's reach, and the violations.

## Disagreements found

| Run | What is said | What the code does |
|---|---|---|
| `registry_orphans` | a module with an install fee has a claimed namespace, "because modules gets unregistered when namespace is unclaimed" (module-factory/src/commands.rs:81, followed by an `unwrap`) | a proposal survives the release of its namespace and can be approved into the unclaimed one |
| `challenge_strikes` | "When num_strikes reached the limit, the challenge will be cancelled" (challenge/src/state.rs:42; the app's README.md:21 lists the limit) | the strike is counted on a copy of the challenge that is not saved, so nothing ever ends a challenge by strikes |
| `calendar_collisions` | "Validate that there are no colisions" (calendar/src/handlers/execute.rs:136) | a meeting around a booked one is accepted |

Sentences of the repository that the code does not keep either, without a run of their
own; the passing properties and the theorems except the case or state what the code does:

- The message to reject a module is documented to move it to the yanked modules: it deletes it.
- "we programmed the system to **disallow** any upgrade actions that would break your system's version requirements" (7_upgradability.md:45): upgrading a standalone skips every check, so its new version may need what is not installed.
- A version number is there to "just get the latest version" (6_module_types.md:48): version keys are compared as text, so the latest of 0.9.0 and 0.10.0 is 0.9.0, and an adapter is replaced by it.
- "Can't renounce account, with active sub account" (account/src/error.rs:93): renouncing looks at the list only, and a sub-account can take itself off it.
- "Sub-accounts have a depth of 2 ... but no further" (4_ownership.md:143): nothing limits the depth; beyond two levels the top-level owner is not found.
- An upgrade "moves all the authorized address permissions to the new contract and removes them from the old" (migration.rs:241): they are read before the apps of the same upgrade migrate, and what these add to the old version stays there.
- "the callback will be executed wether the execution was successful or not" (ibc/module-ibc.md:76): the callback of a packet under way when its host is removed is refused.
- "Count votes and finish or move to the veto period" (voting.rs:203), "voting is counted and veto period is active" (voting.rs:38): votes are counted when the veto period is over, and the count finishes the proposal, as voting.rs:19 and :22 have it (`SettledInTime` says that an outcome is not final before the veto period is over, which both ask for).
- "Veto duration after the first vote" (voting.rs:472): it is counted from the end of voting.
- A threshold is more than nothing ("can't be 0%", voting.rs:484-488): a share of few voters is rounded down to no votes, and a vote against passes.
- "Minimum of one period worth to (re)-subscribe" (subscription/src/handlers/execute.rs:87): of 2^64 paid seconds or more only the remainder is credited.
- "their entire stake is returned" (calendar/README.md:37): stakes are paid back in the denom of the moment, which the app may not have.

Observed while modelling, where nothing is said to the contrary:

*Registry.* An account claims a namespace when it is instantiated
without the admin even while security is enabled. Approving a service saves
`STANDALONE_INFOS` and never `SERVICE_INFOS`.

*Account.* Asking for the latest version of an adapter after a yank, or while it runs a
prerelease, replaces it by an older one (`NoDowngrade` says that nothing else does). Two
versions of one adapter in one install list are both allowlisted, and only one can be
uninstalled. A module that depends on itself, or two that depend on each other, can be
installed together and never uninstalled. An account offered to itself or to one of
its own sub-accounts accepts and then has no owner outside the cycle. A proposal to
change the owner survives a handover of the parent to an NFT. An upgrade inside an
admin call clears that call's mark when it ends. An upgrade fails if the new version of
an adapter already has one of the addresses to be moved or would pass its limit.

*Two chains.* An account that went from neutron to osmosis and back, and calls a
module on osmosis, has the answer go to the account it came from
(`ModulesCallBack` names the case). A plain transfer (`SendFunds`) that fails comes back
to the client contract and stays there.

*Applications.* A challenge cannot be cancelled any more once its last proposal is
past its voting period. A new vote during the veto period or before the count opens
a proposal that supersedes the uncounted one. `UpdateConfig` of the challenge app checks
neither sender nor values. The friends that are paid are those at the time of the count.
Shared emissions can exceed their rate, since the share is computed with the count of the
moment. A change of price, and a refresh of the average, do not first accumulate what is
due.

*Name service.* A dex written in another case is listed twice and cannot be removed
under that name; a query by key, or by dex alone, does not find the pools of a dex that is
not written in lower case, while one by pair and dex does. Giving a name another asset
leaves the old way back. Removing an asset or a dex leaves its pools. Listing pools without
a pair ignores the limit.

## What is not modelled

- **Balances and fees.** The bank is external; a fee is paid or not, and coins are
  followed only where they are the point (transfers between chains, stakes). The
  module factory, which splits funds over the modules of a list, is left out.
- **Contents**: names, links, descriptions, init messages, metadata. Validation of
  names is the constant `Proposable`.
- **Widths of integers** where the code fails on overflow: such a message is a failed
  one. The one cast that cuts, of the seconds in the subscription app, is modelled.
- **The xion build** of the account: authenticators and signature verification.
- **Adapters and integrations** for third-party protocols: message translation
  without state of their own. Most of the repository's lines are these, the SDK, the
  client, the interface, tests and scripts, none of which keeps state on chain.
- **Payment and ping-pong apps**: two counters after a swap, and a module call per
  answer of the kind `Interchain` models.
- **Ownership messages** (`cw_ownable`) of the native contracts other than the registry:
  their owner is one fixed party.

## What comes next

The plan was to model the registry, the account's modules and its owners, then the
calls between chains, the voting and subscription objects with the apps on top of
them, the name service, and execution within one transaction; all of that is there.
What would add most from here:

1. The funds the module factory hands on per module, against the configuration the
   registry keeps (`ConfigBacked` is the half of it that is proved).
2. `SubAccounts` and `Registry` composed over the release of a namespace by an account
   that is renounced; today the registry sees it as one external action.
3. The ICA channels recorded by `ica-owner`, and the payment app.
