------------------------------ MODULE AnsHost -------------------------------
(***************************************************************************)
(* The Abstract name service (contracts/native/ans-host): names of assets, *)
(* contracts and channels, and the pools of registered dexes, found by the *)
(* pairs of assets they trade.  Only the owner's messages change it; the   *)
(* messages of others are refused.  A reader pages through the pools while *)
(* the owner goes on.                                                      *)
(***************************************************************************)
EXTENDS Integers, FiniteSets, SequencesExt

CONSTANTS
  Name, Lower,        \* names as they are written, and in lower case
  Info,               \* asset infos
  Place,              \* addresses of contracts, ids of channels
  KeyRank,            \* place of a key <<x, y, dex>> in the order of the storage
  MIN_POOL_ASSETS, MAX_POOL_ASSETS,
  MAX_LIMIT,          \* of a page
  MaxList,            \* bound: entries of a list in a message
  AssetName, DexName, \* bound: names that assets and dexes are given
  BookName,           \* bound: names that contracts and channels are given
  PoolInput,          \* bound: [dex, assets]: pools that are added
  MaxDexes,           \* bound: entries of the list of dexes
  MaxPools,           \* bound: pools that are added in all
  Absent

ASSUME AnsAssumption ==
  /\ Lower \in [Name -> Name] /\ \A n \in Name : Lower[Lower[n]] = Lower[n]
  /\ AssetName \cup DexName \cup BookName \subseteq Name
  /\ PoolInput \subseteq [dex : Name, assets : Seq(Name)]
  /\ KeyRank \in [Name \X Name \X Name -> Nat]
  /\ \A k, l \in Name \X Name \X Name : KeyRank[k] = KeyRank[l] => k = l
  /\ MAX_LIMIT \in Nat \ {0} /\ MaxList \in Nat /\ MaxPools \in Nat
  /\ Absent \notin Name /\ Absent \notin Info /\ Absent \notin Place /\ Absent \notin Nat

VARIABLES
  assets,     \* ASSET_ADDRESSES: name -> info
  revAssets,  \* REV_ASSET_ADDRESSES: info -> name
  contracts,  \* CONTRACT_ADDRESSES: name -> address
  channels,   \* CHANNELS: name -> channel
  dexes,      \* REGISTERED_DEXES
  pairings,   \* ASSET_PAIRINGS: <<x, y, dex, pool>>
  metadata,   \* POOL_METADATA: pool -> [dex, assets]
  nextPool,   \* CONFIG
  cursor,     \* the reader's start_after, or Absent
  seen,       \* history: pools the reader was shown, in order
  lasting,    \* history: pools that have been there since the reader began
  given       \* history: <<name, info>> that were ever registered

bookVars == <<contracts, channels>>
assetVars == <<assets, revAssets, given>>
poolVars == <<dexes, pairings, metadata, nextPool>>
readerVars == <<cursor, seen, lasting>>
ansVars == <<bookVars, assetVars, poolVars, readerVars>>

ListOf(S) == UNION {[1 .. n -> S] : n \in 0 .. MaxList}

-----------------------------------------------------------------------------
\* instantiate
AnsInit ==
  /\ assets = [n \in Name |-> Absent]
  /\ revAssets = [i \in Info |-> Absent]
  /\ contracts = [n \in Name |-> Absent]
  /\ channels = [n \in Name |-> Absent]
  /\ dexes = << >>
  /\ pairings = {}
  /\ metadata = [p \in {} |-> Absent]
  /\ nextPool = 1
  /\ cursor = Absent /\ seen = << >> /\ lasting = {}
  /\ given = {}

-----------------------------------------------------------------------------
(* Names *)

SetEntry(book, x) == [book EXCEPT ![Lower[x[1]]] = x[2]]
SetEntries(book, list) == FoldLeft(LAMBDA b, x : SetEntry(b, x), book, list)

\* Adds in order, then removes.
Updated(book, toAdd, toRemove) ==
  SetEntries(book, toAdd \o [k \in DOMAIN toRemove |-> <<toRemove[k], Absent>>])

\* update_contract_addresses
UpdateContractAddresses(toAdd, toRemove) ==
  /\ contracts' = Updated(contracts, toAdd, toRemove)
  /\ UNCHANGED <<channels, assetVars, poolVars, readerVars>>

\* update_channels
UpdateChannels(toAdd, toRemove) ==
  /\ channels' = Updated(channels, toAdd, toRemove)
  /\ UNCHANGED <<contracts, assetVars, poolVars, readerVars>>

\* Mutant: the way back is kept.
Kept_RemoveAsset(maps, name) == [maps EXCEPT !.there[Lower[name]] = Absent]

AddAsset(maps, x) ==
  [there |-> [maps.there EXCEPT ![Lower[x[1]]] = x[2]],
   back |-> [maps.back EXCEPT ![x[2]] = Lower[x[1]]]]

RemoveAsset(maps, name) ==
  LET info == maps.there[Lower[name]] IN
  IF info = Absent THEN maps
  ELSE [there |-> [maps.there EXCEPT ![Lower[name]] = Absent],
        back |-> [maps.back EXCEPT ![info] = Absent]]

AddAssets(maps, toAdd) == FoldLeft(LAMBDA m, x : AddAsset(m, x), maps, toAdd)
RemoveAssets(maps, toRemove) == FoldLeft(LAMBDA m, n : RemoveAsset(m, n), maps, toRemove)

\* update_asset_addresses: the way back from what a name stood for before, or from an
\* asset that has another name, is not looked after.
UpdateAssetAddresses(toAdd, toRemove) ==
  LET before == [there |-> assets, back |-> revAssets]
      after == RemoveAssets(AddAssets(before, toAdd), toRemove)
  IN
  /\ assets' = after.there
  /\ revAssets' = after.back
  /\ given' = given \cup {<<Lower[toAdd[k][1]], toAdd[k][2]>> : k \in DOMAIN toAdd}
  /\ UNCHANGED <<bookVars, poolVars, readerVars>>

-----------------------------------------------------------------------------
(* Pools *)

\* update_dex_registry: the name is looked for as it is written, and stored in lower
\* case.
RegisterDex(list, dex) == IF Contains(list, dex) THEN list ELSE Append(list, Lower[dex])
RegisterDexes(list, toAdd) == FoldLeft(LAMBDA l, d : RegisterDex(l, d), list, toAdd)

\* retain, for each that is to be removed.
Retain(kept, dex, gone) == IF dex \in gone THEN kept ELSE Append(kept, dex)
DeregisterDexes(list, toRemove) ==
  FoldLeft(LAMBDA kept, d : Retain(kept, d, ToSet(toRemove)), << >>, list)

UpdateDexes(toAdd, toRemove) ==
  /\ dexes' = DeregisterDexes(RegisterDexes(dexes, toAdd), toRemove)
  /\ Len(dexes') <= MaxDexes
  /\ UNCHANGED <<bookVars, assetVars, pairings, metadata, nextPool, readerVars>>

\* Mutant: names are kept as they are written.
Raw_Formatted(pool) == pool

\* validate_pool_assets formats the names, and the dex is compared in lower case.
Formatted(pool) == [pool EXCEPT !.assets = [k \in DOMAIN @ |-> Lower[@[k]]]]

PoolValid(pool) ==
  /\ Len(pool.assets) \in MIN_POOL_ASSETS .. MAX_POOL_ASSETS
  /\ \A k \in DOMAIN pool.assets : assets[Lower[pool.assets[k]]] # Absent
  /\ Contains(dexes, Lower[pool.dex])

\* exec_on_asset_pairings: both orders of every two different assets.
PairsOf(pool) ==
  {<<pool.assets[k], pool.assets[l]>> : k, l \in DOMAIN pool.assets} \ {<<n, n>> : n \in Name}

\* Mutant: the key is made from the dex as it is written.
Written_Pairing(pair, dex, id) == <<pair[1], pair[2], dex, id>>

\* remove_pool_pairings: DexAssetPairing::new lowers the name of the dex.
Pairing(pair, dex, id) == <<pair[1], pair[2], Lower[dex], id>>

\* register_pool_pairings, with the name already lowered.
Registered(pool, id) == {<<pair[1], pair[2], Lower[pool.dex], id>> : pair \in PairsOf(pool)}

NextPool(n) == nextPool + n

\* update_pools: new pools get the next ids, then pools are removed, those just added
\* among them.
UpdatePools(toAdd, toRemove) ==
  LET new == [id \in nextPool .. nextPool + Len(toAdd) - 1 |-> Formatted(toAdd[id - nextPool + 1])]
      all == [id \in DOMAIN metadata \cup DOMAIN new |->
                IF id \in DOMAIN new THEN new[id] ELSE metadata[id]]
      gone == ToSet(toRemove) \cap DOMAIN all
  IN
  /\ nextPool + Len(toAdd) - 1 <= MaxPools
  /\ \A k \in DOMAIN toAdd : PoolValid(toAdd[k])
  /\ metadata' = [id \in DOMAIN all \ gone |-> all[id]]
  /\ pairings' = (pairings \cup UNION {Registered(new[id], id) : id \in DOMAIN new})
                   \ UNION {{Pairing(pair, all[id].dex, id) : pair \in PairsOf(all[id])} : id \in gone}
  /\ nextPool' = NextPool(Len(toAdd))
  /\ lasting' = lasting \ gone
  /\ UNCHANGED <<bookVars, assetVars, dexes, cursor, seen>>

-----------------------------------------------------------------------------
(* Readers *)

\* query_assets and query_asset_infos, which fail where it is Absent.
QueryAssets(name) == assets[Lower[name]]
QueryAssetInfos(info) == revAssets[info]

\* query_pool_entries: the entry of a key as the reader has written it; the query
\* fails where there is none.
PoolEntries(x, y, dex) == {e[4] : e \in {f \in pairings : f[1] = x /\ f[2] = y /\ f[3] = dex}}

\* list_pool_entries, given two assets and a dex: DexAssetPairing::new lowers the dex.
ListPoolEntries(x, y, dex) == PoolEntries(x, y, Lower[dex])

\* The keys of ASSET_PAIRINGS: an entry is removed with its last pool.
PairingKeys == {<<e[1], e[2], e[3]>> : e \in pairings}

Limited(limit) == IF limit < MAX_LIMIT THEN limit ELSE MAX_LIMIT

\* list_pool_entries, given two assets: the entries of a page, and those it is taken
\* from, which come after the dex of start_after.
PairAfter(x, y, start) ==
  {k \in PairingKeys : /\ k[1] = x /\ k[2] = y
                       /\ start = Absent \/ KeyRank[<<x, y, start>>] < KeyRank[k]}
PairPage(x, y, start, limit) ==
  LET after == PairAfter(x, y, start) IN
  {k \in after : Cardinality({l \in after : KeyRank[l] < KeyRank[k]}) < Limited(limit)}

\* list_pool_entries, given a dex or nothing: all entries after start_after, the limit
\* left aside and the dex compared as it is written.
ListEntries(dex, start) ==
  {k \in PairingKeys : /\ dex \in {Absent, k[3]}
                       /\ start = Absent \/ KeyRank[start] < KeyRank[k]}

\* Mutant: the page begins with the last entry of the one before.
Inclusive_After == {id \in DOMAIN metadata : cursor = Absent \/ id >= cursor}

\* Bound::exclusive(start_after)
After == {id \in DOMAIN metadata : cursor = Absent \/ id > cursor}

\* The keys of a map come in ascending order.
Ascending(S) ==
  CHOOSE q \in [1 .. Cardinality(S) -> S] : \A j, k \in 1 .. Cardinality(S) : j < k => q[j] < q[k]

\* list_pool_metadata_entries: up to limit entries.
Page(limit) ==
  LET sorted == Ascending(After) IN
  SubSeq(sorted, 1, IF Limited(limit) < Len(sorted) THEN Limited(limit) ELSE Len(sorted))

\* The reader asks for the page after the last entry it was shown.
ReadPage(limit) ==
  LET page == Page(limit) IN
  /\ page # << >>
  /\ cursor' = page[Len(page)]
  /\ seen' = (IF cursor = Absent THEN << >> ELSE seen) \o page
  /\ lasting' = IF cursor = Absent THEN DOMAIN metadata ELSE lasting
  /\ UNCHANGED <<bookVars, assetVars, poolVars>>

\* It has had everything, and begins again.
ReadEnd ==
  /\ cursor # Absent /\ After = {}
  /\ cursor' = Absent
  /\ UNCHANGED <<seen, lasting, bookVars, assetVars, poolVars>>

-----------------------------------------------------------------------------
AnsNext ==
  \/ \E add \in ListOf(BookName \X Place), remove \in ListOf(BookName) :
       UpdateContractAddresses(add, remove) \/ UpdateChannels(add, remove)
  \/ \E add \in ListOf(AssetName \X Info), remove \in ListOf(AssetName) :
       UpdateAssetAddresses(add, remove)
  \/ \E add, remove \in ListOf(DexName) : UpdateDexes(add, remove)
  \/ \E add \in ListOf(PoolInput), remove \in ListOf(1 .. MaxPools) : UpdatePools(add, remove)
  \/ \E limit \in 1 .. MAX_LIMIT + 1 : ReadPage(limit)
  \/ ReadEnd

AnsSpec == AnsInit /\ [][AnsNext]_ansVars

-----------------------------------------------------------------------------
(* Properties *)

\* Every item has its type, and names are stored in lower case.
AnsTypeOK ==
  LET Lowered == {Lower[n] : n \in Name} IN
  /\ assets \in [Name -> Info \cup {Absent}]
  /\ revAssets \in [Info -> Lowered \cup {Absent}]
  /\ contracts \in [Name -> Place \cup {Absent}] /\ channels \in [Name -> Place \cup {Absent}]
  /\ dexes \in Seq(Lowered)
  /\ DOMAIN metadata \subseteq 1 .. nextPool - 1
  /\ \A id \in DOMAIN metadata : metadata[id].dex \in Name /\ metadata[id].assets \in Seq(Lowered)
  /\ nextPool \in 1 .. MaxPools + 1
  /\ \A n \in Name \ Lowered : assets[n] = Absent /\ contracts[n] = Absent /\ channels[n] = Absent

\* The pools there are of two different assets, found in either order, on a dex.
Trading(x, y, dex) ==
  {id \in DOMAIN metadata : /\ x # y /\ {x, y} \subseteq ToSet(metadata[id].assets)
                            /\ Lower[metadata[id].dex] = dex}

\* Every way to ask for pools gives those there are and no others, whatever is added,
\* removed or added and removed by one message, and however the owner wrote the names.
\* A reader finds them under the names in lower case: only the filter by two assets
\* and a dex takes a dex in capitals.  A page of the dexes of two assets leaves out
\* only dexes that come later, and is empty only if no dex is left.
PairingsMatchPools ==
  /\ \A x, y, dex \in Name :
       /\ PoolEntries(x, y, dex) = Trading(x, y, dex)
       /\ ListPoolEntries(x, y, dex) = Trading(x, y, Lower[dex])
       /\ \A d \in {dex, Absent} :
            <<x, y, dex>> \in ListEntries(d, Absent) <=> Trading(x, y, dex) # {}
  /\ \A key \in PairingKeys, start \in Name \cup {Absent}, limit \in 1 .. MAX_LIMIT + 1 :
       LET after == PairAfter(key[1], key[2], start)
           page == PairPage(key[1], key[2], start, limit)
       IN
       /\ \A k \in page, l \in after \ page : KeyRank[k] < KeyRank[l]
       /\ after # {} => page # {}

\* A name and an asset that have only ever been given to each other find each other:
\* the two maps go apart only where a name is given to another asset or an asset to
\* another name.
NamesFindBack ==
  \A n \in Name, i \in Info :
    Lower[n] = n /\ (\A x \in given : x[1] = n <=> x[2] = i) =>
      (QueryAssets(n) = i <=> QueryAssetInfos(i) = n)

\* Paging is by id: a reader is shown nothing twice, and when it is at the end it has
\* been shown every pool that was there all the while, whatever the owner did between
\* two pages.
PagingMissesNothing ==
  /\ \A k, l \in DOMAIN seen : k < l => seen[k] < seen[l]
  /\ cursor # Absent => lasting \cap {id \in DOMAIN metadata : id <= cursor} \subseteq ToSet(seen)
=============================================================================
