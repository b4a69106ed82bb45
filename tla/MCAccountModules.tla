-------------------------- MODULE MCAccountModules --------------------------
(* Small instances of AccountModules for TLC. *)
EXTENDS AccountModules

CONSTANTS account, dex, app, vault, bot, ibc, feed

V(m, v) == [id |-> m, version |-> v]
Need(m, vs) == [id |-> m, req |-> vs]
Exact(i) == [to |-> i, latest |-> FALSE]
Latest(i) == [to |-> i, latest |-> TRUE]

\* dex is an adapter with a prerelease, 2; app needs it, and vault needs the app
\* of its own version; bot is a standalone that needs app; feed is a service.
MCInfo == {V(account, 1), V(account, 3), V(dex, 1), V(dex, 2), V(dex, 3),
           V(app, 1), V(app, 3), V(vault, 1), V(vault, 3),
           V(bot, 1), V(bot, 3),
           V(ibc, 1), V(feed, 1)}
MCKind == [i \in MCInfo |->
  CASE i.id = account -> "account" [] i.id = dex -> "adapter"
    [] i.id \in {app, vault} -> "app" [] i.id = bot -> "standalone"
    [] i.id = ibc -> "native" [] i.id = feed -> "service"]
MCHasCw2 == MCInfo
MCHasData == {i \in MCInfo : i.id \notin {account, feed}}
MCReports == [i \in MCInfo |-> i.version]
MCDeps == [i \in MCInfo |->
  CASE i = V(app, 1) -> {Need(dex, {1})}
    [] i = V(app, 3) -> {Need(dex, {1, 2}), Need(feed, {1})}
    [] i = V(vault, 1) -> {Need(app, {1})}
    [] i = V(vault, 3) -> {Need(app, {3}), Need(dex, {2})}
    [] i.id = bot -> {Need(app, {1, 3})}
    [] OTHER -> {}]

\* The text of the prerelease 2 of 3 comes after that of 3.
MCRank == [v \in {1, 2, 3} |-> CASE v = 1 -> 1 [] v = 3 -> 2 [] v = 2 -> 3]
MCBump == {<<1, 3>>}

\* The third list names two versions of dex.
MCInstall == {<<V(dex, 1)>>, <<V(dex, 2)>>, <<V(dex, 1), V(dex, 2)>>,
              <<V(app, 1)>>, <<V(bot, 1)>>, <<V(vault, 1)>>,
              <<V(ibc, 1)>>, <<V(feed, 1)>>,
              <<V(app, 3), V(dex, 2)>>, <<V(bot, 3), V(app, 1), V(dex, 1)>>,
              <<V(vault, 3), V(app, 3)>>}
MCUpgrade == {<<Exact(V(dex, 1))>>, <<Exact(V(dex, 2))>>, <<Latest(V(dex, 1))>>,
              <<Latest(V(dex, 3))>>,
              <<Exact(V(app, 3))>>, <<Exact(V(bot, 3))>>, <<Latest(V(account, 3))>>,
              <<Exact(V(app, 3)), Exact(V(dex, 2))>>, <<Latest(V(app, 3)), Exact(V(vault, 3))>>,
              <<Exact(V(vault, 3)), Exact(V(app, 3)), Exact(V(dex, 2))>>,
              <<Exact(V(dex, 2)), Exact(V(app, 3)), Exact(V(account, 3))>>}
MCChanging == {V(dex, 3), V(app, 3)}

\* The owner's manual edits; a service may be named twice in a list.
ManualInstall == MCInstall \cup {<<V(feed, 1), V(feed, 1)>>}
MCAddressEdit == {[id |-> dex, to |-> None], [id |-> dex, to |-> V(dex, 1)],
                  [id |-> dex, to |-> V(app, 3)]}
MCWhitelistEdit == {[add |-> {V(dex, 1), V(dex, 2)}, remove |-> {}],
                    [add |-> {}, remove |-> {V(app, 1)}],
                    [add |-> {V(dex, 2)}, remove |-> {V(dex, 2)}]}
=============================================================================
