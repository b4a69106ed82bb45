----------------------------- MODULE Interchain -----------------------------
(***************************************************************************)
(* Accounts that act on other chains: the ibc client of each chain         *)
(* (contracts/native/ibc-client), the ibc host of each chain               *)
(* (contracts/native/ibc-host), and the network between them.              *)
(*                                                                         *)
(* A client hands a packet to a Polytone note.  A relayer brings it to the *)
(* other chain, where the note's proxy calls the host, or it times out; an *)
(* acknowledgement comes back and the note calls the client.  Transfers of *)
(* funds travel as ICS-20 packets with a hook instead.  Polytone, ICS-20   *)
(* and the relayer are external: a packet is executed or timed out, never  *)
(* both, and what a failed execution did is undone.                        *)
(*                                                                         *)
(* One action is one transaction on one chain, with its sub-messages and   *)
(* replies: TEMP_ACTION_AFTER_CREATION and ICS20_ACCOUNT_CALLBACK_PAYLOAD  *)
(* live inside one and are not variables.                                  *)
(***************************************************************************)
EXTENDS Integers, Sequences, FiniteSets

CONSTANTS
  Chain,
  Seqs,             \* account sequence numbers
  Local,            \* [at, id]: the local accounts each chain starts with
  Note,             \* Polytone notes; a note's proxy is named by the note
  Home, Peer,       \* chain of each note, and the chain its connection leads to
  Deployed,         \* notes that are registered on both sides at the start
  MaxRequests,      \* bound: packets that are sent in all
  MAX_TRACE_LENGTH,
  Calls,            \* bound: kinds of requests that accounts and modules make
  Removable,        \* bound: notes whose registration is taken back
  FundInput,        \* bound: [at, id]: accounts that anybody funds directly
  None

\* AccountId: trace and sequence; the empty trace is AccountTrace::Local.
AccountId == [trace : Seq(Chain), seq : Seqs]

\* Packets, in the order in which they are sent.
Request == 1 .. MaxRequests

\* "module" is a call from the app of an account to an app, "adapter" one to an adapter.
Kind == {"whoami", "register", "dispatch", "module", "adapter", "query", "funds", "actions"}

ASSUME NetworkAssumption ==
  /\ Home \in [Note -> Chain] /\ Peer \in [Note -> Chain]
  /\ \A n \in Note : Home[n] # Peer[n]
  /\ Deployed \subseteq Note
  /\ \A m, n \in Deployed : Home[m] = Home[n] /\ Peer[m] = Peer[n] => m = n
  /\ MAX_TRACE_LENGTH \in Nat /\ MaxRequests \in Nat

ASSUME InputAssumption ==
  /\ Local \subseteq [at : Chain, id : AccountId]
  /\ \A a \in Local : a.id.trace = << >>
  /\ Calls \subseteq Kind \ {"whoami"}
  /\ Removable \subseteq Note
  /\ FundInput \subseteq [at : Chain, id : AccountId]
  /\ \A f \in FundInput : f.id.trace # << >>

Packet == [kind : Kind, at : Chain, id : AccountId \cup {None}, chain : Chain, note : Note]

ASSUME NoneAssumption ==
  /\ None \notin Chain /\ None \notin Note
  /\ None \notin AccountId /\ None \notin Packet

VARIABLES
  infra,         \* IBC_INFRA of the client of c: <<c, chain>> -> note
  remoteProxy,   \* <<c, chain>> whose entry has its remote_proxy
  revNote,       \* REVERSE_POLYTONE_NOTE: note -> chain
  chainProxies,  \* CHAIN_PROXIES of the host of d: <<d, chain>> -> proxy
  revProxies,    \* REVERSE_CHAIN_PROXIES: proxy -> chain
  accounts,      \* ACCOUNTS of the clients: [at, id, chain, addr]
  existing,      \* registry: ids of the accounts on each chain
  request,       \* packets: [kind, at, id, chain, note]
  status,        \* "unsent", "flying", "done", "failed" (acknowledgement under way), "closed"
  callbacks,     \* ICS20_ACCOUNT_CALLBACKS: transfers with actions under way
  coin,          \* bank: where the coin of a transfer is
  effect,        \* history: the request was executed
  answer,        \* history: what the sender was told
  acted          \* history: <<request, chain, id>>: account whose rights a request used

clientVars == <<infra, remoteProxy, revNote, accounts>>
hostVars == <<chainProxies, revProxies, existing>>
callVars == <<status, effect, answer>>
vars == <<clientVars, hostVars, callVars, request, callbacks, coin, acted>>

-----------------------------------------------------------------------------
(* Account ids across chains *)

Last(t) == t[Len(t)]
Front(t) == SubSeq(t, 1, Len(t) - 1)

\* push_chain
Push(i, c) == [i EXCEPT !.trace = Append(@, c)]

\* verify_remote
RemoteVerified(i) == Len(i.trace) \in 1 .. MAX_TRACE_LENGTH

\* Mutant: the trace only ever grows.
Pushing_ClientToHostModuleAccountId(cur, src, i) == Push(i, src)

\* client_to_host_module_account_id on chain cur, for an id sent from src.
ClientToHostModuleAccountId(cur, src, i) ==
  IF i.trace # << >> /\ Last(i.trace) = cur
  THEN [i EXCEPT !.trace = Front(@)]
  ELSE Push(i, src)

\* Mutant: an id that comes home is stripped, as for modules.
Home_HostAccountId(cur, src, i) == ClientToHostModuleAccountId(cur, src, i)

\* handle_host_action and Fund: the account that acts for i on chain cur.
HostAccountId(cur, src, i) == Push(i, src)

Sent(r) == status[r] # "unsent"

-----------------------------------------------------------------------------
\* The note of Deployed from c to d.
DeployedNote(c, d) ==
  LET notes == {n \in Deployed : Home[n] = c /\ Peer[n] = d}
  IN IF notes = {} THEN None ELSE CHOOSE n \in notes : TRUE

\* Chains with the local accounts and the channels that they have been set up with.
Init ==
  /\ infra = [p \in Chain \X Chain |-> DeployedNote(p[1], p[2])]
  /\ remoteProxy = {<<Home[n], Peer[n]>> : n \in Deployed}
  /\ revNote = [n \in Note |-> IF n \in Deployed THEN Peer[n] ELSE None]
  /\ chainProxies = [p \in Chain \X Chain |-> DeployedNote(p[2], p[1])]
  /\ revProxies = [n \in Note |-> IF n \in Deployed THEN Home[n] ELSE None]
  /\ accounts = {}
  /\ existing = [c \in Chain |-> {a.id : a \in {b \in Local : b.at = c}}]
  /\ request = [r \in Request |-> None]
  /\ status = [r \in Request |-> "unsent"]
  /\ callbacks = {}
  /\ coin = [r \in Request |-> None]
  /\ effect = [r \in Request |-> FALSE]
  /\ answer = [r \in Request |-> None]
  /\ acted = {}

\* A packet leaves through note n, or over the ICS-20 channel to its peer.
Send(r, kind, i, n) ==
  /\ ~Sent(r) /\ \A p \in Request : p < r => Sent(p)
  /\ request' = [request EXCEPT ![r] = [kind |-> kind, at |-> Home[n], id |-> i,
                                        chain |-> Peer[n], note |-> n]]
  /\ status' = [status EXCEPT ![r] = "flying"]
  /\ UNCHANGED <<effect, answer, acted, hostVars, accounts>>

-----------------------------------------------------------------------------
(* The client's administration.  The admin registers a note for the chain  *)
(* its connection leads to.                                                *)

\* execute_register_infrastructure; the WhoAmI packet brings back the proxy.
RegisterInfrastructure(r, n) ==
  LET entry == <<Home[n], Peer[n]>> IN
  /\ infra[entry] = None /\ revNote[n] = None
  /\ infra' = [infra EXCEPT ![entry] = n]
  /\ revNote' = [revNote EXCEPT ![n] = Peer[n]]
  /\ Send(r, "whoami", None, n)
  /\ UNCHANGED <<remoteProxy, callbacks, coin>>

ForgottenNote(n) == [revNote EXCEPT ![n] = None]

\* execute_remove_host, of a chain that is registered.
RemoveHost(n) ==
  LET entry == <<Home[n], Peer[n]>> IN
  /\ infra[entry] = n
  /\ revNote' = ForgottenNote(n)
  /\ infra' = [infra EXCEPT ![entry] = None]
  /\ remoteProxy' = remoteProxy \ {entry}
  /\ UNCHANGED <<accounts, hostVars, callVars, request, callbacks, coin, acted>>

-----------------------------------------------------------------------------
(* Requests.  The sender is an account that the registry knows, or a       *)
(* module of one.                                                          *)

\* The chains an account knows its account on.
Recorded(c, i, d) == {a \in accounts : a.at = c /\ a.id = i /\ a.chain = d}

\* send_remote_host_action: the packet goes to the note registered for the chain.
SendPacket(r, kind, i, n) ==
  /\ kind \in Calls
  /\ infra[<<Home[n], Peer[n]>>] = n
  /\ Send(r, kind, i, n)
  /\ UNCHANGED <<infra, remoteProxy, revNote, callbacks, coin>>

\* execute_register_account
RegisterAccount(r, i, n) == i \in existing[Home[n]] /\ SendPacket(r, "register", i, n)

\* execute_send_packet, which asks for no answer.
SendAction(r, i, n) == i \in existing[Home[n]] /\ SendPacket(r, "dispatch", i, n)

\* execute_send_module_to_module_packet: the account of an app is looked up, that of
\* a call to an adapter is not used.  Modules that want no answer are left out.
SendModuleToModule(r, i, n) ==
  \/ i \in existing[Home[n]] /\ SendPacket(r, "module", i, n)
  \/ SendPacket(r, "adapter", None, n)

\* execute_send_query: anybody may ask.
SendQuery(r, n) == SendPacket(r, "query", None, n)

\* execute_send_funds: to an address, or to the account's own, which must be recorded.
SendFunds(r, i, n, given) ==
  /\ "funds" \in Calls
  /\ i \in existing[Home[n]]
  /\ given \/ Recorded(Home[n], i, Peer[n]) # {}
  /\ Send(r, "funds", i, n)
  /\ coin' = [coin EXCEPT ![r] = "transit"]
  /\ UNCHANGED <<infra, remoteProxy, revNote, callbacks>>

\* execute_send_funds_with_actions and the reply that files the callback.
SendFundsWithActions(r, i, n) ==
  /\ "actions" \in Calls
  /\ i \in existing[Home[n]]
  /\ infra[<<Home[n], Peer[n]>>] # None
  /\ Send(r, "actions", i, n)
  /\ coin' = [coin EXCEPT ![r] = "transit"]
  /\ callbacks' = callbacks \cup {r}
  /\ UNCHANGED <<infra, remoteProxy, revNote>>

-----------------------------------------------------------------------------
(* The host's administration: a proxy is registered for its own chain.     *)

\* register_chain_proxy
RegisterChainProxy(n) ==
  LET entry == <<Peer[n], Home[n]>> IN
  /\ chainProxies[entry] = None /\ revProxies[n] = None
  /\ chainProxies' = [chainProxies EXCEPT ![entry] = n]
  /\ revProxies' = [revProxies EXCEPT ![n] = Home[n]]
  /\ UNCHANGED <<existing, clientVars, callVars, request, callbacks, coin, acted>>

ForgottenProxy(n) == [revProxies EXCEPT ![n] = None]

\* remove_chain_proxy, of a chain that is registered.
RemoveChainProxy(n) ==
  LET entry == <<Peer[n], Home[n]>> IN
  /\ chainProxies[entry] = n
  /\ revProxies' = ForgottenProxy(n)
  /\ chainProxies' = [chainProxies EXCEPT ![entry] = None]
  /\ UNCHANGED <<existing, clientVars, callVars, request, callbacks, coin, acted>>

-----------------------------------------------------------------------------
(* Execution on the other chain *)

\* receive_register: the id is remote, and the registry has no account for it.
CanCreate(d, j) == RemoteVerified(j) /\ j \notin existing[d]

Executed(r) ==
  /\ status' = [status EXCEPT ![r] = "done"]
  /\ effect' = [effect EXCEPT ![r] = TRUE]
  /\ UNCHANGED <<answer, clientVars, chainProxies, revProxies, request, callbacks>>

Created(d, j) == existing' = [existing EXCEPT ![d] = @ \cup {j}]

\* The note's proxy calls the host, which knows its chain: Register.
ExecuteRegister(r) ==
  LET q == request[r]
      j == HostAccountId(q.chain, revProxies[q.note], q.id)
  IN
  /\ status[r] = "flying" /\ q.kind = "register"
  /\ revProxies[q.note] # None
  /\ CanCreate(q.chain, j)
  /\ Created(q.chain, j)
  /\ Executed(r)
  /\ UNCHANGED <<coin, acted>>

\* Dispatch and SendAllBack act on the account, which is created first if it is
\* missing (reply_execute_action).
ExecuteDispatch(r) ==
  LET q == request[r]
      j == HostAccountId(q.chain, revProxies[q.note], q.id)
  IN
  /\ status[r] = "flying" /\ q.kind = "dispatch"
  /\ revProxies[q.note] # None
  /\ j \in existing[q.chain] \/ CanCreate(q.chain, j)
  /\ Created(q.chain, j)
  /\ Executed(r)
  /\ acted' = acted \cup {<<r, q.chain, j>>}
  /\ UNCHANGED coin

\* handle_module_execute: the app of an account calls the app of its counterpart,
\* which must exist.
ExecuteModule(r) ==
  LET q == request[r]
      j == ClientToHostModuleAccountId(q.chain, revProxies[q.note], q.id)
  IN
  /\ status[r] = "flying" /\ q.kind = "module"
  /\ revProxies[q.note] # None
  /\ j \in existing[q.chain]
  /\ Executed(r)
  /\ acted' = acted \cup {<<r, q.chain, j>>}
  /\ UNCHANGED <<existing, coin>>

\* handle_module_execute: an adapter has one address for all accounts.
ExecuteAdapter(r) ==
  /\ status[r] = "flying" /\ request[r].kind = "adapter"
  /\ revProxies[request[r].note] # None
  /\ Executed(r)
  /\ UNCHANGED <<existing, coin, acted>>

\* An empty packet, and queries, which the host answers without looking at the proxy.
ExecuteRead(r) ==
  /\ status[r] = "flying" /\ request[r].kind \in {"whoami", "query"}
  /\ Executed(r)
  /\ UNCHANGED <<existing, coin, acted>>

\* ICS-20 to an address.
ReceiveFunds(r) ==
  /\ status[r] = "flying" /\ request[r].kind = "funds"
  /\ Executed(r)
  /\ coin' = [coin EXCEPT ![r] = "remote"]
  /\ UNCHANGED <<existing, acted>>

\* ICS-20 with the hook: the host is called with Fund, which hands the funds to the
\* account or creates the account with them.  The source is named by the memo.
ReceiveFundsHook(r) ==
  LET q == request[r]
      j == HostAccountId(q.chain, q.at, q.id)
  IN
  /\ status[r] = "flying" /\ q.kind = "actions"
  /\ j \in existing[q.chain] \/ CanCreate(q.chain, j)
  /\ Created(q.chain, j)
  /\ Executed(r)
  /\ coin' = [coin EXCEPT ![r] = "remote"]
  /\ UNCHANGED acted

Execute(r) ==
  ExecuteRegister(r) \/ ExecuteDispatch(r) \/ ExecuteModule(r) \/ ExecuteAdapter(r)
    \/ ExecuteRead(r) \/ ReceiveFunds(r) \/ ReceiveFundsHook(r)

\* The packet times out, or the other chain refuses it and undoes what it did.
Fail(r) ==
  /\ status[r] = "flying"
  /\ status' = [status EXCEPT ![r] = "failed"]
  /\ UNCHANGED <<effect, answer, clientVars, hostVars, request, callbacks, coin, acted>>

\* Anybody may call Fund for any remote account.
FundDirectly(d, j) ==
  /\ j \in existing[d] \/ CanCreate(d, j)
  /\ Created(d, j)
  /\ UNCHANGED <<chainProxies, revProxies, clientVars, callVars, request, callbacks, coin, acted>>

-----------------------------------------------------------------------------
(* Acknowledgements *)

Closed(r) ==
  /\ status' = [status EXCEPT ![r] = "closed"]
  /\ UNCHANGED <<effect, hostVars, infra, revNote, request, acted>>

Acknowledged(r) == status[r] \in {"done", "failed"}

\* What the acknowledgement says.
Outcome(r) == IF status[r] = "done" THEN "ok" ELSE "error"

\* A packet without callback (execute_send_packet), or one whose note the client
\* does not know any more: receive_action_callback is not called, or refuses.
AckIgnored(r) ==
  /\ Acknowledged(r)
  /\ \/ request[r].kind = "dispatch"
     \/ request[r].kind \in {"whoami", "register", "module", "adapter", "query"}
         /\ revNote[request[r].note] = None
  /\ Closed(r)
  /\ UNCHANGED <<answer, remoteProxy, accounts, callbacks, coin>>

\* receive_action_callback, WhoAmI; an error changes nothing.
AckWhoAmI(r) ==
  LET q == request[r] IN
  /\ Acknowledged(r) /\ q.kind = "whoami" /\ revNote[q.note] # None
  /\ remoteProxy' = IF status[r] = "done"
                    THEN remoteProxy \cup {<<q.at, revNote[q.note]>>} ELSE remoteProxy
  /\ Closed(r)
  /\ UNCHANGED <<answer, accounts, callbacks, coin>>

\* Mutant: the account is recorded whatever the answer.
Hasty_Registered(r) == Acknowledged(r)
Registered(r) == status[r] = "done"

\* receive_action_callback, CreateAccount: the address is read from the events of
\* the execution; an error changes nothing.
AckRegister(r) ==
  LET q == request[r]
      d == revNote[q.note]
      new == [at |-> q.at, id |-> q.id, chain |-> d, addr |-> HostAccountId(q.chain, q.at, q.id)]
  IN
  /\ Acknowledged(r) /\ q.kind = "register" /\ d # None
  /\ accounts' = IF Registered(r)
                 THEN (accounts \ Recorded(q.at, q.id, d)) \cup {new} ELSE accounts
  /\ Closed(r)
  /\ UNCHANGED <<answer, remoteProxy, callbacks, coin>>

\* Mutants: a failure is reported as a result, or not at all.
Cheerful_Told(r) == "ok"
Silent_Told(r) == IF status[r] = "done" THEN "ok" ELSE None
Told(r) == Outcome(r)

\* receive_action_callback, ModuleRemoteAction and ModuleRemoteQuery: the module
\* is called with the result.
AckModule(r) ==
  LET q == request[r] IN
  /\ Acknowledged(r) /\ q.kind \in {"module", "adapter", "query"} /\ revNote[q.note] # None
  /\ answer' = [answer EXCEPT ![r] = Told(r)]
  /\ Closed(r)
  /\ UNCHANGED <<remoteProxy, accounts, callbacks, coin>>

\* ICS-20 gives a transfer that failed back to its sender, the client contract.
AckFunds(r) ==
  /\ Acknowledged(r) /\ request[r].kind = "funds"
  /\ coin' = IF status[r] = "failed" THEN [coin EXCEPT ![r] = "client"] ELSE coin
  /\ Closed(r)
  /\ UNCHANGED <<answer, remoteProxy, accounts, callbacks>>

\* Mutants: the refund is forgotten; so is the entry.
Kept_Refund(r) == [coin EXCEPT ![r] = "client"]
Kept_Filed(r) == callbacks

Refund(r) == [coin EXCEPT ![r] = "account"]
Filed(r) == callbacks \ {r}

\* ics20_hook_callback: the actions run on the account, or the coin that came back
\* to the client goes on to the account.
AckActions(r) ==
  /\ Acknowledged(r) /\ request[r].kind = "actions"
  /\ r \in callbacks
  /\ coin' = IF status[r] = "failed" THEN Refund(r) ELSE coin
  /\ answer' = [answer EXCEPT ![r] = Outcome(r)]
  /\ callbacks' = Filed(r)
  /\ Closed(r)
  /\ UNCHANGED <<remoteProxy, accounts>>

Ack(r) ==
  AckIgnored(r) \/ AckWhoAmI(r) \/ AckRegister(r) \/ AckModule(r) \/ AckFunds(r) \/ AckActions(r)

-----------------------------------------------------------------------------
NextAdmin ==
  \/ \E r \in Request, n \in Note : RegisterInfrastructure(r, n)
  \/ \E n \in Removable : RemoveHost(n) \/ RemoveChainProxy(n)
  \/ \E n \in Note : RegisterChainProxy(n)

NextSend ==
  \E r \in Request, n \in Note : \E i \in existing[Home[n]] :
    \/ RegisterAccount(r, i, n) \/ SendAction(r, i, n) \/ SendModuleToModule(r, i, n)
    \/ \E given \in BOOLEAN : SendFunds(r, i, n, given)
    \/ SendFundsWithActions(r, i, n)

NextQuery == \E r \in Request, n \in Note : SendQuery(r, n)

NextNetwork ==
  \/ \E r \in Request : Execute(r) \/ Fail(r) \/ Ack(r)
  \/ \E f \in FundInput : FundDirectly(f.at, f.id)

Next == NextAdmin \/ NextSend \/ NextQuery \/ NextNetwork

\* Relayers bring every packet and every acknowledgement where it belongs, in time
\* or after its timeout (PACKET_LIFETIME); actions that fail hold up theirs.
Fairness ==
  \A r \in Request :
    /\ WF_vars(Execute(r) \/ Fail(r))
    /\ WF_vars(Ack(r) /\ (request[r].kind = "actions" => status[r] = "failed"))

Spec == Init /\ [][Next]_vars /\ Fairness

-----------------------------------------------------------------------------
(* Properties *)

\* Every item has its type, only packets that were sent have a record, and no account
\* has a longer trace than the code allows.
TypeOK ==
  /\ infra \in [Chain \X Chain -> Note \cup {None}]
  /\ remoteProxy \subseteq Chain \X Chain
  /\ revNote \in [Note -> Chain \cup {None}]
  /\ chainProxies \in [Chain \X Chain -> Note \cup {None}]
  /\ revProxies \in [Note -> Chain \cup {None}]
  /\ accounts \subseteq [at : Chain, id : AccountId, chain : Chain, addr : AccountId]
  /\ existing \in [Chain -> SUBSET AccountId]
  /\ request \in [Request -> Packet \cup {None}]
  /\ status \in [Request -> {"unsent", "flying", "done", "failed", "closed"}]
  /\ callbacks \subseteq Request
  /\ coin \in [Request -> {"transit", "remote", "client", "account", None}]
  /\ effect \in [Request -> BOOLEAN]
  /\ answer \in [Request -> {"ok", "error", None}]
  /\ acted \subseteq Request \X Chain \X AccountId
  /\ \A r \in Request : Sent(r) <=> request[r] # None
  /\ \A c \in Chain : \A i \in existing[c] : Len(i.trace) <= MAX_TRACE_LENGTH

\* The four maps of channels agree, in both contracts and after any sequence of
\* registrations and removals: a note or proxy is heard exactly as long as it is
\* the one registered for its chain.
ChannelsInverse ==
  /\ \A c, d \in Chain, n \in Note :
       infra[<<c, d>>] = n <=> Home[n] = c /\ revNote[n] = d
  /\ \A c, d \in Chain, n \in Note :
       chainProxies[<<d, c>>] = n <=> Peer[n] = d /\ revProxies[n] = c

\* A remote account that a client has on record exists, and is the one that acts
\* for the account, whatever was lost, refused, removed or registered meanwhile.
RecordedAccountsExist ==
  \A a \in accounts :
    /\ a.addr \in existing[a.chain]
    /\ a.addr = HostAccountId(a.chain, a.at, a.id)

\* "`neutron-42` on `osmosis` CAN'T control `local-42` on `neutron`": an account
\* acts on another chain only with the rights of an account whose trace ends with
\* the chain it calls from, and goes on with its own.
ControlFollowsTrace ==
  \A x \in acted :
    LET q == request[x[1]]
        j == x[3]
    IN q.kind = "dispatch" =>
         j.trace # << >> /\ Last(j.trace) = q.at /\ Front(j.trace) = q.id.trace /\ j.seq = q.id.seq

\* An account that came from c over d back to c.
RoundTrip(i, c, d) == Len(i.trace) > 1 /\ Last(i.trace) = d /\ Last(Front(i.trace)) = c

\* Modules of two counterparts find each other: a call back from the account that was
\* called reaches the account that called.  Only of an account that has been to the
\* other chain and back is the call answered to the account that it comes from.
ModulesCallBack ==
  \A x \in acted :
    LET q == request[x[1]] IN
    q.kind = "module" /\ ~RoundTrip(q.id, q.at, x[2]) =>
      ClientToHostModuleAccountId(q.at, x[2], x[3]) = q.id

\* The coin of a transfer with actions is on its way, on the other chain, or back
\* with its account, and never left with the client; its entry is gone as soon as
\* that is settled.
TransfersSettle ==
  \A r \in Request : Sent(r) /\ request[r].kind = "actions" =>
    /\ r \in callbacks <=> status[r] # "closed"
    /\ coin[r] = IF effect[r] THEN "remote"
                 ELSE IF status[r] = "closed" THEN "account" ELSE "transit"

\* The client and the host give callers what RemoteCalls promises.
StageOf(s) ==
  CASE s = "unsent" -> "idle" [] s = "flying" -> "open" [] s = "done" -> "performed"
    [] s = "failed" -> "rejected" [] s = "closed" -> "closed"
Remote == INSTANCE RemoteCalls WITH stage <- [r \in Request |-> StageOf(status[r])]
ImplementsRemoteCalls == Remote!Spec

\* "If you want to revert state based on that failure, you HAVE to use a Callback":
\* a module that called is told the outcome, unless its note is not registered any
\* more when the answer comes.
CallersAreTold ==
  \A r \in Request :
    status[r] = "flying" /\ request[r].kind \in {"module", "adapter", "query"}
      ~> answer[r] # None \/ (Acknowledged(r) /\ revNote[request[r].note] = None)

\* A transfer that failed comes back.
RefundsArrive ==
  \A r \in Request :
    status[r] = "failed" /\ request[r].kind = "actions" ~> coin[r] = "account"
=============================================================================
