-------------------------- MODULE InterchainProofs --------------------------
(***************************************************************************)
(* Proofs about Interchain, for any number of chains, connections and      *)
(* packets, and any limit on the length of traces.                         *)
(***************************************************************************)
EXTENDS Interchain, SequenceTheorems, TLAPS

\* Every call item has its type.
CallTypes ==
  /\ request \in [Request -> Packet \cup {None}]
  /\ status \in [Request -> {"unsent", "flying", "done", "failed", "closed"}]
  /\ callbacks \subseteq Request
  /\ coin \in [Request -> {"transit", "remote", "client", "account", None}]
  /\ effect \in [Request -> BOOLEAN]
  /\ answer \in [Request -> {"ok", "error", None}]
  /\ \A r \in Request : Sent(r) <=> request[r] # None

\* Packets that carry no account.
Anonymous == {"whoami", "adapter", "query"}

\* A packet belongs to its note, and all but the anonymous ones to an account.
PacketsWell ==
  \A r \in Request : Sent(r) =>
    /\ request[r].at = Home[request[r].note] /\ request[r].chain = Peer[request[r].note]
    /\ request[r].kind \notin Anonymous => request[r].id \in AccountId

\* A packet has taken effect once it is done, and not before or when it failed.
OutcomeKnown ==
  \A r \in Request :
    /\ status[r] = "done" => effect[r] = TRUE
    /\ status[r] \in {"unsent", "flying", "failed"} => effect[r] = FALSE

CallsInv == CallTypes /\ PacketsWell /\ OutcomeKnown /\ TransfersSettle

ChannelTypes ==
  /\ infra \in [Chain \X Chain -> Note \cup {None}]
  /\ remoteProxy \subseteq Chain \X Chain
  /\ revNote \in [Note -> Chain \cup {None}]
  /\ chainProxies \in [Chain \X Chain -> Note \cup {None}]
  /\ revProxies \in [Note -> Chain \cup {None}]

\* A note is known for the chain it leads to, a proxy for the chain it comes from.
ChannelsKnown ==
  /\ \A n \in Note : revNote[n] \in {None, Peer[n]}
  /\ \A n \in Note : revProxies[n] \in {None, Home[n]}

ChannelsInv == ChannelTypes /\ ChannelsKnown /\ ChannelsInverse

AccountTypes ==
  /\ accounts \subseteq [at : Chain, id : AccountId, chain : Chain, addr : AccountId]
  /\ existing \in [Chain -> SUBSET AccountId]
  /\ acted \subseteq Request \X Chain \X AccountId
  /\ \A c \in Chain : \A i \in existing[c] : Len(i.trace) <= MAX_TRACE_LENGTH

\* The account that a Register packet has created is there when its answer arrives.
RegisterKept ==
  \A r \in Request : status[r] = "done" /\ request[r].kind = "register" =>
    HostAccountId(request[r].chain, request[r].at, request[r].id) \in existing[request[r].chain]

\* Whose rights a packet used.
ActedFor ==
  \A x \in acted :
    LET q == request[x[1]] IN
    /\ Sent(x[1]) /\ x[2] = q.chain
    /\ q.kind = "dispatch" => x[3] = HostAccountId(q.chain, q.at, q.id)
    /\ q.kind = "module" => x[3] = ClientToHostModuleAccountId(q.chain, q.at, q.id)

AccountsInv == AccountTypes /\ RegisterKept /\ ActedFor /\ RecordedAccountsExist

\* The inductive invariant.
InterchainInv == CallsInv /\ ChannelsInv /\ AccountsInv

-----------------------------------------------------------------------------
(* Account ids *)

LEMMA FrontLast ==
  ASSUME NEW t \in Seq(Chain), t # << >>
  PROVE  /\ Front(t) \in Seq(Chain) /\ Len(Front(t)) = Len(t) - 1 /\ Last(t) \in Chain
         /\ Append(Front(t), Last(t)) = t
<1>1. PICK u \in Seq(Chain), e \in Chain : t = Append(u, e)
  BY SequenceEmptyOrAppend
<1>2. /\ Len(u) \in Nat /\ Len(t) = Len(u) + 1 /\ t[Len(t)] = e
  BY <1>1, AppendProperties, LenProperties
<1>3. SubSeq(t, 1, Len(t) - 1) = u
  BY <1>1, <1>2
<1> QED BY <1>1, <1>2, <1>3 DEF Front, Last

LEMMA PushType ==
  ASSUME NEW i \in AccountId, NEW c \in Chain
  PROVE  /\ Push(i, c) \in AccountId /\ Push(i, c).trace # << >> /\ Push(i, c).seq = i.seq
         /\ Last(Push(i, c).trace) = c /\ Front(Push(i, c).trace) = i.trace
         /\ Len(Push(i, c).trace) = Len(i.trace) + 1
<1>1. i.trace \in Seq(Chain) /\ i.seq \in Seqs
  BY DEF AccountId
<1>2. Push(i, c) = [trace |-> Append(i.trace, c), seq |-> i.seq]
  BY DEF Push, AccountId
<1> DEFINE t == Append(i.trace, c)
<1>3. t \in Seq(Chain) /\ Len(t) = Len(i.trace) + 1 /\ t[Len(t)] = c /\ t # << >>
  BY <1>1
<1>4. SubSeq(t, 1, Len(t) - 1) = i.trace
  BY <1>1
<1> QED BY <1>1, <1>2, <1>3, <1>4 DEF AccountId, Last, Front

LEMMA ModuleIdType ==
  ASSUME NEW i \in AccountId, NEW c \in Chain, NEW d \in Chain
  PROVE  ClientToHostModuleAccountId(c, d, i) \in AccountId
<1>1. CASE i.trace # << >> /\ Last(i.trace) = c
  <2>1. Front(i.trace) \in Seq(Chain)
    BY <1>1 DEF AccountId, Front
  <2> QED BY <1>1, <2>1 DEF ClientToHostModuleAccountId, AccountId
<1>2. CASE ~(i.trace # << >> /\ Last(i.trace) = c)
  BY <1>2, PushType DEF ClientToHostModuleAccountId
<1> QED BY <1>1, <1>2

\* A module call is answered to the account that it came from, but for round trips.
LEMMA ModuleIdBack ==
  ASSUME NEW i \in AccountId, NEW c \in Chain, NEW d \in Chain, ~RoundTrip(i, c, d)
  PROVE  ClientToHostModuleAccountId(c, d, ClientToHostModuleAccountId(d, c, i)) = i
<1>0. i.trace \in Seq(Chain) /\ i = [trace |-> i.trace, seq |-> i.seq]
  BY DEF AccountId
<1>1. CASE i.trace # << >> /\ Last(i.trace) = d
  <2> DEFINE j == [i EXCEPT !.trace = Front(@)]
  <2>1. ClientToHostModuleAccountId(d, c, i) = j
    BY <1>1 DEF ClientToHostModuleAccountId
  <2>2. j.trace = Front(i.trace) /\ j.seq = i.seq /\ j = [trace |-> Front(i.trace), seq |-> i.seq]
    BY <1>0
  <2>3. Len(i.trace) \in Nat /\ Len(i.trace) > 0
    BY <1>0, <1>1
  <2>4. /\ Front(i.trace) \in Seq(Chain) /\ Len(Front(i.trace)) = Len(i.trace) - 1
        /\ Append(Front(i.trace), d) = i.trace
    BY <1>0, <1>1, FrontLast
  <2>5. ~(j.trace # << >> /\ Last(j.trace) = c)
    BY <1>1, <2>2, <2>3, <2>4 DEF RoundTrip
  <2>6. ClientToHostModuleAccountId(c, d, j) = Push(j, d)
    BY <2>5 DEF ClientToHostModuleAccountId
  <2> HIDE DEF j
  <2>7. Push(j, d) = [trace |-> Append(Front(i.trace), d), seq |-> i.seq]
    BY <2>2 DEF Push
  <2> QED BY <1>0, <2>1, <2>4, <2>6, <2>7
<1>2. CASE ~(i.trace # << >> /\ Last(i.trace) = d)
  <2> DEFINE j == Push(i, c)
  <2>1. ClientToHostModuleAccountId(d, c, i) = j
    BY <1>2 DEF ClientToHostModuleAccountId
  <2>2. j \in AccountId /\ j.trace # << >> /\ Last(j.trace) = c /\ Front(j.trace) = i.trace /\ j.seq = i.seq
    BY PushType
  <2> HIDE DEF j
  <2>3. ClientToHostModuleAccountId(c, d, j) = [j EXCEPT !.trace = Front(@)]
    BY <2>2 DEF ClientToHostModuleAccountId
  <2>4. [j EXCEPT !.trace = Front(@)] = [trace |-> i.trace, seq |-> i.seq]
    BY <2>2 DEF AccountId
  <2> QED BY <1>0, <2>1, <2>3, <2>4
<1> QED BY <1>1, <1>2

-----------------------------------------------------------------------------
(* Packets *)

LEMMA PacketFields ==
  ASSUME NEW q \in Packet
  PROVE  /\ q.kind \in Kind /\ q.at \in Chain /\ q.chain \in Chain /\ q.note \in Note
         /\ q.id \in AccountId \cup {None} /\ q # None
BY NoneAssumption DEF Packet

PacketOf(kind, i, n) ==
  [kind |-> kind, at |-> Home[n], id |-> i, chain |-> Peer[n], note |-> n]

LEMMA PacketMade ==
  ASSUME NEW kind \in Kind, NEW i \in AccountId \cup {None}, NEW n \in Note
  PROVE  LET q == PacketOf(kind, i, n) IN
         /\ q \in Packet /\ q # None
         /\ q.kind = kind /\ q.at = Home[n] /\ q.id = i /\ q.chain = Peer[n] /\ q.note = n
<1> DEFINE q == PacketOf(kind, i, n)
<1>1. Home[n] \in Chain /\ Peer[n] \in Chain
  BY NetworkAssumption
<1>2. q \in Packet
  BY <1>1 DEF Packet, PacketOf
<1> QED BY <1>2, NoneAssumption DEF PacketOf

\* What a packet that is sent adds, for every kind of request.
LEMMA SendStep ==
  ASSUME CallsInv, NEW r \in Request, NEW kind \in Kind, NEW n \in Note,
         NEW i \in AccountId \cup {None}, kind \notin Anonymous => i \in AccountId,
         Send(r, kind, i, n),
         IF kind = "actions" THEN callbacks' = callbacks \cup {r} ELSE UNCHANGED callbacks,
         IF kind \in {"funds", "actions"} THEN coin' = [coin EXCEPT ![r] = "transit"] ELSE UNCHANGED coin
  PROVE  CallsInv'
<1> DEFINE q == PacketOf(kind, i, n)
<1>1. /\ request \in [Request -> Packet \cup {None}]
      /\ status \in [Request -> {"unsent", "flying", "done", "failed", "closed"}]
      /\ callbacks \subseteq Request
      /\ coin \in [Request -> {"transit", "remote", "client", "account", None}]
      /\ effect \in [Request -> BOOLEAN]
      /\ answer \in [Request -> {"ok", "error", None}]
  BY DEF CallsInv, CallTypes
<1>2. /\ q \in Packet /\ q # None
      /\ q.kind = kind /\ q.at = Home[n] /\ q.id = i /\ q.chain = Peer[n] /\ q.note = n
  BY PacketMade
<1>3. /\ request' = [request EXCEPT ![r] = q] /\ status' = [status EXCEPT ![r] = "flying"]
      /\ effect' = effect /\ answer' = answer /\ status[r] = "unsent"
  BY DEF Send, Sent, PacketOf
<1> HIDE DEF q
<1>4. /\ request'[r] = q /\ status'[r] = "flying"
      /\ \A p \in Request : p # r => request'[p] = request[p] /\ status'[p] = status[p]
                                     /\ coin'[p] = coin[p] /\ (p \in callbacks' <=> p \in callbacks)
  BY <1>1, <1>3
<1>5. CallTypes'
  <2>1. request' \in [Request -> Packet \cup {None}]
    BY <1>1, <1>2, <1>3
  <2>2. status' \in [Request -> {"unsent", "flying", "done", "failed", "closed"}]
    BY <1>1, <1>3
  <2>3. callbacks' \subseteq Request /\ coin' \in [Request -> {"transit", "remote", "client", "account", None}]
    BY <1>1
  <2>4. \A p \in Request : Sent(p)' <=> request'[p] # None
    BY <1>2, <1>4 DEF Sent, CallsInv, CallTypes
  <2> QED BY <1>1, <1>3, <2>1, <2>2, <2>3, <2>4 DEF CallTypes
<1>6. PacketsWell'
  BY <1>2, <1>4 DEF PacketsWell, CallsInv, Sent
<1>7. OutcomeKnown'
  BY <1>3, <1>4 DEF OutcomeKnown, CallsInv
<1>8. TransfersSettle'
  <2> SUFFICES ASSUME NEW p \in Request, Sent(p)', request'[p].kind = "actions"
               PROVE  /\ p \in callbacks' <=> status'[p] # "closed"
                      /\ coin'[p] = IF effect'[p] THEN "remote"
                                    ELSE IF status'[p] = "closed" THEN "account" ELSE "transit"
    BY DEF TransfersSettle
  <2>1. CASE p = r
    <3>1. effect[r] = FALSE
      BY <1>3 DEF CallsInv, OutcomeKnown
    <3> QED BY <1>1, <1>2, <1>3, <1>4, <2>1, <3>1
  <2>2. CASE p # r
    BY <1>3, <1>4, <2>2 DEF CallsInv, TransfersSettle, Sent
  <2> QED BY <2>1, <2>2
<1> QED BY <1>5, <1>6, <1>7, <1>8 DEF CallsInv

\* What the execution of a packet changes in it.
LEMMA ExecutedStep ==
  ASSUME CallsInv, NEW r \in Request, status[r] = "flying", Executed(r),
         coin' = IF request[r].kind \in {"funds", "actions"}
                 THEN [coin EXCEPT ![r] = "remote"] ELSE coin
  PROVE  CallsInv'
<1>1. CallTypes
  BY DEF CallsInv
<1>2. /\ request' = request /\ callbacks' = callbacks /\ answer' = answer
      /\ status' = [status EXCEPT ![r] = "done"] /\ effect' = [effect EXCEPT ![r] = TRUE]
  BY DEF Executed
<1>3. /\ status'[r] = "done" /\ effect'[r] = TRUE
      /\ \A p \in Request : p # r => /\ status'[p] = status[p] /\ effect'[p] = effect[p]
                                     /\ coin'[p] = coin[p]
  BY <1>1, <1>2 DEF CallTypes
<1>4. CallTypes'
  <2>1. \A p \in Request : Sent(p)' <=> request'[p] # None
    BY <1>1, <1>2, <1>3 DEF CallTypes, Sent
  <2> QED BY <1>1, <1>2, <2>1 DEF CallTypes
<1>5. PacketsWell'
  BY <1>2, <1>3 DEF CallsInv, PacketsWell, Sent
<1>6. OutcomeKnown'
  BY <1>3 DEF CallsInv, OutcomeKnown
<1>7. TransfersSettle'
  <2> SUFFICES ASSUME NEW p \in Request, Sent(p)', request'[p].kind = "actions"
               PROVE  /\ p \in callbacks' <=> status'[p] # "closed"
                      /\ coin'[p] = IF effect'[p] THEN "remote"
                                    ELSE IF status'[p] = "closed" THEN "account" ELSE "transit"
    BY DEF TransfersSettle
  <2>1. CASE p = r
    <3>1. r \in callbacks
      BY <1>2, <2>1 DEF CallsInv, TransfersSettle, Sent
    <3>2. coin'[r] = "remote"
      BY <1>1, <1>2, <2>1 DEF CallTypes
    <3> QED BY <1>2, <1>3, <2>1, <3>1, <3>2
  <2>2. CASE p # r
    BY <1>2, <1>3, <2>2 DEF CallsInv, TransfersSettle, Sent
  <2> QED BY <2>1, <2>2
<1> QED BY <1>4, <1>5, <1>6, <1>7 DEF CallsInv

LEMMA FailStep ==
  ASSUME CallsInv, NEW r \in Request, Fail(r)
  PROVE  CallsInv'
<1>1. CallTypes
  BY DEF CallsInv
<1>2. /\ request' = request /\ callbacks' = callbacks /\ answer' = answer /\ coin' = coin
      /\ effect' = effect /\ status[r] = "flying" /\ status' = [status EXCEPT ![r] = "failed"]
  BY DEF Fail
<1>3. status'[r] = "failed" /\ \A p \in Request : p # r => status'[p] = status[p]
  BY <1>1, <1>2 DEF CallTypes
<1>4. CallTypes'
  <2>1. \A p \in Request : Sent(p)' <=> request'[p] # None
    BY <1>1, <1>2, <1>3 DEF CallTypes, Sent
  <2> QED BY <1>1, <1>2, <2>1 DEF CallTypes
<1>5. PacketsWell'
  BY <1>2, <1>3 DEF CallsInv, PacketsWell, Sent
<1>6. OutcomeKnown'
  BY <1>2, <1>3 DEF CallsInv, OutcomeKnown
<1>7. TransfersSettle'
  BY <1>2, <1>3 DEF CallsInv, TransfersSettle, Sent
<1> QED BY <1>4, <1>5, <1>6, <1>7 DEF CallsInv

\* What an acknowledgement changes in its packet.
LEMMA ClosedStep ==
  ASSUME CallsInv, NEW r \in Request, Acknowledged(r), Closed(r),
         answer' \in {answer, [answer EXCEPT ![r] = Outcome(r)]},
         IF request[r].kind = "actions"
         THEN /\ callbacks' = callbacks \ {r}
              /\ coin' = IF status[r] = "failed" THEN [coin EXCEPT ![r] = "account"] ELSE coin
         ELSE callbacks' = callbacks /\ coin' \in {coin, [coin EXCEPT ![r] = "client"]}
  PROVE  CallsInv'
<1>1. CallTypes
  BY DEF CallsInv
<1>2. /\ request' = request /\ effect' = effect /\ status[r] \in {"done", "failed"}
      /\ status' = [status EXCEPT ![r] = "closed"]
  BY DEF Closed, Acknowledged
<1>3. /\ status'[r] = "closed"
      /\ \A p \in Request : p # r => /\ status'[p] = status[p] /\ coin'[p] = coin[p]
                                     /\ p \in callbacks' <=> p \in callbacks
  BY <1>1, <1>2 DEF CallTypes
<1>4. CallTypes'
  <2>1. \A p \in Request : Sent(p)' <=> request'[p] # None
    BY <1>1, <1>2, <1>3 DEF CallTypes, Sent
  <2>2. answer' \in [Request -> {"ok", "error", None}]
    BY <1>1 DEF CallTypes, Outcome
  <2>3. callbacks' \subseteq Request /\ coin' \in [Request -> {"transit", "remote", "client", "account", None}]
    BY <1>1 DEF CallTypes
  <2> QED BY <1>1, <1>2, <2>1, <2>2, <2>3 DEF CallTypes
<1>5. PacketsWell'
  BY <1>2, <1>3 DEF CallsInv, PacketsWell, Sent
<1>6. OutcomeKnown'
  BY <1>2, <1>3 DEF CallsInv, OutcomeKnown
<1>7. TransfersSettle'
  <2> SUFFICES ASSUME NEW p \in Request, Sent(p)', request'[p].kind = "actions"
               PROVE  /\ p \in callbacks' <=> status'[p] # "closed"
                      /\ coin'[p] = IF effect'[p] THEN "remote"
                                    ELSE IF status'[p] = "closed" THEN "account" ELSE "transit"
    BY DEF TransfersSettle
  <2>1. CASE p = r
    <3>1. coin[r] = IF effect[r] THEN "remote" ELSE "transit"
      BY <1>2, <2>1 DEF CallsInv, TransfersSettle, Sent
    <3>2. /\ status[r] = "done" => effect[r] = TRUE
          /\ status[r] = "failed" => effect[r] = FALSE
      BY DEF CallsInv, OutcomeKnown
    <3>3. r \notin callbacks' /\ (status[r] = "failed" => coin'[r] = "account")
                              /\ (status[r] = "done" => coin'[r] = coin[r])
      BY <1>1, <1>2, <2>1 DEF CallTypes
    <3> QED BY <1>2, <1>3, <2>1, <3>1, <3>2, <3>3
  <2>2. CASE p # r
    BY <1>2, <1>3, <2>2 DEF CallsInv, TransfersSettle, Sent
  <2> QED BY <2>1, <2>2
<1> QED BY <1>4, <1>5, <1>6, <1>7 DEF CallsInv

\* Everything that concerns the packets alone is preserved by every step.
LEMMA CallsStep ==
  ASSUME CallsInv, AccountTypes, Next
  PROVE  CallsInv'
<1>0. \A n \in Note : Home[n] \in Chain /\ existing[Home[n]] \subseteq AccountId
  BY NetworkAssumption DEF AccountTypes
<1>u. ASSUME UNCHANGED <<callVars, request, callbacks, coin>>
      PROVE  CallsInv'
  BY <1>u DEF callVars, CallsInv, CallTypes, PacketsWell, OutcomeKnown, TransfersSettle, Sent
<1>1. ASSUME NEW r \in Request, NEW n \in Note, RegisterInfrastructure(r, n)
      PROVE  CallsInv'
  <2>1. Send(r, "whoami", None, n) /\ callbacks' = callbacks /\ coin' = coin
    BY <1>1 DEF RegisterInfrastructure
  <2> QED BY <2>1, SendStep DEF Kind, Anonymous
<1>2. ASSUME NEW n \in Note, RemoveHost(n) \/ RemoveChainProxy(n) \/ RegisterChainProxy(n)
      PROVE  CallsInv'
  BY <1>2, <1>u DEF RemoveHost, RemoveChainProxy, RegisterChainProxy
<1>3. ASSUME NEW r \in Request, NEW n \in Note, NEW i, NEW kind,
             SendPacket(r, kind, i, n),
             \/ kind \in {"register", "dispatch", "module"} /\ i \in existing[Home[n]]
             \/ kind \in {"adapter", "query"} /\ i = None
      PROVE  CallsInv'
  <2>1. /\ Send(r, kind, i, n) /\ callbacks' = callbacks /\ coin' = coin
        /\ i \in AccountId \cup {None} /\ (kind \notin Anonymous => i \in AccountId)
    BY <1>0, <1>3 DEF SendPacket, Anonymous
  <2> QED BY <1>3, <2>1, SendStep DEF Kind, Anonymous
<1>4. ASSUME NEW r \in Request, NEW n \in Note, NEW i \in existing[Home[n]], NEW given \in BOOLEAN,
             SendFunds(r, i, n, given)
      PROVE  CallsInv'
  <2>1. /\ Send(r, "funds", i, n) /\ callbacks' = callbacks /\ i \in AccountId
        /\ coin' = [coin EXCEPT ![r] = "transit"]
    BY <1>0, <1>4 DEF SendFunds
  <2> QED BY <2>1, SendStep DEF Kind, Anonymous
<1>5. ASSUME NEW r \in Request, NEW n \in Note, NEW i \in existing[Home[n]],
             SendFundsWithActions(r, i, n)
      PROVE  CallsInv'
  <2>1. /\ Send(r, "actions", i, n) /\ callbacks' = callbacks \cup {r} /\ i \in AccountId
        /\ coin' = [coin EXCEPT ![r] = "transit"]
    BY <1>0, <1>5 DEF SendFundsWithActions
  <2> QED BY <2>1, SendStep DEF Kind, Anonymous
<1>6. ASSUME NEW r \in Request, Execute(r)
      PROVE  CallsInv'
  <2>1. /\ status[r] = "flying" /\ Executed(r)
        /\ coin' = IF request[r].kind \in {"funds", "actions"}
                   THEN [coin EXCEPT ![r] = "remote"] ELSE coin
    BY <1>6 DEF Execute, ExecuteRegister, ExecuteDispatch, ExecuteModule, ExecuteAdapter, ExecuteRead,
                ReceiveFunds, ReceiveFundsHook
  <2> QED BY <2>1, ExecutedStep
<1>7. ASSUME NEW r \in Request, Fail(r)
      PROVE  CallsInv'
  BY <1>7, FailStep
<1>8. ASSUME NEW r \in Request, Ack(r)
      PROVE  CallsInv'
  <2>1. /\ Acknowledged(r) /\ Closed(r)
        /\ answer' \in {answer, [answer EXCEPT ![r] = Outcome(r)]}
        /\ IF request[r].kind = "actions"
           THEN /\ callbacks' = callbacks \ {r}
                /\ coin' = IF status[r] = "failed" THEN [coin EXCEPT ![r] = "account"] ELSE coin
           ELSE callbacks' = callbacks /\ coin' \in {coin, [coin EXCEPT ![r] = "client"]}
    BY <1>8 DEF Ack, AckIgnored, AckWhoAmI, AckRegister, AckModule, AckFunds, AckActions,
                Told, Refund, Filed
  <2> QED BY <2>1, ClosedStep
<1>9. ASSUME NEW f \in FundInput, FundDirectly(f.at, f.id)
      PROVE  CallsInv'
  BY <1>9, <1>u DEF FundDirectly
<1> QED
  BY <1>1, <1>2, <1>3, <1>4, <1>5, <1>6, <1>7, <1>8, <1>9, InputAssumption
     DEF Next, NextAdmin, NextSend, NextQuery, NextNetwork,
         RegisterAccount, SendAction, SendModuleToModule, SendQuery

-----------------------------------------------------------------------------
(* Channels *)

LEMMA ChannelsStep ==
  ASSUME CallsInv, ChannelsInv, Next
  PROVE  ChannelsInv'
<1>0. ChannelTypes /\ ChannelsKnown /\ ChannelsInverse
  BY DEF ChannelsInv
<1>n. \A n \in Note : Home[n] \in Chain /\ Peer[n] \in Chain
  BY NetworkAssumption
<1>u. ASSUME UNCHANGED <<infra, remoteProxy, revNote, chainProxies, revProxies>>
      PROVE  ChannelsInv'
  BY <1>u DEF ChannelsInv, ChannelTypes, ChannelsKnown, ChannelsInverse
<1>1. ASSUME NEW r \in Request, NEW n \in Note, RegisterInfrastructure(r, n)
      PROVE  ChannelsInv'
  <2> DEFINE entry == <<Home[n], Peer[n]>>
  <2>1. /\ infra[entry] = None /\ revNote[n] = None /\ entry \in Chain \X Chain
        /\ infra' = [infra EXCEPT ![entry] = n] /\ revNote' = [revNote EXCEPT ![n] = Peer[n]]
        /\ UNCHANGED <<remoteProxy, chainProxies, revProxies>>
    BY <1>1, <1>n DEF RegisterInfrastructure, Send, hostVars
  <2>2. ChannelTypes' /\ ChannelsKnown'
    BY <1>0, <1>n, <2>1 DEF ChannelTypes, ChannelsKnown
  <2>3. \A c, d \in Chain, m \in Note : infra'[<<c, d>>] = m <=> Home[m] = c /\ revNote'[m] = d
    <3> SUFFICES ASSUME NEW c \in Chain, NEW d \in Chain, NEW m \in Note
                 PROVE  infra'[<<c, d>>] = m <=> Home[m] = c /\ revNote'[m] = d
      OBVIOUS
    <3>1. infra[<<c, d>>] = m <=> Home[m] = c /\ revNote[m] = d
      BY <1>0 DEF ChannelsInverse
    <3>2. infra[entry] = m <=> Home[m] = Home[n] /\ revNote[m] = Peer[n]
      BY <1>0, <1>n DEF ChannelsInverse
    <3> QED BY <1>0, <1>n, <2>1, <3>1, <3>2, NoneAssumption DEF ChannelTypes
  <2> QED BY <1>0, <2>1, <2>2, <2>3 DEF ChannelsInv, ChannelsInverse
<1>2. ASSUME NEW n \in Note, RemoveHost(n)
      PROVE  ChannelsInv'
  <2> DEFINE entry == <<Home[n], Peer[n]>>
  <2>1. /\ infra[entry] = n /\ entry \in Chain \X Chain
        /\ infra' = [infra EXCEPT ![entry] = None] /\ revNote' = [revNote EXCEPT ![n] = None]
        /\ remoteProxy' \subseteq remoteProxy /\ UNCHANGED <<chainProxies, revProxies>>
    BY <1>2, <1>n DEF RemoveHost, ForgottenNote, hostVars
  <2>2. ChannelTypes' /\ ChannelsKnown'
    BY <1>0, <1>n, <2>1 DEF ChannelTypes, ChannelsKnown
  <2>3. \A c, d \in Chain, m \in Note : infra'[<<c, d>>] = m <=> Home[m] = c /\ revNote'[m] = d
    <3> SUFFICES ASSUME NEW c \in Chain, NEW d \in Chain, NEW m \in Note
                 PROVE  infra'[<<c, d>>] = m <=> Home[m] = c /\ revNote'[m] = d
      OBVIOUS
    <3>1. infra[<<c, d>>] = m <=> Home[m] = c /\ revNote[m] = d
      BY <1>0 DEF ChannelsInverse
    <3>2. /\ infra[entry] = m <=> Home[m] = Home[n] /\ revNote[m] = Peer[n]
          /\ revNote[n] = Peer[n]
      BY <1>0, <1>n, <2>1 DEF ChannelsInverse
    <3> QED BY <1>0, <1>n, <2>1, <3>1, <3>2, NoneAssumption DEF ChannelTypes
  <2> QED BY <1>0, <2>1, <2>2, <2>3 DEF ChannelsInv, ChannelsInverse
<1>3. ASSUME NEW n \in Note, RegisterChainProxy(n)
      PROVE  ChannelsInv'
  <2> DEFINE entry == <<Peer[n], Home[n]>>
  <2>1. /\ chainProxies[entry] = None /\ revProxies[n] = None /\ entry \in Chain \X Chain
        /\ chainProxies' = [chainProxies EXCEPT ![entry] = n]
        /\ revProxies' = [revProxies EXCEPT ![n] = Home[n]]
        /\ UNCHANGED <<infra, remoteProxy, revNote>>
    BY <1>3, <1>n DEF RegisterChainProxy, clientVars
  <2>2. ChannelTypes' /\ ChannelsKnown'
    BY <1>0, <1>n, <2>1 DEF ChannelTypes, ChannelsKnown
  <2>3. \A c, d \in Chain, m \in Note :
          chainProxies'[<<d, c>>] = m <=> Peer[m] = d /\ revProxies'[m] = c
    <3> SUFFICES ASSUME NEW c \in Chain, NEW d \in Chain, NEW m \in Note
                 PROVE  chainProxies'[<<d, c>>] = m <=> Peer[m] = d /\ revProxies'[m] = c
      OBVIOUS
    <3>1. chainProxies[<<d, c>>] = m <=> Peer[m] = d /\ revProxies[m] = c
      BY <1>0 DEF ChannelsInverse
    <3>2. chainProxies[entry] = m <=> Peer[m] = Peer[n] /\ revProxies[m] = Home[n]
      BY <1>0, <1>n DEF ChannelsInverse
    <3> QED BY <1>0, <1>n, <2>1, <3>1, <3>2, NoneAssumption DEF ChannelTypes
  <2> QED BY <1>0, <2>1, <2>2, <2>3 DEF ChannelsInv, ChannelsInverse
<1>4. ASSUME NEW n \in Note, RemoveChainProxy(n)
      PROVE  ChannelsInv'
  <2> DEFINE entry == <<Peer[n], Home[n]>>
  <2>1. /\ chainProxies[entry] = n /\ entry \in Chain \X Chain
        /\ chainProxies' = [chainProxies EXCEPT ![entry] = None]
        /\ revProxies' = [revProxies EXCEPT ![n] = None]
        /\ UNCHANGED <<infra, remoteProxy, revNote>>
    BY <1>4, <1>n DEF RemoveChainProxy, ForgottenProxy, clientVars
  <2>2. ChannelTypes' /\ ChannelsKnown'
    BY <1>0, <1>n, <2>1 DEF ChannelTypes, ChannelsKnown
  <2>3. \A c, d \in Chain, m \in Note :
          chainProxies'[<<d, c>>] = m <=> Peer[m] = d /\ revProxies'[m] = c
    <3> SUFFICES ASSUME NEW c \in Chain, NEW d \in Chain, NEW m \in Note
                 PROVE  chainProxies'[<<d, c>>] = m <=> Peer[m] = d /\ revProxies'[m] = c
      OBVIOUS
    <3>1. chainProxies[<<d, c>>] = m <=> Peer[m] = d /\ revProxies[m] = c
      BY <1>0 DEF ChannelsInverse
    <3>2. /\ chainProxies[entry] = m <=> Peer[m] = Peer[n] /\ revProxies[m] = Home[n]
          /\ revProxies[n] = Home[n]
      BY <1>0, <1>n, <2>1 DEF ChannelsInverse
    <3> QED BY <1>0, <1>n, <2>1, <3>1, <3>2, NoneAssumption DEF ChannelTypes
  <2> QED BY <1>0, <2>1, <2>2, <2>3 DEF ChannelsInv, ChannelsInverse
<1>5. ASSUME NEW r \in Request, NEW n \in Note, NEW i, NEW kind, NEW given,
             SendPacket(r, kind, i, n) \/ SendFunds(r, i, n, given) \/ SendFundsWithActions(r, i, n)
      PROVE  ChannelsInv'
  BY <1>5, <1>u DEF SendPacket, SendFunds, SendFundsWithActions, Send, hostVars
<1>6. ASSUME NEW r \in Request, Execute(r) \/ Fail(r)
      PROVE  ChannelsInv'
  BY <1>6, <1>u DEF Execute, ExecuteRegister, ExecuteDispatch, ExecuteModule, ExecuteAdapter, ExecuteRead,
                    ReceiveFunds, ReceiveFundsHook, Executed, Fail, clientVars, hostVars
<1>7. ASSUME NEW r \in Request, AckWhoAmI(r)
      PROVE  ChannelsInv'
  <2>1. request[r] \in Packet
    BY <1>7 DEF AckWhoAmI, Acknowledged, CallsInv, CallTypes, Sent
  <2>2. request[r].at \in Chain /\ request[r].note \in Note
    BY <2>1, PacketFields
  <2>3. UNCHANGED <<infra, revNote, chainProxies, revProxies>>
    BY <1>7 DEF AckWhoAmI, Closed, hostVars
  <2>4. remoteProxy' \subseteq Chain \X Chain
    BY <1>0, <1>7, <2>2 DEF AckWhoAmI, ChannelTypes
  <2> QED BY <1>0, <2>3, <2>4 DEF ChannelsInv, ChannelTypes, ChannelsKnown, ChannelsInverse
<1>8. ASSUME NEW r \in Request,
             AckIgnored(r) \/ AckRegister(r) \/ AckModule(r) \/ AckFunds(r) \/ AckActions(r)
      PROVE  ChannelsInv'
  BY <1>8, <1>u DEF AckIgnored, AckRegister, AckModule, AckFunds, AckActions, Closed, hostVars
<1>9. ASSUME NEW f \in FundInput, FundDirectly(f.at, f.id)
      PROVE  ChannelsInv'
  BY <1>9, <1>u DEF FundDirectly, clientVars
<1> QED
  BY <1>1, <1>2, <1>3, <1>4, <1>5, <1>6, <1>7, <1>8, <1>9, InputAssumption
     DEF Next, NextAdmin, NextSend, NextQuery, NextNetwork,
         RegisterAccount, SendAction, SendModuleToModule, SendQuery, Ack

-----------------------------------------------------------------------------
(* Accounts *)

\* Accounts are only ever added, and no longer traces than allowed.
LEMMA CreatedGrows ==
  ASSUME AccountTypes, NEW d \in Chain, NEW j \in AccountId,
         j \in existing[d] \/ CanCreate(d, j), Created(d, j)
  PROVE  /\ existing' \in [Chain -> SUBSET AccountId]
         /\ \A c \in Chain : \A i \in existing'[c] : Len(i.trace) <= MAX_TRACE_LENGTH
         /\ \A c \in Chain : existing[c] \subseteq existing'[c]
         /\ j \in existing'[d]
<1>1. existing \in [Chain -> SUBSET AccountId]
  BY DEF AccountTypes
<1>2. existing' = [existing EXCEPT ![d] = @ \cup {j}]
  BY DEF Created
<1>3. Len(j.trace) <= MAX_TRACE_LENGTH
  <2>1. CASE j \in existing[d]
    BY <2>1 DEF AccountTypes
  <2>2. CASE CanCreate(d, j)
    BY <2>2, NetworkAssumption DEF CanCreate, RemoteVerified
  <2> QED BY <2>1, <2>2
<1>4. /\ existing' \in [Chain -> SUBSET AccountId] /\ existing'[d] = existing[d] \cup {j}
      /\ \A c \in Chain : c # d => existing'[c] = existing[c]
  BY <1>1, <1>2
<1>5. \A c \in Chain : \A i \in existing'[c] : Len(i.trace) <= MAX_TRACE_LENGTH
  BY <1>3, <1>4 DEF AccountTypes
<1> QED BY <1>4, <1>5

\* Growth of the accounts and changes of the packets that leave sent ones alone
\* keep what is known of the rights that were used and the accounts on record.
LEMMA AccountsKept ==
  ASSUME InterchainInv, UNCHANGED accounts,
         existing' \in [Chain -> SUBSET AccountId],
         \A c \in Chain : existing[c] \subseteq existing'[c]
  PROVE  RecordedAccountsExist'
BY DEF InterchainInv, AccountsInv, AccountTypes, RecordedAccountsExist

LEMMA ActedKept ==
  ASSUME InterchainInv, UNCHANGED acted,
         \A p \in Request : Sent(p) => Sent(p)' /\ request'[p] = request[p]
  PROVE  ActedFor'
<1>1. ASSUME NEW x \in acted
      PROVE  x[1] \in Request /\ Sent(x[1])
  BY DEF InterchainInv, AccountsInv, AccountTypes, ActedFor
<1> QED BY <1>1 DEF InterchainInv, AccountsInv, ActedFor

\* The packet of a step is a packet, with an account but for the anonymous ones.
LEMMA SentPacket ==
  ASSUME InterchainInv, NEW r \in Request, status[r] # "unsent"
  PROVE  LET q == request[r] IN
         /\ q \in Packet /\ q.kind \in Kind /\ q.at \in Chain /\ q.chain \in Chain /\ q.note \in Note
         /\ q.at = Home[q.note] /\ q.chain = Peer[q.note]
         /\ q.kind \notin Anonymous => q.id \in AccountId
         /\ revProxies[q.note] \in {None, q.at} /\ revNote[q.note] \in {None, q.chain}
<1>1. request[r] \in Packet
  BY DEF InterchainInv, CallsInv, CallTypes, Sent
<1>2. request[r].note \in Note
  BY <1>1, PacketFields
<1> QED
  BY <1>1, <1>2, PacketFields
     DEF InterchainInv, CallsInv, PacketsWell, Sent, ChannelsInv, ChannelsKnown

LEMMA AccountsStep ==
  ASSUME InterchainInv, CallsInv', Next
  PROVE  AccountsInv'
<1>0. CallTypes /\ AccountTypes /\ RegisterKept /\ ActedFor /\ RecordedAccountsExist
  BY DEF InterchainInv, CallsInv, AccountsInv
<1>u. ASSUME UNCHANGED <<accounts, existing, acted, status, request>>
      PROVE  AccountsInv'
  BY <1>u DEF InterchainInv, AccountsInv, AccountTypes, RegisterKept, ActedFor, RecordedAccountsExist, Sent
<1>s. ASSUME NEW r \in Request, NEW kind, NEW i, NEW n, Send(r, kind, i, n)
      PROVE  AccountsInv'
  <2>1. /\ UNCHANGED <<accounts, existing, acted>> /\ status' = [status EXCEPT ![r] = "flying"]
        /\ status[r] = "unsent" /\ status'[r] = "flying"
        /\ \A p \in Request : p # r => status'[p] = status[p] /\ request'[p] = request[p]
    BY <1>0, <1>s DEF Send, Sent, hostVars, CallTypes
  <2>2. ActedFor'
    BY <2>1, ActedKept DEF Sent
  <2>3. RegisterKept'
    BY <1>0, <2>1 DEF RegisterKept
  <2>4. AccountTypes' /\ RecordedAccountsExist'
    BY <1>0, <2>1 DEF AccountTypes, RecordedAccountsExist
  <2> QED BY <2>2, <2>3, <2>4 DEF AccountsInv
<1>1. ASSUME NEW r \in Request, NEW n \in Note, RegisterInfrastructure(r, n)
      PROVE  AccountsInv'
  BY <1>1, <1>s DEF RegisterInfrastructure
<1>2. ASSUME NEW n \in Note, RemoveHost(n) \/ RemoveChainProxy(n) \/ RegisterChainProxy(n)
      PROVE  AccountsInv'
  BY <1>2, <1>u DEF RemoveHost, RemoveChainProxy, RegisterChainProxy, clientVars, hostVars, callVars
<1>3. ASSUME NEW r \in Request, NEW n \in Note, NEW i, NEW kind, NEW given,
             SendPacket(r, kind, i, n) \/ SendFunds(r, i, n, given) \/ SendFundsWithActions(r, i, n)
      PROVE  AccountsInv'
  BY <1>3, <1>s DEF SendPacket, SendFunds, SendFundsWithActions
<1>4. ASSUME NEW r \in Request, Execute(r)
      PROVE  AccountsInv'
  <2> DEFINE q == request[r]
  <2>1. /\ status[r] = "flying" /\ request' = request /\ accounts' = accounts
        /\ status' = [status EXCEPT ![r] = "done"]
    BY <1>4 DEF Execute, ExecuteRegister, ExecuteDispatch, ExecuteModule, ExecuteAdapter, ExecuteRead,
                ReceiveFunds, ReceiveFundsHook, Executed, clientVars
  <2>2. /\ q.at \in Chain /\ q.chain \in Chain /\ q.note \in Note
        /\ q.kind \notin Anonymous => q.id \in AccountId
        /\ revProxies[q.note] \in {None, q.at}
    BY <2>1, SentPacket
  <2>3. /\ status'[r] = "done" /\ \A p \in Request : p # r => status'[p] = status[p]
        /\ \A p \in Request : Sent(p) => Sent(p)' /\ request'[p] = request[p]
    BY <1>0, <2>1 DEF CallTypes, Sent
  <2>4. ASSUME UNCHANGED existing, q.kind # "register"
        PROVE  RegisterKept' /\ RecordedAccountsExist'
    BY <1>0, <2>1, <2>3, <2>4 DEF RegisterKept, RecordedAccountsExist
  <2>5. ASSUME NEW j, j = HostAccountId(q.chain, q.at, q.id), q.kind \notin Anonymous,
               j \in existing[q.chain] \/ CanCreate(q.chain, j), Created(q.chain, j)
        PROVE  /\ RegisterKept' /\ RecordedAccountsExist' /\ j \in AccountId
               /\ existing' \in [Chain -> SUBSET AccountId]
               /\ \A c \in Chain : \A i \in existing'[c] : Len(i.trace) <= MAX_TRACE_LENGTH
    <3>1. j \in AccountId
      BY <2>2, <2>5, PushType DEF HostAccountId
    <3>2. /\ existing' \in [Chain -> SUBSET AccountId] /\ j \in existing'[q.chain]
          /\ \A c \in Chain : \A i \in existing'[c] : Len(i.trace) <= MAX_TRACE_LENGTH
          /\ \A c \in Chain : existing[c] \subseteq existing'[c]
      BY <1>0, <2>2, <2>5, <3>1, CreatedGrows
    <3>3. RegisterKept'
      <4> SUFFICES ASSUME NEW p \in Request, status'[p] = "done", request[p].kind = "register"
                   PROVE  HostAccountId(request[p].chain, request[p].at, request[p].id)
                            \in existing'[request[p].chain]
        BY <2>1 DEF RegisterKept
      <4>1. CASE p = r
        BY <2>5, <3>2, <4>1
      <4>2. CASE p # r
        <5>1. status[p] = "done"
          BY <2>3, <4>2
        <5>2. request[p].chain \in Chain
          BY <5>1, SentPacket
        <5> QED BY <1>0, <3>2, <5>1, <5>2 DEF RegisterKept
      <4> QED BY <4>1, <4>2
    <3> QED BY <2>1, <3>1, <3>2, <3>3, AccountsKept
  <2>6. CASE ExecuteRegister(r)
    <3> DEFINE j == HostAccountId(q.chain, q.at, q.id)
    <3>1. /\ q.kind = "register" /\ revProxies[q.note] = q.at /\ CanCreate(q.chain, j)
          /\ Created(q.chain, j) /\ acted' = acted
      BY <2>2, <2>6 DEF ExecuteRegister
    <3>2. /\ RegisterKept' /\ RecordedAccountsExist'
          /\ existing' \in [Chain -> SUBSET AccountId]
          /\ \A c \in Chain : \A i \in existing'[c] : Len(i.trace) <= MAX_TRACE_LENGTH
      BY <2>5, <3>1 DEF Anonymous
    <3>3. ActedFor'
      BY <2>3, <3>1, ActedKept
    <3> QED BY <1>0, <2>1, <3>1, <3>2, <3>3 DEF AccountsInv, AccountTypes
  <2>7. CASE ExecuteDispatch(r)
    <3> DEFINE j == HostAccountId(q.chain, q.at, q.id)
    <3>1. /\ q.kind = "dispatch" /\ revProxies[q.note] = q.at
          /\ j \in existing[q.chain] \/ CanCreate(q.chain, j)
          /\ Created(q.chain, j) /\ acted' = acted \cup {<<r, q.chain, j>>}
      BY <2>2, <2>7 DEF ExecuteDispatch
    <3>2. /\ RegisterKept' /\ RecordedAccountsExist' /\ j \in AccountId
          /\ existing' \in [Chain -> SUBSET AccountId]
          /\ \A c \in Chain : \A i \in existing'[c] : Len(i.trace) <= MAX_TRACE_LENGTH
      BY <2>5, <3>1 DEF Anonymous
    <3> HIDE DEF j
    <3>3. ActedFor'
      <4> SUFFICES ASSUME NEW x \in acted'
                   PROVE  LET y == request[x[1]] IN
                          /\ Sent(x[1])' /\ x[2] = y.chain
                          /\ y.kind = "dispatch" => x[3] = HostAccountId(y.chain, y.at, y.id)
                          /\ y.kind = "module" => x[3] = ClientToHostModuleAccountId(y.chain, y.at, y.id)
        BY <2>1 DEF ActedFor
      <4>1. CASE x \in acted
        <5>1. x[1] \in Request
          BY <1>0, <4>1 DEF AccountTypes
        <5> QED BY <1>0, <2>3, <4>1, <5>1 DEF ActedFor
      <4>2. CASE x = <<r, q.chain, j>>
        <5>1. x[1] = r /\ x[2] = q.chain /\ x[3] = j
          BY <4>2
        <5>2. Sent(r)'
          BY <2>3 DEF Sent
        <5> QED BY <3>1, <5>1, <5>2 DEF j
      <4> QED BY <3>1, <4>1, <4>2
    <3>4. acted' \subseteq Request \X Chain \X AccountId
      BY <1>0, <2>2, <3>1, <3>2 DEF AccountTypes
    <3> QED BY <1>0, <2>1, <3>2, <3>3, <3>4 DEF AccountsInv, AccountTypes
  <2>8. CASE ExecuteModule(r)
    <3> DEFINE j == ClientToHostModuleAccountId(q.chain, q.at, q.id)
    <3>1. /\ q.kind = "module" /\ revProxies[q.note] = q.at /\ existing' = existing
          /\ acted' = acted \cup {<<r, q.chain, j>>}
      BY <2>2, <2>8 DEF ExecuteModule
    <3>2. j \in AccountId
      BY <2>2, <3>1, ModuleIdType DEF Anonymous
    <3> HIDE DEF j
    <3>3. ActedFor'
      <4> SUFFICES ASSUME NEW x \in acted'
                   PROVE  LET y == request[x[1]] IN
                          /\ Sent(x[1])' /\ x[2] = y.chain
                          /\ y.kind = "dispatch" => x[3] = HostAccountId(y.chain, y.at, y.id)
                          /\ y.kind = "module" => x[3] = ClientToHostModuleAccountId(y.chain, y.at, y.id)
        BY <2>1 DEF ActedFor
      <4>1. CASE x \in acted
        <5>1. x[1] \in Request
          BY <1>0, <4>1 DEF AccountTypes
        <5> QED BY <1>0, <2>3, <4>1, <5>1 DEF ActedFor
      <4>2. CASE x = <<r, q.chain, j>>
        <5>1. x[1] = r /\ x[2] = q.chain /\ x[3] = j
          BY <4>2
        <5>2. Sent(r)'
          BY <2>3 DEF Sent
        <5> QED BY <3>1, <5>1, <5>2 DEF j
      <4> QED BY <3>1, <4>1, <4>2
    <3>4. acted' \subseteq Request \X Chain \X AccountId
      BY <1>0, <2>2, <3>1, <3>2 DEF AccountTypes
    <3>5. RegisterKept' /\ RecordedAccountsExist'
      BY <2>4, <3>1
    <3> QED BY <1>0, <2>1, <3>1, <3>3, <3>4, <3>5 DEF AccountsInv, AccountTypes
  <2>9. CASE ExecuteAdapter(r) \/ ExecuteRead(r) \/ ReceiveFunds(r)
    <3>1. q.kind # "register" /\ existing' = existing /\ acted' = acted
      BY <2>9 DEF ExecuteAdapter, ExecuteRead, ReceiveFunds
    <3>2. ActedFor' /\ RegisterKept' /\ RecordedAccountsExist'
      BY <2>3, <2>4, <3>1, ActedKept
    <3> QED BY <1>0, <2>1, <3>1, <3>2 DEF AccountsInv, AccountTypes
  <2>10. CASE ReceiveFundsHook(r)
    <3> DEFINE j == HostAccountId(q.chain, q.at, q.id)
    <3>1. /\ q.kind = "actions"
          /\ j \in existing[q.chain] \/ CanCreate(q.chain, j)
          /\ Created(q.chain, j) /\ acted' = acted
      BY <2>10 DEF ReceiveFundsHook
    <3>2. /\ RegisterKept' /\ RecordedAccountsExist'
          /\ existing' \in [Chain -> SUBSET AccountId]
          /\ \A c \in Chain : \A i \in existing'[c] : Len(i.trace) <= MAX_TRACE_LENGTH
      BY <2>5, <3>1 DEF Anonymous
    <3>3. ActedFor'
      BY <2>3, <3>1, ActedKept
    <3> QED BY <1>0, <2>1, <3>1, <3>2, <3>3 DEF AccountsInv, AccountTypes
  <2> QED BY <1>4, <2>6, <2>7, <2>8, <2>9, <2>10 DEF Execute
<1>5. ASSUME NEW r \in Request, Fail(r)
      PROVE  AccountsInv'
  <2>1. /\ UNCHANGED <<accounts, existing, acted, request>> /\ status[r] = "flying"
        /\ status' = [status EXCEPT ![r] = "failed"]
    BY <1>5 DEF Fail, clientVars, hostVars
  <2>2. /\ status'[r] = "failed" /\ \A p \in Request : p # r => status'[p] = status[p]
        /\ \A p \in Request : Sent(p) => Sent(p)' /\ request'[p] = request[p]
    BY <1>0, <2>1 DEF CallTypes, Sent
  <2>3. ActedFor'
    BY <2>1, <2>2, ActedKept
  <2> QED BY <1>0, <2>1, <2>2, <2>3 DEF AccountsInv, AccountTypes, RegisterKept, RecordedAccountsExist
<1>6. ASSUME NEW r \in Request, Ack(r)
      PROVE  AccountsInv'
  <2> DEFINE q == request[r]
  <2>1. /\ UNCHANGED <<existing, acted, request>> /\ status[r] \in {"done", "failed"}
        /\ status' = [status EXCEPT ![r] = "closed"]
    BY <1>6 DEF Ack, AckIgnored, AckWhoAmI, AckRegister, AckModule, AckFunds, AckActions,
                Closed, Acknowledged, hostVars
  <2>2. /\ status'[r] = "closed" /\ \A p \in Request : p # r => status'[p] = status[p]
        /\ \A p \in Request : Sent(p) => Sent(p)' /\ request'[p] = request[p]
    BY <1>0, <2>1 DEF CallTypes, Sent
  <2>3. ActedFor' /\ RegisterKept'
    BY <1>0, <2>1, <2>2, ActedKept DEF RegisterKept
  <2>4. /\ accounts' \subseteq [at : Chain, id : AccountId, chain : Chain, addr : AccountId]
        /\ RecordedAccountsExist'
    <3>1. CASE accounts' = accounts
      BY <1>0, <2>1, <3>1 DEF AccountTypes, RecordedAccountsExist
    <3>2. CASE accounts' # accounts
      <4> DEFINE new == [at |-> q.at, id |-> q.id, chain |-> q.chain,
                         addr |-> HostAccountId(q.chain, q.at, q.id)]
      <4>1. AckRegister(r)
        BY <1>6, <3>2 DEF Ack, AckIgnored, AckWhoAmI, AckModule, AckFunds, AckActions
      <4>2. /\ q.at \in Chain /\ q.chain \in Chain /\ q.id \in AccountId
            /\ q.kind = "register" /\ revNote[q.note] = q.chain
        BY <2>1, <4>1, SentPacket DEF AckRegister, Anonymous
      <4>3. status[r] = "done" /\ accounts' \subseteq accounts \cup {new}
        BY <3>2, <4>1, <4>2 DEF AckRegister, Registered
      <4>4. HostAccountId(q.chain, q.at, q.id) \in existing[q.chain]
        BY <1>0, <4>2, <4>3 DEF RegisterKept
      <4>5. HostAccountId(q.chain, q.at, q.id) \in AccountId
        BY <4>2, PushType DEF HostAccountId
      <4>6. new \in [at : Chain, id : AccountId, chain : Chain, addr : AccountId]
        BY <4>2, <4>5
      <4>7. \A a \in accounts' : a \in accounts \/ a = new
        BY <4>3
      <4>8. RecordedAccountsExist'
        <5> SUFFICES ASSUME NEW a \in accounts'
                     PROVE  a.addr \in existing[a.chain] /\ a.addr = HostAccountId(a.chain, a.at, a.id)
          BY <2>1 DEF RecordedAccountsExist
        <5>1. CASE a \in accounts
          BY <1>0, <5>1 DEF RecordedAccountsExist
        <5>2. CASE a = new
          BY <4>4, <5>2
        <5> QED BY <4>7, <5>1, <5>2
      <4> QED BY <1>0, <4>6, <4>7, <4>8 DEF AccountTypes
    <3> QED BY <3>1, <3>2
  <2> QED BY <1>0, <2>1, <2>3, <2>4 DEF AccountsInv, AccountTypes
<1>7. ASSUME NEW f \in FundInput, FundDirectly(f.at, f.id)
      PROVE  AccountsInv'
  <2>1. f.at \in Chain /\ f.id \in AccountId
    BY InputAssumption
  <2>2. /\ UNCHANGED <<accounts, acted, request, status>> /\ Created(f.at, f.id)
        /\ f.id \in existing[f.at] \/ CanCreate(f.at, f.id)
    BY <1>7 DEF FundDirectly, clientVars, callVars
  <2>3. /\ existing' \in [Chain -> SUBSET AccountId]
        /\ \A c \in Chain : \A i \in existing'[c] : Len(i.trace) <= MAX_TRACE_LENGTH
        /\ \A c \in Chain : existing[c] \subseteq existing'[c]
    BY <1>0, <2>1, <2>2, CreatedGrows
  <2>4. RecordedAccountsExist'
    BY <2>2, <2>3, AccountsKept
  <2>5. ActedFor'
    BY <2>2, ActedKept DEF Sent
  <2>6. RegisterKept'
    <3> SUFFICES ASSUME NEW p \in Request, status[p] = "done", request[p].kind = "register"
                 PROVE  HostAccountId(request[p].chain, request[p].at, request[p].id)
                          \in existing'[request[p].chain]
      BY <2>2 DEF RegisterKept
    <3>1. request[p].chain \in Chain
      BY SentPacket
    <3> QED BY <1>0, <2>3, <3>1 DEF RegisterKept
  <2> QED BY <1>0, <2>2, <2>3, <2>4, <2>5, <2>6 DEF AccountsInv, AccountTypes
<1> QED
  BY <1>1, <1>2, <1>3, <1>4, <1>5, <1>6, <1>7, InputAssumption
     DEF Next, NextAdmin, NextSend, NextQuery, NextNetwork,
         RegisterAccount, SendAction, SendModuleToModule, SendQuery

-----------------------------------------------------------------------------
(* The invariant *)

LEMMA InitInv == Init => InterchainInv
<1> SUFFICES ASSUME Init PROVE InterchainInv
  OBVIOUS
<1>1. CallsInv
  BY DEF Init, CallsInv, CallTypes, PacketsWell, OutcomeKnown, TransfersSettle, Sent
<1>2. ASSUME NEW c \in Chain, NEW d \in Chain
      PROVE  /\ DeployedNote(c, d) \in Note \cup {None}
             /\ \A n \in Note : DeployedNote(c, d) = n <=> n \in Deployed /\ Home[n] = c /\ Peer[n] = d
  <2> DEFINE notes == {n \in Deployed : Home[n] = c /\ Peer[n] = d}
  <2>1. CASE notes = {}
    BY <2>1, NoneAssumption, NetworkAssumption DEF DeployedNote
  <2>2. CASE notes # {}
    <3>1. DeployedNote(c, d) \in notes
      BY <2>2 DEF DeployedNote
    <3> QED BY <3>1, NetworkAssumption
  <2> QED BY <2>1, <2>2
<1>3. ChannelTypes /\ ChannelsKnown
  BY <1>2, NetworkAssumption DEF Init, ChannelTypes, ChannelsKnown
<1>4. ChannelsInverse
  <2>1. \A n \in Note :
          /\ revNote[n] = IF n \in Deployed THEN Peer[n] ELSE None
          /\ revProxies[n] = IF n \in Deployed THEN Home[n] ELSE None
    BY DEF Init
  <2>2. \A c, d \in Chain, n \in Note : infra[<<c, d>>] = n <=> Home[n] = c /\ revNote[n] = d
    <3> SUFFICES ASSUME NEW c \in Chain, NEW d \in Chain, NEW n \in Note
                 PROVE  infra[<<c, d>>] = n <=> Home[n] = c /\ revNote[n] = d
      OBVIOUS
    <3>1. infra[<<c, d>>] = DeployedNote(c, d)
      BY DEF Init
    <3> QED BY <1>2, <2>1, <3>1, NoneAssumption
  <2>3. \A c, d \in Chain, n \in Note :
          chainProxies[<<d, c>>] = n <=> Peer[n] = d /\ revProxies[n] = c
    <3> SUFFICES ASSUME NEW c \in Chain, NEW d \in Chain, NEW n \in Note
                 PROVE  chainProxies[<<d, c>>] = n <=> Peer[n] = d /\ revProxies[n] = c
      OBVIOUS
    <3>1. chainProxies[<<d, c>>] = DeployedNote(c, d)
      BY DEF Init
    <3> QED BY <1>2, <2>1, <3>1, NoneAssumption
  <2> QED BY <2>2, <2>3 DEF ChannelsInverse
<1>5. AccountTypes
  <2>1. existing \in [Chain -> SUBSET AccountId]
    BY InputAssumption DEF Init
  <2>2. ASSUME NEW c \in Chain, NEW i \in existing[c]
        PROVE  Len(i.trace) <= MAX_TRACE_LENGTH
    <3>1. i.trace = << >>
      BY <2>2, InputAssumption DEF Init
    <3> QED BY <3>1, NetworkAssumption
  <2> QED BY <2>1, <2>2 DEF Init, AccountTypes
<1>6. RegisterKept /\ ActedFor /\ RecordedAccountsExist
  BY DEF Init, RegisterKept, ActedFor, RecordedAccountsExist
<1> QED BY <1>1, <1>3, <1>4, <1>5, <1>6 DEF InterchainInv, ChannelsInv, AccountsInv

LEMMA StepInv == InterchainInv /\ [Next]_vars => InterchainInv'
<1> SUFFICES ASSUME InterchainInv, [Next]_vars PROVE InterchainInv'
  OBVIOUS
<1>1. CASE Next
  <2>1. CallsInv'
    BY <1>1, CallsStep DEF InterchainInv, AccountsInv
  <2>2. ChannelsInv'
    BY <1>1, ChannelsStep DEF InterchainInv
  <2> QED BY <1>1, <2>1, <2>2, AccountsStep DEF InterchainInv
<1>2. CASE UNCHANGED vars
  BY <1>2 DEF vars, clientVars, hostVars, callVars, InterchainInv, CallsInv, CallTypes, PacketsWell,
              OutcomeKnown, TransfersSettle, ChannelsInv, ChannelTypes, ChannelsKnown, ChannelsInverse,
              AccountsInv, AccountTypes, RegisterKept, ActedFor, RecordedAccountsExist, Sent
<1> QED BY <1>1, <1>2

\* The inductive invariant holds in every state, under any loss, refusal, removal and
\* order of packets that the model allows.
THEOREM InterchainInvariant == Spec => []InterchainInv
BY InitInv, StepInv, PTL DEF Spec

\* Every item of the clients, the hosts and the packets has its type, and no account
\* has a longer trace than the code allows.
THEOREM TypeCorrect == Spec => []TypeOK
<1>1. InterchainInv => TypeOK
  BY DEF InterchainInv, CallsInv, CallTypes, ChannelsInv, ChannelTypes, AccountsInv, AccountTypes, TypeOK
<1> QED BY <1>1, InterchainInvariant, PTL

\* The maps of channels in the clients and in the hosts stay inverse to each other.
THEOREM ChannelsStayInverse == Spec => []ChannelsInverse
<1>1. InterchainInv => ChannelsInverse
  BY DEF InterchainInv, ChannelsInv
<1> QED BY <1>1, InterchainInvariant, PTL

\* The accounts that clients have on record exist on the other chain.
THEOREM RecordsAreTrue == Spec => []RecordedAccountsExist
<1>1. InterchainInv => RecordedAccountsExist
  BY DEF InterchainInv, AccountsInv
<1> QED BY <1>1, InterchainInvariant, PTL

\* Transfers with actions are settled, with their coin on one side.
THEOREM TransfersAlwaysSettle == Spec => []TransfersSettle
<1>1. InterchainInv => TransfersSettle
  BY DEF InterchainInv, CallsInv
<1> QED BY <1>1, InterchainInvariant, PTL

\* What was done for a packet was done by a packet that is well-formed.
LEMMA ActedPacket ==
  ASSUME InterchainInv, NEW x \in acted
  PROVE  LET q == request[x[1]] IN
         /\ q.at \in Chain /\ q.chain \in Chain /\ x[2] = q.chain
         /\ q.kind \notin Anonymous => q.id \in AccountId
         /\ q.kind = "dispatch" => x[3] = HostAccountId(q.chain, q.at, q.id)
         /\ q.kind = "module" => x[3] = ClientToHostModuleAccountId(q.chain, q.at, q.id)
<1>1. x[1] \in Request /\ status[x[1]] # "unsent"
  BY DEF InterchainInv, AccountsInv, AccountTypes, ActedFor, Sent
<1> QED BY <1>1, SentPacket DEF InterchainInv, AccountsInv, ActedFor

\* An account acts on another chain only for the account it was created for: never
\* with the rights of a local account there.
THEOREM ControlAlwaysFollowsTrace == Spec => []ControlFollowsTrace
<1>1. ASSUME InterchainInv PROVE ControlFollowsTrace
  <2> SUFFICES ASSUME NEW x \in acted, request[x[1]].kind = "dispatch"
               PROVE  LET q == request[x[1]]
                          j == x[3]
                      IN  /\ j.trace # << >> /\ Last(j.trace) = q.at
                          /\ Front(j.trace) = q.id.trace /\ j.seq = q.id.seq
    BY DEF ControlFollowsTrace
  <2>1. LET q == request[x[1]] IN q.at \in Chain /\ q.id \in AccountId /\ x[3] = Push(q.id, q.at)
    BY <1>1, ActedPacket DEF HostAccountId, Anonymous
  <2> QED BY <2>1, PushType
<1> QED BY <1>1, InterchainInvariant, PTL

\* A module that was called from another chain answers to the account that called,
\* unless that account has been to this chain and back.
THEOREM ModulesAlwaysCallBack == Spec => []ModulesCallBack
<1>1. ASSUME InterchainInv PROVE ModulesCallBack
  <2> SUFFICES ASSUME NEW x \in acted, request[x[1]].kind = "module",
                      ~RoundTrip(request[x[1]].id, request[x[1]].at, x[2])
               PROVE  ClientToHostModuleAccountId(request[x[1]].at, x[2], x[3]) = request[x[1]].id
    BY DEF ModulesCallBack
  <2>1. LET q == request[x[1]] IN
        /\ q.at \in Chain /\ q.chain \in Chain /\ q.id \in AccountId /\ x[2] = q.chain
        /\ x[3] = ClientToHostModuleAccountId(q.chain, q.at, q.id)
    BY <1>1, ActedPacket DEF Anonymous
  <2> QED BY <2>1, ModuleIdBack
<1> QED BY <1>1, InterchainInvariant, PTL

-----------------------------------------------------------------------------
(* The refinement *)

LEMMA StageTable ==
  /\ StageOf("unsent") = "idle" /\ StageOf("flying") = "open" /\ StageOf("done") = "performed"
  /\ StageOf("failed") = "rejected" /\ StageOf("closed") = "closed"
BY DEF StageOf

\* The stages of the packets after the status of one has changed.
LEMMA StageMoves ==
  ASSUME CallTypes, NEW r \in Request,
         NEW s \in {"unsent", "flying", "done", "failed", "closed"},
         status' = [status EXCEPT ![r] = s]
  PROVE  [p \in Request |-> StageOf(status'[p])]
           = [[p \in Request |-> StageOf(status[p])] EXCEPT ![r] = StageOf(s)]
BY DEF CallTypes

LEMMA RefinesStep ==
  ASSUME InterchainInv, Next
  PROVE  [Remote!Next]_(Remote!callVars)
<1>0. CallTypes /\ OutcomeKnown
  BY DEF InterchainInv, CallsInv
<1>u. ASSUME UNCHANGED callVars
      PROVE  UNCHANGED Remote!callVars
  BY <1>u DEF callVars, Remote!callVars
<1>s. ASSUME NEW r \in Request, NEW kind, NEW i, NEW n, Send(r, kind, i, n)
      PROVE  Remote!Next
  <2>1. /\ status[r] = "unsent" /\ status' = [status EXCEPT ![r] = "flying"]
        /\ effect' = effect /\ answer' = answer
    BY <1>s DEF Send, Sent
  <2>2. Remote!Ask(r)
    BY <1>0, <2>1, StageMoves, StageTable DEF Remote!Ask
  <2> QED BY <2>2 DEF Remote!Next
<1>1. ASSUME NEW r \in Request, NEW n, NEW i, NEW kind, NEW given,
             \/ RegisterInfrastructure(r, n) \/ SendPacket(r, kind, i, n)
             \/ SendFunds(r, i, n, given) \/ SendFundsWithActions(r, i, n)
      PROVE  Remote!Next
  BY <1>1, <1>s DEF RegisterInfrastructure, SendPacket, SendFunds, SendFundsWithActions
<1>2. ASSUME NEW n, RemoveHost(n) \/ RemoveChainProxy(n) \/ RegisterChainProxy(n)
      PROVE  UNCHANGED Remote!callVars
  BY <1>2, <1>u DEF RemoveHost, RemoveChainProxy, RegisterChainProxy
<1>3. ASSUME NEW r \in Request, Execute(r)
      PROVE  Remote!Next
  <2>1. /\ status[r] = "flying" /\ status' = [status EXCEPT ![r] = "done"]
        /\ effect' = [effect EXCEPT ![r] = TRUE] /\ answer' = answer
    BY <1>3 DEF Execute, ExecuteRegister, ExecuteDispatch, ExecuteModule, ExecuteAdapter, ExecuteRead,
                ReceiveFunds, ReceiveFundsHook, Executed
  <2>2. Remote!Perform(r)
    BY <1>0, <2>1, StageMoves, StageTable DEF Remote!Perform
  <2> QED BY <2>2 DEF Remote!Next
<1>4. ASSUME NEW r \in Request, Fail(r)
      PROVE  Remote!Next
  <2>1. /\ status[r] = "flying" /\ status' = [status EXCEPT ![r] = "failed"]
        /\ effect' = effect /\ answer' = answer
    BY <1>4 DEF Fail
  <2>2. Remote!Reject(r)
    BY <1>0, <2>1, StageMoves, StageTable DEF Remote!Reject
  <2> QED BY <2>2 DEF Remote!Next
<1>5. ASSUME NEW r \in Request, Ack(r)
      PROVE  Remote!Next
  <2>1. /\ status[r] \in {"done", "failed"} /\ status' = [status EXCEPT ![r] = "closed"]
        /\ effect' = effect /\ answer' \in {answer, [answer EXCEPT ![r] = Outcome(r)]}
    BY <1>5 DEF Ack, AckIgnored, AckWhoAmI, AckRegister, AckModule, AckFunds, AckActions,
                Closed, Acknowledged, Told
  <2>2. Outcome(r) = IF effect[r] THEN "ok" ELSE "error"
    BY <1>0, <2>1 DEF Outcome, OutcomeKnown
  <2>3. Remote!Close(r)
    BY <1>0, <2>1, <2>2, StageMoves, StageTable DEF Remote!Close
  <2> QED BY <2>3 DEF Remote!Next
<1>6. ASSUME NEW f \in FundInput, FundDirectly(f.at, f.id)
      PROVE  UNCHANGED Remote!callVars
  BY <1>6, <1>u DEF FundDirectly
<1> QED
  BY <1>1, <1>2, <1>3, <1>4, <1>5, <1>6, InputAssumption DEF Next, NextAdmin, NextSend, NextQuery, NextNetwork,
         RegisterAccount, SendAction, SendModuleToModule, SendQuery

\* The clients, the hosts and the network between them implement RemoteCalls: a
\* request takes effect at most once, and what its caller is told is true.
THEOREM Implements == Spec => ImplementsRemoteCalls
<1>1. Init => Remote!Init
  BY StageTable DEF Init, Remote!Init
<1>2. InterchainInv /\ [Next]_vars => [Remote!Next]_(Remote!callVars)
  <2>1. ASSUME UNCHANGED vars PROVE UNCHANGED Remote!callVars
    BY <2>1 DEF vars, callVars, Remote!callVars
  <2> QED BY <2>1, RefinesStep
<1> QED BY <1>1, <1>2, InterchainInvariant, PTL DEF Spec, ImplementsRemoteCalls, Remote!Spec
=============================================================================
