----------------------------- MODULE AdminCalls -----------------------------
(***************************************************************************)
(* What the messages of one transaction may do with an account's rights:   *)
(* the execution endpoints of the account (contracts/account/src/          *)
(* execution.rs), the upgrade of its modules (modules/migration.rs), the   *)
(* admin check of its modules (objects/ownership/nested_admin.rs) and the  *)
(* authorised addresses of its adapters (abstract-adapter, endpoints/      *)
(* execute.rs).                                                            *)
(*                                                                         *)
(* A contract acts on a message, then its own messages run in order, each  *)
(* with all that follows from it.  What a failed message did is undone; its *)
(* failure is its sender's too, unless the sender asked to hear of it.     *)
(* Modules, the owner and strangers are free: they may send what they      *)
(* like.  The account only ever asks to hear of success.                   *)
(***************************************************************************)
EXTENDS Integers, Sequences, FiniteSets

CONSTANTS
  Owner,       \* top-level owner of the account, which may be a contract
  Account,
  App,         \* a module that the account has installed and whitelisted
  Stranger,
  Old, New,    \* two versions of an adapter
  WildCard,    \* CALLING_TO_AS_ADMIN_WILD_CARD
  MAXIMUM_AUTHORIZED_ADDRESSES,
  MaxDepth,    \* bound: messages under way within each other
  Asked,       \* bound: messages that the account is asked to send
  None

Free == {Owner, App, Stranger}
Adapter == {Old, New}
Contract == Free \cup Adapter \cup {Account}

ASSUME ContractAssumption ==
  /\ Old # New /\ Account \notin Free \cup Adapter /\ Free \cap Adapter = {}
  /\ WildCard \notin Contract /\ None \notin Contract /\ None # WildCard
  /\ MAXIMUM_AUTHORIZED_ADDRESSES \in Nat /\ MaxDepth \in Nat

VARIABLES
  mark,        \* CALLING_TO_AS_ADMIN of the account
  adapter,     \* the version in ACCOUNT_MODULES and WHITELISTED_MODULES
  authorized,  \* authorized_addresses of the account, in each adapter
  stack        \* messages under way, the outermost first

stored == [mark |-> mark, adapter |-> adapter, authorized |-> authorized]
vars == <<mark, adapter, authorized, stack>>

\* A message for a free contract, or an update of authorised addresses.
ToFree(c) == [to |-> c, add |-> {}, remove |-> {}]
Update(d, add, remove) == [to |-> d, add |-> add, remove |-> remove]
Message == {ToFree(c) : c \in Free} \cup [to : Adapter, add : SUBSET Free, remove : SUBSET Free]

Kind == {"free", "execute", "admin", "upgrade"}

ASSUME AskedAssumption == Asked \subseteq Message

\* A contract at work: whom it calls as admin meanwhile, what it has still to send,
\* and what was stored before.
Frame(kind, at, by, admin, todo, caught) ==
  [kind |-> kind, at |-> at, by |-> by, admin |-> admin, todo |-> todo, caught |-> caught,
   saved |-> stored]

Top == stack[Len(stack)]
Below == SubSeq(stack, 1, Len(stack) - 1)
Pushed(frame) == stack' = Append(stack, frame)

-----------------------------------------------------------------------------
Init ==
  /\ mark = None
  /\ adapter = Old
  /\ authorized = [d \in Adapter |-> {}]
  /\ stack = << >>

\* A transaction begins at a free contract, or with an address that sends messages.
Begin(c) ==
  /\ stack = << >> /\ MaxDepth > 0
  /\ Pushed(Frame("free", c, None, None, << >>, FALSE))
  /\ UNCHANGED <<mark, adapter, authorized>>

\* A free contract c is at work.
AtWork(c) == stack # << >> /\ Top.at = c /\ Len(stack) < MaxDepth

\* The innermost message fails, and so do those it is part of, out to message k, whose
\* sender hears of it or began the transaction.
Fail(k) ==
  /\ k = 1 \/ stack[k].caught
  /\ \A l \in k + 1 .. Len(stack) : ~stack[l].caught
  /\ mark' = stack[k].saved.mark
  /\ adapter' = stack[k].saved.adapter
  /\ authorized' = stack[k].saved.authorized
  /\ stack' = SubSeq(stack, 1, k - 1)

\* A free contract has sent all it wants.
Return ==
  /\ stack # << >> /\ Top.kind = "free"
  /\ stack' = Below
  /\ UNCHANGED <<mark, adapter, authorized>>

CallFree(c, to, caught) ==
  /\ AtWork(c)
  /\ Pushed(Frame("free", to, c, None, << >>, caught))
  /\ UNCHANGED <<mark, adapter, authorized>>

-----------------------------------------------------------------------------
(* The account *)

\* assert_whitelisted_owner_or_self
MayExecute(c) == c \in {App, adapter, Owner, Account}

\* execute_msgs, execute_msgs_with_data, execute_on_module and ica_action.
Execute(c, m, caught) ==
  /\ AtWork(c) /\ MayExecute(c)
  /\ Pushed(Frame("execute", Account, c, None, <<m>>, caught))
  /\ UNCHANGED <<mark, adapter, authorized>>

\* assert_nested_owner
IsOwner(c) == c = Owner

\* admin_execute and admin_execute_on_module
AdminExecute(c, m, caught) ==
  /\ AtWork(c) /\ IsOwner(c)
  /\ mark = None
  /\ mark' = m.to
  /\ Pushed(Frame("admin", Account, c, m.to, <<m>>, caught))
  /\ UNCHANGED <<adapter, authorized>>

\* Mutant: the addresses that the new version has already are added to it.
Own_ReplaceMsgs == <<Update(Old, {}, authorized[Old]), Update(New, authorized[New], {})>>

\* replace_adapter: the addresses are read now and moved by the messages.
ReplaceMsgs == <<Update(Old, {}, authorized[Old]), Update(New, authorized[Old], {})>>

\* upgrade_modules: the messages of each module in the order asked for; the app is
\* sent a migrate message.
Upgrade(c, plan, caught) ==
  LET todo == CASE plan = "app" -> <<ToFree(App)>>
                [] plan = "adapter" -> ReplaceMsgs
                [] plan = "app first" -> <<ToFree(App)>> \o ReplaceMsgs
                [] plan = "adapter first" -> ReplaceMsgs \o <<ToFree(App)>>
  IN
  /\ AtWork(c) /\ IsOwner(c)
  /\ plan # "app" => adapter = Old
  /\ mark' = WildCard
  /\ adapter' = IF plan = "app" THEN adapter ELSE New
  /\ Pushed(Frame("upgrade", Account, c, WildCard, todo, caught))
  /\ UNCHANGED authorized

\* Mutant: the mark outlives the call.
Lasting_MarkAfter(kind) == mark

\* admin_action_reply and assert_modules_dependency_requirements
MarkAfter(kind) == IF kind \in {"admin", "upgrade"} THEN None ELSE mark

\* The message at the head has been sent.
Rest == [stack EXCEPT ![Len(stack)].todo = Tail(@)]

\* The account's next message goes to a free contract.
SendFree ==
  /\ stack # << >> /\ Top.at = Account /\ Top.todo # << >> /\ Len(stack) < MaxDepth
  /\ Head(Top.todo).to \in Free
  /\ stack' = Append(Rest, Frame("free", Head(Top.todo).to, Account, None, << >>, FALSE))
  /\ UNCHANGED <<mark, adapter, authorized>>

\* The account is done, and hears of its last message.
AccountReturn ==
  /\ stack # << >> /\ Top.at = Account /\ Top.todo = << >>
  /\ mark' = MarkAfter(Top.kind)
  /\ stack' = Below
  /\ UNCHANGED <<adapter, authorized>>

-----------------------------------------------------------------------------
(* The adapters *)

\* Mutant: the account may change the list whenever it calls.
Careless_IsAdminCall(d) == TRUE

\* assert_is_account_admin: what the account itself sends is the admin's only while
\* it says that it calls this contract as admin.
IsAdminCall(d) == mark = d \/ mark = WildCard

\* update_authorized_addresses
CanUpdate(m) ==
  /\ m.add \cap authorized[m.to] = {}
  /\ m.remove \subseteq authorized[m.to] \cup m.add
  /\ Cardinality((authorized[m.to] \cup m.add) \ m.remove) <= MAXIMUM_AUTHORIZED_ADDRESSES
Updated(m) == [authorized EXCEPT ![m.to] = (@ \cup m.add) \ m.remove]

\* The account's next message goes to an adapter; if it is refused, Fail follows.
SendUpdate ==
  LET m == Head(Top.todo) IN
  /\ stack # << >> /\ Top.at = Account /\ Top.todo # << >>
  /\ m.to \in Adapter
  /\ IsAdminCall(m.to) /\ CanUpdate(m)
  /\ authorized' = Updated(m)
  /\ stack' = Rest
  /\ UNCHANGED <<mark, adapter>>

\* base_execute of the top-level owner, who names the account.
UpdateDirectly(c, m) ==
  /\ AtWork(c) /\ IsOwner(c)
  /\ CanUpdate(m)
  /\ authorized' = Updated(m)
  /\ UNCHANGED <<mark, adapter, stack>>

\* handle_app_msg: an adapter acts on the account for an authorised address or the
\* owner; what the account asks of it itself is an Execute.
RequestAdapter(c, d, to, caught) ==
  /\ AtWork(c)
  /\ c \in authorized[d] \/ IsOwner(c)
  /\ MayExecute(d)
  /\ Pushed(Frame("execute", Account, d, None, <<ToFree(to)>>, caught))
  /\ UNCHANGED <<mark, adapter, authorized>>

-----------------------------------------------------------------------------
Next ==
  \/ \E c \in Free : Begin(c)
  \/ \E k \in DOMAIN stack : Fail(k)
  \/ Return \/ SendFree \/ SendUpdate \/ AccountReturn
  \/ \E c \in Free, caught \in BOOLEAN :
       \/ \E to \in Free : CallFree(c, to, caught)
       \/ \E m \in Asked : Execute(c, m, caught) \/ AdminExecute(c, m, caught)
       \/ \E plan \in {"app", "adapter", "app first", "adapter first"} : Upgrade(c, plan, caught)
       \/ \E d \in Adapter, to \in Free : RequestAdapter(c, d, to, caught)
  \/ \E c \in Free, m \in Asked : m.to \in Adapter /\ UpdateDirectly(c, m)

Spec == Init /\ [][Next]_vars

-----------------------------------------------------------------------------
(* Properties *)

Mark == Contract \cup {WildCard, None}

Saved == [mark : Mark, adapter : Adapter, authorized : [Adapter -> SUBSET Free]]

FrameType == [kind : Kind, at : Contract, by : Contract \cup {None}, admin : Mark,
              todo : Seq(Message), caught : BOOLEAN, saved : Saved]

\* Every item has its type, and the lists of authorised addresses keep their limit.
TypeOK ==
  /\ stored \in Saved
  /\ stack \in Seq(FrameType)
  /\ Len(stack) <= MaxDepth
  /\ \A d \in Adapter : Cardinality(authorized[d]) <= MAXIMUM_AUTHORIZED_ADDRESSES

\* No admin rights are left over: between transactions the account calls nobody as
\* admin, however the last one ended, so the next admin call is not refused and no
\* module takes the next ordinary message for one.
NoMarkAtRest == stack = << >> => mark = None

\* The account calls a contract as admin only on behalf of its owner: within an admin
\* call to that very contract, or within an upgrade, that the owner asked for.
AdminRightsFromOwner ==
  mark # None => \E k \in DOMAIN stack : stack[k].by = Owner /\ stack[k].admin = mark

\* Only the owner changes who is authorised: a message that does is the owner's own, or
\* part of an admin call of the owner to that very adapter or of an upgrade.  While the
\* account calls another module as admin, the adapters take nothing it sends for the
\* owner's (base_execute).
AuthorizedByOwner ==
  [][\A d \in Adapter : authorized'[d] # authorized[d] =>
       \/ Len(stack') < Len(stack)
       \/ Top.at = Owner
       \/ \E k \in DOMAIN stack : stack[k].by = Owner /\ stack[k].admin \in {d, WildCard}]_vars

\* An upgrade gives the new version of an adapter everybody the old one knew when it
\* began: as soon as both lists have been sent, nobody is lost between them.
UpgradeMovesAuthorized ==
  [][\A k \in DOMAIN stack : stack[k].kind = "upgrade" /\ Len(stack') = k
       /\ Len(stack) = k /\ stack[k].todo # << >> /\ Head(stack[k].todo).to = New =>
       stack[k].saved.authorized[Old] \subseteq authorized'[New]]_vars
=============================================================================
