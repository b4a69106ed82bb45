-------------------------- MODULE AdminCallsProofs --------------------------
(***************************************************************************)
(* Proofs about AdminCalls, for any nesting of messages, any limit on the  *)
(* authorised addresses and any messages that the account is asked for.    *)
(***************************************************************************)
EXTENDS AdminCalls, TLAPS, FiniteSetTheorems

\* Somebody among the first n messages of a stack gave the rights that m stands for.
Granted(s, n, m) == \E j \in 1 .. n : s[j].by = Owner /\ s[j].admin = m

\* What is known of message k: only admin calls and upgrades give rights; what is
\* restored when it fails was as good as what there is now; and what an upgrade has
\* still to send to the new version is what it read from the old one.
FrameInv(s, k) ==
  /\ s[k].kind \notin {"admin", "upgrade"} => s[k].admin = None
  /\ s[k].saved.mark # None => Granted(s, k - 1, s[k].saved.mark)
  /\ \A d \in Adapter : Cardinality(s[k].saved.authorized[d]) <= MAXIMUM_AUTHORIZED_ADDRESSES
  /\ s[k].kind = "upgrade" =>
       /\ s[k].at = Account
       /\ \A i \in DOMAIN s[k].todo : s[k].todo[i].to = New =>
            s[k].todo[i].add = s[k].saved.authorized[Old] /\ s[k].todo[i].remove = {}

\* The inductive invariant of this module.
CallsInv == TypeOK /\ AdminRightsFromOwner /\ \A k \in DOMAIN stack : FrameInv(stack, k)

\* s is the stack, but for messages that have been sent.
Like(s) ==
  /\ s \in Seq(FrameType) /\ Len(s) = Len(stack)
  /\ \A k \in 1 .. Len(stack) :
       /\ s[k].kind = stack[k].kind /\ s[k].at = stack[k].at /\ s[k].by = stack[k].by
       /\ s[k].admin = stack[k].admin /\ s[k].saved = stack[k].saved
       /\ \A i \in DOMAIN s[k].todo : \E j \in DOMAIN stack[k].todo :
            s[k].todo[i] = stack[k].todo[j]

-----------------------------------------------------------------------------
(* The stack in a step *)

\* Frames of the stack are frames.
LEMMA StackFrames ==
  ASSUME TypeOK
  PROVE  /\ DOMAIN stack = 1 .. Len(stack) /\ Len(stack) \in Nat
         /\ \A k \in 1 .. Len(stack) :
              /\ stack[k] \in FrameType /\ stack[k].todo \in Seq(Message)
              /\ stack[k].saved \in Saved
         /\ stack # << >> => Len(stack) > 0 /\ Top = stack[Len(stack)] /\ Top \in FrameType
<1>1. stack \in Seq(FrameType)
  BY DEF TypeOK
<1>2. /\ DOMAIN stack = 1 .. Len(stack) /\ Len(stack) \in Nat
      /\ \A k \in 1 .. Len(stack) : stack[k] \in FrameType
      /\ stack # << >> => Len(stack) > 0
  BY <1>1
<1>3. \A f \in FrameType : f.todo \in Seq(Message) /\ f.saved \in Saved
  BY DEF FrameType
<1> QED BY <1>2, <1>3 DEF Top

LEMMA LikeSelf ==
  ASSUME TypeOK
  PROVE  Like(stack)
  BY StackFrames DEF Like, TypeOK

LEMMA LikeRest ==
  ASSUME TypeOK, stack # << >>, Top.todo # << >>
  PROVE  Like(Rest) /\ Rest[Len(stack)] = [Top EXCEPT !.todo = Tail(@)]
<1>1. /\ Tail(Top.todo) \in Seq(Message)
      /\ \A i \in DOMAIN Tail(Top.todo) : i + 1 \in DOMAIN Top.todo /\ Tail(Top.todo)[i] = Top.todo[i + 1]
  BY StackFrames
<1>2. [Top EXCEPT !.todo = Tail(@)] \in FrameType
  BY <1>1, StackFrames DEF FrameType
<1>3. Rest = [stack EXCEPT ![Len(stack)] = [Top EXCEPT !.todo = Tail(@)]]
  BY StackFrames DEF Rest
<1>4. Rest \in Seq(FrameType) /\ Len(Rest) = Len(stack)
  BY <1>2, <1>3, StackFrames DEF TypeOK
<1>5. /\ Rest[Len(stack)] = [Top EXCEPT !.todo = Tail(@)]
      /\ \A k \in 1 .. Len(stack) : k # Len(stack) => Rest[k] = stack[k]
  BY <1>3, StackFrames
<1>6. ASSUME NEW k \in 1 .. Len(stack)
      PROVE  /\ Rest[k].kind = stack[k].kind /\ Rest[k].at = stack[k].at /\ Rest[k].by = stack[k].by
             /\ Rest[k].admin = stack[k].admin /\ Rest[k].saved = stack[k].saved
             /\ \A i \in DOMAIN Rest[k].todo : \E j \in DOMAIN stack[k].todo :
                  Rest[k].todo[i] = stack[k].todo[j]
  <2>1. CASE k # Len(stack)
    BY <1>5, <2>1
  <2>2. CASE k = Len(stack)
    <3>1. stack[k] = Top /\ Top \in FrameType
      BY <2>2, StackFrames
    <3>2. Rest[k] = [Top EXCEPT !.todo = Tail(@)]
      BY <1>5, <2>2
    <3>3. Rest[k].todo = Tail(Top.todo)
      BY <3>1, <3>2 DEF FrameType
    <3>4. /\ Rest[k].kind = Top.kind /\ Rest[k].at = Top.at /\ Rest[k].by = Top.by
          /\ Rest[k].admin = Top.admin /\ Rest[k].saved = Top.saved
      BY <3>1, <3>2 DEF FrameType
    <3> QED BY <1>1, <3>1, <3>3, <3>4
  <2> QED BY <2>1, <2>2
<1> QED BY <1>4, <1>5, <1>6 DEF Like

\* What is known of the first n messages stays known while they stay.
LEMMA FramesKept ==
  ASSUME CallsInv, NEW s, Like(s), NEW t, NEW n \in 0 .. Len(stack),
         \A k \in 1 .. n : t[k] = s[k]
  PROVE  /\ \A p \in 0 .. n : \A m : Granted(stack, p, m) => Granted(t, p, m)
         /\ \A k \in 1 .. n : FrameInv(t, k)
<1>1. ASSUME NEW p \in 0 .. n, NEW m, Granted(stack, p, m) PROVE Granted(t, p, m)
  <2>1. PICK j \in 1 .. p : stack[j].by = Owner /\ stack[j].admin = m
    BY <1>1 DEF Granted
  <2>2. j \in 1 .. n /\ j \in 1 .. Len(stack)
    OBVIOUS
  <2>3. t[j].by = Owner /\ t[j].admin = m
    BY <2>1, <2>2 DEF Like
  <2> QED BY <2>3 DEF Granted
<1>2. ASSUME NEW k \in 1 .. n PROVE FrameInv(t, k)
  <2>1. /\ FrameInv(stack, k) /\ k \in 1 .. Len(stack) /\ k - 1 \in 0 .. n /\ t[k] = s[k]
    BY StackFrames DEF CallsInv
  <2>2. /\ s[k].kind = stack[k].kind /\ s[k].at = stack[k].at
        /\ s[k].admin = stack[k].admin /\ s[k].saved = stack[k].saved
        /\ \A i \in DOMAIN s[k].todo : \E j \in DOMAIN stack[k].todo :
             s[k].todo[i] = stack[k].todo[j]
    BY <2>1 DEF Like
  <2>3. t[k].saved.mark # None => Granted(t, k - 1, t[k].saved.mark)
    BY <1>1, <2>1, <2>2 DEF FrameInv
  <2> QED BY <2>1, <2>2, <2>3 DEF FrameInv
<1> QED BY <1>1, <1>2

\* A message begins.
LEMMA FramePushed ==
  ASSUME CallsInv, NEW s, Like(s), NEW f \in FrameType,
         f.saved = stored,
         f.kind \notin {"admin", "upgrade"} => f.admin = None,
         f.kind = "upgrade" =>
           /\ f.at = Account
           /\ \A i \in DOMAIN f.todo : f.todo[i].to = New =>
                f.todo[i].add = authorized[Old] /\ f.todo[i].remove = {}
  PROVE  /\ Append(s, f) \in Seq(FrameType) /\ Len(Append(s, f)) = Len(stack) + 1
         /\ Append(s, f)[Len(stack) + 1] = f
         /\ mark # None => Granted(Append(s, f), Len(stack) + 1, mark)
         /\ \A k \in DOMAIN Append(s, f) : FrameInv(Append(s, f), k)
<1> DEFINE t == Append(s, f)
           n == Len(stack)
<1>1. n \in Nat /\ s \in Seq(FrameType) /\ Len(s) = n /\ DOMAIN stack = 1 .. n
  BY StackFrames DEF Like, CallsInv
<1>2. /\ t \in Seq(FrameType) /\ Len(t) = n + 1 /\ DOMAIN t = 1 .. n + 1
      /\ t[n + 1] = f /\ \A k \in 1 .. n : t[k] = s[k]
  BY <1>1
<1> HIDE DEF t
<1>3. /\ \A p \in 0 .. n : \A m : Granted(stack, p, m) => Granted(t, p, m)
      /\ \A k \in 1 .. n : FrameInv(t, k)
  BY <1>1, <1>2, FramesKept
<1>4. mark # None => Granted(stack, n, mark)
  BY <1>1 DEF CallsInv, AdminRightsFromOwner, Granted
<1>5. mark # None => Granted(t, n, mark)
  BY <1>1, <1>3, <1>4
<1>6. mark # None => Granted(t, n + 1, mark)
  BY <1>1, <1>5 DEF Granted
<1>7. f.saved.mark = mark /\ f.saved.authorized = authorized
  BY DEF stored
<1>8. FrameInv(t, n + 1)
  <2>1. t[n + 1].saved.mark # None => Granted(t, (n + 1) - 1, t[n + 1].saved.mark)
    BY <1>1, <1>2, <1>5, <1>7
  <2>2. \A d \in Adapter : Cardinality(authorized[d]) <= MAXIMUM_AUTHORIZED_ADDRESSES
    BY DEF CallsInv, TypeOK
  <2> QED BY <1>2, <1>7, <2>1, <2>2 DEF FrameInv
<1>9. \A k \in DOMAIN t : FrameInv(t, k)
  BY <1>1, <1>2, <1>3, <1>8
<1> QED BY <1>2, <1>6, <1>9 DEF t

-----------------------------------------------------------------------------
LEMMA CallsInit == Init => CallsInv
<1> SUFFICES ASSUME Init PROVE CallsInv
  OBVIOUS
<1>1. TypeOK
  <2>1. Cardinality({}) = 0
    BY FS_EmptySet
  <2>2. \A d \in Adapter : authorized[d] = {}
    BY DEF Init
  <2>3. stored \in Saved
    BY DEF Init, stored, Saved, Mark, Adapter, Contract
  <2>4. stack \in Seq(FrameType) /\ Len(stack) = 0
    BY DEF Init
  <2>5. MAXIMUM_AUTHORIZED_ADDRESSES \in Nat /\ MaxDepth \in Nat
    BY ContractAssumption
  <2>6. \A d \in Adapter : Cardinality(authorized[d]) <= MAXIMUM_AUTHORIZED_ADDRESSES
    BY <2>1, <2>2, <2>5
  <2>7. Len(stack) <= MaxDepth
    BY <2>4, <2>5
  <2> QED BY <2>3, <2>4, <2>6, <2>7 DEF TypeOK
<1>2. stack = << >> /\ DOMAIN stack = {} /\ mark = None
  BY DEF Init
<1> QED BY <1>1, <1>2 DEF CallsInv, AdminRightsFromOwner

\* A step that begins a message, and sets the mark only for the rights that it gives.
LEMMA PushStep ==
  ASSUME CallsInv, NEW s, Like(s), NEW f \in FrameType,
         stack' = Append(s, f), Len(stack) < MaxDepth,
         f.saved = stored,
         f.kind \notin {"admin", "upgrade"} => f.admin = None,
         f.kind = "upgrade" =>
           /\ f.at = Account
           /\ \A i \in DOMAIN f.todo : f.todo[i].to = New =>
                f.todo[i].add = authorized[Old] /\ f.todo[i].remove = {},
         mark' = mark \/ (f.by = Owner /\ f.admin = mark'),
         mark' \in Mark, adapter' \in Adapter, authorized' = authorized
  PROVE  CallsInv'
<1>1. /\ stack' \in Seq(FrameType) /\ Len(stack') = Len(stack) + 1
      /\ stack'[Len(stack) + 1] = f
      /\ mark # None => Granted(stack', Len(stack) + 1, mark)
      /\ \A k \in DOMAIN stack' : FrameInv(stack', k)
  BY FramePushed
<1>2. Len(stack) \in Nat /\ DOMAIN stack' = 1 .. Len(stack) + 1
  BY <1>1, StackFrames DEF CallsInv
<1>3. MaxDepth \in Nat
  BY ContractAssumption
<1>4. TypeOK'
  <2>1. stored' \in Saved
    BY DEF CallsInv, TypeOK, stored, Saved
  <2>2. \A d \in Adapter : Cardinality(authorized'[d]) <= MAXIMUM_AUTHORIZED_ADDRESSES
    BY DEF CallsInv, TypeOK
  <2>3. Len(stack') <= MaxDepth
    BY <1>1, <1>2, <1>3
  <2> QED BY <1>1, <2>1, <2>2, <2>3 DEF TypeOK
<1>5. AdminRightsFromOwner'
  <2>1. CASE mark' = mark
    BY <1>1, <1>2, <2>1 DEF AdminRightsFromOwner, Granted
  <2>2. CASE f.by = Owner /\ f.admin = mark'
    BY <1>1, <1>2, <2>2 DEF AdminRightsFromOwner
  <2> QED BY <2>1, <2>2
<1> QED BY <1>1, <1>4, <1>5 DEF CallsInv

\* A step that ends the messages from k on, and restores or keeps what is stored.
LEMMA PopStep ==
  ASSUME CallsInv, NEW k \in DOMAIN stack,
         stack' = SubSeq(stack, 1, k - 1),
         stored' \in Saved,
         \A d \in Adapter : Cardinality(authorized'[d]) <= MAXIMUM_AUTHORIZED_ADDRESSES,
         mark' # None => Granted(stack, k - 1, mark')
  PROVE  CallsInv'
<1>1. /\ k \in 1 .. Len(stack) /\ Len(stack) \in Nat /\ stack \in Seq(FrameType)
      /\ MaxDepth \in Nat /\ Len(stack) <= MaxDepth
  BY StackFrames, ContractAssumption DEF CallsInv, TypeOK
<1>2. /\ stack' \in Seq(FrameType) /\ Len(stack') = k - 1 /\ DOMAIN stack' = 1 .. k - 1
      /\ \A j \in 1 .. k - 1 : stack'[j] = stack[j]
  BY <1>1
<1>3. Like(stack)
  BY LikeSelf DEF CallsInv
<1>4. /\ \A m : Granted(stack, k - 1, m) => Granted(stack', k - 1, m)
      /\ \A j \in 1 .. k - 1 : FrameInv(stack', j)
  <2>1. k - 1 \in 0 .. Len(stack)
    BY <1>1
  <2>2. /\ \A p \in 0 .. k - 1 : \A m : Granted(stack, p, m) => Granted(stack', p, m)
        /\ \A j \in 1 .. k - 1 : FrameInv(stack', j)
    BY <1>2, <1>3, <2>1, FramesKept
  <2> QED BY <1>1, <2>2
<1>5. TypeOK'
  BY <1>1, <1>2 DEF TypeOK
<1>6. AdminRightsFromOwner'
  BY <1>2, <1>4 DEF AdminRightsFromOwner, Granted
<1> QED BY <1>2, <1>4, <1>5, <1>6 DEF CallsInv

\* What is sent are messages.
LEMMA MessageTypes ==
  ASSUME TypeOK
  PROVE  /\ \A c \in Free : ToFree(c) \in Message /\ ToFree(c).to = c
         /\ \A m \in Message : m.to \in Contract /\ m.add \subseteq Free /\ m.remove \subseteq Free
                                 /\ (m.to \in Adapter \/ m.to \in Free)
         /\ ReplaceMsgs \in Seq(Message) /\ Len(ReplaceMsgs) = 2
         /\ ReplaceMsgs[1].to = Old /\ ReplaceMsgs[2].to = New
         /\ ReplaceMsgs[2].add = authorized[Old] /\ ReplaceMsgs[2].remove = {}
<1>1. authorized[Old] \subseteq Free
  BY DEF TypeOK, stored, Saved, Adapter
<1>2. \A c \in Free : ToFree(c) \in Message /\ ToFree(c).to = c
  BY DEF ToFree, Message
<1>3. \A m \in Message : m.to \in Contract /\ m.add \subseteq Free /\ m.remove \subseteq Free
                           /\ (m.to \in Adapter \/ m.to \in Free)
  BY DEF Message, ToFree, Contract
<1>4. Update(Old, {}, authorized[Old]) \in Message /\ Update(New, authorized[Old], {}) \in Message
  BY <1>1 DEF Update, Message, Adapter
<1>5. /\ Update(Old, {}, authorized[Old]).to = Old /\ Update(New, authorized[Old], {}).to = New
      /\ Update(New, authorized[Old], {}).add = authorized[Old]
      /\ Update(New, authorized[Old], {}).remove = {}
  BY DEF Update
<1> QED BY <1>2, <1>3, <1>4, <1>5 DEF ReplaceMsgs

\* A list of messages that an upgrade sends.
UpgradeTodo(t) ==
  /\ t \in Seq(Message)
  /\ \A i \in DOMAIN t : t[i].to = New => t[i].add = authorized[Old] /\ t[i].remove = {}

LEMMA UpgradeTodos ==
  ASSUME TypeOK
  PROVE  /\ UpgradeTodo(<<ToFree(App)>>) /\ UpgradeTodo(ReplaceMsgs)
         /\ UpgradeTodo(<<ToFree(App)>> \o ReplaceMsgs)
         /\ UpgradeTodo(ReplaceMsgs \o <<ToFree(App)>>)
<1>1. /\ ToFree(App) \in Message /\ ToFree(App).to # New
      /\ ReplaceMsgs \in Seq(Message) /\ Len(ReplaceMsgs) = 2
      /\ ReplaceMsgs[1].to # New
      /\ ReplaceMsgs[2].add = authorized[Old] /\ ReplaceMsgs[2].remove = {}
  BY MessageTypes, ContractAssumption DEF Free, Adapter
<1>2. UpgradeTodo(<<ToFree(App)>>)
  BY <1>1 DEF UpgradeTodo
<1>3. UpgradeTodo(ReplaceMsgs)
  <2>1. \A i \in DOMAIN ReplaceMsgs : i = 1 \/ i = 2
    BY <1>1
  <2> QED BY <1>1, <2>1 DEF UpgradeTodo
<1>4. ASSUME NEW a, NEW b, UpgradeTodo(a), UpgradeTodo(b) PROVE UpgradeTodo(a \o b)
  <2>1. a \in Seq(Message) /\ b \in Seq(Message)
    BY <1>4 DEF UpgradeTodo
  <2>2. a \o b \in Seq(Message)
    BY <2>1
  <2>3. ASSUME NEW i \in DOMAIN (a \o b)
        PROVE (\E j \in DOMAIN a : (a \o b)[i] = a[j]) \/ (\E j \in DOMAIN b : (a \o b)[i] = b[j])
    <3>1. Len(a) \in Nat /\ Len(b) \in Nat /\ i \in 1 .. Len(a) + Len(b)
      BY <2>1
    <3>2. CASE i <= Len(a)
      BY <2>1, <3>1, <3>2
    <3>3. CASE i > Len(a)
      <4>1. i - Len(a) \in DOMAIN b /\ (a \o b)[i] = b[i - Len(a)]
        BY <2>1, <3>1, <3>3
      <4> QED BY <4>1
    <3> QED BY <3>1, <3>2, <3>3
  <2> QED BY <1>4, <2>2, <2>3 DEF UpgradeTodo
<1> QED BY <1>2, <1>3, <1>4

\* The account and the owner are contracts; so are those who send and get messages.
LEMMA Names ==
  /\ Account \in Contract /\ Owner \in Contract /\ Owner \in Free /\ App \in Free
  /\ Free \subseteq Contract /\ Adapter \subseteq Contract /\ New \in Adapter
  /\ Contract \subseteq Mark /\ None \in Mark /\ WildCard \in Mark
  /\ "free" \in Kind /\ "execute" \in Kind /\ "admin" \in Kind /\ "upgrade" \in Kind
  BY DEF Contract, Free, Adapter, Mark, Kind

LEMMA CallsNext == CallsInv /\ [Next]_vars => CallsInv'
<1> SUFFICES ASSUME CallsInv, [Next]_vars PROVE CallsInv'
  OBVIOUS
<1>1. /\ TypeOK /\ mark \in Mark /\ adapter \in Adapter /\ authorized \in [Adapter -> SUBSET Free]
      /\ \A d \in Adapter : Cardinality(authorized[d]) <= MAXIMUM_AUTHORIZED_ADDRESSES
      /\ MaxDepth \in Nat
  BY ContractAssumption DEF CallsInv, TypeOK, stored, Saved
<1>2. Like(stack)
  BY <1>1, LikeSelf
<1>3. ASSUME NEW c \in Free, Begin(c) PROVE CallsInv'
  <2>1. << >> \in Seq(Message) /\ Len(stack) < MaxDepth
    BY <1>1, <1>3 DEF Begin
  <2> DEFINE f == Frame("free", c, None, None, << >>, FALSE)
  <2>2. f \in FrameType /\ f.saved = stored /\ f.kind = "free" /\ f.admin = None
    BY <1>1, <2>1, Names DEF Frame, FrameType, TypeOK
  <2> HIDE DEF f
  <2>3. stack' = Append(stack, f) /\ mark' = mark /\ adapter' = adapter /\ authorized' = authorized
    BY <1>3 DEF Begin, Pushed, f
  <2> QED BY <1>1, <1>2, <2>1, <2>2, <2>3, PushStep
<1>4. ASSUME NEW k \in DOMAIN stack, Fail(k) PROVE CallsInv'
  <2>1. /\ k \in 1 .. Len(stack) /\ stack[k].saved \in Saved /\ FrameInv(stack, k)
    BY <1>1, StackFrames DEF CallsInv
  <2>2. stored' = stack[k].saved
    BY <1>4, <2>1 DEF Fail, stored, Saved
  <2>3. stack' = SubSeq(stack, 1, k - 1) /\ mark' = stack[k].saved.mark
        /\ authorized' = stack[k].saved.authorized
    BY <1>4 DEF Fail
  <2>4. stored' \in Saved
    BY <2>1, <2>2
  <2>5. /\ \A d \in Adapter : Cardinality(authorized'[d]) <= MAXIMUM_AUTHORIZED_ADDRESSES
        /\ mark' # None => Granted(stack, k - 1, mark')
    BY <2>1, <2>3 DEF FrameInv
  <2> QED BY <2>3, <2>4, <2>5, PopStep
<1>5. \* The innermost message ends, and with it the rights it gave, if any.
      ASSUME stack # << >>, stack' = Below, adapter' = adapter, authorized' = authorized,
             \/ mark' = None
             \/ mark' = mark /\ Top.kind \notin {"admin", "upgrade"}
      PROVE  CallsInv'
  <2> DEFINE n == Len(stack)
  <2>1. n \in DOMAIN stack /\ n \in Nat /\ DOMAIN stack = 1 .. n /\ Top = stack[n] /\ FrameInv(stack, n)
    BY <1>1, <1>5, StackFrames DEF CallsInv
  <2>2. stored' \in Saved
    BY <1>1, <1>5, Names DEF stored, Saved
  <2>3. mark' # None => Granted(stack, n - 1, mark')
    <3> SUFFICES ASSUME mark' # None PROVE Granted(stack, n - 1, mark')
      OBVIOUS
    <3>1. mark' = mark /\ stack[n].admin = None
      BY <1>5, <2>1 DEF FrameInv
    <3>2. PICK j \in 1 .. n : stack[j].by = Owner /\ stack[j].admin = mark
      BY <2>1, <3>1 DEF CallsInv, AdminRightsFromOwner
    <3>3. j \in 1 .. n - 1
      BY <2>1, <3>1, <3>2
    <3> QED BY <3>1, <3>2, <3>3 DEF Granted
  <2> QED BY <1>1, <1>5, <2>1, <2>2, <2>3, PopStep DEF Below
<1>6. CASE Return
  BY <1>5, <1>6 DEF Return
<1>7. CASE AccountReturn
  <2>1. mark' = None \/ (mark' = mark /\ Top.kind \notin {"admin", "upgrade"})
    BY <1>7 DEF AccountReturn, MarkAfter
  <2> QED BY <1>5, <1>7, <2>1 DEF AccountReturn
<1>8. ASSUME NEW c \in Free, NEW to \in Free, NEW caught \in BOOLEAN, CallFree(c, to, caught)
      PROVE  CallsInv'
  <2> DEFINE f == Frame("free", to, c, None, << >>, caught)
  <2>1. << >> \in Seq(Message)
    OBVIOUS
  <2>2. f \in FrameType /\ f.saved = stored /\ f.kind = "free" /\ f.admin = None
    BY <1>1, <2>1, Names DEF Frame, FrameType, TypeOK
  <2> HIDE DEF f
  <2>3. /\ stack' = Append(stack, f) /\ mark' = mark /\ adapter' = adapter /\ authorized' = authorized
        /\ Len(stack) < MaxDepth
    BY <1>8 DEF CallFree, AtWork, Pushed, f
  <2> QED BY <1>1, <1>2, <2>2, <2>3, PushStep
<1>9. ASSUME NEW c \in Free, NEW m \in Asked, NEW caught \in BOOLEAN, Execute(c, m, caught)
      PROVE  CallsInv'
  <2> DEFINE f == Frame("execute", Account, c, None, <<m>>, caught)
  <2>1. <<m>> \in Seq(Message)
    BY AskedAssumption
  <2>2. f \in FrameType /\ f.saved = stored /\ f.kind = "execute" /\ f.admin = None
    BY <1>1, <2>1, Names DEF Frame, FrameType, TypeOK
  <2> HIDE DEF f
  <2>3. /\ stack' = Append(stack, f) /\ mark' = mark /\ adapter' = adapter /\ authorized' = authorized
        /\ Len(stack) < MaxDepth
    BY <1>9 DEF Execute, AtWork, Pushed, f
  <2> QED BY <1>1, <1>2, <2>2, <2>3, PushStep
<1>10. ASSUME NEW c \in Free, NEW m \in Asked, NEW caught \in BOOLEAN, AdminExecute(c, m, caught)
       PROVE  CallsInv'
  <2> DEFINE f == Frame("admin", Account, c, m.to, <<m>>, caught)
  <2>1. <<m>> \in Seq(Message) /\ m.to \in Mark
    BY <1>1, AskedAssumption, MessageTypes, Names
  <2>2. f \in FrameType /\ f.saved = stored /\ f.kind = "admin" /\ f.admin = m.to /\ f.by = c
    BY <1>1, <2>1, Names DEF Frame, FrameType, TypeOK
  <2> HIDE DEF f
  <2>3. /\ stack' = Append(stack, f) /\ mark' = m.to /\ adapter' = adapter /\ authorized' = authorized
        /\ Len(stack) < MaxDepth /\ c = Owner
    BY <1>10 DEF AdminExecute, AtWork, IsOwner, Pushed, f
  <2> QED BY <1>1, <1>2, <2>1, <2>2, <2>3, PushStep
<1>11. ASSUME NEW c \in Free, NEW caught \in BOOLEAN,
              NEW plan \in {"app", "adapter", "app first", "adapter first"}, Upgrade(c, plan, caught)
       PROVE  CallsInv'
  <2>1. PICK todo : /\ UpgradeTodo(todo)
                    /\ stack' = Append(stack, Frame("upgrade", Account, c, WildCard, todo, caught))
    <3>1. \/ stack' = Append(stack, Frame("upgrade", Account, c, WildCard, <<ToFree(App)>>, caught))
          \/ stack' = Append(stack, Frame("upgrade", Account, c, WildCard, ReplaceMsgs, caught))
          \/ stack' = Append(stack, Frame("upgrade", Account, c, WildCard, <<ToFree(App)>> \o ReplaceMsgs, caught))
          \/ stack' = Append(stack, Frame("upgrade", Account, c, WildCard, ReplaceMsgs \o <<ToFree(App)>>, caught))
      BY <1>11 DEF Upgrade, Pushed
    <3> QED BY <1>1, <3>1, UpgradeTodos
  <2> DEFINE f == Frame("upgrade", Account, c, WildCard, todo, caught)
  <2>2. todo \in Seq(Message)
    BY <2>1 DEF UpgradeTodo
  <2>3. /\ f \in FrameType /\ f.saved = stored /\ f.kind = "upgrade" /\ f.admin = WildCard
        /\ f.by = c /\ f.at = Account /\ f.todo = todo
    BY <1>1, <2>2, Names DEF Frame, FrameType, TypeOK
  <2> HIDE DEF f
  <2>4. /\ mark' = WildCard /\ adapter' \in Adapter /\ authorized' = authorized
        /\ Len(stack) < MaxDepth /\ c = Owner
    BY <1>1, <1>11, Names DEF Upgrade, AtWork, IsOwner
  <2>5. \A i \in DOMAIN f.todo : f.todo[i].to = New =>
          f.todo[i].add = authorized[Old] /\ f.todo[i].remove = {}
    BY <2>1, <2>3 DEF UpgradeTodo
  <2>6. stack' = Append(stack, f)
    BY <2>1 DEF f
  <2> QED BY <1>1, <1>2, <2>3, <2>4, <2>5, <2>6, PushStep, Names
<1>12. ASSUME NEW c \in Free, NEW d \in Adapter, NEW to \in Free, NEW caught \in BOOLEAN,
              RequestAdapter(c, d, to, caught)
       PROVE  CallsInv'
  <2> DEFINE f == Frame("execute", Account, d, None, <<ToFree(to)>>, caught)
  <2>1. <<ToFree(to)>> \in Seq(Message)
    BY <1>1, MessageTypes
  <2>2. f \in FrameType /\ f.saved = stored /\ f.kind = "execute" /\ f.admin = None
    BY <1>1, <2>1, Names DEF Frame, FrameType, TypeOK
  <2> HIDE DEF f
  <2>3. /\ stack' = Append(stack, f) /\ mark' = mark /\ adapter' = adapter /\ authorized' = authorized
        /\ Len(stack) < MaxDepth
    BY <1>12 DEF RequestAdapter, AtWork, Pushed, f
  <2> QED BY <1>1, <1>2, <2>2, <2>3, PushStep
<1>13. CASE SendFree
  <2> DEFINE f == Frame("free", Head(Top.todo).to, Account, None, << >>, FALSE)
  <2>1. Like(Rest)
    BY <1>1, <1>13, LikeRest DEF SendFree
  <2>2. << >> \in Seq(Message) /\ Head(Top.todo).to \in Contract
    BY <1>13, Names DEF SendFree
  <2>3. f \in FrameType /\ f.saved = stored /\ f.kind = "free" /\ f.admin = None
    BY <1>1, <2>2, Names DEF Frame, FrameType, TypeOK
  <2> HIDE DEF f
  <2>4. /\ stack' = Append(Rest, f) /\ mark' = mark /\ adapter' = adapter /\ authorized' = authorized
        /\ Len(stack) < MaxDepth
    BY <1>13 DEF SendFree, f
  <2> QED BY <1>1, <2>1, <2>3, <2>4, PushStep
<1>14. \* An update of authorised addresses leaves a list within its limit.
       ASSUME NEW m \in Message, m.to \in Adapter, CanUpdate(m), authorized' = Updated(m)
       PROVE  /\ authorized' \in [Adapter -> SUBSET Free]
              /\ \A d \in Adapter : Cardinality(authorized'[d]) <= MAXIMUM_AUTHORIZED_ADDRESSES
  <2>1. m.add \subseteq Free
    BY <1>1, <1>14, MessageTypes
  <2> QED BY <1>1, <1>14, <2>1 DEF CanUpdate, Updated
<1>15. CASE SendUpdate
  <2>1. Like(Rest)
    BY <1>1, <1>15, LikeRest DEF SendUpdate
  <2>2. Head(Top.todo) \in Message
    BY <1>1, <1>15, StackFrames DEF SendUpdate, FrameType
  <2>3. /\ authorized' \in [Adapter -> SUBSET Free] /\ mark' = mark /\ adapter' = adapter /\ stack' = Rest
        /\ \A d \in Adapter : Cardinality(authorized'[d]) <= MAXIMUM_AUTHORIZED_ADDRESSES
    BY <1>14, <1>15, <2>2 DEF SendUpdate
  <2>4. /\ stack' \in Seq(FrameType) /\ Len(stack') = Len(stack) /\ DOMAIN stack' = 1 .. Len(stack)
        /\ DOMAIN stack = 1 .. Len(stack) /\ Len(stack) \in Nat
    BY <1>1, <2>1, <2>3, StackFrames DEF Like
  <2>5. /\ \A k \in 1 .. Len(stack) : FrameInv(stack', k)
        /\ \A p \in 0 .. Len(stack) : \A m : Granted(stack, p, m) => Granted(stack', p, m)
    BY <2>1, <2>3, <2>4, FramesKept
  <2>6. TypeOK'
    BY <1>1, <2>3, <2>4 DEF TypeOK, stored, Saved
  <2>7. AdminRightsFromOwner'
    <3>1. mark # None => Granted(stack, Len(stack), mark)
      BY <2>4 DEF AdminRightsFromOwner, Granted, CallsInv
    <3>2. mark # None => Granted(stack', Len(stack), mark)
      BY <2>4, <2>5, <3>1
    <3> QED BY <2>3, <2>4, <3>2 DEF AdminRightsFromOwner, Granted
  <2> QED BY <2>4, <2>5, <2>6, <2>7 DEF CallsInv
<1>16. ASSUME NEW c \in Free, NEW m \in Asked, m.to \in Adapter, UpdateDirectly(c, m)
       PROVE  CallsInv'
  <2>1. m \in Message
    BY AskedAssumption
  <2>2. /\ authorized' \in [Adapter -> SUBSET Free] /\ mark' = mark /\ adapter' = adapter /\ stack' = stack
        /\ \A d \in Adapter : Cardinality(authorized'[d]) <= MAXIMUM_AUTHORIZED_ADDRESSES
    BY <1>14, <1>16, <2>1 DEF UpdateDirectly
  <2> QED BY <1>1, <2>2 DEF CallsInv, TypeOK, stored, Saved, AdminRightsFromOwner
<1>17. CASE UNCHANGED vars
  BY <1>17 DEF vars, CallsInv, TypeOK, stored, AdminRightsFromOwner
<1> QED
  BY <1>3, <1>4, <1>6, <1>7, <1>8, <1>9, <1>10, <1>11, <1>12, <1>13, <1>15, <1>16, <1>17 DEF Next

-----------------------------------------------------------------------------
(* The theorems *)

\* Every reachable state satisfies the inductive invariant.
THEOREM CallsInvariant == Spec => []CallsInv
<1> QED BY CallsInit, CallsNext, PTL DEF Spec

\* execution.rs, migration.rs and nested_admin.rs keep their items well typed, and
\* update_authorized_addresses keeps every list within its limit, failed messages and
\* upgrades included.
THEOREM TypeCorrect == Spec => []TypeOK
<1>1. CallsInv => TypeOK
  BY DEF CallsInv
<1> QED BY <1>1, CallsInvariant, PTL

\* CALLING_TO_AS_ADMIN names a contract only inside an admin call to it, or the wild
\* card inside an upgrade, that the top-level owner asked for.
THEOREM AdminRightsAlwaysFromOwner == Spec => []AdminRightsFromOwner
<1>1. CallsInv => AdminRightsFromOwner
  BY DEF CallsInv
<1> QED BY <1>1, CallsInvariant, PTL

\* CALLING_TO_AS_ADMIN is gone when a transaction is over, whether it succeeded, failed
\* or was partly undone.
THEOREM NoMarkLeftOver == Spec => []NoMarkAtRest
<1>1. CallsInv => NoMarkAtRest
  BY DEF CallsInv, AdminRightsFromOwner, NoMarkAtRest
<1> QED BY <1>1, CallsInvariant, PTL

\* Authorised addresses of an adapter change only by the owner's own message, within an
\* admin call of the owner to that adapter, within an upgrade, or when a change is undone.
THEOREM OnlyOwnerAuthorizes == Spec => AuthorizedByOwner
<1> DEFINE A == \A d \in Adapter : authorized'[d] # authorized[d] =>
       \/ Len(stack') < Len(stack)
       \/ Top.at = Owner
       \/ \E k \in DOMAIN stack : stack[k].by = Owner /\ stack[k].admin \in {d, WildCard}
<1>1. ASSUME CallsInv, [Next]_vars PROVE [A]_vars
  <2>1. DOMAIN stack = 1 .. Len(stack) /\ Len(stack) \in Nat /\ TypeOK /\ stack \in Seq(FrameType)
    BY <1>1, StackFrames DEF CallsInv, TypeOK
  <2>2. ASSUME NEW k \in DOMAIN stack, Fail(k) PROVE A
    <3>1. Len(stack') = k - 1
      BY <2>1, <2>2 DEF Fail
    <3> QED BY <2>1, <3>1
  <2>3. ASSUME NEW c \in Free, NEW m \in Asked, UpdateDirectly(c, m) PROVE A
    <3>1. Top.at = Owner
      BY <2>3 DEF UpdateDirectly, AtWork, IsOwner
    <3> QED BY <3>1
  <2>4. CASE SendUpdate
    <3>1. mark # None
      BY <2>4, ContractAssumption DEF SendUpdate, IsAdminCall, Contract
    <3>2. PICK k \in DOMAIN stack : stack[k].by = Owner /\ stack[k].admin = mark
      BY <1>1, <3>1 DEF CallsInv, AdminRightsFromOwner
    <3>3. \A d \in Adapter : authorized'[d] # authorized[d] => mark \in {d, WildCard}
      <4>1. DOMAIN authorized = Adapter
        BY <2>1 DEF TypeOK, stored, Saved
      <4> QED BY <2>4, <4>1 DEF SendUpdate, Updated, IsAdminCall
    <3> QED BY <3>2, <3>3
  <2>5. ASSUME authorized' = authorized PROVE A
    BY <2>5
  <2> HIDE DEF A
  <2> QED BY <1>1, <2>2, <2>3, <2>4, <2>5
      DEF Next, vars, Begin, Return, SendFree, AccountReturn, CallFree, Execute, AdminExecute,
          Upgrade, RequestAdapter
<1> QED BY <1>1, CallsInvariant, PTL DEF Spec, AuthorizedByOwner

\* replace_adapter: what reaches the new version of an adapter holds everybody that the
\* old one had authorised when the upgrade began.
THEOREM UpgradesMoveAuthorized == Spec => UpgradeMovesAuthorized
<1> DEFINE A == \A k \in DOMAIN stack : stack[k].kind = "upgrade" /\ Len(stack') = k
       /\ Len(stack) = k /\ stack[k].todo # << >> /\ Head(stack[k].todo).to = New =>
       stack[k].saved.authorized[Old] \subseteq authorized'[New]
<1>1. ASSUME CallsInv, [Next]_vars PROVE [A]_vars
  <2>1. DOMAIN stack = 1 .. Len(stack) /\ Len(stack) \in Nat /\ TypeOK /\ stack \in Seq(FrameType)
    BY <1>1, StackFrames DEF CallsInv, TypeOK
  <2>2. Like(stack)
    BY <2>1, LikeSelf
  <2>3. ASSUME Len(stack') # Len(stack) PROVE A
    BY <2>3
  <2>4. ASSUME NEW s \in Seq(FrameType), Len(s) = Len(stack), NEW f, stack' = Append(s, f) PROVE A
    <3>1. Len(stack') = Len(stack) + 1
      BY <2>4
    <3> QED BY <2>1, <2>3, <3>1
  <2>5. ASSUME stack # << >>, stack' = Below PROVE A
    <3>1. Len(stack') = Len(stack) - 1
      BY <2>1, <2>5 DEF Below
    <3> QED BY <2>1, <2>3, <3>1
  <2>6. ASSUME NEW k \in DOMAIN stack, Fail(k) PROVE A
    <3>1. Len(stack') = k - 1
      BY <2>1, <2>6 DEF Fail
    <3> QED BY <2>1, <2>3, <3>1
  <2>7. ASSUME NEW c \in Free, AtWork(c) PROVE A
    <3>1. Len(stack) \in DOMAIN stack /\ stack[Len(stack)].at # Account
      BY <2>1, <2>7, StackFrames, ContractAssumption DEF AtWork, Top
    <3>2. stack[Len(stack)].kind # "upgrade"
      BY <1>1, <3>1 DEF CallsInv, FrameInv
    <3> QED BY <3>2
  <2>8. CASE SendUpdate
    <3> SUFFICES ASSUME NEW k \in DOMAIN stack, stack[k].kind = "upgrade", Len(stack) = k,
                        stack[k].todo # << >>, Head(stack[k].todo).to = New
                 PROVE  stack[k].saved.authorized[Old] \subseteq authorized'[New]
      OBVIOUS
    <3>1. stack[k] = Top /\ Top.todo \in Seq(Message) /\ Top.todo # << >>
      BY <2>1, StackFrames DEF Top, FrameType
    <3>2. 1 \in DOMAIN Top.todo /\ Head(Top.todo) = Top.todo[1]
      BY <3>1
    <3>3. Head(Top.todo).add = stack[k].saved.authorized[Old] /\ Head(Top.todo).remove = {}
      BY <1>1, <3>1, <3>2 DEF CallsInv, FrameInv
    <3>4. authorized' = Updated(Head(Top.todo)) /\ Head(Top.todo).to = New
      BY <2>8, <3>1 DEF SendUpdate
    <3>5. authorized \in [Adapter -> SUBSET Free] /\ New \in Adapter
      BY <2>1, Names DEF TypeOK, stored, Saved
    <3> QED BY <3>3, <3>4, <3>5 DEF Updated
  <2>9. CASE SendFree
    <3>1. Rest \in Seq(FrameType) /\ Len(Rest) = Len(stack)
      BY <2>1, <2>9, LikeRest DEF SendFree, Like
    <3> QED BY <2>4, <2>9, <3>1 DEF SendFree
  <2>10. ASSUME NEW c \in Free, Begin(c) PROVE A
    BY <2>1, <2>4, <2>10 DEF Begin, Pushed
  <2>11. CASE Return \/ AccountReturn
    BY <2>5, <2>11 DEF Return, AccountReturn
  <2> HIDE DEF A
  <2> QED BY <1>1, <2>6, <2>7, <2>8, <2>9, <2>10, <2>11
      DEF Next, CallFree, Execute, AdminExecute, Upgrade, RequestAdapter, UpdateDirectly
<1> QED BY <1>1, CallsInvariant, PTL DEF Spec, UpgradeMovesAuthorized
=============================================================================
