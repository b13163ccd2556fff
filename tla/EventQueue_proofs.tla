-------------------------- MODULE EventQueue_proofs --------------------------
(***************************************************************************)
(* Proofs about EventQueue, for every set of events and threads and every  *)
(* bound: its type invariant, that the guard is neither lost nor doubled,  *)
(* that only the front of the queue is worked for, that each pusher's      *)
(* events run in order, and that every step is one of SerialExecutor.      *)
(***************************************************************************)
EXTENDS EventQueue, SequenceTheorems, TLAPS

-----------------------------------------------------------------------------
(* Type correctness.                                                       *)

\* Appending an event to the queue keeps the types, whatever well-typed
\* stack the front event is called from.
LEMMA EmplaceType ==
  ASSUME TypeOK, NEW e \in Events, NEW st \in Seq(Frames), Emplace(e, st)
  PROVE  /\ stack' \in Seq(Frames)
         /\ events' \in Seq(Events)
         /\ ran' \in Seq(Events)
<1>1. [k |-> "body", e |-> e, g |-> TRUE] \in Frames
  BY DEF Frames
<1>2. Append(events, e) \in Seq(Events) /\ Append(ran, e) \in Seq(Events)
  BY AppendProperties DEF TypeOK
<1>3. Append(st, [k |-> "body", e |-> e, g |-> TRUE]) \in Seq(Frames)
  BY <1>1, AppendProperties
<1>4. QED
  BY <1>2, <1>3 DEF TypeOK, Emplace

\* So does popping the front and running the next event.
LEMMA NextEventType ==
  ASSUME TypeOK, NEW st \in Seq(Frames), NEW chain \in ChainPushes, NextEvent(st, chain)
  PROVE  /\ stack' \in Seq(Frames)
         /\ events' \in Seq(Events)
         /\ ran' \in Seq(Events)
         /\ fresh' \subseteq Events
         /\ pushed' \in [Pushers -> Seq(Events)]
<1>1. chain \in Seq(Events)
  <2>1. CASE chain = <<>>
    BY <2>1
  <2>2. CASE \E e \in fresh : chain = <<e>>
    BY <2>2 DEF TypeOK
  <2>3. QED
    BY <2>1, <2>2 DEF ChainPushes
<1> DEFINE rest == IF events = <<>> THEN <<>> ELSE Tail(events \o chain)
<1>2. rest \in Seq(Events)
  <2>1. CASE events = <<>>
    BY <2>1, EmptySeq
  <2>2. CASE events # <<>>
    <3>1. events \o chain \in Seq(Events) /\ events \o chain # <<>>
      BY <1>1, <2>2, ConcatProperties, ConcatEqualIffEmpty DEF TypeOK
    <3>2. QED
      BY <2>2, <3>1, HeadTailProperties
  <2>3. QED
    BY <2>1, <2>2
<1>3. events' = rest /\ fresh' \subseteq Events
  BY DEF NextEvent, TypeOK
<1>4. pushed' \in [Pushers -> Seq(Events)]
  <2>1. pushed[Strand] \o chain \in Seq(Events)
    BY <1>1, ConcatProperties DEF TypeOK, Pushers
  <2>2. pushed' = [pushed EXCEPT ![Strand] = pushed[Strand] \o chain]
    BY DEF NextEvent
  <2>3. QED
    BY <2>1, <2>2 DEF TypeOK
<1>5. CASE rest = <<>>
  <2>1. stack' = st /\ ran' = ran
    BY <1>5 DEF NextEvent
  <2>2. QED
    BY <1>2, <1>3, <1>4, <2>1 DEF TypeOK
<1>6. CASE rest # <<>>
  <2>1. PICK e \in Events : e = Head(rest)
    BY <1>2, <1>6, HeadTailProperties
  <2>2. /\ stack' = Append(st, [k |-> "body", e |-> e, g |-> TRUE])
        /\ ran' = Append(ran, e)
    BY <1>6, <2>1 DEF NextEvent
  <2>3. [k |-> "body", e |-> e, g |-> TRUE] \in Frames
    BY DEF Frames
  <2>4. stack' \in Seq(Frames)
    BY <2>2, <2>3, AppendProperties
  <2>5. ran' \in Seq(Events)
    BY <2>2, AppendProperties DEF TypeOK
  <2>6. QED
    BY <1>2, <1>3, <1>4, <2>4, <2>5
<1>7. QED
  BY <1>5, <1>6

\* The innermost frame and the stack below it.
LEMMA StackType ==
  ASSUME TypeOK, ~Idle
  PROVE  /\ Top \in Frames
         /\ Below \in Seq(Frames)
         /\ Len(Below) = Len(stack) - 1
         /\ \A i \in 1 .. Len(stack) - 1 : Below[i] = stack[i]
<1>1. stack \in Seq(Frames) /\ stack # <<>>
  BY DEF TypeOK, Idle
<1>2. Len(stack) \in Nat \ {0}
  BY <1>1, EmptySeq, LenProperties
<1>3. Top \in Frames
  BY <1>1, <1>2, ElementOfSeq DEF Top
<1>4. /\ Below \in Seq(Frames)
      /\ Len(Below) = Len(stack) - 1
      /\ \A i \in 1 .. Len(stack) - 1 : Below[i] = stack[i]
  <2>1. \A i \in 1 .. Len(stack) - 1 : stack[i] \in Frames
    BY <1>1, <1>2, ElementOfSeq
  <2> DEFINE n == Len(stack) - 1
  <2>2. n \in Nat
    BY <1>2
  <2>3. Below = SubSeq(stack, 1, n)
    BY DEF Below
  <2> HIDE DEF n
  <2>4. \A i \in 1 .. n : stack[i] \in Frames
    BY <2>1 DEF n
  <2>5. /\ SubSeq(stack, 1, n) \in Seq(Frames)
        /\ Len(SubSeq(stack, 1, n)) = IF 1 <= n THEN n - 1 + 1 ELSE 0
        /\ \A i \in 1 .. n - 1 + 1 : SubSeq(stack, 1, n)[i] = stack[1 + i - 1]
    BY <2>2, <2>4, SubSeqProperties
  <2>6. Below \in Seq(Frames) /\ Len(Below) = n
    BY <2>2, <2>3, <2>5
  <2>7. \A i \in 1 .. n : Below[i] = stack[i]
    BY <2>2, <2>3, <2>5
  <2>8. QED
    BY <2>6, <2>7 DEF n
<1>5. QED
  BY <1>3, <1>4

\* The innermost frame is the last of the stack, and a frame.
LEMMA TopIsLast ==
  ASSUME TypeOK, ~Idle
  PROVE  /\ Len(stack) \in Nat \ {0}
         /\ DOMAIN stack = 1 .. Len(stack)
         /\ Top = stack[Len(stack)]
BY EmptySeq, LenProperties DEF TypeOK, Idle, Top

-----------------------------------------------------------------------------
\* The empty queue (event_queue_cp's constructor) has its types.
LEMMA TypeCorrectInit == Init => TypeOK
BY MaxUserAssumption, EmptySeq DEF Init, TypeOK

\* Every variable of the queue keeps its type: events_, the handlers posted to
\* the strand and the frames on its stack (event_queue_cp).
THEOREM TypeCorrect == Spec => []TypeOK
<1>1. Init => TypeOK
  BY TypeCorrectInit
<1>2. TypeOK /\ [Next]_vars => TypeOK'
  <2> SUFFICES ASSUME TypeOK, [Next]_vars PROVE TypeOK'
    OBVIOUS
  <2>1. ASSUME NEW t \in Threads, NEW e \in Events, PostPush(t, e) PROVE TypeOK'
    <3>1. [k |-> "push", e |-> e] \in Handlers
      BY DEF Handlers
    <3>2. posted' \in Seq(Handlers)
      BY <2>1, <3>1, AppendProperties DEF PostPush, TypeOK
    <3>3. pushed' \in [Pushers -> Seq(Events)]
      <4>1. Append(pushed[t], e) \in Seq(Events)
        BY AppendProperties DEF TypeOK, Pushers
      <4>2. QED
        BY <2>1, <4>1 DEF PostPush, TypeOK
    <3>4. QED
      BY <2>1, <3>2, <3>3 DEF PostPush, TypeOK
  <2>2. ASSUME PostUser PROVE TypeOK'
    <3>1. [k |-> "user", e |-> NoEvent] \in Handlers
      BY DEF Handlers
    <3>2. posted' \in Seq(Handlers)
      BY <2>2, <3>1, AppendProperties DEF PostUser, TypeOK
    <3>3. QED
      BY <2>2, <3>2 DEF PostUser, TypeOK
  <2>3. ASSUME NEW e \in Events, OperationEnds(e) PROVE TypeOK'
    <3>1. [k |-> "complete", e |-> e] \in Handlers
      BY DEF Handlers
    <3>2. posted' \in Seq(Handlers)
      BY <2>3, <3>1, AppendProperties DEF OperationEnds, TypeOK
    <3>3. QED
      BY <2>3, <3>2 DEF OperationEnds, TypeOK
  <2>4. ASSUME NEW e \in Events, GuardDroppedOffStrand(e) PROVE TypeOK'
    <3>1. [k |-> "next", e |-> NoEvent] \in Handlers
      BY DEF Handlers
    <3>2. posted' \in Seq(Handlers)
      BY <2>4, <3>1, AppendProperties DEF GuardDroppedOffStrand, TypeOK
    <3>3. QED
      BY <2>4, <3>2 DEF GuardDroppedOffStrand, TypeOK
  <2>5. ASSUME NEW e \in Events, PushOnStrand(e) PROVE TypeOK'
    <3>1. /\ stack' \in Seq(Frames) /\ events' \in Seq(Events) /\ ran' \in Seq(Events)
      BY <2>5, EmplaceType DEF PushOnStrand, TypeOK
    <3>2. pushed' \in [Pushers -> Seq(Events)]
      <4>1. Append(pushed[Strand], e) \in Seq(Events)
        BY AppendProperties DEF TypeOK, Pushers
      <4>2. QED
        BY <2>5, <4>1 DEF PushOnStrand, TypeOK
    <3>3. QED
      BY <2>5, <3>1, <3>2 DEF PushOnStrand, TypeOK
  <2>6. ASSUME StartOperation PROVE TypeOK'
    <3>1. Top \in Frames /\ Below \in Seq(Frames)
      BY <2>6, StackType DEF StartOperation
    <3>2. Top.e \in Events /\ [Top EXCEPT !.g = FALSE] \in Frames
      BY <2>6, <3>1 DEF StartOperation, Frames
    <3>3. Append(Below, [Top EXCEPT !.g = FALSE]) \in Seq(Frames)
      BY <3>1, <3>2, AppendProperties
    <3>4. QED
      BY <2>6, <3>2, <3>3 DEF StartOperation, TypeOK
  <2>7. ASSUME Return PROVE TypeOK'
    <3>1. Below \in Seq(Frames)
      BY <2>7, StackType DEF Return
    <3>2. CASE ~Top.g
      BY <2>7, <3>1, <3>2 DEF Return, TypeOK
    <3>3. CASE Top.g
      <4>1. PICK chain \in ChainPushes : NextEvent(Below, chain)
        BY <2>7, <3>3 DEF Return
      <4>2. QED
        BY <2>7, <3>1, <4>1, NextEventType DEF Return, TypeOK
    <3>4. QED
      BY <3>2, <3>3
  <2>8. ASSUME RunPush PROVE TypeOK'
    <3>1. posted' \in Seq(Handlers) /\ Head(posted) \in Handlers
      BY <2>8, HeadTailProperties DEF RunPush, RunPosted, TypeOK
    <3>2. Head(posted).e \in Events
      BY <2>8, <3>1 DEF RunPush, RunPosted, Handlers
    <3>3. /\ stack' \in Seq(Frames) /\ events' \in Seq(Events) /\ ran' \in Seq(Events)
      BY <2>8, <3>2, EmplaceType, EmptySeq DEF RunPush
    <3>4. QED
      BY <2>8, <3>1, <3>3 DEF RunPush, TypeOK
  <2>9. ASSUME RunNext PROVE TypeOK'
    <3>1. posted' \in Seq(Handlers)
      BY <2>9, HeadTailProperties DEF RunNext, RunPosted, TypeOK
    <3>2. PICK chain \in ChainPushes : NextEvent(<<>>, chain)
      BY <2>9 DEF RunNext
    <3>3. QED
      BY <2>9, <3>1, <3>2, NextEventType, EmptySeq DEF RunNext, TypeOK
  <2>10. ASSUME RunComplete PROVE TypeOK'
    <3>1. posted' \in Seq(Handlers) /\ Head(posted) \in Handlers
      BY <2>10, HeadTailProperties DEF RunComplete, RunPosted, TypeOK
    <3>2. [k |-> "complete", e |-> Head(posted).e, g |-> TRUE] \in Frames
      BY <2>10, <3>1 DEF RunComplete, RunPosted, Handlers, Frames
    <3>3. stack' \in Seq(Frames)
      BY <2>10, <3>2 DEF RunComplete
    <3>4. QED
      BY <2>10, <3>1, <3>3 DEF RunComplete, TypeOK
  <2>11. ASSUME RunUser PROVE TypeOK'
    <3>1. posted' \in Seq(Handlers)
      BY <2>11, HeadTailProperties DEF RunUser, RunPosted, TypeOK
    <3>2. [k |-> "user", e |-> NoEvent, g |-> FALSE] \in Frames
      BY DEF Frames
    <3>3. stack' \in Seq(Frames)
      BY <2>11, <3>2 DEF RunUser
    <3>4. QED
      BY <2>11, <3>1, <3>3 DEF RunUser, TypeOK
  <2>12. CASE UNCHANGED vars
    BY <2>12 DEF vars, TypeOK
  <2>13. QED
    BY <2>1, <2>2, <2>3, <2>4, <2>5, <2>6, <2>7, <2>8, <2>9, <2>10, <2>11, <2>12
       DEF Next, StrandStep
<1>3. QED
  BY <1>1, <1>2, PTL DEF Spec

-----------------------------------------------------------------------------
(* Where the guard is.  GuardInv speaks of a set of owners; the steps are   *)
(* easier to follow when it is split by the place the guard is in.          *)

NoneInStack == \A i \in DOMAIN stack : ~stack[i].g
OneInStack  == \E i \in DOMAIN stack :
                 stack[i].g /\ \A j \in DOMAIN stack : stack[j].g => j = i

Carries(h) == h.k \in {"next", "complete"}
NonePosted == \A i \in DOMAIN posted : ~Carries(posted[i])
OnePosted  == \E i \in DOMAIN posted :
                Carries(posted[i]) /\ \A j \in DOMAIN posted : Carries(posted[j]) => j = i

GuardPlaced ==
  IF events = <<>>
    THEN NoneInStack /\ NonePosted /\ op = {}
    ELSE \/ OneInStack /\ NonePosted /\ op = {}
         \/ NoneInStack /\ OnePosted /\ op = {}
         \/ NoneInStack /\ NonePosted /\ \E e \in op : op = {e}

\* At most one frame works for an event, and a guard is never owned by a
\* frame that works for none.
OneWorker ==
  /\ \A i, j \in DOMAIN stack : stack[i].k # "user" /\ stack[j].k # "user" => i = j
  /\ \A i \in DOMAIN stack : stack[i].g => stack[i].k # "user"

\* The parts of FrontOnly.
WorkerAtFront   == \A i \in DOMAIN stack :
                     stack[i].k # "user" => events # <<>> /\ stack[i].e = Head(events)
OperationAtFront == \A e \in op : events # <<>> /\ e = Head(events)
CompleteAtFront == \A i \in DOMAIN posted :
                     posted[i].k = "complete" => events # <<>> /\ posted[i].e = Head(events)
AtFront == WorkerAtFront /\ OperationAtFront /\ CompleteAtFront

\* The inductive invariant.
IInv == TypeOK /\ GuardPlaced /\ AtFront /\ OneWorker

\* The strengthened form AtFront says what FrontOnly says of the running code.
LEMMA FrontParts == AtFront => FrontOnly
BY DEF FrontOnly, AtFront, WorkerAtFront, OperationAtFront, CompleteAtFront

\* The split by place says what GuardInv says.
LEMMA GuardPlacedIsGuardInv ==
  ASSUME GuardPlaced
  PROVE  GuardInv
<1>1. CASE events = <<>>
  BY <1>1 DEF GuardPlaced, GuardInv, Owners, NoneInStack, NonePosted, Carries
<1>2. CASE events # <<>> /\ OneInStack /\ NonePosted /\ op = {}
  <2>1. PICK i \in DOMAIN stack : stack[i].g /\ \A j \in DOMAIN stack : stack[j].g => j = i
    BY <1>2 DEF OneInStack
  <2>2. Owners = {<<"stack", i>>}
    BY <1>2, <2>1 DEF Owners, NonePosted, Carries
  <2>3. QED
    BY <1>2, <2>2 DEF GuardInv
<1>3. CASE events # <<>> /\ NoneInStack /\ OnePosted /\ op = {}
  <2>1. PICK i \in DOMAIN posted :
          Carries(posted[i]) /\ \A j \in DOMAIN posted : Carries(posted[j]) => j = i
    BY <1>3 DEF OnePosted
  <2>2. Owners = {<<"posted", i>>}
    BY <1>3, <2>1 DEF Owners, NoneInStack, Carries
  <2>3. QED
    BY <1>3, <2>2 DEF GuardInv
<1>4. CASE events # <<>> /\ NoneInStack /\ NonePosted /\ \E e \in op : op = {e}
  <2>1. PICK e \in op : op = {e}
    BY <1>4
  <2>2. Owners = {<<"op", e>>}
    BY <1>4, <2>1 DEF Owners, NoneInStack, NonePosted, Carries
  <2>3. QED
    BY <1>4, <2>2 DEF GuardInv
<1>5. QED
  BY <1>1, <1>2, <1>3, <1>4 DEF GuardPlaced

\* A handler is posted.
LEMMA HandlerPosted ==
  ASSUME TypeOK, NEW h \in Handlers, posted' = Append(posted, h)
  PROVE  /\ ~Carries(h) /\ NonePosted => NonePosted'
         /\ ~Carries(h) /\ OnePosted => OnePosted'
         /\ Carries(h) /\ NonePosted => OnePosted'
         /\ events' = events /\ CompleteAtFront
              /\ (h.k = "complete" => events # <<>> /\ h.e = Head(events)) => CompleteAtFront'
<1> DEFINE n == Len(posted)
<1>1. /\ n \in Nat /\ DOMAIN posted = 1 .. n
      /\ DOMAIN posted' = 1 .. n + 1
      /\ posted'[n + 1] = h
      /\ \A i \in 1 .. n : posted'[i] = posted[i]
  BY AppendProperties, LenProperties DEF TypeOK
<1> HIDE DEF n
<1>2. ~Carries(h) /\ NonePosted => NonePosted'
  BY <1>1 DEF NonePosted, Carries
<1>3. ~Carries(h) /\ OnePosted => OnePosted'
  BY <1>1 DEF OnePosted, Carries
<1>4. Carries(h) /\ NonePosted => OnePosted'
  BY <1>1 DEF NonePosted, OnePosted, Carries
<1>5. events' = events /\ CompleteAtFront
        /\ (h.k = "complete" => events # <<>> /\ h.e = Head(events)) => CompleteAtFront'
  BY <1>1 DEF CompleteAtFront
<1>6. QED
  BY <1>2, <1>3, <1>4, <1>5

\* The strand takes the oldest handler.
LEMMA HandlerTaken ==
  ASSUME TypeOK, posted # <<>>, posted' = Tail(posted)
  PROVE  /\ NonePosted => NonePosted'
         /\ ~Carries(Head(posted)) /\ OnePosted => OnePosted'
         /\ Carries(Head(posted)) => ~NonePosted /\ (OnePosted => NonePosted')
         /\ CompleteAtFront => \A i \in DOMAIN posted' :
               posted'[i].k = "complete" => events # <<>> /\ posted'[i].e = Head(events)
         /\ CompleteAtFront /\ Head(posted).k = "complete" =>
               events # <<>> /\ Head(posted).e = Head(events)
<1> DEFINE n == Len(posted)
<1>1. /\ n \in Nat \ {0} /\ DOMAIN posted = 1 .. n
      /\ DOMAIN posted' = 1 .. n - 1
      /\ Head(posted) = posted[1]
      /\ \A i \in 1 .. n - 1 : posted'[i] = posted[i + 1]
  BY HeadTailProperties, LenProperties, EmptySeq DEF TypeOK
<1> HIDE DEF n
<1>2. NonePosted => NonePosted'
  BY <1>1 DEF NonePosted, Carries
<1>3. ~Carries(Head(posted)) /\ OnePosted => OnePosted'
  <2> SUFFICES ASSUME ~Carries(Head(posted)), OnePosted PROVE OnePosted'
    OBVIOUS
  <2>1. PICK i \in 1 .. n : /\ Carries(posted[i])
                            /\ \A j \in 1 .. n : Carries(posted[j]) => j = i
    BY <1>1 DEF OnePosted
  <2>2. i # 1 /\ i - 1 \in 1 .. n - 1
    BY <1>1, <2>1 DEF Carries
  <2>3. Carries(posted'[i - 1])
    BY <1>1, <2>1, <2>2 DEF Carries
  <2>4. \A j \in 1 .. n - 1 : Carries(posted'[j]) => j = i - 1
    BY <1>1, <2>1 DEF Carries
  <2>5. DOMAIN posted' = 1 .. n - 1
    BY <1>1
  <2>6. \E x \in 1 .. n - 1 :
          Carries(posted'[x]) /\ \A j \in 1 .. n - 1 : Carries(posted'[j]) => j = x
    BY <2>2, <2>3, <2>4
  <2>7. QED
    BY <2>5, <2>6 DEF OnePosted, Carries
<1>4. Carries(Head(posted)) => ~NonePosted /\ (OnePosted => NonePosted')
  BY <1>1 DEF OnePosted, NonePosted, Carries
<1>5. CompleteAtFront => \A i \in DOMAIN posted' :
        posted'[i].k = "complete" => events # <<>> /\ posted'[i].e = Head(events)
  BY <1>1 DEF CompleteAtFront
<1>6. CompleteAtFront /\ Head(posted).k = "complete" =>
        events # <<>> /\ Head(posted).e = Head(events)
  BY <1>1 DEF CompleteAtFront
<1>7. QED
  BY <1>2, <1>3, <1>4, <1>5, <1>6

\* What is appended to an empty sequence is its head.
LEMMA AppendToEmpty ==
  ASSUME NEW f
  PROVE  Append(<<>>, f) = <<f>>
OBVIOUS

AllUser(st) == \A i \in DOMAIN st : st[i].k = "user"

\* The frames that work for no event own no guard.
LEMMA UsersOwnNothing ==
  ASSUME NEW st \in Seq(Frames), AllUser(st)
  PROVE  \A i \in DOMAIN st : ~st[i].g
<1>1. \A i \in DOMAIN st : st[i] \in Frames
  BY LenProperties, ElementOfSeq
<1>2. QED
  BY <1>1 DEF AllUser, Frames

\* A frame that owns the guard is put on frames that work for no event.
LEMMA WorkerCalled ==
  ASSUME NEW st \in Seq(Frames), AllUser(st), NEW f \in Frames,
         f.g, f.k # "user", stack' = Append(st, f), events' # <<>>, f.e = Head(events')
  PROVE  OneInStack' /\ WorkerAtFront' /\ OneWorker'
<1> DEFINE n == Len(st)
<1>1. /\ n \in Nat /\ DOMAIN st = 1 .. n
      /\ DOMAIN stack' = 1 .. n + 1
      /\ stack'[n + 1] = f
      /\ \A i \in 1 .. n : stack'[i] = st[i]
  BY AppendProperties, LenProperties
<1>2. \A i \in 1 .. n : stack'[i].k = "user" /\ ~stack'[i].g
  BY <1>1, UsersOwnNothing DEF AllUser
<1> HIDE DEF n
<1>3. OneInStack'
  <2>1. stack'[n + 1].g /\ \A j \in 1 .. n + 1 : stack'[j].g => j = n + 1
    BY <1>1, <1>2
  <2>2. n + 1 \in DOMAIN stack'
    BY <1>1
  <2>3. QED
    BY <1>1, <2>1, <2>2 DEF OneInStack
<1>4. WorkerAtFront'
  BY <1>1, <1>2 DEF WorkerAtFront
<1>5. OneWorker'
  BY <1>1, <1>2 DEF OneWorker
<1>6. QED
  BY <1>3, <1>4, <1>5

\* Only frames that work for no event are left.
LEMMA NoWorker ==
  ASSUME NEW st \in Seq(Frames), AllUser(st), stack' = st
  PROVE  NoneInStack' /\ WorkerAtFront' /\ OneWorker'
BY UsersOwnNothing DEF AllUser, NoneInStack, WorkerAtFront, OneWorker

\* The guard is destroyed on the strand, below it nobody works for an event.
LEMMA NextEventKeeps ==
  ASSUME TypeOK, NEW st \in Seq(Frames), AllUser(st), NEW chain \in ChainPushes,
         NextEvent(st, chain), NonePosted', op' = {}
  PROVE  GuardPlaced' /\ AtFront' /\ OneWorker'
<1>1. OperationAtFront' /\ CompleteAtFront'
  BY DEF OperationAtFront, CompleteAtFront, NonePosted, Carries
<1>2. events' \in Seq(Events)
  BY NextEventType
<1>3. CASE events' = <<>>
  <2>1. stack' = st
    BY <1>3 DEF NextEvent
  <2>2. NoneInStack' /\ WorkerAtFront' /\ OneWorker'
    BY <2>1, NoWorker
  <2>3. QED
    BY <1>1, <1>3, <2>2 DEF GuardPlaced, AtFront
<1>4. CASE events' # <<>>
  <2>1. PICK e \in Events : e = Head(events')
    BY <1>2, <1>4, HeadTailProperties
  <2>2. stack' = Append(st, [k |-> "body", e |-> e, g |-> TRUE])
    BY <1>4, <2>1 DEF NextEvent
  <2>3. [k |-> "body", e |-> e, g |-> TRUE] \in Frames
    BY DEF Frames
  <2>4. OneInStack' /\ WorkerAtFront' /\ OneWorker'
    BY <1>4, <2>1, <2>2, <2>3, WorkerCalled
  <2>5. QED
    BY <1>1, <1>4, <2>4 DEF GuardPlaced, AtFront
<1>5. QED
  BY <1>3, <1>4

\* An event is pushed on the strand.
LEMMA EmplaceKeeps ==
  ASSUME IInv, NEW e \in Events, Emplace(e, stack), UNCHANGED op,
         NonePosted => NonePosted', OnePosted => OnePosted',
         \A i \in DOMAIN posted' :
           posted'[i].k = "complete" => events # <<>> /\ posted'[i].e = Head(events)
  PROVE  GuardPlaced' /\ AtFront' /\ OneWorker'
<1> USE DEF IInv
<1>1. events' = Append(events, e) /\ events' # <<>>
  BY AppendProperties DEF Emplace, TypeOK
<1>2. Head(events') = IF events = <<>> THEN e ELSE Head(events)
  BY <1>1, HeadTailAppend DEF TypeOK
<1>3. OperationAtFront' /\ CompleteAtFront'
  BY <1>1, <1>2 DEF AtFront, OperationAtFront, CompleteAtFront
<1>4. CASE events = <<>>
  <2>1. AllUser(stack) /\ stack \in Seq(Frames)
    BY <1>4 DEF AllUser, AtFront, WorkerAtFront, TypeOK
  <2>2. /\ [k |-> "body", e |-> e, g |-> TRUE] \in Frames
        /\ stack' = Append(stack, [k |-> "body", e |-> e, g |-> TRUE])
    BY <1>4 DEF Emplace, Frames
  <2>3. OneInStack' /\ WorkerAtFront' /\ OneWorker'
    BY <1>1, <1>2, <1>4, <2>1, <2>2, WorkerCalled
  <2>4. NonePosted' /\ op' = {}
    BY <1>4 DEF GuardPlaced
  <2>5. QED
    BY <1>1, <1>3, <2>3, <2>4 DEF GuardPlaced, AtFront
<1>5. CASE events # <<>>
  <2>1. stack' = stack
    BY <1>5 DEF Emplace
  <2>2. WorkerAtFront'
    BY <1>1, <1>2, <1>5, <2>1 DEF AtFront, WorkerAtFront
  <2>3. OneWorker' /\ (OneInStack => OneInStack') /\ (NoneInStack => NoneInStack')
    BY <2>1 DEF OneWorker, OneInStack, NoneInStack
  <2>4. GuardPlaced'
    BY <1>1, <1>5, <2>3 DEF GuardPlaced
  <2>5. QED
    BY <1>3, <2>2, <2>3, <2>4 DEF AtFront
<1>6. QED
  BY <1>4, <1>5

\* A step that only posts a handler without the guard.
LEMMA PostedOnly ==
  ASSUME IInv, UNCHANGED <<stack, events, op>>,
         NonePosted => NonePosted', OnePosted => OnePosted', CompleteAtFront'
  PROVE  GuardPlaced' /\ AtFront' /\ OneWorker'
<1>1. (OneInStack => OneInStack') /\ (NoneInStack => NoneInStack')
  BY DEF OneInStack, NoneInStack
<1>2. GuardPlaced'
  BY <1>1 DEF IInv, GuardPlaced
<1>3. WorkerAtFront' /\ OperationAtFront' /\ OneWorker'
  BY DEF IInv, AtFront, WorkerAtFront, OperationAtFront, OneWorker
<1>4. QED
  BY <1>2, <1>3 DEF AtFront

\* An operation hands the guard over to a posted handler.
LEMMA OperationHandsOver ==
  ASSUME IInv, UNCHANGED <<stack, events>>, NEW e \in op, op' = op \ {e}, events # <<>>,
         NonePosted => OnePosted', CompleteAtFront'
  PROVE  GuardPlaced' /\ AtFront' /\ OneWorker'
<1>1. NoneInStack /\ NonePosted /\ op' = {}
  BY DEF IInv, GuardPlaced
<1>2. NoneInStack'
  BY <1>1 DEF NoneInStack
<1>3. GuardPlaced'
  BY <1>1, <1>2 DEF GuardPlaced
<1>4. WorkerAtFront' /\ OperationAtFront' /\ OneWorker'
  BY <1>1 DEF IInv, AtFront, WorkerAtFront, OperationAtFront, OneWorker
<1>5. QED
  BY <1>3, <1>4 DEF AtFront

\* Init and every step of the queue keep the invariant.
LEMMA Inductive == Spec => []IInv
<1>1. Init => IInv
  BY TypeCorrectInit DEF Init, IInv, GuardPlaced, NoneInStack, NonePosted, AtFront,
     WorkerAtFront, OperationAtFront, CompleteAtFront, OneWorker
<1>2. IInv /\ [Next]_vars => GuardPlaced' /\ AtFront' /\ OneWorker'
  <2> SUFFICES ASSUME IInv, [Next]_vars PROVE GuardPlaced' /\ AtFront' /\ OneWorker'
    OBVIOUS
  <2> USE DEF IInv
  <2>1. ASSUME NEW t \in Threads, NEW e \in Events, PostPush(t, e)
        PROVE  GuardPlaced' /\ AtFront' /\ OneWorker'
    <3>1. UNCHANGED <<stack, events, op>> /\ posted' = Append(posted, [k |-> "push", e |-> e])
      BY <2>1 DEF PostPush
    <3>2. [k |-> "push", e |-> e] \in Handlers /\ ~Carries([k |-> "push", e |-> e])
      BY DEF Handlers, Carries
    <3>3. (NonePosted => NonePosted') /\ (OnePosted => OnePosted') /\ CompleteAtFront'
      BY <3>1, <3>2, HandlerPosted DEF AtFront
    <3>4. QED
      BY <3>1, <3>3, PostedOnly
  <2>2. ASSUME PostUser PROVE GuardPlaced' /\ AtFront' /\ OneWorker'
    <3>1. UNCHANGED <<stack, events, op>> /\ posted' = Append(posted, [k |-> "user", e |-> NoEvent])
      BY <2>2 DEF PostUser
    <3>2. [k |-> "user", e |-> NoEvent] \in Handlers /\ ~Carries([k |-> "user", e |-> NoEvent])
      BY DEF Handlers, Carries
    <3>3. (NonePosted => NonePosted') /\ (OnePosted => OnePosted') /\ CompleteAtFront'
      BY <3>1, <3>2, HandlerPosted DEF AtFront
    <3>4. QED
      BY <3>1, <3>3, PostedOnly
  <2>3. ASSUME NEW e \in Events, OperationEnds(e)
        PROVE  GuardPlaced' /\ AtFront' /\ OneWorker'
    <3>1. /\ UNCHANGED <<stack, events>> /\ e \in op /\ op' = op \ {e}
          /\ posted' = Append(posted, [k |-> "complete", e |-> e])
      BY <2>3 DEF OperationEnds
    <3>2. [k |-> "complete", e |-> e] \in Handlers /\ Carries([k |-> "complete", e |-> e])
      BY DEF Handlers, Carries
    <3>3. events # <<>> /\ e = Head(events)
      BY <3>1 DEF AtFront, OperationAtFront
    <3>4. (NonePosted => OnePosted') /\ CompleteAtFront'
      BY <3>1, <3>2, <3>3, HandlerPosted DEF AtFront
    <3>5. QED
      BY <3>1, <3>3, <3>4, OperationHandsOver
  <2>4. ASSUME NEW e \in Events, GuardDroppedOffStrand(e)
        PROVE  GuardPlaced' /\ AtFront' /\ OneWorker'
    <3>1. /\ UNCHANGED <<stack, events>> /\ e \in op /\ op' = op \ {e}
          /\ posted' = Append(posted, [k |-> "next", e |-> NoEvent])
      BY <2>4 DEF GuardDroppedOffStrand
    <3>2. [k |-> "next", e |-> NoEvent] \in Handlers /\ Carries([k |-> "next", e |-> NoEvent])
      BY DEF Handlers, Carries
    <3>3. events # <<>> /\ e = Head(events)
      BY <3>1 DEF AtFront, OperationAtFront
    <3>4. (NonePosted => OnePosted') /\ CompleteAtFront'
      BY <3>1, <3>2, HandlerPosted DEF AtFront
    <3>5. QED
      BY <3>1, <3>3, <3>4, OperationHandsOver
  <2>5. ASSUME NEW e \in Events, PushOnStrand(e)
        PROVE  GuardPlaced' /\ AtFront' /\ OneWorker'
    <3>1. Emplace(e, stack) /\ UNCHANGED <<op, posted>>
      BY <2>5 DEF PushOnStrand
    <3>2. (NonePosted => NonePosted') /\ (OnePosted => OnePosted')
      BY <3>1 DEF NonePosted, OnePosted
    <3>3. \A i \in DOMAIN posted' :
            posted'[i].k = "complete" => events # <<>> /\ posted'[i].e = Head(events)
      BY <3>1 DEF AtFront, CompleteAtFront
    <3>4. QED
      BY <3>1, <3>2, <3>3, EmplaceKeeps
  <2>6. ASSUME StartOperation PROVE GuardPlaced' /\ AtFront' /\ OneWorker'
    <3> DEFINE n == Len(stack)
    <3>1. ~Idle /\ Top.g /\ Top.k = "body"
      BY <2>6 DEF StartOperation
    <3>2. /\ n \in Nat \ {0} /\ DOMAIN stack = 1 .. n /\ Top = stack[n]
          /\ Top \in Frames /\ Below \in Seq(Frames) /\ Len(Below) = n - 1
          /\ \A i \in 1 .. n - 1 : Below[i] = stack[i]
      BY <3>1, StackType, TopIsLast
    <3>3. [Top EXCEPT !.g = FALSE] \in Frames
      BY <3>1, <3>2 DEF Frames
    <3>4. /\ DOMAIN stack' = 1 .. n
          /\ \A i \in 1 .. n - 1 : stack'[i] = stack[i]
          /\ stack'[n] = [Top EXCEPT !.g = FALSE]
      <4>1. PICK f \in Frames : f = [Top EXCEPT !.g = FALSE]
        BY <3>3
      <4>2. /\ stack' \in Seq(Frames) /\ Len(stack') = Len(Below) + 1
            /\ \A i \in 1 .. Len(Below) : stack'[i] = Below[i]
            /\ stack'[Len(Below) + 1] = [Top EXCEPT !.g = FALSE]
        <5>1. stack' = Append(Below, f)
          BY <2>6, <4>1 DEF StartOperation
        <5>2. Below \in Seq(Frames)
          BY <3>2
        <5>3. /\ Append(Below, f) \in Seq(Frames)
              /\ Len(Append(Below, f)) = Len(Below) + 1
              /\ \A i \in 1 .. Len(Below) : Append(Below, f)[i] = Below[i]
              /\ Append(Below, f)[Len(Below) + 1] = f
          BY <5>2, AppendProperties
        <5>4. QED
          BY <4>1, <5>1, <5>3
      <4>3. Len(stack') = n /\ Len(Below) + 1 = n /\ DOMAIN stack' = 1 .. Len(stack')
        BY <3>2, <4>2, LenProperties
      <4> HIDE DEF n
      <4>4. QED
        BY <3>2, <4>2, <4>3
    <3> HIDE DEF n
    <3>5. events # <<>> /\ OneInStack /\ NonePosted /\ op = {}
      BY <3>1, <3>2 DEF GuardPlaced, NoneInStack
    <3>6. UNCHANGED <<posted, events>> /\ op' = {Top.e}
      BY <2>6, <3>5 DEF StartOperation
    <3>7. Top.e = Head(events)
      BY <3>1, <3>2 DEF AtFront, WorkerAtFront
    <3>8. \A i \in 1 .. n : stack[i].g => i = n
      BY <3>1, <3>2, <3>5 DEF OneInStack
    <3>9. \A i \in 1 .. n : ~stack'[i].g /\ stack'[i].k = stack[i].k /\ stack'[i].e = stack[i].e
      <4>1. /\ [Top EXCEPT !.g = FALSE].g = FALSE
            /\ [Top EXCEPT !.g = FALSE].k = Top.k
            /\ [Top EXCEPT !.g = FALSE].e = Top.e
        BY <3>2 DEF Frames
      <4>2. \A i \in 1 .. n : i = n \/ i \in 1 .. n - 1
        BY <3>2
      <4>3. QED
        BY <3>2, <3>4, <3>8, <4>1, <4>2
    <3>10. NoneInStack' /\ NonePosted'
      BY <3>4, <3>5, <3>6, <3>9 DEF NoneInStack, NonePosted
    <3>11. GuardPlaced'
      BY <3>5, <3>6, <3>10 DEF GuardPlaced
    <3>12. WorkerAtFront' /\ OneWorker'
      BY <3>2, <3>4, <3>6, <3>9 DEF AtFront, WorkerAtFront, OneWorker
    <3>13. OperationAtFront' /\ CompleteAtFront'
      BY <3>5, <3>6, <3>7 DEF AtFront, OperationAtFront, CompleteAtFront
    <3>14. QED
      BY <3>11, <3>12, <3>13 DEF AtFront
  <2>7. ASSUME Return PROVE GuardPlaced' /\ AtFront' /\ OneWorker'
    <3> DEFINE n == Len(stack)
    <3>1. /\ n \in Nat \ {0} /\ DOMAIN stack = 1 .. n /\ Top = stack[n]
          /\ Top \in Frames /\ Below \in Seq(Frames) /\ DOMAIN Below = 1 .. n - 1
          /\ \A i \in 1 .. n - 1 : Below[i] = stack[i]
      BY <2>7, StackType, TopIsLast, LenProperties DEF Return
    <3> HIDE DEF n
    <3>2. CASE ~Top.g
      <4>1. stack' = Below /\ UNCHANGED <<posted, events, op>>
        BY <2>7, <3>2 DEF Return
      <4>2. NoneInStack => NoneInStack'
        BY <3>1, <4>1 DEF NoneInStack
      <4>3. OneInStack => OneInStack'
        <5>1. \A i \in 1 .. n : stack[i].g => i \in 1 .. n - 1
          BY <3>1, <3>2
        <5>2. QED
          BY <3>1, <4>1, <5>1, SMTT(20), ZenonT(20)
          DEF OneInStack
      <4>4. GuardPlaced'
        BY <4>1, <4>2, <4>3 DEF GuardPlaced, NonePosted, OnePosted
      <4>5. AtFront' /\ OneWorker'
        BY <3>1, <4>1
           DEF AtFront, WorkerAtFront, OperationAtFront, CompleteAtFront, OneWorker
      <4>6. QED
        BY <4>4, <4>5
    <3>3. CASE Top.g
      <4>1. PICK chain \in ChainPushes : NextEvent(Below, chain)
        BY <2>7, <3>3 DEF Return
      <4>2. NonePosted /\ op = {}
        BY <3>1, <3>3 DEF GuardPlaced, NoneInStack
      <4>3. NonePosted' /\ op' = {}
        BY <2>7, <4>2 DEF Return, NonePosted
      <4>4. AllUser(Below)
        BY <3>1, <3>3 DEF OneWorker, AllUser
      <4>5. QED
        BY <3>1, <4>1, <4>3, <4>4, NextEventKeeps
    <3>4. QED
      BY <3>2, <3>3
  <2>8. ASSUME RunPush PROVE GuardPlaced' /\ AtFront' /\ OneWorker'
    <3>1. Emplace(Head(posted).e, stack) /\ UNCHANGED op /\ posted # <<>> /\ posted' = Tail(posted)
      BY <2>8 DEF RunPush, RunPosted, Idle
    <3>2. Head(posted).e \in Events /\ ~Carries(Head(posted))
      BY <2>8, <3>1, HeadTailProperties DEF RunPush, RunPosted, Handlers, TypeOK, Carries
    <3>3. (NonePosted => NonePosted') /\ (OnePosted => OnePosted')
      BY <3>1, <3>2, HandlerTaken
    <3>4. \A i \in DOMAIN posted' :
            posted'[i].k = "complete" => events # <<>> /\ posted'[i].e = Head(events)
      BY <3>1, HandlerTaken DEF AtFront
    <3>5. QED
      BY <3>1, <3>2, <3>3, <3>4, EmplaceKeeps
  <2>9. ASSUME RunNext PROVE GuardPlaced' /\ AtFront' /\ OneWorker'
    <3>1. PICK chain \in ChainPushes : NextEvent(<<>>, chain)
      BY <2>9 DEF RunNext
    <3>2. posted # <<>> /\ posted' = Tail(posted) /\ Carries(Head(posted))
      BY <2>9 DEF RunNext, RunPosted, Carries
    <3>3. ~NonePosted /\ (OnePosted => NonePosted')
      BY <3>2, HandlerTaken
    <3>4. NonePosted' /\ op' = {}
      BY <2>9, <3>3 DEF GuardPlaced, RunNext
    <3>5. <<>> \in Seq(Frames) /\ AllUser(<<>>)
      BY EmptySeq DEF AllUser
    <3>6. QED
      BY <3>1, <3>4, <3>5, NextEventKeeps
  <2>10. ASSUME RunComplete PROVE GuardPlaced' /\ AtFront' /\ OneWorker'
    <3>1. posted # <<>> /\ posted' = Tail(posted) /\ Carries(Head(posted))
      BY <2>10 DEF RunComplete, RunPosted, Carries
    <3>2. events # <<>> /\ Head(posted).e = Head(events)
      BY <2>10, <3>1, HandlerTaken DEF AtFront, RunComplete, RunPosted
    <3>3. NonePosted' /\ op' = {} /\ UNCHANGED events
      BY <2>10, <3>1, HandlerTaken DEF GuardPlaced, RunComplete
    <3>4. PICK e \in Events : e = Head(events)
      BY <3>2, HeadTailProperties DEF TypeOK
    <3>5. stack' = Append(<<>>, [k |-> "complete", e |-> e, g |-> TRUE])
      BY <2>10, <3>2, <3>4, AppendToEmpty DEF RunComplete
    <3>6. [k |-> "complete", e |-> e, g |-> TRUE] \in Frames /\ <<>> \in Seq(Frames) /\ AllUser(<<>>)
      BY EmptySeq DEF Frames, AllUser
    <3>7. OneInStack' /\ WorkerAtFront' /\ OneWorker'
      BY <3>2, <3>3, <3>4, <3>5, <3>6, WorkerCalled
    <3>8. QED
      BY <3>2, <3>3, <3>7 DEF GuardPlaced, AtFront, OperationAtFront, CompleteAtFront, NonePosted, Carries
  <2>11. ASSUME RunUser PROVE GuardPlaced' /\ AtFront' /\ OneWorker'
    <3>1. /\ posted # <<>> /\ posted' = Tail(posted) /\ ~Carries(Head(posted))
          /\ stack = <<>> /\ stack' = <<[k |-> "user", e |-> NoEvent, g |-> FALSE]>>
          /\ UNCHANGED <<events, op>>
      BY <2>11 DEF RunUser, RunPosted, Carries, Idle
    <3>2. (NonePosted => NonePosted') /\ (OnePosted => OnePosted') /\ CompleteAtFront'
      BY <3>1, HandlerTaken DEF AtFront, CompleteAtFront
    <3>3. DOMAIN stack' = {1} /\ stack'[1] = [k |-> "user", e |-> NoEvent, g |-> FALSE]
      BY <3>1
    <3>4. NoneInStack' /\ WorkerAtFront' /\ OneWorker'
      BY <3>3 DEF NoneInStack, WorkerAtFront, OneWorker
    <3>5. ~OneInStack
      BY <3>1 DEF OneInStack
    <3>6. GuardPlaced' /\ OperationAtFront'
      BY <3>1, <3>2, <3>4, <3>5 DEF GuardPlaced, AtFront, OperationAtFront
    <3>7. QED
      BY <3>2, <3>4, <3>6 DEF AtFront
  <2>12. CASE UNCHANGED vars
    BY <2>12 DEF vars, GuardPlaced, AtFront, WorkerAtFront, OperationAtFront, CompleteAtFront,
       OneWorker, NoneInStack, OneInStack, NonePosted, OnePosted
  <2>13. QED
    BY <2>1, <2>2, <2>3, <2>4, <2>5, <2>6, <2>7, <2>8, <2>9, <2>10, <2>11, <2>12
       DEF Next, StrandStep
<1>3. QED
  BY <1>1, <1>2, TypeCorrect, PTL DEF Spec, IInv

-----------------------------------------------------------------------------
\* The guard is neither lost nor doubled: there is exactly one valid guard
\* while the queue is not empty and none while it is empty, so the queue
\* never stops for ever and never runs two events at once
\* (event_queue_guard, next_event).
THEOREM GuardCorrect == Spec => []GuardInv
<1>1. IInv => GuardInv
  BY GuardPlacedIsGuardInv DEF IInv
<1>2. QED
  BY <1>1, Inductive, PTL

\* Bodies, operations in flight and completion handlers work for the front of
\* the queue only: the lambda that owns the data being written stays alive and
\* two events never overlap.
THEOREM FrontCorrect == Spec => []FrontOnly
<1>1. IInv => FrontOnly
  BY FrontParts DEF IInv
<1>2. QED
  BY <1>1, Inductive, PTL

-----------------------------------------------------------------------------
(* The line of an event: pushed, waiting in a posted handler unless it was  *)
(* pushed on the strand, entered.  E stands for the events that entered the *)
(* queue, W for the posted handlers, pu for what was pushed, fr for what    *)
(* was not.                                                                 *)

Has(E, e) == \E x \in DOMAIN E : E[x] = e
HasBefore(E, e, y) == \E x \in 1 .. y - 1 : E[x] = e
Waits(W, e) == \E a \in DOMAIN W : W[a].k = "push" /\ W[a].e = e
WaitsBefore(W, e, b) == \E a \in 1 .. b - 1 : W[a].k = "push" /\ W[a].e = e

\* Nothing is in two places.
EntersOnce(E) == \A x, y \in DOMAIN E : E[x] = E[y] => x = y
WaitsOnce(W) ==
  \A a, b \in DOMAIN W : W[a].k = "push" /\ W[b].k = "push" /\ W[a].e = W[b].e => a = b
EnteredNotFresh(E, fr) == \A x \in DOMAIN E : E[x] \notin fr
WaitingIsNeither(E, W, fr) ==
  \A b \in DOMAIN W : W[b].k = "push" => W[b].e \notin fr /\ ~Has(E, W[b].e)
PushedNotFresh(pu, fr) == \A p \in Pushers : \A i \in DOMAIN pu[p] : pu[p][i] \notin fr

\* Nothing is lost, and what is pushed on the strand enters at once.
PushedIsSomewhere(E, W, pu) ==
  \A p \in Pushers : \A i \in DOMAIN pu[p] : Has(E, pu[p][i]) \/ Waits(W, pu[p][i])
StrandEnters(E, pu) == \A i \in DOMAIN pu[Strand] : Has(E, pu[Strand][i])

\* Earlier pushes of a pusher are further along the line.
EntersInOrder(E, pu) ==
  \A p \in Pushers : \A i, j \in DOMAIN pu[p] : i < j =>
    \A y \in DOMAIN E : E[y] = pu[p][j] => HasBefore(E, pu[p][i], y)
WaitsInOrder(E, W, pu) ==
  \A p \in Pushers : \A i, j \in DOMAIN pu[p] : i < j =>
    \A b \in DOMAIN W : W[b].k = "push" /\ W[b].e = pu[p][j] =>
      Has(E, pu[p][i]) \/ WaitsBefore(W, pu[p][i], b)

Line(E, W, pu, fr) ==
  /\ EntersOnce(E) /\ WaitsOnce(W)
  /\ EnteredNotFresh(E, fr) /\ WaitingIsNeither(E, W, fr) /\ PushedNotFresh(pu, fr)
  /\ PushedIsSomewhere(E, W, pu) /\ StrandEnters(E, pu)
  /\ EntersInOrder(E, pu) /\ WaitsInOrder(E, W, pu)

\* What appending does to a sequence, by positions.
LEMMA Appended ==
  ASSUME NEW S, NEW s \in Seq(S), NEW e \in S
  PROVE  /\ Append(s, e) \in Seq(S)
         /\ Len(s) \in Nat /\ DOMAIN s = 1 .. Len(s)
         /\ DOMAIN Append(s, e) = 1 .. Len(s) + 1
         /\ Append(s, e)[Len(s) + 1] = e
         /\ \A i \in 1 .. Len(s) : Append(s, e)[i] = s[i]
BY AppendProperties, LenProperties

\* And taking the head.
LEMMA Taken ==
  ASSUME NEW S, NEW s \in Seq(S), s # <<>>
  PROVE  /\ Tail(s) \in Seq(S) /\ Head(s) \in S
         /\ Len(s) \in Nat \ {0} /\ DOMAIN s = 1 .. Len(s)
         /\ DOMAIN Tail(s) = 1 .. Len(s) - 1
         /\ Head(s) = s[1]
         /\ \A i \in 1 .. Len(s) - 1 : Tail(s)[i] = s[i + 1]
BY HeadTailProperties, LenProperties, EmptySeq

\* A handler that pushes nothing is posted, or taken.
LEMMA LinePostOther ==
  ASSUME NEW E, NEW W \in Seq(Handlers), NEW pu, NEW fr, NEW h \in Handlers, h.k # "push",
         Line(E, W, pu, fr)
  PROVE  Line(E, Append(W, h), pu, fr)
<1> DEFINE V == Append(W, h)
           n == Len(W)
<1>1. /\ n \in Nat /\ DOMAIN W = 1 .. n /\ DOMAIN V = 1 .. n + 1
      /\ V[n + 1] = h /\ \A i \in 1 .. n : V[i] = W[i]
  BY Appended
<1> HIDE DEF V, n
<1>2. \A b \in DOMAIN V : V[b].k = "push" => b \in DOMAIN W /\ V[b] = W[b]
  BY <1>1
<1>3. WaitsOnce(V) /\ WaitingIsNeither(E, V, fr)
  BY <1>2 DEF Line, WaitsOnce, WaitingIsNeither
<1>4. \A e : Waits(W, e) => Waits(V, e)
  BY <1>1 DEF Waits
<1>5. PushedIsSomewhere(E, V, pu)
  BY <1>4 DEF Line, PushedIsSomewhere
<1>6. \A e : \A b \in DOMAIN W : WaitsBefore(W, e, b) => WaitsBefore(V, e, b)
  BY <1>1 DEF WaitsBefore
<1>7. WaitsInOrder(E, V, pu)
  BY <1>2, <1>6 DEF Line, WaitsInOrder
<1>8. Line(E, V, pu, fr)
  BY <1>3, <1>5, <1>7 DEF Line
<1>9. QED
  BY <1>8 DEF V

LEMMA LineTakeOther ==
  ASSUME NEW E, NEW W \in Seq(Handlers), W # <<>>, NEW pu, NEW fr, Head(W).k # "push",
         Line(E, W, pu, fr)
  PROVE  Line(E, Tail(W), pu, fr)
<1> DEFINE V == Tail(W)
           n == Len(W)
<1>1. /\ n \in Nat \ {0} /\ DOMAIN W = 1 .. n /\ DOMAIN V = 1 .. n - 1
      /\ W[1].k # "push" /\ \A i \in 1 .. n - 1 : V[i] = W[i + 1]
  BY Taken
<1> HIDE DEF V, n
<1>2. \A b \in DOMAIN V : b + 1 \in DOMAIN W /\ V[b] = W[b + 1] /\ b \in Int
  BY <1>1
<1>3. \A b \in DOMAIN W : W[b].k = "push" => b - 1 \in DOMAIN V /\ V[b - 1] = W[b]
  BY <1>1
<1>4. WaitsOnce(V)
  BY <1>2 DEF Line, WaitsOnce
<1>5. WaitingIsNeither(E, V, fr)
  BY <1>2 DEF Line, WaitingIsNeither
<1>6. \A e : Waits(W, e) => Waits(V, e)
  BY <1>3 DEF Waits
<1>7. PushedIsSomewhere(E, V, pu)
  BY <1>6 DEF Line, PushedIsSomewhere
<1>8. ASSUME NEW e, NEW b \in DOMAIN V, WaitsBefore(W, e, b + 1) PROVE WaitsBefore(V, e, b)
  <2>1. PICK a \in 1 .. (b + 1) - 1 : W[a].k = "push" /\ W[a].e = e
    BY <1>8 DEF WaitsBefore
  <2>2. a # 1 /\ a - 1 \in 1 .. b - 1 /\ V[a - 1] = W[a]
    BY <1>1, <2>1
  <2>3. QED
    BY <2>1, <2>2 DEF WaitsBefore
<1>9. WaitsInOrder(E, V, pu)
  BY <1>2, <1>8 DEF Line, WaitsInOrder
<1>10. Line(E, V, pu, fr)
  BY <1>4, <1>5, <1>7, <1>9 DEF Line
<1>11. QED
  BY <1>10 DEF V

\* What a pusher's record holds after one more push.
LEMMA PushedOneMore ==
  ASSUME NEW pu \in [Pushers -> Seq(Events)], NEW q \in Pushers, NEW e \in Events
  PROVE  LET pv == [pu EXCEPT ![q] = Append(@, e)]
         IN /\ pv \in [Pushers -> Seq(Events)]
            /\ \A p \in Pushers : p # q => pv[p] = pu[p]
            /\ Len(pu[q]) \in Nat /\ DOMAIN pu[q] = 1 .. Len(pu[q])
            /\ DOMAIN pv[q] = 1 .. Len(pu[q]) + 1
            /\ pv[q][Len(pu[q]) + 1] = e
            /\ \A i \in 1 .. Len(pu[q]) : pv[q][i] = pu[q][i]
<1>1. pu[q] \in Seq(Events)
  OBVIOUS
<1>2. /\ Append(pu[q], e) \in Seq(Events)
      /\ Len(pu[q]) \in Nat /\ DOMAIN pu[q] = 1 .. Len(pu[q])
      /\ DOMAIN Append(pu[q], e) = 1 .. Len(pu[q]) + 1
      /\ Append(pu[q], e)[Len(pu[q]) + 1] = e
      /\ \A i \in 1 .. Len(pu[q]) : Append(pu[q], e)[i] = pu[q][i]
  BY <1>1, Appended
<1> DEFINE a == Append(pu[q], e)
<1>3. [pu EXCEPT ![q] = a][q] = a /\ \A p \in Pushers : p # q => [pu EXCEPT ![q] = a][p] = pu[p]
  OBVIOUS
<1>4. [pu EXCEPT ![q] = a] \in [Pushers -> Seq(Events)]
  BY <1>2
<1>5. QED
  BY <1>2, <1>3, <1>4

\* An event enters without having waited: a push on the strand.
LEMMA LineEnterFresh ==
  ASSUME NEW E \in Seq(Events), NEW W \in Seq(Handlers), NEW pu \in [Pushers -> Seq(Events)],
         NEW fr, NEW e \in fr, e \in Events, Line(E, W, pu, fr)
  PROVE  Line(Append(E, e), W, [pu EXCEPT ![Strand] = Append(@, e)], fr \ {e})
<1> DEFINE F == Append(E, e)
           m == Len(E)
           pv == [pu EXCEPT ![Strand] = Append(@, e)]
           n == Len(pu[Strand])
<1>1. /\ m \in Nat /\ DOMAIN E = 1 .. m /\ DOMAIN F = 1 .. m + 1
      /\ F[m + 1] = e /\ \A i \in 1 .. m : F[i] = E[i]
  BY Appended
<1>2. /\ \A p \in Pushers : p # Strand => pv[p] = pu[p]
      /\ n \in Nat /\ DOMAIN pu[Strand] = 1 .. n /\ DOMAIN pv[Strand] = 1 .. n + 1
      /\ pv[Strand][n + 1] = e /\ \A i \in 1 .. n : pv[Strand][i] = pu[Strand][i]
      /\ Strand \in Pushers
  <2>1. Strand \in Pushers
    BY DEF Pushers
  <2>2. QED
    BY <2>1, PushedOneMore
<1> HIDE DEF F, m, pv, n
<1>3. ~Has(E, e)
  BY DEF Line, EnteredNotFresh, Has
<1>4. EntersOnce(F)
  BY <1>1, <1>3 DEF Line, EntersOnce, Has
<1>5. EnteredNotFresh(F, fr \ {e})
  BY <1>1 DEF Line, EnteredNotFresh
<1>6. WaitingIsNeither(E, W, fr) => WaitingIsNeither(F, W, fr \ {e})
  BY <1>1 DEF WaitingIsNeither, Has
<1>7. \A f : Has(E, f) => Has(F, f)
  BY <1>1 DEF Has
<1>8. Has(F, e)
  BY <1>1 DEF Has
<1>9. \A p \in Pushers : \A i \in DOMAIN pv[p] :
        \/ i \in DOMAIN pu[p] /\ pv[p][i] = pu[p][i]
        \/ p = Strand /\ i = n + 1 /\ pv[p][i] = e
  BY <1>2
<1>10. PushedNotFresh(pv, fr \ {e})
  BY <1>9 DEF Line, PushedNotFresh
<1>11. PushedIsSomewhere(F, W, pv) /\ StrandEnters(F, pv)
  BY <1>2, <1>7, <1>8, <1>9 DEF Line, PushedIsSomewhere, StrandEnters
<1>12. \A p \in Pushers : \A i, j \in DOMAIN pv[p] : i < j =>
         /\ i \in DOMAIN pu[p] /\ pv[p][i] = pu[p][i]
         /\ \/ j \in DOMAIN pu[p] /\ pv[p][j] = pu[p][j] /\ pv[p][j] # e
            \/ p = Strand /\ pv[p][j] = e
  <2>1. \A p \in Pushers : \A j \in DOMAIN pu[p] : pu[p][j] # e
    BY DEF Line, PushedNotFresh
  <2>2. ASSUME NEW i \in DOMAIN pv[Strand], NEW j \in DOMAIN pv[Strand], i < j
        PROVE  i \in DOMAIN pu[Strand] /\ pv[Strand][i] = pu[Strand][i]
    BY <1>2, <2>2
  <2>3. QED
    BY <1>2, <1>9, <2>1, <2>2
<1>13. EntersInOrder(F, pv)
  <2> SUFFICES ASSUME NEW p \in Pushers, NEW i \in DOMAIN pv[p], NEW j \in DOMAIN pv[p], i < j,
                      NEW y \in DOMAIN F, F[y] = pv[p][j]
               PROVE  HasBefore(F, pv[p][i], y)
    BY DEF EntersInOrder
  <2>1. i \in DOMAIN pu[p] /\ pv[p][i] = pu[p][i]
    BY <1>12
  <2>2. CASE j \in DOMAIN pu[p] /\ pv[p][j] = pu[p][j] /\ pv[p][j] # e
    <3>1. y \in DOMAIN E /\ F[y] = E[y]
      BY <1>1, <2>2
    <3>2. HasBefore(E, pu[p][i], y)
      BY <2>1, <2>2, <3>1 DEF Line, EntersInOrder
    <3>3. QED
      BY <1>1, <2>1, <3>1, <3>2 DEF HasBefore
  <2>3. CASE p = Strand /\ pv[p][j] = e
    <3>1. Has(E, pu[p][i])
      BY <2>1, <2>3 DEF Line, StrandEnters
    <3>2. y = m + 1
      BY <1>1, <1>3, <2>3 DEF Has
    <3>3. QED
      BY <1>1, <2>1, <3>1, <3>2 DEF Has, HasBefore
  <2>4. QED
    BY <1>12, <2>2, <2>3
<1>14. WaitsInOrder(F, W, pv)
  <2>1. \A b \in DOMAIN W : W[b].k = "push" => W[b].e # e
    BY DEF Line, WaitingIsNeither
  <2>2. QED
    BY <1>7, <1>12, <2>1 DEF Line, WaitsInOrder
<1>15. Line(F, W, pv, fr \ {e})
  BY <1>4, <1>5, <1>6, <1>10, <1>11, <1>13, <1>14 DEF Line
<1>16. QED
  BY <1>15 DEF F, pv

\* A thread posts its push: it waits behind everything posted before.
LEMMA LinePostFresh ==
  ASSUME NEW E, NEW W \in Seq(Handlers), NEW pu \in [Pushers -> Seq(Events)],
         NEW fr, NEW e \in fr, e \in Events, NEW t \in Threads, Line(E, W, pu, fr)
  PROVE  Line(E, Append(W, [k |-> "push", e |-> e]), [pu EXCEPT ![t] = Append(@, e)], fr \ {e})
<1> DEFINE h == [k |-> "push", e |-> e]
           V == Append(W, h)
           m == Len(W)
           pv == [pu EXCEPT ![t] = Append(@, e)]
           n == Len(pu[t])
<1>1. /\ m \in Nat /\ DOMAIN W = 1 .. m /\ DOMAIN V = 1 .. m + 1
      /\ V[m + 1] = h /\ \A i \in 1 .. m : V[i] = W[i]
  <2>1. h \in Handlers
    BY DEF Handlers
  <2> HIDE DEF h
  <2>2. QED
    BY <2>1, Appended
<1>2. /\ \A p \in Pushers : p # t => pv[p] = pu[p]
      /\ n \in Nat /\ DOMAIN pu[t] = 1 .. n /\ DOMAIN pv[t] = 1 .. n + 1
      /\ pv[t][n + 1] = e /\ \A i \in 1 .. n : pv[t][i] = pu[t][i]
      /\ t \in Pushers
  <2>1. t \in Pushers
    BY DEF Pushers
  <2>2. QED
    BY <2>1, PushedOneMore
<1>3. h.k = "push" /\ h.e = e
  OBVIOUS
<1>4. t # Strand /\ Strand \in Pushers
  BY ThreadsAssumption DEF Pushers
<1> HIDE DEF h, V, m, pv, n
<1>5. ~Has(E, e) /\ \A b \in DOMAIN W : W[b].k = "push" => W[b].e # e
  BY DEF Line, EnteredNotFresh, Has, WaitingIsNeither
<1>6. WaitsOnce(V)
  BY <1>1, <1>3, <1>5 DEF Line, WaitsOnce
<1>7. EnteredNotFresh(E, fr \ {e})
  BY DEF Line, EnteredNotFresh
<1>8. WaitingIsNeither(E, V, fr \ {e})
  BY <1>1, <1>3, <1>5 DEF Line, WaitingIsNeither
<1>9. \A f : Waits(W, f) => Waits(V, f)
  BY <1>1 DEF Waits
<1>10. Waits(V, e)
  BY <1>1, <1>3 DEF Waits
<1>11. \A p \in Pushers : \A i \in DOMAIN pv[p] :
        \/ i \in DOMAIN pu[p] /\ pv[p][i] = pu[p][i]
        \/ p = t /\ i = n + 1 /\ pv[p][i] = e
  BY <1>2
<1>12. PushedNotFresh(pv, fr \ {e})
  BY <1>11 DEF Line, PushedNotFresh
<1>13. PushedIsSomewhere(E, V, pv) /\ StrandEnters(E, pv)
  BY <1>2, <1>4, <1>9, <1>10, <1>11 DEF Line, PushedIsSomewhere, StrandEnters
<1>14. \A p \in Pushers : \A i, j \in DOMAIN pv[p] : i < j =>
         /\ i \in DOMAIN pu[p] /\ pv[p][i] = pu[p][i]
         /\ \/ j \in DOMAIN pu[p] /\ pv[p][j] = pu[p][j] /\ pv[p][j] # e
            \/ p = t /\ pv[p][j] = e
  <2>1. \A p \in Pushers : \A j \in DOMAIN pu[p] : pu[p][j] # e
    BY DEF Line, PushedNotFresh
  <2>2. ASSUME NEW i \in DOMAIN pv[t], NEW j \in DOMAIN pv[t], i < j
        PROVE  i \in DOMAIN pu[t] /\ pv[t][i] = pu[t][i]
    BY <1>2, <2>2
  <2>3. QED
    BY <1>2, <1>11, <2>1, <2>2
<1>15. EntersInOrder(E, pv)
  BY <1>5, <1>14 DEF Line, EntersInOrder, Has
<1>16. WaitsInOrder(E, V, pv)
  <2> SUFFICES ASSUME NEW p \in Pushers, NEW i \in DOMAIN pv[p], NEW j \in DOMAIN pv[p], i < j,
                      NEW b \in DOMAIN V, V[b].k = "push", V[b].e = pv[p][j]
               PROVE  Has(E, pv[p][i]) \/ WaitsBefore(V, pv[p][i], b)
    BY DEF WaitsInOrder
  <2>1. i \in DOMAIN pu[p] /\ pv[p][i] = pu[p][i]
    BY <1>14
  <2>2. CASE j \in DOMAIN pu[p] /\ pv[p][j] = pu[p][j] /\ pv[p][j] # e
    <3>1. b \in DOMAIN W /\ V[b] = W[b]
      BY <1>1, <1>3, <2>2
    <3>2. Has(E, pu[p][i]) \/ WaitsBefore(W, pu[p][i], b)
      BY <2>1, <2>2, <3>1 DEF Line, WaitsInOrder
    <3>3. WaitsBefore(W, pu[p][i], b) => WaitsBefore(V, pu[p][i], b)
      BY <1>1, <3>1 DEF WaitsBefore
    <3>4. QED
      BY <2>1, <3>2, <3>3
  <2>3. CASE p = t /\ pv[p][j] = e
    <3>1. Has(E, pu[p][i]) \/ Waits(W, pu[p][i])
      BY <2>1 DEF Line, PushedIsSomewhere
    <3>2. b = m + 1
      BY <1>1, <1>5, <2>3
    <3>3. Waits(W, pu[p][i]) => WaitsBefore(V, pu[p][i], b)
      BY <1>1, <3>2 DEF Waits, WaitsBefore
    <3>4. QED
      BY <2>1, <3>1, <3>3
  <2>4. QED
    BY <1>14, <2>2, <2>3
<1>17. Line(E, V, pv, fr \ {e})
  BY <1>6, <1>7, <1>8, <1>12, <1>13, <1>15, <1>16 DEF Line
<1>18. QED
  BY <1>17 DEF V, pv, h

\* The oldest handler is a push: its event enters.
LEMMA LineEnterPosted ==
  ASSUME NEW E \in Seq(Events), NEW W \in Seq(Handlers), W # <<>>, NEW pu, NEW fr,
         Head(W).k = "push", NEW e \in Events, e = Head(W).e, Line(E, W, pu, fr)
  PROVE  Line(Append(E, e), Tail(W), pu, fr)
<1> DEFINE F == Append(E, e)
           V == Tail(W)
           m == Len(E)
           n == Len(W)
<1>1. /\ m \in Nat /\ DOMAIN E = 1 .. m /\ DOMAIN F = 1 .. m + 1
      /\ F[m + 1] = e /\ \A i \in 1 .. m : F[i] = E[i]
  BY Appended
<1>2. /\ n \in Nat \ {0} /\ DOMAIN W = 1 .. n /\ DOMAIN V = 1 .. n - 1
      /\ W[1].k = "push" /\ W[1].e = e /\ \A i \in 1 .. n - 1 : V[i] = W[i + 1]
  BY Taken
<1> HIDE DEF F, V, m, n
<1>3. \A b \in DOMAIN V : b + 1 \in DOMAIN W /\ V[b] = W[b + 1] /\ b \in Nat \ {0}
  BY <1>2
<1>4. \A b \in DOMAIN W : b = 1 \/ (b - 1 \in DOMAIN V /\ V[b - 1] = W[b])
  BY <1>2
<1>5. ~Has(E, e) /\ e \notin fr
  BY <1>2 DEF Line, WaitingIsNeither
<1>6. \A b \in DOMAIN V : V[b].k = "push" => V[b].e # e
  <2> SUFFICES ASSUME NEW b \in DOMAIN V, V[b].k = "push", V[b].e = e PROVE FALSE
    OBVIOUS
  <2>1. b + 1 \in DOMAIN W /\ 1 \in DOMAIN W /\ b + 1 # 1
    BY <1>2, <1>3
  <2>2. QED
    BY <1>2, <1>3, <2>1 DEF Line, WaitsOnce
<1>7. EntersOnce(F)
  BY <1>1, <1>5 DEF Line, EntersOnce, Has
<1>8. WaitsOnce(V)
  BY <1>3 DEF Line, WaitsOnce
<1>9. EnteredNotFresh(F, fr)
  BY <1>1, <1>5 DEF Line, EnteredNotFresh
<1>10. WaitingIsNeither(F, V, fr)
  <2> SUFFICES ASSUME NEW b \in DOMAIN V, V[b].k = "push" PROVE V[b].e \notin fr /\ ~Has(F, V[b].e)
    BY DEF WaitingIsNeither
  <2>1. V[b].e \notin fr /\ ~Has(E, V[b].e)
    BY <1>3 DEF Line, WaitingIsNeither
  <2>2. QED
    BY <1>1, <1>6, <2>1 DEF Has
<1>11. \A f : Has(E, f) => Has(F, f)
  BY <1>1 DEF Has
<1>12. Has(F, e)
  BY <1>1 DEF Has
<1>13. \A f : Waits(W, f) => f = e \/ Waits(V, f)
  BY <1>2, <1>4 DEF Waits
<1>14. PushedIsSomewhere(F, V, pu) /\ StrandEnters(F, pu)
  BY <1>11, <1>12, <1>13 DEF Line, PushedIsSomewhere, StrandEnters
<1>15. EntersInOrder(F, pu)
  <2> SUFFICES ASSUME NEW p \in Pushers, NEW i \in DOMAIN pu[p], NEW j \in DOMAIN pu[p], i < j,
                      NEW y \in DOMAIN F, F[y] = pu[p][j]
               PROVE  HasBefore(F, pu[p][i], y)
    BY DEF EntersInOrder
  <2>1. CASE y \in DOMAIN E
    <3>1. HasBefore(E, pu[p][i], y)
      BY <1>1, <2>1 DEF Line, EntersInOrder
    <3>2. QED
      BY <1>1, <2>1, <3>1 DEF HasBefore
  <2>2. CASE y = m + 1
    <3>1. 1 \in DOMAIN W /\ W[1].k = "push" /\ W[1].e = pu[p][j]
      BY <1>1, <1>2, <2>2
    <3>2. Has(E, pu[p][i]) \/ WaitsBefore(W, pu[p][i], 1)
      BY <3>1 DEF Line, WaitsInOrder
    <3>3. ~WaitsBefore(W, pu[p][i], 1)
      BY DEF WaitsBefore
    <3>4. QED
      BY <1>1, <2>2, <3>2, <3>3 DEF Has, HasBefore
  <2>3. QED
    BY <1>1, <2>1, <2>2
<1>16. WaitsInOrder(F, V, pu)
  <2> SUFFICES ASSUME NEW p \in Pushers, NEW i \in DOMAIN pu[p], NEW j \in DOMAIN pu[p], i < j,
                      NEW b \in DOMAIN V, V[b].k = "push", V[b].e = pu[p][j]
               PROVE  Has(F, pu[p][i]) \/ WaitsBefore(V, pu[p][i], b)
    BY DEF WaitsInOrder
  <2>1. Has(E, pu[p][i]) \/ WaitsBefore(W, pu[p][i], b + 1)
    BY <1>3 DEF Line, WaitsInOrder
  <2>2. ASSUME WaitsBefore(W, pu[p][i], b + 1) PROVE pu[p][i] = e \/ WaitsBefore(V, pu[p][i], b)
    <3>1. PICK a \in 1 .. (b + 1) - 1 : W[a].k = "push" /\ W[a].e = pu[p][i]
      BY <2>2 DEF WaitsBefore
    <3>2. CASE a = 1
      BY <1>2, <3>1, <3>2
    <3>3. CASE a # 1
      <4>1. a - 1 \in 1 .. b - 1 /\ V[a - 1] = W[a]
        BY <1>2, <1>3, <3>1, <3>3
      <4>2. QED
        BY <3>1, <4>1 DEF WaitsBefore
    <3>4. QED
      BY <3>2, <3>3
  <2>3. QED
    BY <1>11, <1>12, <2>1, <2>2
<1>17. Line(F, V, pu, fr)
  BY <1>7, <1>8, <1>9, <1>10, <1>14, <1>15, <1>16 DEF Line
<1>18. QED
  BY <1>17 DEF F, V

-----------------------------------------------------------------------------
(* What ran, R, and the queue, Q, give the sequence of events that entered: *)
(* the front of the queue is the last event that ran.                       *)

DoneOf(R, Q) == SubSeq(R, 1, Len(R) - (IF Q = <<>> THEN 0 ELSE 1))
EnteredOf(R, Q) == DoneOf(R, Q) \o Q
RanFront(R, Q) == Q # <<>> => R # <<>> /\ R[Len(R)] = Q[1]

LEMMA EnteredPositions ==
  ASSUME NEW R \in Seq(Events), NEW Q \in Seq(Events), RanFront(R, Q)
  PROVE  /\ EnteredOf(R, Q) \in Seq(Events)
         /\ Len(DoneOf(R, Q)) = Len(R) - (IF Q = <<>> THEN 0 ELSE 1)
         /\ Len(R) \in Nat /\ Len(Q) \in Nat
         /\ DOMAIN R = 1 .. Len(R) /\ DOMAIN Q = 1 .. Len(Q)
         /\ (Q = <<>>) <=> (Len(Q) = 0)
         /\ Len(R) - (IF Q = <<>> THEN 0 ELSE 1) \in Nat
         /\ Len(EnteredOf(R, Q)) = Len(R) - (IF Q = <<>> THEN 0 ELSE 1) + Len(Q)
         /\ \A i \in 1 .. Len(R) : EnteredOf(R, Q)[i] = R[i]
         /\ \A k \in 1 .. Len(Q) :
              EnteredOf(R, Q)[Len(R) - (IF Q = <<>> THEN 0 ELSE 1) + k] = Q[k]
<1> DEFINE n == Len(R)
           m == Len(Q)
           z == IF Q = <<>> THEN 0 ELSE 1
           d == n - z
<1>1. /\ n \in Nat /\ m \in Nat /\ DOMAIN R = 1 .. n /\ DOMAIN Q = 1 .. m
      /\ (Q = <<>>) <=> (m = 0)
      /\ R # <<>> => n # 0
      /\ \A i \in 1 .. n : R[i] \in Events
  BY LenProperties, EmptySeq, ElementOfSeq
<1>2. z \in {0, 1} /\ (z = 0 <=> m = 0)
  BY <1>1
<1>3. z = 1 => n # 0 /\ R[n] = Q[1]
  BY <1>1 DEF RanFront
<1>4. DoneOf(R, Q) = SubSeq(R, 1, d) /\ EnteredOf(R, Q) = DoneOf(R, Q) \o Q
  BY DEF DoneOf, EnteredOf
<1> DEFINE D == DoneOf(R, Q)
<1> HIDE DEF n, m, z
<1>5. d \in Nat /\ d <= n
  BY <1>1, <1>2, <1>3
<1>6. D \in Seq(Events) /\ Len(D) = d /\ \A i \in 1 .. d : D[i] = R[i]
  <2>1. 1 \in Int /\ d \in Int /\ \A i \in 1 .. d : R[i] \in Events
    BY <1>1, <1>5
  <2> HIDE DEF d, D
  <2>2. /\ SubSeq(R, 1, d) \in Seq(Events)
        /\ Len(SubSeq(R, 1, d)) = IF 1 <= d THEN d - 1 + 1 ELSE 0
        /\ \A i \in 1 .. d - 1 + 1 : SubSeq(R, 1, d)[i] = R[1 + i - 1]
    BY <2>1, SubSeqProperties
  <2>3. SubSeq(R, 1, d) = D
    BY <1>4 DEF D, d
  <2>4. QED
    BY <1>5, <2>2, <2>3
<1> HIDE DEF D
<1>7. /\ D \o Q \in Seq(Events) /\ Len(D \o Q) = Len(D) + Len(Q)
      /\ \A i \in 1 .. Len(D) + Len(Q) : (D \o Q)[i] = IF i <= Len(D) THEN D[i] ELSE Q[i - Len(D)]
  BY <1>6, ConcatProperties
<1> DEFINE E == EnteredOf(R, Q)
<1>8. /\ E \in Seq(Events) /\ Len(E) = d + m
      /\ \A i \in 1 .. d + m : E[i] = IF i <= d THEN D[i] ELSE Q[i - d]
  BY <1>4, <1>6, <1>7 DEF D, m
<1> HIDE DEF E
<1>9. \A i \in 1 .. n : E[i] = R[i]
  <2>1. ASSUME NEW i \in 1 .. n PROVE E[i] = R[i]
    <3>1. CASE i <= d
      <4>1. i \in 1 .. d + m /\ i \in 1 .. d
        BY <1>1, <1>5, <3>1
      <4>2. QED
        BY <1>6, <1>8, <3>1, <4>1
    <3>2. CASE ~(i <= d)
      <4>1. z = 1 /\ i = n /\ i - d = 1 /\ i \in 1 .. d + m
        BY <1>1, <1>2, <3>2
      <4>2. QED
        BY <1>3, <1>8, <3>2, <4>1
    <3>3. QED
      BY <3>1, <3>2
  <2>2. QED
    BY <2>1
<1>10. \A k \in 1 .. m : E[d + k] = Q[k]
  <2>1. ASSUME NEW k \in 1 .. m PROVE E[d + k] = Q[k]
    <3>1. d + k \in 1 .. d + m /\ ~(d + k <= d) /\ (d + k) - d = k
      BY <1>1, <1>5
    <3>2. QED
      BY <1>8, <3>1
  <2>2. QED
    BY <2>1
<1>11. QED
  BY <1>1, <1>4, <1>5, <1>6, <1>8, <1>9, <1>10 DEF E, D, d, z, n, m

LEMMA EnteredBusy ==
  ASSUME NEW R \in Seq(Events), NEW Q \in Seq(Events), RanFront(R, Q), Q # <<>>
  PROVE  /\ EnteredOf(R, Q) \in Seq(Events)
         /\ Len(R) \in Nat /\ Len(R) - 1 \in Nat /\ Len(Q) \in Nat \ {0}
         /\ Len(DoneOf(R, Q)) = Len(R) - 1
         /\ Len(EnteredOf(R, Q)) = Len(R) - 1 + Len(Q)
         /\ \A i \in 1 .. Len(R) : EnteredOf(R, Q)[i] = R[i]
         /\ \A k \in 1 .. Len(Q) : EnteredOf(R, Q)[Len(R) - 1 + k] = Q[k]
<1> DEFINE z == IF Q = <<>> THEN 0 ELSE 1
           Facts(c) == /\ EnteredOf(R, Q) \in Seq(Events)
                       /\ Len(R) \in Nat /\ Len(R) - c \in Nat /\ Len(Q) \in Nat
                       /\ (Q = <<>>) <=> (Len(Q) = 0)
                       /\ Len(DoneOf(R, Q)) = Len(R) - c
                       /\ Len(EnteredOf(R, Q)) = Len(R) - c + Len(Q)
                       /\ \A i \in 1 .. Len(R) : EnteredOf(R, Q)[i] = R[i]
                       /\ \A k \in 1 .. Len(Q) : EnteredOf(R, Q)[Len(R) - c + k] = Q[k]
<1>1. Facts(z)
  BY EnteredPositions
<1>2. z = 1
  OBVIOUS
<1> HIDE DEF z, Facts
<1>3. Facts(1)
  BY <1>1, <1>2
<1>4. QED
  BY <1>3 DEF Facts

LEMMA EnteredIdle ==
  ASSUME NEW R \in Seq(Events), NEW Q \in Seq(Events), Q = <<>>
  PROVE  /\ EnteredOf(R, Q) \in Seq(Events)
         /\ Len(R) \in Nat
         /\ Len(DoneOf(R, Q)) = Len(R)
         /\ Len(EnteredOf(R, Q)) = Len(R)
         /\ \A i \in 1 .. Len(R) : EnteredOf(R, Q)[i] = R[i]
<1> DEFINE z == IF Q = <<>> THEN 0 ELSE 1
           Facts(c) == /\ EnteredOf(R, Q) \in Seq(Events)
                       /\ Len(R) \in Nat /\ Len(Q) = 0
                       /\ Len(DoneOf(R, Q)) = Len(R) - c
                       /\ Len(EnteredOf(R, Q)) = Len(R) - c + Len(Q)
                       /\ \A i \in 1 .. Len(R) : EnteredOf(R, Q)[i] = R[i]
<1>1. RanFront(R, Q) /\ Len(Q) = 0
  BY EmptySeq DEF RanFront
<1>2. Facts(z)
  BY <1>1, EnteredPositions
<1>3. z = 0
  OBVIOUS
<1> HIDE DEF z, Facts
<1>4. Facts(0)
  BY <1>2, <1>3
<1>5. Len(R) - 0 = Len(R) /\ Len(R) - 0 + Len(Q) = Len(R)
  BY <1>4 DEF Facts
<1>6. QED
  BY <1>4, <1>5 DEF Facts

\* An event enters behind the others.
LEMMA EnterWaiting ==
  ASSUME NEW R \in Seq(Events), NEW Q \in Seq(Events), Q # <<>>, RanFront(R, Q), NEW e \in Events
  PROVE  /\ RanFront(R, Append(Q, e))
         /\ EnteredOf(R, Append(Q, e)) = Append(EnteredOf(R, Q), e)
         /\ Len(DoneOf(R, Append(Q, e))) = Len(DoneOf(R, Q))
<1> DEFINE V == Append(Q, e)
<1>1. /\ V \in Seq(Events) /\ V # <<>> /\ Len(Q) \in Nat \ {0} /\ Len(V) = Len(Q) + 1
      /\ V[Len(Q) + 1] = e /\ \A i \in 1 .. Len(Q) : V[i] = Q[i]
  BY AppendProperties, EmptySeq
<1> HIDE DEF V
<1>2. RanFront(R, V)
  BY <1>1 DEF RanFront
<1>3. /\ Len(DoneOf(R, V)) = Len(R) - 1 /\ Len(DoneOf(R, Q)) = Len(R) - 1
  BY <1>1, <1>2, EnteredPositions
<1>4. /\ EnteredOf(R, Q) \in Seq(Events) /\ Len(R) - 1 \in Nat
      /\ Len(EnteredOf(R, Q)) = Len(R) - 1 + Len(Q)
      /\ \A i \in 1 .. Len(R) : EnteredOf(R, Q)[i] = R[i]
      /\ \A k \in 1 .. Len(Q) : EnteredOf(R, Q)[Len(R) - 1 + k] = Q[k]
  BY EnteredBusy
<1>5. /\ EnteredOf(R, V) \in Seq(Events)
      /\ Len(EnteredOf(R, V)) = Len(R) - 1 + Len(V)
      /\ \A i \in 1 .. Len(R) : EnteredOf(R, V)[i] = R[i]
      /\ \A k \in 1 .. Len(V) : EnteredOf(R, V)[Len(R) - 1 + k] = V[k]
  BY <1>1, <1>2, EnteredBusy
<1> DEFINE A == Append(EnteredOf(R, Q), e)
<1>6. /\ A \in Seq(Events) /\ Len(A) = Len(EnteredOf(R, Q)) + 1
      /\ A[Len(EnteredOf(R, Q)) + 1] = e
      /\ \A i \in 1 .. Len(EnteredOf(R, Q)) : A[i] = EnteredOf(R, Q)[i]
  BY <1>4, AppendProperties
<1> HIDE DEF A
<1>7. \A i \in 1 .. Len(A) : EnteredOf(R, V)[i] = A[i]
  <2> DEFINE d == Len(R) - 1
             m == Len(Q)
             E == EnteredOf(R, Q)
             F == EnteredOf(R, V)
  <2>1. /\ d \in Nat /\ m \in Nat \ {0} /\ Len(E) = d + m /\ Len(V) = m + 1 /\ Len(A) = d + m + 1
        /\ \A i \in 1 .. d + 1 : E[i] = R[i] /\ F[i] = R[i]
        /\ \A k \in 1 .. m : E[d + k] = Q[k]
        /\ \A k \in 1 .. m + 1 : F[d + k] = V[k]
        /\ A[d + m + 1] = e /\ \A i \in 1 .. d + m : A[i] = E[i]
        /\ V[m + 1] = e /\ \A i \in 1 .. m : V[i] = Q[i]
    BY <1>1, <1>4, <1>5, <1>6
  <2> HIDE DEF d, m, E, F
  <2>2. ASSUME NEW i \in 1 .. d + m + 1 PROVE F[i] = A[i]
    <3>1. CASE i <= d
      BY <2>1, <3>1
    <3>2. CASE i = d + m + 1
      <4>1. F[d + (m + 1)] = V[m + 1] /\ d + (m + 1) = i
        BY <2>1, <3>2
      <4>2. QED
        BY <2>1, <3>2, <4>1
    <3>3. CASE ~(i <= d) /\ i # d + m + 1
      <4>1. PICK k \in 1 .. m : i = d + k
        <5>1. i - d \in 1 .. m /\ i = d + (i - d)
          BY <2>1, <3>3
        <5>2. QED
          BY <5>1
      <4>2. k \in 1 .. m + 1 /\ d + k \in 1 .. d + m
        BY <2>1, <4>1
      <4>3. QED
        BY <2>1, <4>1, <4>2
    <3>4. QED
      BY <3>1, <3>2, <3>3
  <2>3. QED
    BY <2>1, <2>2 DEF F
<1>8. EnteredOf(R, V) = A
  <2>1. Len(EnteredOf(R, V)) = Len(A)
    BY <1>1, <1>4, <1>5, <1>6
  <2>2. QED
    BY <1>5, <1>6, <1>7, <2>1, SeqEqual
<1>9. QED
  BY <1>2, <1>3, <1>8 DEF V, A

\* An event enters an empty queue, and runs.
LEMMA EnterRunning ==
  ASSUME NEW R \in Seq(Events), NEW e \in Events
  PROVE  /\ RanFront(Append(R, e), Append(<<>>, e))
         /\ EnteredOf(Append(R, e), Append(<<>>, e)) = Append(EnteredOf(R, <<>>), e)
         /\ Len(DoneOf(Append(R, e), Append(<<>>, e))) = Len(DoneOf(R, <<>>))
<1> DEFINE S == Append(R, e)
           V == Append(<<>>, e)
           O == <<>>
<1>1. /\ S \in Seq(Events) /\ S # <<>> /\ Len(R) \in Nat /\ Len(S) = Len(R) + 1
      /\ S[Len(R) + 1] = e /\ \A i \in 1 .. Len(R) : S[i] = R[i]
  BY AppendProperties, LenProperties
<1>2. V = <<e>> /\ V \in Seq(Events) /\ V # <<>> /\ Len(V) = 1 /\ V[1] = e
  BY AppendToEmpty
<1>3. O \in Seq(Events) /\ Len(O) = 0 /\ RanFront(R, O) /\ O = <<>>
  BY EmptySeq DEF RanFront
<1> HIDE DEF S, V, O
<1>4. RanFront(S, V)
  BY <1>1, <1>2 DEF RanFront
<1>5. /\ EnteredOf(R, O) \in Seq(Events) /\ Len(DoneOf(R, O)) = Len(R)
      /\ Len(EnteredOf(R, O)) = Len(R)
      /\ \A i \in 1 .. Len(R) : EnteredOf(R, O)[i] = R[i]
  BY <1>3, EnteredIdle
<1>6. /\ EnteredOf(S, V) \in Seq(Events) /\ Len(DoneOf(S, V)) = Len(R)
      /\ Len(EnteredOf(S, V)) = Len(R) + 1
      /\ \A i \in 1 .. Len(S) : EnteredOf(S, V)[i] = S[i]
  <2>1. /\ EnteredOf(S, V) \in Seq(Events) /\ Len(DoneOf(S, V)) = Len(S) - 1
        /\ Len(EnteredOf(S, V)) = Len(S) - 1 + Len(V)
        /\ \A i \in 1 .. Len(S) : EnteredOf(S, V)[i] = S[i]
    BY <1>1, <1>2, <1>4, EnteredBusy
  <2>2. Len(S) - 1 = Len(R) /\ Len(S) - 1 + Len(V) = Len(R) + 1
    BY <1>1, <1>2
  <2>3. QED
    BY <2>1, <2>2
<1> DEFINE A == Append(EnteredOf(R, O), e)
<1>7. /\ A \in Seq(Events) /\ Len(A) = Len(R) + 1 /\ A[Len(R) + 1] = e
      /\ \A i \in 1 .. Len(R) : A[i] = EnteredOf(R, O)[i]
  BY <1>5, AppendProperties
<1> HIDE DEF A
<1>8. \A i \in 1 .. Len(R) + 1 : EnteredOf(S, V)[i] = A[i]
  BY <1>1, <1>5, <1>6, <1>7
<1>9. EnteredOf(S, V) = A
  BY <1>6, <1>7, <1>8, SeqEqual
<1>10. QED
  BY <1>4, <1>5, <1>6, <1>9 DEF S, V, A, O

\* The front is done; the next event, if there is one, runs.
LEMMA FrontDone ==
  ASSUME NEW R \in Seq(Events), NEW Q \in Seq(Events), Q # <<>>, RanFront(R, Q)
  PROVE  LET S == IF Tail(Q) = <<>> THEN R ELSE Append(R, Head(Tail(Q)))
         IN /\ RanFront(S, Tail(Q))
            /\ EnteredOf(S, Tail(Q)) = EnteredOf(R, Q)
            /\ Len(DoneOf(S, Tail(Q))) = Len(DoneOf(R, Q)) + 1
            /\ Len(DoneOf(R, Q)) < Len(EnteredOf(R, Q))
<1> DEFINE T == Tail(Q)
           S == IF T = <<>> THEN R ELSE Append(R, Head(T))
           m == Len(Q)
           n == Len(R)
<1>1. /\ T \in Seq(Events) /\ m \in Nat \ {0} /\ Len(T) = m - 1
      /\ \A i \in 1 .. m - 1 : T[i] = Q[i + 1]
  BY HeadTailProperties, EmptySeq
<1>2. T # <<>> => Head(T) \in Events /\ Head(T) = T[1]
  BY <1>1, HeadTailProperties
<1>3. (T = <<>>) <=> (m = 1)
  <2>1. (T = <<>>) <=> (Len(T) = 0)
    BY <1>1, EmptySeq
  <2>2. QED
    BY <1>1, <2>1
<1>4. /\ EnteredOf(R, Q) \in Seq(Events) /\ Len(DoneOf(R, Q)) = n - 1 /\ n \in Nat /\ n - 1 \in Nat
      /\ Len(EnteredOf(R, Q)) = n - 1 + m
      /\ \A i \in 1 .. n : EnteredOf(R, Q)[i] = R[i]
      /\ \A k \in 1 .. m : EnteredOf(R, Q)[n - 1 + k] = Q[k]
  BY EnteredBusy
<1> HIDE DEF T, S, m, n
<1>5. CASE T = <<>>
  <2>1. S = R /\ RanFront(S, T)
    BY <1>5 DEF S, RanFront
  <2>2. /\ EnteredOf(S, T) \in Seq(Events) /\ Len(DoneOf(S, T)) = n
        /\ Len(EnteredOf(S, T)) = n
        /\ \A i \in 1 .. n : EnteredOf(S, T)[i] = R[i]
    BY <1>1, <1>5, <2>1, EnteredIdle DEF n
  <2>3. Len(EnteredOf(R, Q)) = n
    BY <1>3, <1>4, <1>5
  <2>4. EnteredOf(S, T) = EnteredOf(R, Q)
    BY <1>4, <2>2, <2>3, SeqEqual
  <2>5. QED
    BY <1>3, <1>4, <1>5, <2>1, <2>2, <2>4 DEF S, T, m
<1>6. CASE T # <<>>
  <2>1. /\ S = Append(R, Head(T)) /\ S \in Seq(Events) /\ S # <<>> /\ Len(S) = n + 1 /\ S[n + 1] = Head(T)
        /\ \A i \in 1 .. n : S[i] = R[i]
    BY <1>2, <1>6, AppendProperties DEF S, n
  <2>2. RanFront(S, T)
    BY <1>2, <1>6, <2>1 DEF RanFront
  <2>3. /\ EnteredOf(S, T) \in Seq(Events) /\ Len(DoneOf(S, T)) = n
        /\ Len(EnteredOf(S, T)) = n + (m - 1)
        /\ \A i \in 1 .. n + 1 : EnteredOf(S, T)[i] = S[i]
        /\ \A k \in 1 .. m - 1 : EnteredOf(S, T)[n + k] = T[k]
    <3>1. /\ EnteredOf(S, T) \in Seq(Events)
          /\ Len(DoneOf(S, T)) = Len(S) - 1
          /\ Len(EnteredOf(S, T)) = Len(S) - 1 + Len(T)
          /\ \A i \in 1 .. Len(S) : EnteredOf(S, T)[i] = S[i]
          /\ \A k \in 1 .. Len(T) : EnteredOf(S, T)[Len(S) - 1 + k] = T[k]
      BY <1>1, <1>6, <2>1, <2>2, EnteredBusy, SMTT(20), ZenonT(20)
    <3>2. Len(S) - 1 = n
      BY <1>4, <2>1
    <3>3. QED
      BY <1>1, <2>1, <3>1, <3>2
  <2>4. \A i \in 1 .. n - 1 + m : EnteredOf(S, T)[i] = EnteredOf(R, Q)[i]
    <3> DEFINE E == EnteredOf(R, Q)
               F == EnteredOf(S, T)
    <3> HIDE DEF E, F
    <3>1. ASSUME NEW i \in 1 .. n - 1 + m PROVE F[i] = E[i]
      <4>1. CASE i <= n
        <5>1. i \in 1 .. n /\ i \in 1 .. n + 1
          BY <1>4, <4>1
        <5>2. E[i] = R[i] /\ F[i] = S[i] /\ S[i] = R[i]
          BY <1>4, <2>1, <2>3, <5>1 DEF E, F
        <5>3. QED
          BY <5>2
      <4>2. CASE ~(i <= n)
        <5>1. PICK k \in 1 .. m - 1 : i = n + k
          <6>1. i - n \in 1 .. m - 1 /\ i = n + (i - n)
            BY <1>1, <1>4, <4>2
          <6>2. QED
            BY <6>1
        <5>2. k + 1 \in 1 .. m /\ n - 1 + (k + 1) = i
          BY <1>1, <1>4, <5>1
        <5>3. E[n - 1 + (k + 1)] = Q[k + 1] /\ F[n + k] = T[k] /\ T[k] = Q[k + 1]
          BY <1>1, <1>4, <2>3, <5>1, <5>2 DEF E, F
        <5>4. QED
          BY <5>1, <5>2, <5>3
      <4>3. QED
        BY <4>1, <4>2
    <3>2. QED
      BY <3>1 DEF E, F
  <2>5. EnteredOf(S, T) = EnteredOf(R, Q)
    <3>1. Len(EnteredOf(S, T)) = n - 1 + m /\ Len(EnteredOf(R, Q)) = n - 1 + m
      BY <1>1, <1>4, <2>3
    <3>2. QED
      BY <1>4, <2>3, <2>4, <3>1, SeqEqual
  <2>6. Len(DoneOf(S, T)) = Len(DoneOf(R, Q)) + 1 /\ Len(DoneOf(R, Q)) < Len(EnteredOf(R, Q))
    BY <1>1, <1>4, <2>3
  <2>7. QED
    BY <2>1, <2>2, <2>5, <2>6 DEF S, T
<1>7. QED
  BY <1>5, <1>6

-----------------------------------------------------------------------------
(* The invariant that says where every event is, and the steps.            *)

LInv == RanFront(ran, events) /\ Line(Entered, posted, pushed, fresh)

LEMMA EnteredDef ==
  /\ Entered = EnteredOf(ran, events) /\ Finished = DoneOf(ran, events)
  /\ Entered' = EnteredOf(ran', events') /\ Finished' = DoneOf(ran', events')
BY DEF Entered, Finished, EnteredOf, DoneOf

\* The steps of SerialExecutor, under the refinement mapping.
Enters(e) == e \in Events /\ ~Has(Entered, e) /\ Entered' = Append(Entered, e)
Accepts == (\E e \in Events : Enters(e)) /\ Len(Finished') = Len(Finished)
Finishes == /\ Len(Finished) < Len(Entered)
            /\ Len(Finished') = Len(Finished) + 1
            /\ Entered' = Entered \/ \E e \in Events : Enters(e)
Stutters == Entered' = Entered /\ Finished' = Finished

LEMMA StepsOfExecutor ==
  Accepts \/ Finishes \/ Stutters => [Abstract!Next]_(Abstract!execVars)
<1>1. ASSUME NEW e \in Events, Enters(e) PROVE e \in Abstract!Fresh /\ Entered' = Append(Entered, e)
  BY <1>1 DEF Enters, Has, Abstract!Fresh
<1>2. Accepts => Abstract!Accept
  BY <1>1 DEF Accepts, Abstract!Accept
<1>3. Finishes => Abstract!Finish
  BY <1>1 DEF Finishes, Abstract!Finish
<1>4. Stutters => UNCHANGED Abstract!execVars
  BY DEF Stutters, Abstract!execVars
<1>5. QED
  BY <1>2, <1>3, <1>4 DEF Abstract!Next

\* An event is emplaced: it enters.
LEMMA EmplaceEnters ==
  ASSUME TypeOK, RanFront(ran, events), NEW e \in Events, NEW st, Emplace(e, st)
  PROVE  /\ RanFront(ran', events')
         /\ Entered' = Append(Entered, e)
         /\ Len(Finished') = Len(Finished)
<1>1. ran \in Seq(Events) /\ events \in Seq(Events)
  BY DEF TypeOK
<1>2. CASE events = <<>>
  <2>1. events' = Append(<<>>, e) /\ ran' = Append(ran, e)
    BY <1>2 DEF Emplace
  <2>2. /\ RanFront(Append(ran, e), Append(<<>>, e))
        /\ EnteredOf(Append(ran, e), Append(<<>>, e)) = Append(EnteredOf(ran, <<>>), e)
        /\ Len(DoneOf(Append(ran, e), Append(<<>>, e))) = Len(DoneOf(ran, <<>>))
    BY <1>1, EnterRunning
  <2>3. QED
    BY <1>2, <2>1, <2>2, EnteredDef
<1>3. CASE events # <<>>
  <2>1. events' = Append(events, e) /\ ran' = ran
    BY <1>3 DEF Emplace
  <2>2. QED
    BY <1>1, <1>3, <2>1, EnterWaiting, EnteredDef
<1>4. QED
  BY <1>2, <1>3

\* The guard is destroyed while the queue is not empty: the front is done, and
\* what its destruction pushed entered behind the others.
LEMMA NextEventFinishes ==
  ASSUME TypeOK, RanFront(ran, events), events # <<>>, NEW st, NEW chain \in ChainPushes,
         NextEvent(st, chain)
  PROVE  /\ RanFront(ran', events')
         /\ Len(Finished) < Len(Entered)
         /\ Len(Finished') = Len(Finished) + 1
         /\ \/ Entered' = Entered /\ UNCHANGED <<fresh, pushed>>
            \/ \E e \in fresh : /\ Entered' = Append(Entered, e)
                                /\ fresh' = fresh \ {e}
                                /\ pushed' = [pushed EXCEPT ![Strand] = Append(@, e)]
<1>1. ran \in Seq(Events) /\ events \in Seq(Events)
  BY DEF TypeOK
<1> DEFINE Q == events \o chain
           S == IF Tail(Q) = <<>> THEN ran ELSE Append(ran, Head(Tail(Q)))
<1>2. events' = Tail(Q) /\ ran' = S
  BY DEF NextEvent
<1>3. ASSUME Q \in Seq(Events), Q # <<>>, RanFront(ran, Q)
      PROVE  /\ RanFront(ran', events')
             /\ Entered' = EnteredOf(ran, Q)
             /\ Len(Finished') = Len(DoneOf(ran, Q)) + 1
             /\ Len(DoneOf(ran, Q)) < Len(EnteredOf(ran, Q))
  <2> HIDE DEF Q
  <2>1. /\ RanFront(S, Tail(Q))
        /\ EnteredOf(S, Tail(Q)) = EnteredOf(ran, Q)
        /\ Len(DoneOf(S, Tail(Q))) = Len(DoneOf(ran, Q)) + 1
        /\ Len(DoneOf(ran, Q)) < Len(EnteredOf(ran, Q))
    BY <1>1, <1>3, FrontDone
  <2>2. QED
    BY <1>2, <2>1, EnteredDef
<1>4. CASE chain = <<>>
  <2>1. Q = events
    BY <1>1, <1>4, ConcatEmptySeq
  <2>2. fresh' = fresh
    BY <1>4 DEF NextEvent
  <2>3. pushed' = pushed
    <3>1. pushed[Strand] \in Seq(Events) /\ pushed \in [Pushers -> Seq(Events)]
      BY DEF TypeOK, Pushers
    <3>2. pushed[Strand] \o <<>> = pushed[Strand]
      BY <3>1, ConcatEmptySeq
    <3>3. pushed' = [pushed EXCEPT ![Strand] = pushed[Strand]]
      BY <1>4, <3>2 DEF NextEvent
    <3>4. QED
      BY <3>1, <3>3
  <2> HIDE DEF Q
  <2>4. QED
    BY <1>1, <1>3, <2>1, <2>2, <2>3, EnteredDef
<1>5. ASSUME NEW e \in fresh, chain = <<e>>
      PROVE  /\ RanFront(ran', events')
             /\ Len(Finished) < Len(Entered)
             /\ Len(Finished') = Len(Finished) + 1
             /\ Entered' = Append(Entered, e)
             /\ fresh' = fresh \ {e}
             /\ pushed' = [pushed EXCEPT ![Strand] = Append(@, e)]
  <2>1. e \in Events
    BY DEF TypeOK
  <2>2. Q = Append(events, e)
    BY <1>1, <1>5, <2>1, AppendIsConcat
  <2>3. Q \in Seq(Events) /\ Q # <<>>
    BY <1>1, <2>1, <2>2, AppendProperties
  <2>4. fresh' = fresh \ {e}
    BY <1>5 DEF NextEvent
  <2>5. pushed' = [pushed EXCEPT ![Strand] = Append(@, e)]
    <3>1. pushed[Strand] \in Seq(Events)
      BY DEF TypeOK, Pushers
    <3>2. pushed[Strand] \o <<e>> = Append(pushed[Strand], e)
      BY <2>1, <3>1, AppendIsConcat
    <3>3. QED
      BY <1>5, <3>2 DEF NextEvent
  <2> HIDE DEF Q
  <2>6. /\ RanFront(ran, Q)
        /\ EnteredOf(ran, Q) = Append(Entered, e)
        /\ Len(DoneOf(ran, Q)) = Len(Finished)
    BY <1>1, <2>1, <2>2, EnterWaiting, EnteredDef
  <2>7. Len(Finished) < Len(Entered)
    <3>1. /\ Len(ran) - 1 \in Nat /\ Len(events) \in Nat \ {0}
          /\ Len(Finished) = Len(ran) - 1
          /\ Len(Entered) = Len(ran) - 1 + Len(events)
      BY <1>1, EnteredBusy, EnteredDef
    <3> DEFINE a == Len(ran) - 1
               b == Len(events)
    <3>2. a \in Nat /\ b \in Nat \ {0} /\ Len(Finished) = a /\ Len(Entered) = a + b
      BY <3>1
    <3> HIDE DEF a, b
    <3>3. QED
      BY <3>2
  <2>8. QED
    BY <1>3, <2>3, <2>4, <2>5, <2>6, <2>7
<1>6. (\E e \in fresh : chain = <<e>>) \/ chain = <<>>
  BY DEF ChainPushes
<1>7. QED
  BY <1>4, <1>5, <1>6

\* The same, with the line.
LEMMA NextEventKeepsLine ==
  ASSUME TypeOK, LInv, events # <<>>, NEW st, NEW chain \in ChainPushes, NextEvent(st, chain),
         posted' \in Seq(Handlers), Line(Entered, posted', pushed, fresh)
  PROVE  LInv' /\ Finishes
<1>1. /\ RanFront(ran', events')
      /\ Len(Finished) < Len(Entered)
      /\ Len(Finished') = Len(Finished) + 1
      /\ \/ Entered' = Entered /\ UNCHANGED <<fresh, pushed>>
         \/ \E e \in fresh : /\ Entered' = Append(Entered, e)
                             /\ fresh' = fresh \ {e}
                             /\ pushed' = [pushed EXCEPT ![Strand] = Append(@, e)]
  BY NextEventFinishes DEF LInv
<1>2. Entered \in Seq(Events) /\ pushed \in [Pushers -> Seq(Events)]
  BY EnteredBusy, EnteredDef DEF LInv, TypeOK
<1>3. CASE Entered' = Entered /\ UNCHANGED <<fresh, pushed>>
  <2>1. Line(Entered', posted', pushed', fresh')
    BY <1>3
  <2>2. QED
    BY <1>1, <1>3, <2>1 DEF LInv, Finishes
<1>4. ASSUME NEW e \in fresh, Entered' = Append(Entered, e), fresh' = fresh \ {e},
             pushed' = [pushed EXCEPT ![Strand] = Append(@, e)]
      PROVE  LInv' /\ Finishes
  <2>1. e \in Events
    BY DEF TypeOK
  <2> DEFINE E == Entered
             W == posted'
  <2> HIDE DEF E, W
  <2>2. E \in Seq(Events) /\ W \in Seq(Handlers) /\ Line(E, W, pushed, fresh)
    BY <1>2 DEF E, W
  <2>3. Line(Append(E, e), W, [pushed EXCEPT ![Strand] = Append(@, e)], fresh \ {e})
    BY <1>2, <2>1, <2>2, LineEnterFresh
  <2>4. Line(Entered', posted', pushed', fresh')
    BY <1>4, <2>3 DEF E, W
  <2>5. ~Has(Entered, e)
    BY DEF LInv, Line, EnteredNotFresh, Has
  <2>6. QED
    BY <1>1, <1>4, <2>1, <2>4, <2>5 DEF LInv, Finishes, Enters
<1>5. QED
  BY <1>1, <1>3, <1>4

\* A step that neither emplaces nor pops.
LEMMA LineStays ==
  ASSUME LInv, UNCHANGED <<events, ran>>, Line(Entered, posted', pushed', fresh')
  PROVE  LInv' /\ Stutters
BY EnteredDef DEF LInv, Stutters

\* Every step keeps the line, and is a step of the executor or none.
LEMMA LineStep ==
  ASSUME IInv, LInv, [Next]_vars
  PROVE  LInv' /\ (Accepts \/ Finishes \/ Stutters)
<1> DEFINE Goal == LInv' /\ (Accepts \/ Finishes \/ Stutters)
<1>1. TypeOK /\ posted \in Seq(Handlers) /\ pushed \in [Pushers -> Seq(Events)] /\ fresh \subseteq Events
  BY DEF IInv, TypeOK
<1>2. Entered \in Seq(Events)
  <2>1. ran \in Seq(Events) /\ events \in Seq(Events) /\ RanFront(ran, events)
    BY DEF IInv, TypeOK, LInv
  <2>2. QED
    BY <2>1, EnteredBusy, EnteredIdle, EnteredDef
<1>3. Line(Entered, posted, pushed, fresh)
  BY DEF LInv
<1> DEFINE E == Entered
<1> HIDE DEF E
<1>4. E \in Seq(Events) /\ Line(E, posted, pushed, fresh)
  BY <1>2, <1>3 DEF E
<1>5. ASSUME NEW h \in Handlers, h.k # "push", posted' = Append(posted, h),
             UNCHANGED <<events, ran, pushed, fresh>>
      PROVE  Goal
  <2>1. Line(E, Append(posted, h), pushed, fresh)
    BY <1>1, <1>4, <1>5, LinePostOther
  <2>2. Line(Entered, posted', pushed', fresh')
    BY <1>5, <2>1 DEF E
  <2>3. QED
    BY <1>5, <2>2, LineStays
<1>6. ASSUME posted # <<>>, posted' = Tail(posted), Head(posted).k # "push"
      PROVE  posted' \in Seq(Handlers) /\ Line(Entered, posted', pushed, fresh)
  <2>1. Line(E, Tail(posted), pushed, fresh)
    BY <1>1, <1>4, <1>6, LineTakeOther
  <2>2. QED
    BY <1>1, <1>6, <2>1, HeadTailProperties DEF E
<1>7. ASSUME NEW t \in Threads, NEW e \in Events, PostPush(t, e) PROVE Goal
  <2>1. /\ e \in fresh /\ posted' = Append(posted, [k |-> "push", e |-> e])
        /\ pushed' = [pushed EXCEPT ![t] = Append(@, e)] /\ fresh' = fresh \ {e}
        /\ UNCHANGED <<events, ran>>
    BY <1>7 DEF PostPush
  <2>2. Line(E, Append(posted, [k |-> "push", e |-> e]), [pushed EXCEPT ![t] = Append(@, e)], fresh \ {e})
    BY <1>1, <1>4, <2>1, LinePostFresh
  <2>3. Line(Entered, posted', pushed', fresh')
    BY <2>1, <2>2 DEF E
  <2>4. QED
    BY <2>1, <2>3, LineStays
<1>8. ASSUME PostUser PROVE Goal
  <2>1. [k |-> "user", e |-> NoEvent] \in Handlers /\ [k |-> "user", e |-> NoEvent].k # "push"
    BY DEF Handlers
  <2>2. posted' = Append(posted, [k |-> "user", e |-> NoEvent]) /\ UNCHANGED <<events, ran, pushed, fresh>>
    BY <1>8 DEF PostUser
  <2>3. QED
    BY <1>5, <2>1, <2>2
<1>9. ASSUME NEW e \in Events, OperationEnds(e) PROVE Goal
  <2>1. [k |-> "complete", e |-> e] \in Handlers /\ [k |-> "complete", e |-> e].k # "push"
    BY DEF Handlers
  <2>2. posted' = Append(posted, [k |-> "complete", e |-> e]) /\ UNCHANGED <<events, ran, pushed, fresh>>
    BY <1>9 DEF OperationEnds
  <2>3. QED
    BY <1>5, <2>1, <2>2
<1>10. ASSUME NEW e \in Events, GuardDroppedOffStrand(e) PROVE Goal
  <2>1. [k |-> "next", e |-> NoEvent] \in Handlers /\ [k |-> "next", e |-> NoEvent].k # "push"
    BY DEF Handlers
  <2>2. posted' = Append(posted, [k |-> "next", e |-> NoEvent]) /\ UNCHANGED <<events, ran, pushed, fresh>>
    BY <1>10 DEF GuardDroppedOffStrand
  <2>3. QED
    BY <1>5, <2>1, <2>2
<1>11. ASSUME NEW e \in Events, PushOnStrand(e) PROVE Goal
  <2>1. /\ e \in fresh /\ Emplace(e, stack) /\ posted' = posted
        /\ pushed' = [pushed EXCEPT ![Strand] = Append(@, e)] /\ fresh' = fresh \ {e}
    BY <1>11 DEF PushOnStrand
  <2>2. RanFront(ran', events') /\ Entered' = Append(Entered, e) /\ Len(Finished') = Len(Finished)
    BY <1>1, <2>1, EmplaceEnters DEF LInv
  <2>3. Line(Append(E, e), posted, [pushed EXCEPT ![Strand] = Append(@, e)], fresh \ {e})
    BY <1>1, <1>4, <2>1, LineEnterFresh
  <2>4. Line(Entered', posted', pushed', fresh')
    BY <2>1, <2>2, <2>3 DEF E
  <2>5. ~Has(Entered, e)
    BY <1>3, <2>1 DEF Line, EnteredNotFresh, Has
  <2>6. QED
    BY <2>2, <2>4, <2>5 DEF LInv, Accepts, Enters
<1>12. ASSUME StartOperation PROVE Goal
  <2>1. UNCHANGED <<posted, events, ran, pushed, fresh>>
    BY <1>12 DEF StartOperation
  <2>2. QED
    BY <1>3, <2>1, LineStays
<1>13. ASSUME RunPush PROVE Goal
  <2>1. /\ posted # <<>> /\ Head(posted).k = "push" /\ posted' = Tail(posted)
        /\ Emplace(Head(posted).e, <<>>) /\ UNCHANGED <<pushed, fresh>>
    BY <1>13 DEF RunPush, RunPosted
  <2>2. PICK e \in Events : e = Head(posted).e
    <3>1. Head(posted) \in Handlers
      BY <1>1, <2>1, HeadTailProperties
    <3>2. QED
      BY <2>1, <3>1 DEF Handlers
  <2>3. RanFront(ran', events') /\ Entered' = Append(Entered, e) /\ Len(Finished') = Len(Finished)
    BY <1>1, <2>1, <2>2, EmplaceEnters DEF LInv
  <2>4. Line(Append(E, e), Tail(posted), pushed, fresh)
    BY <1>1, <1>4, <2>1, <2>2, LineEnterPosted
  <2>5. Line(Entered', posted', pushed', fresh')
    BY <2>1, <2>3, <2>4 DEF E
  <2>6. ~Has(Entered, e)
    <3>1. 1 \in DOMAIN posted /\ posted[1] = Head(posted)
      BY <1>1, <2>1, Taken
    <3>2. QED
      BY <1>3, <2>1, <2>2, <3>1 DEF Line, WaitingIsNeither
  <2>7. QED
    BY <2>3, <2>5, <2>6 DEF LInv, Accepts, Enters
<1>14. ASSUME RunNext PROVE Goal
  <2>1. PICK chain \in ChainPushes : NextEvent(<<>>, chain)
    BY <1>14 DEF RunNext
  <2>2. posted # <<>> /\ posted' = Tail(posted) /\ Head(posted).k = "next"
    BY <1>14 DEF RunNext, RunPosted
  <2>3. Carries(Head(posted))
    BY <2>2 DEF Carries
  <2>4. ~NonePosted
    BY <1>1, <2>2, <2>3, HandlerTaken
  <2>5. events # <<>>
    BY <2>4 DEF IInv, GuardPlaced
  <2>6. posted' \in Seq(Handlers) /\ Line(Entered, posted', pushed, fresh)
    BY <1>6, <2>2
  <2>7. QED
    BY <1>1, <2>1, <2>5, <2>6, NextEventKeepsLine
<1>15. ASSUME RunComplete PROVE Goal
  <2>1. /\ posted # <<>> /\ posted' = Tail(posted) /\ Head(posted).k # "push"
        /\ UNCHANGED <<events, ran, pushed, fresh>>
    BY <1>15 DEF RunComplete, RunPosted
  <2>2. Line(Entered, posted', pushed, fresh)
    BY <1>6, <2>1
  <2>3. QED
    BY <2>1, <2>2, LineStays
<1>16. ASSUME RunUser PROVE Goal
  <2>1. /\ posted # <<>> /\ posted' = Tail(posted) /\ Head(posted).k # "push"
        /\ UNCHANGED <<events, ran, pushed, fresh>>
    BY <1>16 DEF RunUser, RunPosted
  <2>2. Line(Entered, posted', pushed, fresh)
    BY <1>6, <2>1
  <2>3. QED
    BY <2>1, <2>2, LineStays
<1>17. ASSUME Return PROVE Goal
  <2>1. posted' = posted
    BY <1>17 DEF Return
  <2>2. CASE ~Top.g
    <3>1. UNCHANGED <<events, ran, pushed, fresh>>
      BY <1>17, <2>2 DEF Return
    <3>2. QED
      BY <1>3, <2>1, <3>1, LineStays
  <2>3. CASE Top.g
    <3>1. PICK chain \in ChainPushes : NextEvent(Below, chain)
      BY <1>17, <2>3 DEF Return
    <3>2. ~NoneInStack
      BY <1>1, <1>17, <2>3, TopIsLast DEF NoneInStack, Return
    <3>3. events # <<>>
      BY <3>2 DEF IInv, GuardPlaced
    <3>4. posted' \in Seq(Handlers) /\ Line(Entered, posted', pushed, fresh)
      BY <1>1, <1>3, <2>1
    <3>5. QED
      BY <1>1, <3>1, <3>3, <3>4, NextEventKeepsLine
  <2>4. QED
    BY <2>2, <2>3
<1>18. CASE UNCHANGED vars
  <2>1. UNCHANGED <<posted, events, ran, pushed, fresh>>
    BY <1>18 DEF vars
  <2>2. QED
    BY <1>3, <2>1, LineStays
<1>19. QED
  BY <1>7, <1>8, <1>9, <1>10, <1>11, <1>12, <1>13, <1>14, <1>15, <1>16, <1>17, <1>18
     DEF Next, StrandStep

\* Nothing entered, nothing is posted, everything is fresh.
LEMMA LineInit == Init => LInv /\ Entered = <<>> /\ Len(Finished) = 0
<1> SUFFICES ASSUME Init PROVE LInv /\ Entered = <<>> /\ Len(Finished) = 0
  OBVIOUS
<1>1. /\ events = <<>> /\ ran = <<>> /\ posted = <<>> /\ fresh = Events
      /\ \A p \in Pushers : pushed[p] = <<>>
      /\ Strand \in Pushers
  BY DEF Init, Pushers
<1>2. <<>> \in Seq(Events) /\ Len(<<>>) = 0
  BY EmptySeq
<1> DEFINE O == <<>>
<1>3. O \in Seq(Events) /\ O = <<>> /\ Len(O) = 0
  BY <1>2
<1> HIDE DEF O
<1>4. /\ EnteredOf(O, O) \in Seq(Events) /\ Len(EnteredOf(O, O)) = 0 /\ Len(DoneOf(O, O)) = 0
  BY <1>3, EnteredIdle
<1>5. EnteredOf(O, O) = <<>>
  BY <1>4, EmptySeq
<1>6. Entered = <<>> /\ Len(Finished) = 0
  BY <1>1, <1>3, <1>4, <1>5, EnteredDef
<1>7. RanFront(ran, events)
  BY <1>1 DEF RanFront
<1>8. Line(<<>>, <<>>, pushed, Events)
  BY <1>1 DEF Line, EntersOnce, WaitsOnce, EnteredNotFresh, WaitingIsNeither, PushedNotFresh,
     PushedIsSomewhere, StrandEnters, EntersInOrder, WaitsInOrder
<1>9. QED
  BY <1>1, <1>6, <1>7, <1>8 DEF LInv

LEMMA LineInductive == Spec => []LInv
<1>1. Init => LInv
  BY LineInit
<1>2. IInv /\ LInv /\ [Next]_vars => LInv'
  BY LineStep
<1>3. QED
  BY <1>1, <1>2, Inductive, PTL DEF Spec

-----------------------------------------------------------------------------
\* What one pusher pushed is run in the order it was pushed, and nothing runs
\* twice, although push_event runs an event at once on the strand and posts it
\* from elsewhere, and the destruction of an event may push another one.
THEOREM FifoCorrect == Spec => []FifoPerPusher
<1>1. IInv /\ LInv => FifoPerPusher
  <2> SUFFICES ASSUME IInv, LInv PROVE FifoPerPusher
    OBVIOUS
  <2>1. ran \in Seq(Events) /\ events \in Seq(Events) /\ RanFront(ran, events)
    BY DEF IInv, TypeOK, LInv
  <2>2. /\ Entered \in Seq(Events) /\ Len(ran) \in Nat /\ DOMAIN ran = 1 .. Len(ran)
        /\ Len(ran) <= Len(Entered) /\ Len(Entered) \in Nat
        /\ \A i \in 1 .. Len(ran) : Entered[i] = ran[i]
    <3>1. CASE events = <<>>
      <4>1. /\ Entered \in Seq(Events) /\ Len(ran) \in Nat /\ Len(Entered) = Len(ran)
            /\ \A i \in 1 .. Len(ran) : Entered[i] = ran[i]
        BY <2>1, <3>1, EnteredIdle, EnteredDef
      <4> DEFINE a == Len(ran)
                 c == Len(Entered)
      <4>2. a \in Nat /\ c = a
        BY <4>1
      <4> HIDE DEF a, c
      <4>3. a <= c /\ c \in Nat
        BY <4>2
      <4>4. QED
        BY <2>1, <4>1, <4>3, LenProperties DEF a, c
    <3>2. CASE events # <<>>
      <4>1. /\ Entered \in Seq(Events)
            /\ Len(ran) \in Nat /\ Len(events) \in Nat \ {0}
            /\ Len(Entered) = Len(ran) - 1 + Len(events)
            /\ \A i \in 1 .. Len(ran) : Entered[i] = ran[i]
        BY <2>1, <3>2, EnteredBusy, EnteredDef
      <4> DEFINE a == Len(ran)
                 b == Len(events)
                 c == Len(Entered)
      <4>2. a \in Nat /\ b \in Nat \ {0} /\ c = a - 1 + b
        BY <4>1
      <4> HIDE DEF a, b, c
      <4>3. a <= c /\ c \in Nat
        BY <4>2
      <4>4. QED
        BY <2>1, <4>1, <4>3, LenProperties DEF a, c
    <3>3. QED
      BY <3>1, <3>2
  <2>3. DOMAIN Entered = 1 .. Len(Entered)
    BY <2>2, LenProperties
  <2> DEFINE E == Entered
             n == Len(ran)
             m == Len(Entered)
  <2>4. /\ n \in Nat /\ m \in Nat /\ n <= m /\ DOMAIN ran = 1 .. n /\ DOMAIN E = 1 .. m
        /\ \A i \in 1 .. n : E[i] = ran[i]
        /\ EntersOnce(E) /\ EntersInOrder(E, pushed)
    BY <2>2, <2>3 DEF LInv, Line
  <2> HIDE DEF E, n, m
  <2>5. \A x, y \in DOMAIN ran : ran[x] = ran[y] => x = y
    BY <2>4 DEF EntersOnce
  <2>6. ASSUME NEW p \in Pushers, NEW i \in DOMAIN pushed[p], NEW j \in DOMAIN pushed[p], i < j,
               NEW y \in DOMAIN ran, ran[y] = pushed[p][j]
        PROVE  \E x \in 1 .. y - 1 : ran[x] = pushed[p][i]
    <3>1. y \in DOMAIN E /\ E[y] = pushed[p][j]
      BY <2>4, <2>6
    <3>2. HasBefore(E, pushed[p][i], y)
      BY <2>4, <2>6, <3>1 DEF EntersInOrder
    <3>3. QED
      BY <2>4, <3>2 DEF HasBefore
  <2>7. QED
    BY <2>5, <2>6 DEF FifoPerPusher
<1>2. QED
  BY <1>1, Inductive, LineInductive, PTL

\* The queue is a serial executor: events are accepted in some order, the
\* oldest one that is not done is the only one active, and whoever destroys its
\* guard, wherever that happens, moves on by exactly one (push_event,
\* next_event).  The fairness of the executor is left to TLC.
THEOREM ImplementsExecutor == Spec => Abstract!Spec
<1>1. Init => Abstract!Init
  BY LineInit DEF Abstract!Init
<1>2. IInv /\ LInv /\ [Next]_vars => [Abstract!Next]_(Abstract!execVars)
  BY LineStep, StepsOfExecutor
<1>3. QED
  BY <1>1, <1>2, Inductive, LineInductive, PTL DEF Spec, Abstract!Spec
=============================================================================
