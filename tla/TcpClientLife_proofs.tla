------------------------- MODULE TcpClientLife_proofs -------------------------
(***************************************************************************)
(* The lives of a client that is started again only when nothing is left   *)
(* of the one before, however often it is started and stopped and          *)
(* reconnects, for every set of messages, either pool, every choice of     *)
(* what callbacks may call and every bound.                                *)
(***************************************************************************)
EXTENDS TcpClient_proofs

-----------------------------------------------------------------------------
(* What wakes the client between two attempts: one event or the timer.     *)

Wakers == {"disconnect", "wake", "reconnect"}

\* Event i is still to wake the client: its body is to run or, of a
\* disconnect, its chain.
Waker(es, stk, i) ==
  es[i].k \in Wakers /\ (i = 1 /\ es[i].k # "disconnect" => ~NoFrame(stk, {"event"}))
NoWaker(es, stk)  == \A i \in DOMAIN es : ~Waker(es, stk, i)
OneWaker(es, stk) ==
  \E i \in DOMAIN es : Waker(es, stk, i) /\ \A j \in DOMAIN es : Waker(es, stk, j) => j = i

\* The reconnect timer waits for ever, or its handler is about to do so.
Resting(stk, S, q) ==
  /\ NoneAt(q, "rtimer")
  /\ \/ NoneIn(S, "rtimer") /\ (NoFrame(stk, {"rtimer2"}) \/ OneFrame(stk, {"rtimer2"}))
     \/ OneIn(S, "rtimer", "forever") /\ NoFrame(stk, {"rtimer2"})

\* It waits for its delay, or its wait has ended and is to be handled.
Timed(stk, S, q) ==
  /\ NoFrame(stk, {"rtimer2"})
  /\ \/ NoneAt(q, "rtimer") /\ OneIn(S, "rtimer", "delay")
     \/ NoneIn(S, "rtimer") /\ \E x : OneAt(q, "rtimer", x)

\* The one event that wakes a client is queued, or the timer runs for it, only
\* while it is stopping.
Phase(st, es, stk, S, q) ==
  \/ NoWaker(es, stk) /\ Resting(stk, S, q)
  \/ st = "stopping" /\ OneWaker(es, stk) /\ Resting(stk, S, q)
  \/ st = "stopping" /\ NoWaker(es, stk) /\ Timed(stk, S, q)

\* One disconnect at a time, while the client is stopping, and before any stop.
Closing(st, es) ==
  /\ \A i \in DOMAIN es : es[i].k = "disconnect" => st = "stopping"
  /\ \A i, j \in DOMAIN es : es[i].k = "disconnect" /\ es[j].k = "disconnect" => i = j
  /\ \A i, j \in DOMAIN es : es[i].k = "stop" /\ es[j].k = "disconnect" => j < i

Woken(st, rC, es, stk, S, q) ==
  /\ Closing(st, es)
  /\ ~rC => Phase(st, es, stk, S, q)

WokenNow == Woken(state, rCanceled, events, stack, ops, posted)

-----------------------------------------------------------------------------
(* What the pieces of handlers do to it.                                   *)

\* Two stacks that differ in neither the body being run nor the timer.
Alike(s1, s2) ==
  /\ NoFrame(s1, {"event"}) <=> NoFrame(s2, {"event"})
  /\ NoFrame(s1, {"rtimer2"}) <=> NoFrame(s2, {"rtimer2"})
  /\ OneFrame(s1, {"rtimer2"}) <=> OneFrame(s2, {"rtimer2"})

LEMMA AlikePush ==
  ASSUME NEW st \in Stacks, NEW f \in FrameType, f.k \notin {"event", "rtimer2"}
  PROVE  Alike(st, Append(st, f))
<1>1. st \in Seq(FrameType)
  BY DEF Stacks
<1>2. \A K : /\ NoFrame(Append(st, f), K) <=> (NoFrame(st, K) /\ f.k \notin K)
             /\ OneFrame(Append(st, f), K) <=> (\/ (OneFrame(st, K) /\ f.k \notin K)
                                               \/ (NoFrame(st, K) /\ f.k \in K))
  BY <1>1, FramePush
<1>3. f.k \notin {"event"} /\ f.k \notin {"rtimer2"}
  OBVIOUS
<1>4. QED
  BY <1>2, <1>3 DEF Alike

LEMMA AlikeTwice ==
  ASSUME NEW s1, NEW s2, NEW s3, Alike(s1, s2), Alike(s2, s3)
  PROVE  Alike(s1, s3) /\ Alike(s2, s1)
BY DEF Alike

LEMMA AlikePop ==
  ASSUME IInv, ~Idle, Top.k \notin {"event", "rtimer2"}
  PROVE  Alike(stack, Below) /\ Alike(Below, stack) /\ Below \in Stacks
<1>1. Below \in Stacks /\ Top \in FrameType /\ stack = Append(Below, Top)
  BY TopFrame
<1>2. Alike(Below, stack)
  BY <1>1, AlikePush
<1>3. QED
  BY <1>1, <1>2 DEF Alike

LEMMA AlikePushTwo ==
  ASSUME NEW s1 \in Stacks, NEW f \in FrameType, f.k \notin {"event", "rtimer2", "start2"}
  PROVE  Alike(s1, s1 \o <<f, User>>)
<1> DEFINE s2 == Append(s1, f)
<1>1. s2 \in Stacks /\ Alike(s1, s2)
  BY StackPush, AlikePush
<1>2. s1 \o <<f, User>> = Append(s2, User)
  BY Chain, FrameTypes DEF Stacks
<1> HIDE DEF s2
<1>3. Alike(s2, Append(s2, User))
  BY <1>1, FrameTypes, AlikePush
<1>4. QED
  BY <1>1, <1>2, <1>3, AlikeTwice

LEMMA WokenAlike ==
  ASSUME NEW st, NEW rC, NEW es, NEW s1, NEW s2, NEW S, NEW q, Alike(s1, s2),
         Woken(st, rC, es, s1, S, q)
  PROVE  Woken(st, rC, es, s2, S, q)
<1>1. \A i : Waker(es, s1, i) <=> Waker(es, s2, i)
  BY DEF Alike, Waker
<1>2. (NoWaker(es, s1) <=> NoWaker(es, s2)) /\ (OneWaker(es, s1) <=> OneWaker(es, s2))
  BY <1>1 DEF NoWaker, OneWaker
<1>3. (Resting(s1, S, q) <=> Resting(s2, S, q)) /\ (Timed(s1, S, q) <=> Timed(s2, S, q))
  BY DEF Alike, Resting, Timed
<1>4. QED
  BY <1>2, <1>3 DEF Woken, Phase

\* The timer of the one rests or runs as that of the other does.
ClockKept(stk, S1, q1, S2, q2) ==
  /\ Resting(stk, S1, q1) => Resting(stk, S2, q2)
  /\ Timed(stk, S1, q1) => Timed(stk, S2, q2)

LEMMA WokenClock ==
  ASSUME NEW st, NEW rC, NEW es, NEW stk, NEW S1, NEW q1, NEW S2, NEW q2,
         ClockKept(stk, S1, q1, S2, q2), Woken(st, rC, es, stk, S1, q1)
  PROVE  Woken(st, rC, es, stk, S2, q2)
BY DEF Woken, Phase, ClockKept

LEMMA ClockOutstanding ==
  ASSUME StrandTypes, NEW P \in Seq(WorkType), NEW C, C \subseteq ops, NEW N,
         NoneIn(C, "rtimer"), NoneIn(N, "rtimer"), Outstanding(P, C, N), NEW stk
  PROVE  ClockKept(stk, ops, P, ops', posted')
<1>1. ops' = (ops \ C) \cup N /\ posted' = P \o Aborted(C)
  BY DEF Outstanding
<1>2. C \subseteq OpType /\ IsFiniteSet(C)
  BY FS_Subset DEF StrandTypes
<1>3. Aborted(C) \in Seq(WorkType) /\ NoneAt(Aborted(C), "rtimer")
  BY <1>2, AbortedLists, AbortedAt DEF Cancellable
<1>4. /\ NoneAt(P, "rtimer") => NoneAt(posted', "rtimer")
      /\ \A x : OneAt(P, "rtimer", x) => OneAt(posted', "rtimer", x)
  BY <1>1, <1>3, ConcatAt
<1>5. /\ NoneIn(ops, "rtimer") => NoneIn(ops', "rtimer")
      /\ \A x : OneIn(ops, "rtimer", x) => OneIn(ops', "rtimer", x)
  BY <1>1 DEF NoneIn, OneIn
<1>6. QED
  BY <1>4, <1>5 DEF ClockKept, Resting, Timed

LEMMA WokenOutstanding ==
  ASSUME StrandTypes, NEW P \in Seq(WorkType), NEW C, C \subseteq ops, NEW N,
         NoneIn(C, "rtimer"), NoneIn(N, "rtimer"), Outstanding(P, C, N),
         NEW st, NEW rC, NEW es, NEW stk, Woken(st, rC, es, stk, ops, P)
  PROVE  Woken(st, rC, es, stk, ops', posted')
<1>1. ClockKept(stk, ops, P, ops', posted')
  BY ClockOutstanding
<1>2. QED
  BY <1>1, WokenClock

LEMMA WokenTail ==
  ASSUME NEW q \in Seq(WorkType), q # <<>>, Head(q).k # "rtimer", NEW S,
         NEW st, NEW rC, NEW es, NEW stk, Woken(st, rC, es, stk, S, q)
  PROVE  Woken(st, rC, es, stk, S, Tail(q))
<1>1. ClockKept(stk, S, q, S, Tail(q))
  BY TailAt DEF ClockKept, Resting, Timed
<1>2. QED
  BY <1>1, WokenClock

LEMMA WokenPost ==
  ASSUME NEW q \in Seq(WorkType), NEW h \in WorkType, h.k # "rtimer", NEW S,
         NEW st, NEW rC, NEW es, NEW stk, Woken(st, rC, es, stk, S, q)
  PROVE  Woken(st, rC, es, stk, S, Append(q, h))
<1>1. ClockKept(stk, S, q, S, Append(q, h))
  BY AppendAt DEF ClockKept, Resting, Timed
<1>2. QED
  BY <1>1, WokenClock

\* An event joins the queue; when it is the first, its body is to run at once.
LEMMA EmplaceEvents ==
  ASSUME events \in Seq(QueueType), NEW stk \in Stacks, NEW ev \in QueueType, Emplace(ev, stk)
  PROVE  /\ Len(events) \in Nat /\ DOMAIN events = 1 .. Len(events)
         /\ DOMAIN events' = 1 .. (Len(events) + 1)
         /\ \A i \in DOMAIN events : events'[i] = events[i]
         /\ events'[Len(events) + 1] = ev
         /\ \A i \in DOMAIN events' : i \in DOMAIN events \/ i = Len(events) + 1
         /\ \A i \in DOMAIN events : i \in DOMAIN events' /\ i < Len(events) + 1
         /\ Len(events) + 1 \in DOMAIN events'
         /\ events # <<>> => stack' = stk /\ Len(events) + 1 # 1
         /\ events = <<>> => stack' = Append(stk, Body) /\ ~NoFrame(stack', {"event"})
         /\ NoFrame(stack', {"rtimer2"}) <=> NoFrame(stk, {"rtimer2"})
         /\ OneFrame(stack', {"rtimer2"}) <=> OneFrame(stk, {"rtimer2"})
<1>1. /\ Len(events) \in Nat /\ DOMAIN events = 1 .. Len(events)
      /\ events' = Append(events, ev)
      /\ DOMAIN events' = 1 .. (Len(events) + 1)
      /\ \A i \in 1 .. Len(events) : events'[i] = events[i]
      /\ events'[Len(events) + 1] = ev
  BY Appended DEF Emplace
<1>2. /\ \A i \in DOMAIN events' : i \in DOMAIN events \/ i = Len(events) + 1
      /\ \A i \in DOMAIN events : i \in DOMAIN events' /\ i < Len(events) + 1
      /\ Len(events) + 1 \in DOMAIN events'
  BY <1>1
<1>3. events # <<>> => stack' = stk /\ Len(events) + 1 # 1
  BY <1>1, EmptySeq DEF Emplace
<1>4. events = <<>> => stack' = Append(stk, Body)
  BY DEF Emplace
<1>5. \A K : /\ NoFrame(Append(stk, Body), K) <=> (NoFrame(stk, K) /\ Body.k \notin K)
             /\ OneFrame(Append(stk, Body), K) <=> (\/ (OneFrame(stk, K) /\ Body.k \notin K)
                                                   \/ (NoFrame(stk, K) /\ Body.k \in K))
  BY FrameTypes, FramePush DEF Stacks
<1>6. Body.k \in {"event"} /\ Body.k \notin {"rtimer2"}
  BY FrameTypes
<1>7. /\ ~NoFrame(Append(stk, Body), {"event"})
      /\ NoFrame(Append(stk, Body), {"rtimer2"}) <=> NoFrame(stk, {"rtimer2"})
      /\ OneFrame(Append(stk, Body), {"rtimer2"}) <=> OneFrame(stk, {"rtimer2"})
  BY <1>5, <1>6
<1>8. QED
  BY <1>1, <1>2, <1>3, <1>4, <1>7

LEMMA EmplaceWakers ==
  ASSUME events \in Seq(QueueType), NEW stk \in Stacks, NEW ev \in QueueType, Emplace(ev, stk)
  PROVE  /\ ev.k \notin Wakers => /\ NoWaker(events, stk) => NoWaker(events', stack')
                                  /\ OneWaker(events, stk) => OneWaker(events', stack')
         /\ ev.k \in Wakers /\ NoWaker(events, stk) => OneWaker(events', stack')
<1> DEFINE n == Len(events)
<1>1. /\ n \in Nat /\ DOMAIN events = 1 .. n
      /\ \A i \in DOMAIN events : events'[i] = events[i]
      /\ events'[n + 1] = ev
      /\ \A i \in DOMAIN events' : i \in DOMAIN events \/ i = n + 1
      /\ \A i \in DOMAIN events : i \in DOMAIN events' /\ i < n + 1
      /\ n + 1 \in DOMAIN events'
      /\ events # <<>> => stack' = stk /\ n + 1 # 1
      /\ events = <<>> => ~NoFrame(stack', {"event"})
  BY EmplaceEvents
<1> HIDE DEF n
<1>2. \A i \in DOMAIN events : Waker(events', stack', i) <=> Waker(events, stk, i)
  <2>1. SUFFICES ASSUME NEW i \in DOMAIN events PROVE Waker(events', stack', i) <=> Waker(events, stk, i)
    OBVIOUS
  <2>2. events # <<>>
    OBVIOUS
  <2>3. QED
    BY <1>1, <2>2 DEF Waker
<1>3. Waker(events', stack', n + 1) <=> ev.k \in Wakers
  BY <1>1 DEF Waker
<1>4. \A i \in DOMAIN events : i # n + 1
  BY <1>1
<1>5. QED
  BY <1>1, <1>2, <1>3, <1>4 DEF NoWaker, OneWaker

LEMMA EmplaceClock ==
  ASSUME events \in Seq(QueueType), NEW stk \in Stacks, NEW ev \in QueueType, Emplace(ev, stk),
         NEW S, NEW q
  PROVE  /\ Resting(stk, S, q) => Resting(stack', S, q)
         /\ Timed(stk, S, q) => Timed(stack', S, q)
<1>1. /\ NoFrame(stack', {"rtimer2"}) <=> NoFrame(stk, {"rtimer2"})
      /\ OneFrame(stack', {"rtimer2"}) <=> OneFrame(stk, {"rtimer2"})
  BY EmplaceEvents
<1>2. QED
  BY <1>1 DEF Resting, Timed

LEMMA EmplaceClosing ==
  ASSUME events \in Seq(QueueType), NEW stk \in Stacks, NEW ev \in QueueType, Emplace(ev, stk),
         NEW st, Closing(st, events)
  PROVE  /\ ev.k # "disconnect" => Closing(st, events')
         /\ (\A i \in DOMAIN events : events[i].k \notin {"disconnect", "stop"}) => Closing("stopping", events')
<1> DEFINE n == Len(events)
<1>1. /\ n \in Nat /\ DOMAIN events = 1 .. n
      /\ \A i \in DOMAIN events : events'[i] = events[i]
      /\ events'[n + 1] = ev
      /\ \A i \in DOMAIN events' : i \in DOMAIN events \/ i = n + 1
      /\ \A i \in DOMAIN events : i < n + 1
  BY EmplaceEvents
<1> HIDE DEF n
<1>2. ASSUME ev.k # "disconnect" PROVE Closing(st, events')
  <2>1. \A i \in DOMAIN events' : events'[i].k = "disconnect" => i \in DOMAIN events /\ events[i].k = "disconnect"
    BY <1>1, <1>2
  <2>2. \A i \in DOMAIN events' : events'[i].k = "stop" => (i \in DOMAIN events /\ events[i].k = "stop") \/ i = n + 1
    BY <1>1
  <2>3. QED
    BY <1>1, <2>1, <2>2 DEF Closing
<1>3. ASSUME \A i \in DOMAIN events : events[i].k \notin {"disconnect", "stop"}
      PROVE  Closing("stopping", events')
  <2>1. \A i \in DOMAIN events' : events'[i].k \in {"disconnect", "stop"} => i = n + 1
    BY <1>1, <1>3
  <2>2. ~(events'[n + 1].k = "disconnect" /\ events'[n + 1].k = "stop")
    OBVIOUS
  <2>3. QED
    BY <2>1, <2>2 DEF Closing
<1>4. QED
  BY <1>2, <1>3

\* An event that wakes nobody joins the queue.
LEMMA WokenEmplace ==
  ASSUME events \in Seq(QueueType), NEW stk \in Stacks, NEW ev \in QueueType, Emplace(ev, stk),
         ev.k \notin Wakers, NEW S, NEW q, NEW st, NEW rC, NEW rC2, rC => rC2,
         Woken(st, rC, events, stk, S, q)
  PROVE  Woken(st, rC2, events', stack', S, q)
<1>1. Closing(st, events) /\ (~rC2 => Phase(st, events, stk, S, q))
  BY DEF Woken
<1>2. Closing(st, events')
  BY <1>1, EmplaceClosing DEF Wakers
<1>3. /\ NoWaker(events, stk) => NoWaker(events', stack')
      /\ OneWaker(events, stk) => OneWaker(events', stack')
  BY EmplaceWakers
<1>4. /\ Resting(stk, S, q) => Resting(stack', S, q)
      /\ Timed(stk, S, q) => Timed(stack', S, q)
  BY EmplaceClock
<1>5. QED
  BY <1>1, <1>2, <1>3, <1>4 DEF Woken, Phase

LEMMA WokenDisconnect ==
  ASSUME StrandTypes, state \in States, NEW stk \in Stacks,
         NEW chain \in {"stop", "wake"}, DoDisconnect(chain, stk), NEW S, NEW q, NEW rR,
         NEW rC \in BOOLEAN, NEW rC2 \in BOOLEAN, rC2 <=> (rC \/ chain = "stop"),
         Begun(state, rR, rC, events, stk, S, q), Woken(state, rC, events, stk, S, q)
  PROVE  Woken(state', rC2, events', stack', S, q)
<1>1. events \in Seq(QueueType)
  BY DEF StrandTypes
<1>2. CASE state \in {"started", "starting"}
  <2> DEFINE ev == DisconnectEvent(state, chain)
  <2>1. /\ ev \in QueueType /\ ev.k = "disconnect"
    BY <1>2, EventTypes DEF DisconnectEvent
  <2>2. Emplace(ev, stk) /\ state' = "stopping"
    BY <1>2 DEF DoDisconnect
  <2> HIDE DEF ev
  <2>3. ~rC /\ state # "stopping" /\ \A i \in DOMAIN events : ~Stops(events[i])
    BY <1>2 DEF Begun, Told
  <2>4. NoWaker(events, stk) /\ Resting(stk, S, q) /\ Closing(state, events)
    BY <2>3 DEF Woken, Phase
  <2>5. \A i \in DOMAIN events : events[i].k \notin {"disconnect", "stop"}
    BY <2>3, <2>4 DEF Closing, Stops
  <2>6. Closing("stopping", events')
    BY <1>1, <2>1, <2>2, <2>4, <2>5, EmplaceClosing
  <2>7. OneWaker(events', stack') /\ Resting(stack', S, q)
    BY <1>1, <2>1, <2>2, <2>4, EmplaceWakers, EmplaceClock DEF Wakers
  <2>8. QED
    BY <2>2, <2>6, <2>7 DEF Woken, Phase
<1>3. CASE state \notin {"started", "starting"} /\ chain = "stop"
  <2>1. Emplace(StopEvent, stk) /\ state' = state
    BY <1>3 DEF DoDisconnect
  <2>2. StopEvent \in QueueType /\ StopEvent.k \notin Wakers
    BY EventTypes DEF StopEvent, Wakers
  <2>3. rC => rC2
    OBVIOUS
  <2>4. QED
    BY <1>1, <2>1, <2>2, <2>3, WokenEmplace
<1>4. CASE state \notin {"started", "starting"} /\ chain # "stop"
  <2>1. stack' = stk /\ events' = events /\ state' = state
    BY <1>4 DEF DoDisconnect
  <2>2. rC2 = rC
    BY <1>4
  <2>3. QED
    BY <2>1, <2>2
<1>5. QED
  BY <1>2, <1>3, <1>4

\* tcp_client::stop: from here on only the order of the events matters.
LEMMA WokenStops ==
  ASSUME IInv, NEW stk \in Stacks, NEW P \in Seq(WorkType), StopOnStrand(P, stk),
         Begun(state, rRunning, rCanceled, events, stk, ops, P),
         Woken(state, rCanceled, events, stk, ops, P)
  PROVE  WokenNow'
<1>1. StrandTypes /\ state \in States /\ rCanceled \in BOOLEAN
  BY IInvParts DEF ValueTypes
<1>2. DoDisconnect("stop", stk) /\ rCanceled' = TRUE
  BY DEF StopOnStrand
<1>3. Woken(state', TRUE, events', stack', ops, P)
  BY <1>1, <1>2, WokenDisconnect
<1>4. QED
  BY <1>2, <1>3 DEF Woken, WokenNow

-----------------------------------------------------------------------------
(* The bodies of events.                                                   *)

\* The body of the first event is over: it waked the client, or it does not.
LEMMA BodyOver ==
  ASSUME IInv, ~Idle, Top.k = "event", NEW s2 \in Stacks, Alike(Below, s2), NEW S, NEW q
  PROVE  /\ NoFrame(s2, {"event"}) /\ 1 \in DOMAIN events /\ Head(events) = events[1]
         /\ Resting(stack, S, q) <=> Resting(s2, S, q)
         /\ Timed(stack, S, q) <=> Timed(s2, S, q)
         /\ Head(events).k \notin {"wake", "reconnect"} =>
              /\ NoWaker(events, stack) => NoWaker(events, s2)
              /\ OneWaker(events, stack) => OneWaker(events, s2)
         /\ Head(events).k \in {"wake", "reconnect"} =>
              ~NoWaker(events, stack) /\ (OneWaker(events, stack) => NoWaker(events, s2))
<1>1. /\ Below \in Seq(FrameType) /\ Top \in FrameType /\ stack = Append(Below, Top)
      /\ NoFrame(Below, Guard) /\ events # <<>>
  BY TopFrame DEF Stacks, Guard
<1>2. 1 \in DOMAIN events /\ Head(events) = events[1]
  <2>1. events \in Seq(QueueType)
    BY IInvParts DEF StrandTypes
  <2>2. DOMAIN events = 1 .. Len(events) /\ Len(events) \in Nat /\ Len(events) # 0
    BY <1>1, <2>1, LenProperties, EmptySeq
  <2>3. QED
    BY <2>2
<1>3. \A K : /\ NoFrame(stack, K) <=> (NoFrame(Below, K) /\ Top.k \notin K)
             /\ OneFrame(stack, K) <=> (\/ (OneFrame(Below, K) /\ Top.k \notin K)
                                       \/ (NoFrame(Below, K) /\ Top.k \in K))
  BY <1>1, FramePush
<1>4. Top.k \in {"event"} /\ Top.k \notin {"rtimer2"}
  OBVIOUS
<1>5. ~NoFrame(stack, {"event"}) /\ NoFrame(s2, {"event"})
  <2>1. NoFrame(Below, {"event"})
    BY <1>1 DEF NoFrame, Guard
  <2>2. QED
    BY <1>3, <1>4, <2>1 DEF Alike
<1>6. /\ NoFrame(stack, {"rtimer2"}) <=> NoFrame(s2, {"rtimer2"})
      /\ OneFrame(stack, {"rtimer2"}) <=> OneFrame(s2, {"rtimer2"})
  BY <1>3, <1>4 DEF Alike
<1>7. /\ Resting(stack, S, q) <=> Resting(s2, S, q)
      /\ Timed(stack, S, q) <=> Timed(s2, S, q)
  BY <1>6 DEF Resting, Timed
<1>8. \A i \in DOMAIN events : i # 1 => (Waker(events, stack, i) <=> Waker(events, s2, i))
  BY DEF Waker
<1>9. /\ Head(events).k \notin {"wake", "reconnect"} => (Waker(events, stack, 1) <=> Waker(events, s2, 1))
      /\ Head(events).k \in {"wake", "reconnect"} => Waker(events, stack, 1) /\ ~Waker(events, s2, 1)
  BY <1>2, <1>5 DEF Waker, Wakers
<1>10. QED
  BY <1>2, <1>5, <1>7, <1>8, <1>9 DEF NoWaker, OneWaker

\* The frame of a body gives way to the guard's, or to nothing.
LEMMA ReleasedAlike ==
  ASSUME IInv, ~Idle, Top.k = "event"
  PROVE  /\ Below \in Stacks /\ Alike(Below, Below)
         /\ Append(Below, Release) \in Stacks /\ Alike(Below, Append(Below, Release))
<1>1. Below \in Stacks
  BY TopFrame
<1>2. Append(Below, Release) \in Stacks /\ Alike(Below, Append(Below, Release))
  BY <1>1, FrameTypes, StackPush, AlikePush
<1>3. QED
  BY <1>1, <1>2 DEF Alike

LEMMA WokenBodyOver ==
  ASSUME IInv, ~Idle, Top.k = "event", NEW s2 \in Stacks, Alike(Below, s2),
         Head(events).k \notin {"wake", "reconnect"}, NEW st, NEW rC, NEW S, NEW q,
         Woken(st, rC, events, stack, S, q)
  PROVE  Woken(st, rC, events, s2, S, q)
BY BodyOver DEF Woken, Phase

LEMMA StartConnectLeaves ==
  ASSUME StrandTypes, NEW sync, NEW st, NEW N, StartConnect(sync, st, N)
  PROVE  /\ \A k \in Cancellable : NoneAt(posted, k) /\ NoneIn(SocketOps, k) => NoneAt(posted', k)
         /\ \A k : NoneIn(ops, k) /\ NoneIn(N, k) => NoneIn(ops', k)
         /\ NoneIn(N, "rtimer") /\ OneIn(ops, "rtimer", "forever") => OneIn(ops', "rtimer", "forever")
<1> DEFINE C == SocketOps
           all == posted \o Aborted(C)
<1>1. /\ C \subseteq ops /\ C \subseteq OpType /\ IsFiniteSet(C) /\ posted \in Seq(WorkType)
      /\ ops \subseteq OpType /\ IsFiniteSet(ops)
  BY FS_Subset DEF StrandTypes, SocketOps
<1>2. Aborted(C) \in Seq(WorkType) /\ \A k \in Cancellable : NoneIn(C, k) => NoneAt(Aborted(C), k)
  BY <1>1, AbortedLists, AbortedAt
<1>3. all \in Seq(WorkType)
  BY <1>1, <1>2, ConcatProperties
<1>4. /\ posted' = OldSeq(all) /\ ops' = {OldOp(o) : o \in ops \ C} \cup N
  BY DEF StartConnect, OldOp, OldSeq
<1>5. \A k \in Cancellable : NoneAt(posted, k) /\ NoneIn(C, k) => NoneAt(all, k)
  BY <1>1, <1>2, ConcatAt
<1> HIDE DEF all
<1>6. \A k \in Cancellable : NoneAt(posted, k) /\ NoneIn(C, k) => NoneAt(posted', k)
  BY <1>3, <1>4, <1>5, OldAt
<1>7. \A k : NoneIn(ops, k) /\ NoneIn(N, k) => NoneIn(ops', k)
  BY <1>1, <1>4, OldOpType DEF NoneIn
<1>8. ASSUME NoneIn(N, "rtimer"), OneIn(ops, "rtimer", "forever")
      PROVE  OneIn(ops', "rtimer", "forever")
  <2>1. PICK o \in ops : o.k = "rtimer" /\ o.x = "forever" /\ \A p \in ops : p.k = "rtimer" => p = o
    BY <1>8 DEF OneIn
  <2>2. o \in OpType /\ o \notin C
    BY <1>1, <2>1 DEF SocketOps
  <2>3. OldOp(o) \in ops' /\ OldOp(o).k = "rtimer" /\ OldOp(o).x = "forever"
    BY <1>4, <2>1, <2>2, OldOpType
  <2>4. ASSUME NEW p \in ops', p.k = "rtimer" PROVE p = OldOp(o)
    <3>1. p \notin N
      BY <1>8, <2>4 DEF NoneIn
    <3>2. PICK r \in ops \ C : p = OldOp(r)
      BY <1>4, <3>1
    <3>3. r.k = "rtimer"
      BY <1>1, <2>4, <3>2, OldOpType
    <3>4. QED
      BY <2>1, <3>2, <3>3
  <2>5. QED
    BY <2>3, <2>4 DEF OneIn
<1>9. QED
  BY <1>6, <1>7, <1>8

LEMMA StartConnectStack ==
  ASSUME NEW st \in Stacks, NEW sync \in {"sync", "async"}
  PROVE  LET s2 == st \o <<Frame("release", sync), Frame("start2", sync), User>>
         IN Alike(st, s2)
<1> DEFINE f == Frame("release", sync)
           g == Frame("start2", sync)
           s1 == Append(st, f)
           s2 == Append(s1, g)
<1>1. /\ f \in FrameType /\ f.k = "release" /\ g \in FrameType /\ g.k = "start2" /\ g.x = sync
      /\ User \in FrameType /\ User.k = "user" /\ st \in Seq(FrameType)
  BY FrameTypes DEF Stacks
<1> HIDE DEF f, g
<1>2. s1 \in Stacks /\ s1 # <<>> /\ Last(s1) = f /\ Alike(st, s1)
  BY <1>1, StackPush, AlikePush
<1>3. st \o <<f, g, User>> = Append(s2, User)
  BY <1>1, Chain
<1> HIDE DEF s1
<1>4. s2 \in Stacks /\ Alike(s1, s2)
  BY <1>1, <1>2, StackPush, AlikePush
<1> HIDE DEF s2
<1>5. Append(s2, User) \in Stacks /\ Alike(s2, Append(s2, User))
  BY <1>1, <1>4, StackPush, AlikePush
<1>6. Alike(st, Append(s2, User))
  BY <1>2, <1>4, <1>5 DEF Alike
<1>7. QED
  BY <1>3, <1>6 DEF f, g

LEMMA WokenReconnectBody ==
  ASSUME IInv, BegunNow, WokenNow, ReconnectBody
  PROVE  WokenNow'
<1>1. /\ ~Idle /\ Top.k = "event" /\ Head(events).k = "reconnect" /\ StrandTypes
      /\ Woken(state, rCanceled, events, stack, ops, posted) /\ Below \in Stacks
  BY IInvParts, TopFrame DEF ReconnectBody, RunsEvent, WokenNow
<1>2. CASE ~rCanceled /\ state = "stopping"
  <2>1. /\ StartConnect("async", Below, {}) /\ UNCHANGED <<events, rCanceled>>
        /\ state' = "starting"
    BY <1>2 DEF ReconnectBody, timers, StartConnect
  <2> DEFINE s2 == Append(Below, Release)
  <2>2. s2 \in Stacks /\ Alike(Below, s2) /\ Alike(Below, stack')
    BY <1>1, <2>1, ReleasedAlike, StartConnectStack DEF StartConnect
  <2>3. Alike(s2, stack')
    BY <2>2 DEF Alike
  <2> HIDE DEF s2
  <2>4. ~NoWaker(events, stack)
    BY <1>1, <2>2, BodyOver
  <2>5. OneWaker(events, stack) /\ Resting(stack, ops, posted) /\ Closing(state, events)
    BY <1>1, <1>2, <2>4 DEF Woken, Phase
  <2>6. NoWaker(events, s2) /\ Resting(s2, ops, posted)
    BY <1>1, <2>2, <2>5, BodyOver
  <2>7. \A i \in DOMAIN events : events[i].k # "disconnect"
    BY <2>6 DEF NoWaker, Waker, Wakers
  <2>8. Resting(s2, ops', posted')
    <3>1. NoneIn(SocketOps, "rtimer") /\ NoneIn({}, "rtimer") /\ "rtimer" \in Cancellable
      BY DEF NoneIn, SocketOps, Cancellable
    <3>2. /\ NoneAt(posted, "rtimer") => NoneAt(posted', "rtimer")
          /\ NoneIn(ops, "rtimer") => NoneIn(ops', "rtimer")
          /\ OneIn(ops, "rtimer", "forever") => OneIn(ops', "rtimer", "forever")
      BY <1>1, <2>1, <3>1, StartConnectLeaves
    <3>3. QED
      BY <2>6, <3>2 DEF Resting
  <2>9. Closing(state', events)
    BY <2>5, <2>7 DEF Closing
  <2>10. Woken(state', rCanceled, events, s2, ops', posted')
    BY <2>6, <2>8, <2>9 DEF Woken, Phase
  <2>11. QED
    BY <2>1, <2>3, <2>10, WokenAlike DEF WokenNow
<1>3. CASE ~(~rCanceled /\ state = "stopping")
  <2>1. stack' = Append(Below, Release) /\ UNCHANGED <<state, events, ops, posted, rCanceled>>
    BY <1>3 DEF ReconnectBody, timers
  <2>2. rCanceled
    <3>1. ~NoWaker(events, stack)
      BY <1>1, ReleasedAlike, BodyOver
    <3>2. QED
      BY <1>1, <1>3, <3>1 DEF Woken, Phase
  <2>3. QED
    BY <1>1, <2>1, <2>2 DEF Woken, WokenNow
<1>4. QED
  BY <1>2, <1>3

LEMMA WokenDisconnectBody ==
  ASSUME IInv, WokenNow, DisconnectBody
  PROVE  WokenNow'
<1> DEFINE s1 == Append(Below, Release)
           f == Frame("disc2", "-")
           s2 == Append(s1, f)
<1>1. /\ ~Idle /\ Top.k = "event" /\ Head(events).k = "disconnect"
      /\ Woken(state, rCanceled, events, stack, ops, posted) /\ Below \in Stacks
  BY TopFrame DEF DisconnectBody, RunsEvent, WokenNow
<1>2. s1 \in Stacks /\ Alike(Below, s1)
  BY <1>1, ReleasedAlike
<1>3. f \in FrameType /\ f.k = "disc2"
  BY FrameTypes
<1>4. s2 \in Stacks /\ Alike(s1, s2)
  <2> HIDE DEF s1, f
  <2>1. QED
    BY <1>2, <1>3, StackPush, AlikePush
<1>5. Append(s2, User) \in Stacks /\ Alike(s2, Append(s2, User))
  <2> HIDE DEF s2
  <2>1. QED
    BY <1>4, FrameTypes, StackPush, AlikePush
<1>6. stack' = s2 \/ stack' = Append(s2, User)
  <2>1. Below \o <<Release, f>> = s2 /\ s2 \in Seq(FrameType)
    BY <1>1, <1>3, <1>4, FrameTypes, Chain DEF Stacks
  <2>2. s2 \o <<User>> = Append(s2, User) /\ s2 \o <<>> = s2
    <3> HIDE DEF s2
    <3>1. QED
      BY <2>1, FrameTypes, Chain
  <2>3. stack' = s2 \o <<User>> \/ stack' = s2 \o <<>>
    BY <2>1 DEF DisconnectBody
  <2>4. QED
    BY <2>2, <2>3
<1> HIDE DEF s1, s2
<1>7. stack' \in Stacks /\ Alike(Below, stack')
  BY <1>2, <1>4, <1>5, <1>6 DEF Alike
<1>8. Woken(state, rCanceled, events, stack', ops, posted)
  <2> DEFINE t == stack'
  <2>1. t \in Stacks /\ Alike(Below, t)
    BY <1>7
  <2> HIDE DEF t
  <2>2. Woken(state, rCanceled, events, t, ops, posted)
    BY <1>1, <2>1, WokenBodyOver
  <2>3. QED
    BY <2>2 DEF t
<1>9. QED
  BY <1>8 DEF DisconnectBody, WokenNow, timers

LEMMA WokenWakeBody ==
  ASSUME IInv, WokenNow, WakeBody
  PROVE  WokenNow'
<1> DEFINE s2 == Append(Below, Release)
           C == ReconnectWait
<1>1. /\ ~Idle /\ Top.k = "event" /\ Head(events).k = "wake" /\ StrandTypes
      /\ Woken(state, rCanceled, events, stack, ops, posted)
      /\ posted \in Seq(WorkType) /\ C \subseteq ops /\ C \subseteq OpType /\ IsFiniteSet(C)
  BY IInvParts, FS_Subset DEF WakeBody, RunsEvent, WokenNow, StrandTypes, ReconnectWait
<1>2. /\ stack' = s2 /\ UNCHANGED <<state, rCanceled, events>>
      /\ ops' = ops \ C /\ posted' = posted \o Aborted(C)
  BY DEF WakeBody, timers, Outstanding
<1>3. s2 \in Stacks /\ Alike(Below, s2)
  BY <1>1, ReleasedAlike
<1> HIDE DEF s2
<1>4. SUFFICES ASSUME ~rCanceled PROVE Phase(state, events, s2, ops', posted')
  BY <1>1, <1>2 DEF Woken, WokenNow
<1>5. state = "stopping" /\ OneWaker(events, stack) /\ Resting(stack, ops, posted)
  BY <1>1, <1>3, <1>4, BodyOver DEF Woken, Phase
<1>6. NoWaker(events, s2) /\ Resting(s2, ops, posted)
  BY <1>1, <1>3, <1>5, BodyOver
<1>7. NoneIn(ops', "rtimer")
  BY <1>2 DEF NoneIn, ReconnectWait
<1>8. Aborted(C) \in Seq(WorkType) /\ NoneAt(posted, "rtimer")
  BY <1>1, <1>6, AbortedLists DEF Resting
<1>9. CASE NoneIn(ops, "rtimer")
  <2>1. NoneIn(C, "rtimer")
    BY <1>9 DEF NoneIn, ReconnectWait
  <2>2. NoneAt(Aborted(C), "rtimer")
    BY <1>1, <2>1, AbortedAt DEF Cancellable
  <2>3. NoneAt(posted', "rtimer")
    BY <1>1, <1>2, <1>8, <2>2, ConcatAt
  <2>4. NoFrame(s2, {"rtimer2"}) \/ OneFrame(s2, {"rtimer2"})
    BY <1>6 DEF Resting
  <2>5. QED
    BY <1>6, <1>7, <2>3, <2>4 DEF Phase, Resting
<1>10. CASE OneIn(ops, "rtimer", "forever") /\ NoFrame(s2, {"rtimer2"})
  <2>1. OneIn(C, "rtimer", "forever")
    BY <1>10 DEF OneIn, ReconnectWait
  <2>2. OneAt(Aborted(C), "rtimer", "forever")
    BY <1>1, <2>1, AbortedAt DEF Cancellable
  <2>3. OneAt(posted', "rtimer", "forever")
    BY <1>1, <1>2, <1>8, <2>2, ConcatAt
  <2>4. Timed(s2, ops', posted')
    BY <1>7, <1>10, <2>3 DEF Timed
  <2>5. QED
    BY <1>5, <1>6, <2>4 DEF Phase
<1>11. QED
  BY <1>6, <1>9, <1>10 DEF Resting

LEMMA WokenStopBody ==
  ASSUME IInv, BegunNow, WokenNow, StopBody
  PROVE  WokenNow'
<1>1. /\ ~Idle /\ Top.k = "event" /\ Head(events).k = "stop"
      /\ Closing(state, events) /\ UNCHANGED events /\ rCanceled' = TRUE
  BY DEF StopBody, RunsEvent, WokenNow, Woken
<1>2. 1 \in DOMAIN events /\ events[1].k = "stop" /\ \A i \in DOMAIN events : ~(i < 1)
  <2>1. 1 \in DOMAIN events /\ Head(events) = events[1]
    BY <1>1, ReleasedAlike, BodyOver
  <2>2. DOMAIN events = 1 .. Len(events) /\ Len(events) \in Nat
    BY IInvParts, LenProperties DEF StrandTypes
  <2>3. QED
    BY <1>1, <2>1, <2>2
<1>3. \A i \in DOMAIN events : events[i].k # "disconnect"
  BY <1>1, <1>2 DEF Closing
<1>4. Closing(state', events')
  BY <1>1, <1>3 DEF Closing
<1>5. QED
  BY <1>1, <1>4 DEF WokenNow, Woken

LEMMA WokenSendBody ==
  ASSUME IInv, WokenNow, SendBody
  PROVE  WokenNow'
<1> DEFINE o == Op("write", 0, Head(events).p)
           h == Completion(o, "err")
<1>1. /\ ~Idle /\ Top.k = "event" /\ Top.k \in Guard /\ Head(events).k = "send" /\ StrandTypes
      /\ posted \in Seq(WorkType) /\ Woken(state, rCanceled, events, stack, ops, posted)
  BY IInvParts DEF SendBody, RunsEvent, StrandTypes, Guard, WokenNow
<1>2. Woken(state, rCanceled, events, Below, ops, posted)
  BY <1>1, ReleasedAlike, WokenBodyOver
<1>3. o \in OpType /\ o.k = "write"
  <2>1. Head(events).p \in Data
    BY <1>1, TopFrame, EventParts
  <2>2. o.k = "write"
    BY DEF Op
  <2>3. QED
    BY <2>1, <2>2, OpTypes
<1> HIDE DEF o
<1>4. h \in WorkType /\ h.k = "write"
  BY <1>3, CompletionType, CompletionOp DEF Codes
<1> HIDE DEF h
<1>5. Outstanding(posted, {}, {o}) \/ (posted' = Append(posted, h) /\ UNCHANGED ops)
  BY DEF SendBody, o, h
<1>6. Woken(state, rCanceled, events, Below, ops, Append(posted, h))
  BY <1>1, <1>2, <1>4, WokenPost
<1>7. ASSUME Outstanding(posted, {}, {o})
      PROVE  Woken(state, rCanceled, events, Below, ops', posted')
  <2>1. NoneIn({o}, "rtimer") /\ NoneIn({}, "rtimer")
    BY <1>3 DEF NoneIn
  <2>2. QED
    BY <1>1, <1>2, <1>7, <2>1, WokenOutstanding
<1>8. QED
  BY <1>5, <1>6, <1>7 DEF SendBody, WokenNow, timers

-----------------------------------------------------------------------------
(* The guard is destroyed: the events but the first, then the chain's.     *)

ChainEvent(ev) == IF ev.q = "stop" THEN StopEvent ELSE WakeEvent

LEMMA ReleaseEvents ==
  ASSUME IInv, ReleaseGuard
  PROVE  /\ Len(events) \in Nat /\ DOMAIN events = 1 .. Len(events)
         /\ 1 \in DOMAIN events /\ Head(events) = events[1]
         /\ \A i \in DOMAIN events' :
              \/ i + 1 \in DOMAIN events /\ i + 1 # 1 /\ events'[i] = events[i + 1] /\ i < Len(events)
              \/ /\ i = Len(events) /\ Head(events).k = "disconnect"
                 /\ events'[i] = ChainEvent(Head(events))
         /\ \A i \in DOMAIN events : i # 1 => i - 1 \in DOMAIN events' /\ events'[i - 1] = events[i]
         /\ Head(events).k = "disconnect" =>
              Len(events) \in DOMAIN events' /\ events'[Len(events)] = ChainEvent(Head(events))
         /\ NoFrame(stack, {"event"}) /\ stack' \in Stacks
         /\ events' # <<>> => ~NoFrame(stack', {"event"})
         /\ NoFrame(stack', {"rtimer2"}) <=> NoFrame(stack, {"rtimer2"})
         /\ OneFrame(stack', {"rtimer2"}) <=> OneFrame(stack, {"rtimer2"})
         /\ \A i \in DOMAIN events' : i \in Nat
<1> DEFINE e == ChainEvent(Head(events))
           chain == IF Head(events).k # "disconnect" THEN <<>> ELSE <<e>>
           all == events \o chain
           rest == Tail(all)
           n == Len(events)
<1>1. /\ ~Idle /\ Top.k = "release" /\ Top.k \in Guard /\ events \in Seq(QueueType)
  BY IInvParts DEF ReleaseGuard, Guard, StrandTypes
<1>2. /\ Below \in Seq(FrameType) /\ Below \in Stacks /\ Top \in FrameType /\ stack = Append(Below, Top)
      /\ events # <<>> /\ NoFrame(Below, Guard)
  BY <1>1, TopFrame DEF Stacks
<1>3. events' = rest /\ stack' = IF rest = <<>> THEN Below ELSE Append(Below, Body)
  BY DEF ReleaseGuard, ChainEvent
<1>4. e \in QueueType /\ chain \in Seq(QueueType)
  <2>1. e \in QueueType
    BY EventTypes DEF ChainEvent
  <2> HIDE DEF e
  <2>2. <<e>> \in Seq(QueueType) /\ <<>> \in Seq(QueueType)
    BY <2>1, EmptySeq
  <2>3. QED
    BY <2>1, <2>2
<1>5. /\ n \in Nat /\ n # 0 /\ DOMAIN events = 1 .. n /\ Head(events) = events[1] /\ 1 \in DOMAIN events
  <2>1. n \in Nat /\ n # 0 /\ DOMAIN events = 1 .. n
    BY <1>1, <1>2, LenProperties, EmptySeq
  <2>2. QED
    BY <2>1
<1> DEFINE m == Len(chain)
           b == Head(events).k = "disconnect"
<1>6. (b => m = 1 /\ chain[1] = e) /\ (~b => m = 0)
  OBVIOUS
<1> HIDE DEF e, b, chain
<1>7. /\ all \in Seq(QueueType) /\ Len(all) = n + m
      /\ \A i \in 1 .. n + m : all[i] = IF i <= n THEN events[i] ELSE chain[i - n]
  BY <1>1, <1>4, ConcatProperties
<1>8. all # <<>>
  BY <1>1, <1>2, <1>4, ConcatEqualIffEmpty
<1> HIDE DEF all, n, m
<1>9. /\ rest \in Seq(QueueType) /\ Len(rest) = (n + m) - 1
      /\ \A i \in 1 .. Len(rest) : rest[i] = all[i + 1]
  BY <1>7, <1>8, HeadTailProperties
<1>10. DOMAIN rest = 1 .. ((n + m) - 1)
  BY <1>9, LenProperties
<1> HIDE DEF rest
<1>11. m \in Nat /\ (m = 0 \/ m = 1)
  BY <1>6
<1>12. \A i \in DOMAIN rest : rest[i] = IF i + 1 <= n THEN events[i + 1] ELSE chain[(i + 1) - n]
  BY <1>5, <1>7, <1>9, <1>10, <1>11
<1>13. \A i \in DOMAIN rest :
         \/ i + 1 \in DOMAIN events /\ i + 1 # 1 /\ i + 1 <= n /\ i < n
         \/ ~(i + 1 <= n) /\ m = 1 /\ i = n /\ (i + 1) - n = 1
  BY <1>5, <1>10, <1>11
<1>14. \A i \in DOMAIN rest :
         \/ i + 1 \in DOMAIN events /\ i + 1 # 1 /\ rest[i] = events[i + 1] /\ i < n
         \/ i = n /\ b /\ rest[i] = e
  BY <1>6, <1>12, <1>13
<1>15. \A i \in DOMAIN events : i # 1 => i - 1 \in DOMAIN rest /\ rest[i - 1] = events[i]
  <2>1. \A i \in DOMAIN events : i # 1 => i - 1 \in DOMAIN rest /\ (i - 1) + 1 = i /\ i <= n
    BY <1>5, <1>10, <1>11
  <2>2. QED
    BY <1>12, <2>1
<1>16. b => n \in DOMAIN rest /\ rest[n] = e
  <2>1. b => n \in DOMAIN rest /\ ~(n + 1 <= n) /\ (n + 1) - n = 1
    BY <1>5, <1>6, <1>10
  <2>2. QED
    BY <1>6, <1>12, <2>1
<1>17. \A K : /\ NoFrame(stack, K) <=> (NoFrame(Below, K) /\ Top.k \notin K)
              /\ OneFrame(stack, K) <=> (\/ (OneFrame(Below, K) /\ Top.k \notin K)
                                        \/ (NoFrame(Below, K) /\ Top.k \in K))
  BY <1>2, FramePush
<1>18. \A K : /\ NoFrame(Append(Below, Body), K) <=> (NoFrame(Below, K) /\ Body.k \notin K)
              /\ OneFrame(Append(Below, Body), K) <=> (\/ (OneFrame(Below, K) /\ Body.k \notin K)
                                                      \/ (NoFrame(Below, K) /\ Body.k \in K))
  BY <1>2, FrameTypes, FramePush
<1>19. NoFrame(Below, {"event"}) /\ Top.k \notin {"event"} /\ Top.k \notin {"rtimer2"}
       /\ Body.k \in {"event"} /\ Body.k \notin {"rtimer2"}
  BY <1>1, <1>2, FrameTypes DEF NoFrame, Guard
<1>20. /\ NoFrame(stack, {"event"})
       /\ rest # <<>> => ~NoFrame(stack', {"event"})
       /\ NoFrame(stack', {"rtimer2"}) <=> NoFrame(stack, {"rtimer2"})
       /\ OneFrame(stack', {"rtimer2"}) <=> OneFrame(stack, {"rtimer2"})
  <2>1. CASE rest = <<>>
    <3>1. stack' = Below
      BY <1>3, <2>1
    <3>2. QED
      BY <1>17, <1>19, <2>1, <3>1
  <2>2. CASE rest # <<>>
    <3>1. stack' = Append(Below, Body)
      BY <1>3, <2>2
    <3>2. QED
      BY <1>17, <1>18, <1>19, <3>1
  <2>3. QED
    BY <2>1, <2>2
<1>21. stack' \in Stacks
  <2>1. Append(Below, Body) \in Stacks
    BY <1>2, FrameTypes, StackPush
  <2>2. QED
    BY <1>2, <1>3, <2>1
<1>22. \A i \in DOMAIN rest : i \in Nat
  BY <1>5, <1>10, <1>11
<1>23. QED
  BY <1>22, <1>3, <1>5, <1>14, <1>15, <1>16, <1>20, <1>21 DEF e, b, n

LEMMA WokenReleaseGuard ==
  ASSUME IInv, BegunNow, WokenNow, ReleaseGuard
  PROVE  WokenNow'
<1> DEFINE n == Len(events)
           e == ChainEvent(Head(events))
           b == Head(events).k = "disconnect"
<1>1. /\ n \in Nat /\ DOMAIN events = 1 .. n
      /\ 1 \in DOMAIN events /\ Head(events) = events[1]
      /\ \A i \in DOMAIN events' :
           \/ i + 1 \in DOMAIN events /\ i + 1 # 1 /\ events'[i] = events[i + 1] /\ i < n
           \/ i = n /\ b /\ events'[i] = e
      /\ \A i \in DOMAIN events : i # 1 => i - 1 \in DOMAIN events' /\ events'[i - 1] = events[i]
      /\ b => n \in DOMAIN events' /\ events'[n] = e
      /\ NoFrame(stack, {"event"})
      /\ events' # <<>> => ~NoFrame(stack', {"event"})
      /\ \A i \in DOMAIN events' : i \in Nat
  BY ReleaseEvents
<1>2. /\ e = StopEvent \/ e = WakeEvent
      /\ e.k \in {"stop", "wake"} /\ e.k # "disconnect"
      /\ e.k = "stop" <=> Head(events).q = "stop"
  BY DEF ChainEvent, StopEvent, WakeEvent
<1>3. /\ UNCHANGED <<state, rCanceled, ops, posted>> /\ Closing(state, events)
      /\ Woken(state, rCanceled, events, stack, ops, posted)
      /\ Begun(state, rRunning, rCanceled, events, stack, ops, posted)
  BY DEF ReleaseGuard, WokenNow, Woken, BegunNow, timers
<1>4. Closing(state, events')
  <2> HIDE DEF n, e, b
  <2>1. \A i \in DOMAIN events' : events'[i].k = "disconnect" =>
          i + 1 \in DOMAIN events /\ events[i + 1].k = "disconnect" /\ i < n
    BY <1>1, <1>2
  <2>2. \A i \in DOMAIN events' : events'[i].k = "stop" =>
          i = n \/ (i + 1 \in DOMAIN events /\ events[i + 1].k = "stop")
    BY <1>1
  <2>3. \A i, j \in DOMAIN events' : i \in Int /\ j \in Int
    BY <1>1
  <2>4. \A i, j \in DOMAIN events' : /\ i + 1 = j + 1 => i = j
                                     /\ i + 1 < j + 1 => i < j
    BY <2>3
  <2>5. QED
    BY <1>3, <2>1, <2>2, <2>4 DEF Closing
<1>5. SUFFICES ASSUME ~rCanceled PROVE Phase(state, events', stack', ops, posted)
  BY <1>3, <1>4 DEF Woken, WokenNow
<1>6. /\ Resting(stack, ops, posted) <=> Resting(stack', ops, posted)
      /\ Timed(stack, ops, posted) <=> Timed(stack', ops, posted)
  BY ReleaseEvents DEF Resting, Timed
<1>7. \A i \in DOMAIN events' : i + 1 \in DOMAIN events /\ i + 1 # 1 /\ events'[i] = events[i + 1] =>
        (Waker(events', stack', i) <=> Waker(events, stack, i + 1))
  <2>1. \A i \in DOMAIN events' : ~NoFrame(stack', {"event"})
    BY <1>1
  <2>2. QED
    BY <2>1 DEF Waker
<1> HIDE DEF n
<1>8. CASE ~b
  <2>1. ~Waker(events, stack, 1)
    BY <1>1, <1>8 DEF Waker
  <2>2. \A i \in DOMAIN events' : /\ i + 1 \in DOMAIN events
                                  /\ Waker(events', stack', i) <=> Waker(events, stack, i + 1)
    BY <1>1, <1>7, <1>8
  <2>3. NoWaker(events, stack) => NoWaker(events', stack')
    BY <2>2 DEF NoWaker
  <2>4. ASSUME OneWaker(events, stack) PROVE OneWaker(events', stack')
    <3>1. PICK i \in DOMAIN events : /\ Waker(events, stack, i)
                                     /\ \A j \in DOMAIN events : Waker(events, stack, j) => j = i
      BY <2>4 DEF OneWaker
    <3>2. i # 1 /\ i - 1 \in DOMAIN events' /\ (i - 1) + 1 = i
      BY <1>1, <2>1, <3>1
    <3>3. Waker(events', stack', i - 1)
      BY <2>2, <3>1, <3>2
    <3>4. \A j \in DOMAIN events' : Waker(events', stack', j) => j + 1 = i
      BY <2>2, <3>1
    <3>5. \A j \in DOMAIN events' : j + 1 = i => j = i - 1
      BY <1>1, <3>1
    <3>7. QED
      BY <3>2, <3>3, <3>4, <3>5 DEF OneWaker
  <2>5. QED
    BY <1>3, <1>5, <1>6, <2>3, <2>4 DEF Woken, Phase
<1>9. CASE b
  <2>1. Waker(events, stack, 1)
    BY <1>1, <1>9 DEF Waker, Wakers
  <2>2. state = "stopping" /\ OneWaker(events, stack) /\ Resting(stack, ops, posted)
    BY <1>1, <1>3, <1>5, <2>1 DEF Woken, Phase, NoWaker
  <2>3. \A i \in DOMAIN events : i # 1 => ~Waker(events, stack, i)
    BY <1>1, <2>1, <2>2 DEF OneWaker
  <2>4. e.k = "wake"
    <3>1. ~Stops(events[1])
      BY <1>1, <1>3, <1>5 DEF Begun, Told
    <3>2. QED
      BY <1>1, <1>2, <1>9, <3>1 DEF Stops
  <2>5. n \in DOMAIN events' /\ Waker(events', stack', n)
    <3>1. n \in DOMAIN events' /\ events'[n] = e /\ ~NoFrame(stack', {"event"})
      BY <1>1, <1>9
    <3>2. QED
      BY <2>4, <3>1 DEF Waker, Wakers
  <2>6. \A i \in DOMAIN events' : Waker(events', stack', i) => i = n
    BY <1>1, <1>7, <2>3
  <2>7. OneWaker(events', stack')
    BY <2>5, <2>6 DEF OneWaker
  <2>8. QED
    BY <1>6, <2>2, <2>7 DEF Phase
<1>10. QED
  BY <1>8, <1>9

-----------------------------------------------------------------------------
(* The rest of handlers.                                                   *)

LEMMA WokenPop ==
  ASSUME IInv, ~Idle, Top.k \notin {"event", "rtimer2"}, NEW st, NEW rC, NEW S, NEW q,
         Woken(st, rC, events, stack, S, q)
  PROVE  Woken(st, rC, events, Below, S, q)
BY AlikePop, WokenAlike

LEMMA WokenHandleDisconnect ==
  ASSUME IInv, WokenNow, HandleDisconnect
  PROVE  WokenNow'
<1>1. /\ ~Idle /\ Top.k \notin {"event", "rtimer2"} /\ StrandTypes /\ posted \in Seq(WorkType)
      /\ SocketOps \subseteq ops /\ NoneIn(SocketOps, "rtimer") /\ NoneIn({}, "rtimer")
  BY IInvParts DEF HandleDisconnect, StrandTypes, SocketOps, NoneIn
<1>2. Woken(state, rCanceled, events, Below, ops, posted)
  BY <1>1, WokenPop DEF WokenNow
<1>3. Outstanding(posted, SocketOps, {})
  BY DEF HandleDisconnect
<1>4. Woken(state, rCanceled, events, Below, ops', posted')
  BY <1>1, <1>2, <1>3, WokenOutstanding
<1>5. QED
  BY <1>4 DEF HandleDisconnect, WokenNow, timers

LEMMA WokenStates ==
  ASSUME NEW rC, NEW es, NEW stk, NEW S, NEW q, Woken("starting", rC, es, stk, S, q)
  PROVE  Woken("started", rC, es, stk, S, q)
BY DEF Woken, Phase, Closing

LEMMA WokenDone ==
  ASSUME IInv, NEW ec \in Codes, NEW P \in Seq(WorkType), NEW stk \in Stacks,
         DoneConnect(ec, P, stk), Woken(state, rCanceled, events, stk, ops, P)
  PROVE  WokenNow'
<1> DEFINE ec1 == IF cFlag THEN "timed_out" ELSE ec
           ec2 == IF ec1 = "ok" /\ state # "starting" THEN "aborted" ELSE ec1
           f == Frame("done2", ec2)
<1>1. f \in FrameType /\ f.k \notin {"event", "rtimer2", "start2"}
  BY FrameTypes DEF Codes
<1>2. StrandTypes /\ ConnectWait \subseteq ops /\ NoneIn(ConnectWait, "rtimer") /\ NoneIn({}, "rtimer")
  BY IInvParts DEF ConnectWait, NoneIn
<1>3. Outstanding(P, ConnectWait, {}) /\ UNCHANGED <<rCanceled, events>>
  BY DEF DoneConnect
<1>4. Woken(state, rCanceled, events, stk, ops', posted')
  BY <1>2, <1>3, WokenOutstanding
<1>5. state' = state \/ (state = "starting" /\ state' = "started")
  BY DEF DoneConnect
<1>6. Woken(state', rCanceled, events, stk, ops', posted')
  BY <1>4, <1>5, WokenStates
<1>7. stack' = stk \/ stack' = stk \o <<f, User>>
  BY DEF DoneConnect
<1> HIDE DEF f
<1>8. Alike(stk, stk \o <<f, User>>)
  BY <1>1, AlikePushTwo
<1>9. Woken(state', rCanceled, events, stk \o <<f, User>>, ops', posted')
  BY <1>6, <1>8, WokenAlike
<1>10. QED
  BY <1>3, <1>6, <1>7, <1>9 DEF WokenNow

LEMMA WokenPostConnect ==
  ASSUME IInv, Idle, NEW n \in 0 .. Endpoints, NEW P \in Seq(WorkType), PostConnect(n, P),
         Woken(state, rCanceled, events, <<>>, ops, P)
  PROVE  WokenNow'
<1>1. StrandTypes /\ ops \subseteq OpType /\ IsFiniteSet(ops)
  BY IInvParts DEF StrandTypes
<1>2. CASE n = 0
  <2>1. DoneConnect("err", P, <<>>) /\ "err" \in Codes
    BY <1>2 DEF PostConnect, Codes
  <2>2. QED
    BY <2>1, EmptyStack, WokenDone
<1>3. CASE n # 0
  <2> DEFINE o == Op("connect", n - 1, "-")
  <2>1. o \in OpType /\ o.k = "connect"
    <3>1. n - 1 \in 0 .. Endpoints
      BY <1>3, BoundsAssumption
    <3>2. QED
      BY <3>1 DEF Op, OpType, AttemptOps
  <2>2. UNCHANGED <<state, rCanceled, stack, events>>
    BY <1>3 DEF PostConnect, timers
  <2>3. \/ Outstanding(P, {}, {o})
        \/ posted' = Append(P, Completion(o, "err")) /\ UNCHANGED ops
    BY <1>3 DEF PostConnect
  <2> HIDE DEF o
  <2>4. Completion(o, "err") \in WorkType /\ Completion(o, "err").k = "connect"
    BY <2>1, CompletionType, CompletionOp DEF Codes
  <2>5. Woken(state, rCanceled, events, <<>>, ops', posted')
    <3>1. ASSUME Outstanding(P, {}, {o})
          PROVE  Woken(state, rCanceled, events, <<>>, ops', posted')
      <4>1. NoneIn({o}, "rtimer") /\ NoneIn({}, "rtimer") /\ {} \subseteq ops
        BY <2>1 DEF NoneIn
      <4>2. QED
        BY <1>1, <3>1, <4>1, WokenOutstanding
    <3>2. Woken(state, rCanceled, events, <<>>, ops, Append(P, Completion(o, "err")))
      BY <2>4, WokenPost
    <3>3. QED
      BY <2>3, <3>1, <3>2
  <2>6. QED
    BY <2>2, <2>5 DEF WokenNow, Idle
<1>4. QED
  BY <1>2, <1>3

LEMMA WokenStartConnect2 ==
  ASSUME IInv, WokenNow, StartConnect2
  PROVE  WokenNow'
<1>1. /\ ~Idle /\ Top.k = "start2" /\ Top.k \notin {"event", "rtimer2"} /\ StrandTypes
      /\ posted \in Seq(WorkType) /\ ConnectWait \subseteq ops /\ NoneIn(ConnectWait, "rtimer")
  BY IInvParts DEF StartConnect2, StrandTypes, ConnectWait, NoneIn
<1>2. /\ Below \in Stacks /\ Below # <<>> /\ Last(Below).k = "release" /\ Below \in Seq(FrameType)
  BY <1>1, TopFrame DEF Stacks
<1>3. Woken(state, rCanceled, events, Below, ops, posted)
  BY <1>1, WokenPop DEF WokenNow
<1>4. CASE DoneConnect("err", posted, Below) /\ UNCHANGED sock
  <2>1. "err" \in Codes
    BY DEF Codes
  <2>2. QED
    BY <1>1, <1>2, <1>3, <1>4, <2>1, WokenDone
<1>5. CASE /\ cErr' = "ok" /\ cFlag' = FALSE
           /\ Outstanding(posted, ConnectWait, {Op("ctimer", 0, Top.x), Op("resolve", 0, "-")})
           /\ stack' = Append(Front(Below), Release)
           /\ UNCHANGED <<state, sock, rRunning, rCanceled, events, note>>
  <2> DEFINE N == {Op("ctimer", 0, Top.x), Op("resolve", 0, "-")}
             s1 == Front(Below)
             f == Last(Below)
  <2>1. NoneIn(N, "rtimer")
    BY DEF NoneIn, Op
  <2>2. Outstanding(posted, ConnectWait, N)
    BY <1>5
  <2> HIDE DEF N
  <2>3. Woken(state, rCanceled, events, Below, ops', posted')
    BY <1>1, <1>3, <2>1, <2>2, WokenOutstanding
  <2>4. /\ s1 \in Stacks /\ f \in FrameType /\ f.k = "release" /\ Below = Append(s1, f)
        /\ stack' = Append(s1, Release)
    BY <1>2, <1>5, StackPop
  <2> HIDE DEF s1, f
  <2>5. Alike(s1, Append(s1, f)) /\ Alike(s1, Append(s1, Release))
    BY <2>4, FrameTypes, AlikePush
  <2>6. Alike(Below, stack')
    BY <2>4, <2>5 DEF Alike
  <2>7. Woken(state, rCanceled, events, stack', ops', posted')
    BY <2>3, <2>6, WokenAlike
  <2>8. QED
    BY <1>5, <2>7 DEF WokenNow
<1>6. QED
  BY <1>4, <1>5 DEF StartConnect2

LEMMA WokenDisconnectBelow ==
  ASSUME IInv, BegunNow, WokenNow, ~Idle, Top.k \notin Guard \cup {"rtimer2"},
         DoDisconnect("wake", Below), UNCHANGED <<rRunning, rCanceled, ops, posted>>
  PROVE  WokenNow'
<1>1. StrandTypes /\ state \in States /\ rCanceled \in BOOLEAN
  BY IInvParts DEF ValueTypes
<1>2. Below \in Stacks
  BY TopFrame
<1>3. Begun(state, rRunning, rCanceled, events, Below, ops, posted)
  BY BegunPop DEF BegunNow
<1>4. Woken(state, rCanceled, events, Below, ops, posted)
  BY WokenPop DEF WokenNow, Guard
<1>5. Woken(state', rCanceled, events', stack', ops, posted)
  BY <1>1, <1>2, <1>3, <1>4, WokenDisconnect
<1>6. QED
  BY <1>5 DEF WokenNow

LEMMA WokenPostRecv ==
  ASSUME IInv, WokenNow, ~Idle, Top.k \notin {"event", "rtimer2"}, PostRecv(posted), stack' = Below,
         UNCHANGED <<state, rCanceled, events>>
  PROVE  WokenNow'
<1> DEFINE N == IF IsStarted THEN {Op("recv", 0, "-")} ELSE {}
<1>1. StrandTypes /\ posted \in Seq(WorkType) /\ {} \subseteq ops
  BY IInvParts DEF StrandTypes
<1>2. Outstanding(posted, {}, N)
  BY DEF PostRecv
<1>3. Woken(state, rCanceled, events, Below, ops, posted)
  BY WokenPop DEF WokenNow
<1>4. NoneIn(N, "rtimer") /\ NoneIn({}, "rtimer")
  BY DEF NoneIn, Op
<1> HIDE DEF N
<1>5. Woken(state, rCanceled, events, Below, ops', posted')
  BY <1>1, <1>2, <1>3, <1>4, WokenOutstanding
<1>6. QED
  BY <1>5 DEF WokenNow

LEMMA WokenAfterCallbacks ==
  ASSUME IInv, BegunNow, WokenNow, \/ DoneConnect2 \/ HandleRecv2 \/ HandleSend2 \/ Stop2 \/ CallbackReturns
  PROVE  WokenNow'
<1>1. ASSUME ~Idle, Top.k \notin {"event", "rtimer2"}, stack' = Below,
             UNCHANGED <<state, rCanceled, ops, posted, events>>
      PROVE  WokenNow'
  BY <1>1, WokenPop DEF WokenNow
<1>2. CASE DoneConnect2
  <2>1. /\ ~Idle /\ Top.k \notin Guard \cup {"rtimer2"} /\ Top.k \notin {"event", "rtimer2"}
        /\ UNCHANGED <<rRunning, rCanceled>>
    BY <1>2 DEF DoneConnect2, Guard, timers
  <2>2. \/ PostRecv(posted) /\ stack' = Below /\ UNCHANGED <<state, events>>
        \/ DoDisconnect("wake", Below) /\ UNCHANGED <<ops, posted>>
    BY <1>2 DEF DoneConnect2
  <2>3. QED
    BY <2>1, <2>2, WokenPostRecv, WokenDisconnectBelow
<1>3. CASE HandleRecv2
  BY <1>3, WokenPostRecv DEF HandleRecv2, timers
<1>4. CASE HandleSend2
  <2>1. /\ ~Idle /\ Top.k \notin Guard \cup {"rtimer2"} /\ Top.k \notin {"event", "rtimer2"}
        /\ UNCHANGED <<rRunning, rCanceled, ops, posted>>
    BY <1>4 DEF HandleSend2, Guard, timers
  <2>2. \/ DoDisconnect("wake", Below)
        \/ stack' = Below /\ UNCHANGED <<state, events>>
    BY <1>4 DEF HandleSend2
  <2>3. QED
    BY <1>1, <2>1, <2>2, WokenDisconnectBelow
<1>5. CASE Stop2 \/ CallbackReturns
  BY <1>1, <1>5, FrameTypes DEF Stop2, CallbackReturns, timers
<1>6. QED
  BY <1>2, <1>3, <1>4, <1>5

LEMMA WokenReconnectTimer2 ==
  ASSUME IInv, WokenNow, ReconnectTimer2
  PROVE  WokenNow'
<1> DEFINE o == Op("rtimer", 0, "forever")
           C == ReconnectWait
<1>1. /\ ~Idle /\ Top.k = "rtimer2" /\ StrandTypes /\ posted \in Seq(WorkType)
      /\ C \subseteq OpType /\ IsFiniteSet(C) /\ Woken(state, rCanceled, events, stack, ops, posted)
  BY IInvParts, FS_Subset DEF ReconnectTimer2, StrandTypes, ReconnectWait, WokenNow
<1>2. /\ Below \in Seq(FrameType) /\ Top \in FrameType /\ stack = Append(Below, Top)
  BY <1>1, TopFrame DEF Stacks
<1>3. o.k = "rtimer" /\ o.x = "forever"
  BY DEF Op
<1>4. /\ ops' = (ops \ C) \cup {o} /\ posted' = posted \o Aborted(C) /\ stack' = Below
      /\ UNCHANGED <<state, rCanceled, events>>
  BY DEF ReconnectTimer2, timers, Outstanding
<1> HIDE DEF o, C
<1>5. SUFFICES ASSUME ~rCanceled PROVE Phase(state, events, Below, ops', posted')
  BY <1>1, <1>4 DEF Woken, WokenNow
<1>6. \A K : /\ NoFrame(stack, K) <=> (NoFrame(Below, K) /\ Top.k \notin K)
             /\ OneFrame(stack, K) <=> (\/ (OneFrame(Below, K) /\ Top.k \notin K)
                                       \/ (NoFrame(Below, K) /\ Top.k \in K))
  BY <1>2, FramePush
<1>7. ~NoFrame(stack, {"rtimer2"}) /\ Top.k \in {"rtimer2"} /\ Top.k \notin {"event"}
  BY <1>1, <1>6
<1>8. /\ Resting(stack, ops, posted) /\ ~Timed(stack, ops, posted)
      /\ NoneIn(ops, "rtimer") /\ NoneAt(posted, "rtimer") /\ OneFrame(stack, {"rtimer2"})
  BY <1>1, <1>5, <1>7 DEF Woken, Phase, Resting, Timed
<1>9. NoFrame(Below, {"rtimer2"})
  BY <1>6, <1>7, <1>8
<1>10. NoneIn(C, "rtimer") /\ C = {}
  BY <1>8 DEF NoneIn, ReconnectWait, C
<1>11. OneIn(ops', "rtimer", "forever")
  BY <1>3, <1>4, <1>8, <1>10 DEF NoneIn, OneIn
<1>12. NoneAt(posted', "rtimer")
  BY <1>1, <1>4, <1>8, <1>10, AbortedNone, ConcatEmptySeq
<1>13. Resting(Below, ops', posted')
  BY <1>9, <1>11, <1>12 DEF Resting
<1>14. NoFrame(stack, {"event"}) <=> NoFrame(Below, {"event"})
  BY <1>6, <1>7
<1>15. \A i : Waker(events, stack, i) <=> Waker(events, Below, i)
  BY <1>14 DEF Waker
<1>16. (NoWaker(events, stack) => NoWaker(events, Below)) /\ (OneWaker(events, stack) => OneWaker(events, Below))
  BY <1>15 DEF NoWaker, OneWaker
<1>17. QED
  BY <1>1, <1>5, <1>8, <1>13, <1>16 DEF Woken, Phase

-----------------------------------------------------------------------------
(* The handlers of the strand.                                             *)

LEMMA WokenNext ==
  ASSUME IInv, BegunNow, WokenNow, NEW k, Runs(k), k # "rtimer"
  PROVE  Woken(state, rCanceled, events, <<>>, ops, Rest)
<1>1. posted \in Seq(WorkType) /\ posted # <<>> /\ Done.k = k /\ stack = <<>>
  BY BegunNext
<1>2. Woken(state, rCanceled, events, <<>>, ops, posted)
  BY <1>1 DEF WokenNow
<1>3. QED
  BY <1>1, <1>2, WokenTail DEF Done, Rest

LEMMA WokenRunPush ==
  ASSUME IInv, BegunNow, WokenNow, RunPush
  PROVE  WokenNow'
<1>1. /\ Done \in WorkType /\ Done.k = "push" /\ ~PushesCall(Done) /\ events \in Seq(QueueType)
      /\ Woken(state, rCanceled, events, <<>>, ops, Rest)
  BY BegunNext, WokenNext DEF RunPush, StrandTypes
<1> DEFINE ev == Done.ev
<1>2. ev \in QueueType /\ ev.k = "send"
  BY <1>1 DEF PushesCall, WorkType, HandlerType, QueueType
<1>3. Emplace(ev, <<>>) /\ posted' = Rest /\ UNCHANGED <<state, rCanceled, ops>>
  BY DEF RunPush, timers
<1> HIDE DEF ev
<1>4. ev.k \notin Wakers
  BY <1>2 DEF Wakers
<1>5. Woken(state, rCanceled, events', stack', ops, Rest)
  BY <1>1, <1>2, <1>3, <1>4, EmptyStack, WokenEmplace
<1>6. QED
  BY <1>3, <1>5 DEF WokenNow

LEMMA WokenRunStop ==
  ASSUME IInv, BegunNow, WokenNow, RunStop
  PROVE  WokenNow'
<1>1. /\ Rest \in Seq(WorkType) /\ Begun(state, rRunning, rCanceled, events, <<>>, ops, Rest)
      /\ Woken(state, rCanceled, events, <<>>, ops, Rest)
  BY BegunNext, WokenNext DEF RunStop
<1>2. StopOnStrand(Rest, <<>>)
  BY DEF RunStop
<1>3. QED
  BY <1>1, <1>2, EmptyStack, WokenStops

LEMMA WokenHandleResolve ==
  ASSUME IInv, BegunNow, WokenNow, HandleResolve
  PROVE  WokenNow'
<1>1. Idle /\ Rest \in Seq(WorkType) /\ Woken(state, rCanceled, events, <<>>, ops, Rest)
  BY BegunNext, WokenNext DEF HandleResolve
<1>2. CASE \E n \in 1 .. Endpoints : PostConnect(n, Rest)
  <2>1. PICK n \in 1 .. Endpoints : PostConnect(n, Rest)
    BY <1>2
  <2>2. n \in 0 .. Endpoints
    BY BoundsAssumption
  <2>3. QED
    BY <1>1, <2>1, <2>2, WokenPostConnect
<1>3. CASE DoneConnect("err", Rest, <<>>)
  <2>1. "err" \in Codes
    BY DEF Codes
  <2>2. QED
    BY <1>1, <1>3, <2>1, EmptyStack, WokenDone
<1>4. QED
  BY <1>2, <1>3 DEF HandleResolve

LEMMA WokenHandleConnect ==
  ASSUME IInv, BegunNow, WokenNow, HandleConnect
  PROVE  WokenNow'
<1>1. /\ Idle /\ Rest \in Seq(WorkType) /\ Woken(state, rCanceled, events, <<>>, ops, Rest)
      /\ Done \in WorkType
  BY BegunNext, WokenNext DEF HandleConnect
<1>2. Done.op.n \in 0 .. Endpoints /\ Done.ec \in Codes
  BY <1>1 DEF WorkType, HandlerType, OpType
<1>3. PostConnect(Done.op.n, Rest) \/ DoneConnect(Done.ec, Rest, <<>>)
  BY DEF HandleConnect
<1>4. QED
  BY <1>1, <1>2, <1>3, EmptyStack, WokenPostConnect, WokenDone

LEMMA WokenHandleRecv ==
  ASSUME IInv, BegunNow, WokenNow, HandleRecv
  PROVE  WokenNow'
<1>1. /\ StrandTypes /\ state \in States /\ rCanceled \in BOOLEAN
      /\ Begun(state, rRunning, rCanceled, events, <<>>, ops, Rest)
      /\ Woken(state, rCanceled, events, <<>>, ops, Rest)
  BY BegunNext, WokenNext DEF HandleRecv, ValueTypes
<1>2. posted' = Rest /\ UNCHANGED <<rRunning, rCanceled, ops>>
  BY DEF HandleRecv, timers
<1>3. CASE stack' = <<Frame("recv2", "-"), User>> /\ UNCHANGED <<state, events>>
  <2> DEFINE f == Frame("recv2", "-")
  <2>1. f \in FrameType /\ f.k = "recv2"
    BY FrameTypes
  <2>2. stack' = <<>> \o <<f, User>>
    BY <1>3
  <2> HIDE DEF f
  <2>3. Alike(<<>>, <<>> \o <<f, User>>)
    BY <2>1, EmptyStack, AlikePushTwo
  <2>4. Woken(state, rCanceled, events, <<>> \o <<f, User>>, ops, Rest)
    BY <1>1, <2>3, WokenAlike
  <2>5. QED
    BY <1>2, <1>3, <2>2, <2>4 DEF WokenNow
<1>4. CASE DoDisconnect("wake", <<>>)
  <2>1. Woken(state', rCanceled, events', stack', ops, Rest)
    BY <1>1, <1>4, EmptyStack, WokenDisconnect
  <2>2. QED
    BY <1>2, <2>1 DEF WokenNow
<1>5. QED
  BY <1>3, <1>4 DEF HandleRecv

\* While a write waits to be handled its message is the first event.
LEMMA WritesFirst ==
  ASSUME IInv, Runs("write")
  PROVE  Head(events).k = "send" /\ events # <<>>
<1>1. Guarded(<<>>, events, ops, posted) /\ posted \in Seq(WorkType) /\ posted # <<>> /\ Done.k = "write"
  BY NextHandler
<1>2. ~NoneOf(ops, posted, "write")
  BY <1>1, TailAt DEF NoneOf, Done
<1>3. QED
  BY <1>1, <1>2 DEF Guarded, SendEvent

LEMMA WokenHandleSend ==
  ASSUME IInv, BegunNow, WokenNow, HandleSend
  PROVE  WokenNow'
<1>1. /\ Woken(state, rCanceled, events, <<>>, ops, Rest) /\ Done \in WorkType
  BY BegunNext, WokenNext DEF HandleSend
<1>2. posted' = Rest /\ UNCHANGED <<state, rCanceled, ops, events>>
  BY DEF HandleSend, timers
<1> DEFINE f == Frame("sent2", Done.ec)
           s1 == Append(<<>>, Release)
<1>3. f \in FrameType /\ f.k = "sent2"
  BY <1>1, FrameTypes DEF WorkType, HandlerType
<1>4. stack' = s1 \o <<f, User>>
  BY DEF HandleSend
<1>5. s1 \in Stacks /\ Alike(<<>>, s1)
  BY EmptyStack, StackPush, AlikePush, FrameTypes
<1> HIDE DEF f, s1
<1>6. Alike(s1, s1 \o <<f, User>>)
  BY <1>3, <1>5, AlikePushTwo
<1>7. Alike(<<>>, s1 \o <<f, User>>)
  BY <1>5, <1>6 DEF Alike
<1>8. Woken(state, rCanceled, events, s1 \o <<f, User>>, ops, Rest)
  BY <1>1, <1>7, WokenAlike
<1>9. QED
  BY <1>2, <1>4, <1>8 DEF WokenNow

LEMMA WokenHandleRefused ==
  ASSUME IInv, BegunNow, WokenNow, HandleRefused
  PROVE  WokenNow'
<1>1. Woken(state, rCanceled, events, <<>>, ops, Rest)
  BY WokenNext DEF HandleRefused
<1>2. stack' = Append(<<>>, User) /\ posted' = Rest /\ UNCHANGED <<state, rCanceled, ops, events>>
  BY DEF HandleRefused, timers
<1>3. Alike(<<>>, Append(<<>>, User))
  BY EmptyStack, FrameTypes, AlikePush
<1>4. Woken(state, rCanceled, events, Append(<<>>, User), ops, Rest)
  BY <1>1, <1>3, WokenAlike
<1>5. QED
  BY <1>2, <1>4 DEF WokenNow

LEMMA WokenHandleConnectTimer ==
  ASSUME IInv, BegunNow, WokenNow, HandleConnectTimer
  PROVE  WokenNow'
<1>1. /\ Woken(state, rCanceled, events, <<>>, ops, Rest) /\ StrandTypes
      /\ Rest \in Seq(WorkType) /\ SocketOps \subseteq ops /\ stack = <<>>
      /\ NoneIn(SocketOps, "rtimer") /\ NoneIn({}, "rtimer")
  BY BegunNext, WokenNext DEF HandleConnectTimer, SocketOps, NoneIn
<1>2. /\ Outstanding(Rest, SocketOps, {}) \/ (posted' = Rest /\ UNCHANGED ops)
      /\ UNCHANGED <<state, rCanceled, stack, events>>
  BY DEF HandleConnectTimer
<1>3. ASSUME Outstanding(Rest, SocketOps, {})
      PROVE  Woken(state, rCanceled, events, <<>>, ops', posted')
  BY <1>1, <1>3, WokenOutstanding
<1>4. QED
  BY <1>1, <1>2, <1>3 DEF WokenNow

LEMMA WokenHandleReconnectTimer ==
  ASSUME IInv, BegunNow, WokenNow, HandleReconnectTimer
  PROVE  WokenNow'
<1>1. /\ posted \in Seq(WorkType) /\ posted # <<>> /\ Rest \in Seq(WorkType) /\ stack = <<>>
      /\ Done.k = "rtimer" /\ StrandTypes
      /\ Woken(state, rCanceled, events, <<>>, ops, posted)
  BY BegunNext DEF HandleReconnectTimer, WokenNow
<1>2. UNCHANGED <<state, rCanceled>>
  BY DEF HandleReconnectTimer
<1>3. CASE rCanceled /\ UNCHANGED events
  BY <1>1, <1>2, <1>3 DEF Woken, WokenNow
<1>4. ASSUME ~rCanceled
      PROVE  /\ state = "stopping" /\ NoWaker(events, <<>>) /\ Closing(state, events)
             /\ NoneIn(ops, "rtimer") /\ NoneAt(Rest, "rtimer")
  <2>1. ~NoneAt(posted, "rtimer")
    BY <1>1, TailAt DEF Done
  <2>2. state = "stopping" /\ NoWaker(events, <<>>) /\ Timed(<<>>, ops, posted) /\ Closing(state, events)
    BY <1>1, <1>4, <2>1 DEF Woken, Phase, Resting
  <2>3. NoneIn(ops, "rtimer") /\ \E x : OneAt(posted, "rtimer", x)
    BY <2>1, <2>2 DEF Timed
  <2>4. NoneAt(Rest, "rtimer")
    BY <1>1, <2>3, TailAt DEF Done, Rest
  <2>5. QED
    BY <2>2, <2>3, <2>4
<1>5. CASE /\ ~rCanceled /\ Outstanding(Rest, ReconnectWait, {Op("rtimer", 0, "delay")})
           /\ UNCHANGED <<stack, events>>
  <2> DEFINE o == Op("rtimer", 0, "delay")
  <2>1. o.k = "rtimer" /\ o.x = "delay"
    BY DEF Op
  <2> HIDE DEF o
  <2>2. ReconnectWait = {}
    BY <1>4, <1>5 DEF NoneIn, ReconnectWait
  <2>3. ops' = ops \cup {o} /\ posted' = Rest
    BY <1>1, <1>5, <2>2, AbortedNone, ConcatEmptySeq DEF Outstanding, o
  <2>4. OneIn(ops', "rtimer", "delay")
    BY <1>4, <1>5, <2>1, <2>3 DEF NoneIn, OneIn
  <2>5. Timed(<<>>, ops', posted')
    BY <1>4, <1>5, <2>3, <2>4, NoFrameEmpty DEF Timed
  <2>6. QED
    BY <1>1, <1>2, <1>4, <1>5, <2>5 DEF Woken, Phase, WokenNow
<1>6. CASE /\ ~rCanceled /\ posted' = Rest /\ Emplace(ReconnectEvent, <<Frame("rtimer2", "-")>>)
           /\ UNCHANGED ops
  <2> DEFINE f == Frame("rtimer2", "-")
             s1 == <<f>>
  <2>1. f \in FrameType /\ f.k = "rtimer2" /\ Append(<<>>, f) = s1
    BY FrameTypes
  <2>2. Emplace(ReconnectEvent, s1)
    BY <1>6
  <2> HIDE DEF f
  <2>3. OneFrame(s1, {"rtimer2"}) /\ (NoFrame(s1, {"event"}) <=> NoFrame(<<>>, {"event"}))
    BY <2>1, NoFrameEmpty DEF OneFrame, NoFrame
  <2>4. s1 \in Stacks
    BY <2>1, EmptyStack, StackPush
  <2>5. ReconnectEvent \in QueueType /\ ReconnectEvent.k = "reconnect" /\ events \in Seq(QueueType)
    BY <1>1, EventTypes DEF ReconnectEvent, StrandTypes
  <2> HIDE DEF s1
  <2>6. NoWaker(events, s1)
    BY <1>4, <1>6, <2>3 DEF NoWaker, Waker
  <2>7. OneWaker(events', stack')
    BY <2>2, <2>4, <2>5, <2>6, EmplaceWakers DEF Wakers
  <2>8. Resting(s1, ops, Rest)
    BY <1>4, <1>6, <2>3 DEF Resting
  <2>9. Resting(stack', ops, Rest)
    BY <2>2, <2>4, <2>5, <2>8, EmplaceClock
  <2>10. Closing(state, events')
    BY <1>4, <1>6, <2>2, <2>4, <2>5, EmplaceClosing
  <2>11. QED
    BY <1>2, <1>4, <1>6, <2>7, <2>9, <2>10 DEF Woken, Phase, WokenNow
<1>7. QED
  BY <1>3, <1>5, <1>6 DEF HandleReconnectTimer

LEMMA WokenCallbackStops ==
  ASSUME IInv, BegunNow, WokenNow, CallbackStops
  PROVE  WokenNow'
<1> DEFINE f == Frame("stop2", "-")
           st == Append(stack, f)
<1>1. stack \in Stacks /\ posted \in Seq(WorkType)
  BY IInvParts DEF StrandTypes
<1>2. f \in FrameType /\ f.k = "stop2"
  BY FrameTypes
<1>3. StopOnStrand(posted, st)
  BY DEF CallbackStops
<1> HIDE DEF f
<1>4. st \in Stacks /\ Begun(state, rRunning, rCanceled, events, st, ops, posted) /\ Alike(stack, st)
  BY <1>1, <1>2, StackPush, BegunPush, AlikePush DEF Guard, BegunNow
<1> HIDE DEF st
<1>5. Woken(state, rCanceled, events, st, ops, posted)
  BY <1>4, WokenAlike DEF WokenNow
<1>6. QED
  BY <1>1, <1>3, <1>4, <1>5, WokenStops

LEMMA WokenCallbackSends ==
  ASSUME IInv, WokenNow, NEW d \in Data, CallbackSends(d)
  PROVE  WokenNow'
<1>1. /\ stack \in Stacks /\ events \in Seq(QueueType)
      /\ Woken(state, rCanceled, events, stack, ops, posted)
  BY IInvParts DEF StrandTypes, WokenNow
<1>2. UNCHANGED <<state, rCanceled, ops, posted>>
  BY DEF CallbackSends, timers
<1>3. CASE IsStarted
  <2> DEFINE ev == SendEvent(d)
  <2>1. ev \in QueueType /\ ev.k \notin Wakers
    BY EventTypes DEF SendEvent, Wakers
  <2>2. Emplace(ev, stack)
    BY <1>3 DEF CallbackSends
  <2> HIDE DEF ev
  <2>3. Woken(state, rCanceled, events', stack', ops, posted)
    BY <1>1, <2>1, <2>2, WokenEmplace
  <2>4. QED
    BY <1>2, <2>3 DEF WokenNow
<1>4. CASE ~IsStarted
  <2>1. stack' = Append(stack, User) /\ UNCHANGED events
    BY <1>4 DEF CallbackSends
  <2>2. Alike(stack, Append(stack, User))
    BY <1>1, FrameTypes, AlikePush
  <2>3. Woken(state, rCanceled, events, Append(stack, User), ops, posted)
    BY <1>1, <2>2, WokenAlike
  <2>4. QED
    BY <1>2, <2>1, <2>3 DEF WokenNow
<1>5. QED
  BY <1>3, <1>4

LEMMA WokenPosts ==
  ASSUME IInv, WokenNow, NEW h \in WorkType, h.k # "rtimer", posted' = Append(posted, h),
         UNCHANGED <<state, rCanceled, events, stack, ops>>
  PROVE  WokenNow'
<1>1. posted \in Seq(WorkType)
  BY IInvParts DEF StrandTypes
<1>2. Woken(state, rCanceled, events, stack, ops, Append(posted, h))
  BY <1>1, WokenPost DEF WokenNow
<1>3. QED
  BY <1>2 DEF WokenNow

\* What the application's thread posts.
LEMMA CallsPosted ==
  ASSUME (\E d \in Data : AppSends(d)) \/ AppStops
  PROVE  \E h \in WorkType : /\ h.k \in {"push", "refused", "stop"} /\ posted' = Append(posted, h)
                             /\ h.k = "push" => h.ev.k = "send" /\ IsStarted
                             /\ ~h.op.old
                             /\ UNCHANGED <<state, sock, timers, events, stack, ops, note>>
<1>1. ASSUME NEW d \in Data, AppSends(d)
      PROVE  \E h \in WorkType : /\ h.k \in {"push", "refused", "stop"} /\ posted' = Append(posted, h)
                                 /\ h.k = "push" => h.ev.k = "send" /\ IsStarted
                                 /\ ~h.op.old
                                 /\ UNCHANGED <<state, sock, timers, events, stack, ops, note>>
  <2> DEFINE h == Handler(IF IsStarted THEN "push" ELSE "refused", SendEvent(d))
  <2>1. h \in WorkType
    BY EventTypes, HandlerTypes
  <2>2. /\ h.k \in {"push", "refused", "stop"} /\ (h.k = "push" => h.ev.k = "send" /\ IsStarted)
        /\ ~h.op.old
    BY DEF Handler, SendEvent, Op
  <2>3. posted' = Append(posted, h) /\ UNCHANGED <<state, sock, timers, events, stack, ops, note>>
    BY <1>1 DEF AppSends
  <2> HIDE DEF h
  <2>4. QED
    BY <2>1, <2>2, <2>3
<1>2. ASSUME AppStops
      PROVE  \E h \in WorkType : /\ h.k \in {"push", "refused", "stop"} /\ posted' = Append(posted, h)
                                 /\ h.k = "push" => h.ev.k = "send" /\ IsStarted
                                 /\ ~h.op.old
                                 /\ UNCHANGED <<state, sock, timers, events, stack, ops, note>>
  <2> DEFINE h == Handler("stop", NoEvent)
  <2>1. h \in WorkType
    BY HandlerTypes
  <2>2. h.k = "stop" /\ ~h.op.old
    BY DEF Handler, Op
  <2>3. posted' = Append(posted, h) /\ UNCHANGED <<state, sock, timers, events, stack, ops, note>>
    BY <1>2 DEF AppStops
  <2> HIDE DEF h
  <2>4. QED
    BY <2>1, <2>2, <2>3
<1>3. QED
  BY <1>1, <1>2

LEMMA WokenAppCalls ==
  ASSUME IInv, WokenNow, (\E d \in Data : AppSends(d)) \/ AppStops
  PROVE  WokenNow'
<1>1. PICK h \in WorkType : /\ h.k \in {"push", "refused", "stop"} /\ posted' = Append(posted, h)
                            /\ UNCHANGED <<state, sock, timers, events, stack, ops, note>>
  BY CallsPosted
<1>2. UNCHANGED <<state, rCanceled, events, stack, ops>> /\ h.k # "rtimer"
  BY <1>1 DEF timers
<1>3. QED
  BY <1>1, <1>2, WokenPosts

\* Of the reconnect timer only the delay ends by itself.
LEMMA WokenEnds ==
  ASSUME IInv, WokenNow, NEW o \in ops, o.k # "none", NEW ec \in Codes, Ends(o, ec),
         o.k = "rtimer" => o.x = "delay"
  PROVE  WokenNow'
<1> DEFINE h == Completion(o, ec)
<1>1. posted \in Seq(WorkType) /\ ops \subseteq OpType
  BY IInvParts DEF StrandTypes
<1>2. h \in WorkType /\ h.k = o.k
  BY <1>1, CompletionType, CompletionOp
<1>3. /\ ops' = ops \ {o} /\ posted' = Append(posted, h)
      /\ UNCHANGED <<state, rCanceled, events, stack>>
  BY DEF Ends, timers
<1> HIDE DEF h
<1>4. CASE o.k # "rtimer"
  <2>1. /\ NoneIn(ops, "rtimer") => NoneIn(ops', "rtimer")
        /\ \A x : OneIn(ops, "rtimer", x) => OneIn(ops', "rtimer", x)
    BY <1>3, <1>4 DEF NoneIn, OneIn
  <2>2. /\ NoneAt(posted, "rtimer") => NoneAt(posted', "rtimer")
        /\ \A x : OneAt(posted, "rtimer", x) => OneAt(posted', "rtimer", x)
    BY <1>1, <1>2, <1>3, <1>4, AppendAt
  <2>3. ClockKept(stack, ops, posted, ops', posted')
    BY <2>1, <2>2 DEF ClockKept, Resting, Timed
  <2>4. Woken(state, rCanceled, events, stack, ops', posted')
    BY <2>3, WokenClock DEF WokenNow
  <2>5. QED
    BY <1>3, <2>4 DEF WokenNow
<1>5. CASE o.k = "rtimer"
  <2>1. SUFFICES ASSUME ~rCanceled PROVE Phase(state, events, stack, ops', posted')
    BY <1>3 DEF WokenNow, Woken
  <2>2. o.x = "delay"
    BY <1>5
  <2>3. ~Resting(stack, ops, posted)
    <3>1. ~NoneIn(ops, "rtimer")
      BY <1>5 DEF NoneIn
    <3>2. ~OneIn(ops, "rtimer", "forever")
      BY <1>5, <2>2 DEF OneIn
    <3>3. QED
      BY <3>1, <3>2 DEF Resting
  <2>4. state = "stopping" /\ NoWaker(events, stack) /\ Timed(stack, ops, posted)
    BY <2>1, <2>3 DEF WokenNow, Woken, Phase
  <2>5. NoneAt(posted, "rtimer") /\ OneIn(ops, "rtimer", "delay")
    BY <1>5, <2>4 DEF Timed, NoneIn
  <2>6. NoneIn(ops', "rtimer")
    BY <1>3, <1>5, <2>5 DEF NoneIn, OneIn
  <2>7. OneAt(posted', "rtimer", h.op.x)
    BY <1>1, <1>2, <1>3, <1>5, <2>5, AppendAt
  <2>8. Timed(stack, ops', posted')
    BY <2>4, <2>6, <2>7 DEF Timed
  <2>9. QED
    BY <2>4, <2>8 DEF Phase
<1>6. QED
  BY <1>4, <1>5

-----------------------------------------------------------------------------
(* From the connect event on, and before it.                               *)

LEMMA NoSecondConnect ==
  ASSUME IInv, BegunNow
  PROVE  ~ConnectBody
<1>1. SUFFICES ASSUME ConnectBody PROVE FALSE
  OBVIOUS
<1>2. ~Idle /\ Top.k = "event" /\ Top.k \in Guard /\ Head(events).k = "connect"
  BY <1>1 DEF ConnectBody, RunsEvent, Guard
<1>3. /\ events # <<>> /\ Below \in Seq(FrameType) /\ Top \in FrameType /\ stack = Append(Below, Top)
  BY <1>2, TopFrame DEF Stacks
<1>4. ~NoFrame(stack, {"event"})
  BY <1>2, <1>3, FramePush
<1>5. QED
  BY <1>2, <1>3, <1>4 DEF BegunNow, Begun, Connected

LEMMA WorldEnds ==
  ASSUME World
  PROVE  \E o \in ops, ec \in Codes : /\ o.k # "none" /\ Ends(o, ec)
                                      /\ o.k = "rtimer" => o.x = "delay"
                                      /\ ec \in {"ok", "err"}
                                      /\ sock' = sock \/ (o.k = "connect" /\ sock' = "connected")
BY DEF World, ResolveEnds, ConnectEnds, RecvEnds, WriteEnds, ConnectTimerExpires,
       ReconnectTimerExpires, ConnectWait, ReconnectWait, Codes

LEMMA WokenStep ==
  ASSUME IInv, BegunNow, WokenNow, [Next]_vars, starts' = starts
  PROVE  WokenNow'
<1>1. ~ConnectBody
  BY NoSecondConnect
<1>2. CASE StrandWork
  BY <1>1, <1>2, WokenReconnectBody, WokenDisconnectBody, WokenHandleDisconnect,
     WokenWakeBody, WokenStopBody, WokenSendBody, WokenReleaseGuard, WokenStartConnect2,
     WokenAfterCallbacks, WokenReconnectTimer2, WokenRunPush, WokenRunStop, WokenHandleResolve,
     WokenHandleConnect, WokenHandleRecv, WokenHandleSend, WokenHandleRefused,
     WokenHandleConnectTimer, WokenHandleReconnectTimer DEF StrandWork
<1>3. CASE Calls
  <2>1. ~CallbackStarts /\ \A sync : ~AppStarts(sync)
    BY NoStart
  <2>2. QED
    BY <1>3, <2>1, WokenCallbackStops, WokenCallbackSends, WokenAppCalls DEF Calls
<1>4. CASE AppReturns \/ UNCHANGED vars
  <2>1. UNCHANGED <<state, rCanceled, ops, posted, stack, events>>
    BY <1>4 DEF AppReturns, AppStarted, AppStopsPool, AppStopped, timers, strand, vars
  <2>2. QED
    BY <2>1 DEF WokenNow
<1>5. CASE World
  BY <1>5, WorldEnds, WokenEnds
<1>6. QED
  BY <1>2, <1>3, <1>4, <1>5 DEF Next, StrandStep

\* What a client that has not begun leaves out.
LEMMA FreshLeaves ==
  ASSUME IInv, FreshNow
  PROVE  /\ state = "stopped" /\ ops = {} /\ NoFrame(stack, LaterFrames) /\ Early(posted)
         /\ \A k \in Cancellable \cup {"resolve"} : NoneIn(ops, k) /\ NoneAt(posted, k)
         /\ \A i \in DOMAIN events : events[i].k \in {"stop", "connect"}
<1>1. Fresh(state, rRunning, events, stack, ops, posted) /\ events \in Seq(QueueType)
  BY IInvParts DEF FreshNow, StrandTypes
<1>2. \A k \in Cancellable \cup {"resolve"} : NoneIn(ops, k) /\ NoneAt(posted, k)
  BY <1>1 DEF Fresh, Early, IsEarly, Cancellable, NoneIn, NoneAt
<1>3. \A i \in DOMAIN events : events[i].k \in {"stop", "connect"}
  <2>1. SUFFICES ASSUME NEW i \in DOMAIN events PROVE events[i].k \in {"stop", "connect"}
    OBVIOUS
  <2>2. /\ events # <<>> /\ DOMAIN events = 1 .. Len(events) /\ Len(events) \in Nat
        /\ Len(Tail(events)) = Len(events) - 1 /\ Tail(events) \in Seq(QueueType)
    BY <1>1, HeadTailProperties, LenProperties, EmptySeq
  <2>3. Tail(events) = <<>> /\ Head(events).k \in {"stop", "connect"}
    BY <1>1, <2>2 DEF Fresh
  <2>4. Len(Tail(events)) = 0
    BY <2>2, <2>3, EmptySeq
  <2>5. i = 1
    <3> DEFINE m == Len(events)
               n == Len(Tail(events))
    <3>1. n = m - 1 /\ m \in Nat /\ n = 0 /\ i \in 1 .. m
      BY <2>2, <2>4
    <3> HIDE DEF m, n
    <3>2. QED
      BY <3>1
  <2>6. QED
    BY <2>3, <2>5
<1>4. QED
  BY <1>1, <1>2, <1>3 DEF Fresh

LEMMA FreshWoken ==
  ASSUME IInv, FreshNow
  PROVE  WokenNow
<1>1. NoWaker(events, stack) /\ Closing(state, events)
  BY FreshLeaves DEF NoWaker, Waker, Wakers, Closing
<1>2. NoFrame(stack, {"rtimer2"})
  BY FreshLeaves DEF NoFrame, LaterFrames
<1>3. Resting(stack, ops, posted)
  BY <1>2, FreshLeaves DEF Resting, Cancellable
<1>4. QED
  BY <1>1, <1>3 DEF WokenNow, Woken, Phase

\* What the first attempt of a client that was stopped begins with.
LEMMA FreshConnects ==
  ASSUME IInv, FreshNow, ConnectBody
  PROVE  \E sync \in {"sync", "async"} :
           /\ StartConnect(sync, Below, {Op("rtimer", 0, "forever")})
           /\ UNCHANGED <<events, note>> /\ rCanceled' = FALSE /\ state' = "starting"
           /\ posted' = OldSeq(posted) /\ ops' = {Op("rtimer", 0, "forever")}
           /\ stack' = Below \o <<Frame("release", sync), Frame("start2", sync), User>>
<1>1. /\ ~Idle /\ Top.k = "event" /\ Top.k \in Guard /\ Head(events).k = "connect"
      /\ posted \in Seq(WorkType)
  BY IInvParts DEF ConnectBody, RunsEvent, Guard, StrandTypes
<1>2. Head(events) \in QueueType
  BY <1>1, TopFrame
<1>3. /\ state = "stopped" /\ ~rRunning /\ ops = {}
  BY <1>1, FreshSteps
<1> DEFINE sync == Head(events).p
           N == {Op("rtimer", 0, "forever")}
<1>4. sync \in {"sync", "async"}
  BY <1>1, <1>2, EventParts
<1>5. StartConnect(sync, Below, N) /\ rCanceled' = FALSE /\ UNCHANGED <<events, note>>
  BY <1>3 DEF ConnectBody
<1> HIDE DEF N
<1>6. SocketOps = {} /\ posted \o Aborted(SocketOps) = posted
  <2>1. SocketOps = {}
    BY <1>3 DEF SocketOps
  <2>2. QED
    BY <1>1, <2>1, AbortedNone, ConcatEmptySeq
<1>7. posted' = OldSeq(posted)
  BY <1>5, <1>6 DEF StartConnect, OldSeq, OldOp
<1>8. ops' = N
  BY <1>3, <1>5 DEF StartConnect
<1>9. /\ state' = "starting"
      /\ stack' = Below \o <<Frame("release", sync), Frame("start2", sync), User>>
  BY <1>5 DEF StartConnect
<1>10. QED
  BY <1>4, <1>5, <1>7, <1>8, <1>9 DEF N

LEMMA WokenConnectBody ==
  ASSUME IInv, FreshNow, ConnectBody
  PROVE  WokenNow'
<1>1. PICK sync \in {"sync", "async"} :
           /\ UNCHANGED events /\ state' = "starting"
           /\ posted' = OldSeq(posted) /\ ops' = {Op("rtimer", 0, "forever")}
           /\ stack' = Below \o <<Frame("release", sync), Frame("start2", sync), User>>
  BY FreshConnects
<1>2. Below \in Stacks /\ posted \in Seq(WorkType) /\ Below \in Seq(FrameType)
  BY TopFrame, IInvParts DEF ConnectBody, RunsEvent, StrandTypes, Stacks
<1>3. NoFrame(stack', {"rtimer2"})
  <2>1. NoFrame(Below, {"rtimer2"})
    <3>1. NoFrame(Below, LaterFrames)
      BY FreshSteps DEF ConnectBody, RunsEvent
    <3>2. QED
      BY <3>1 DEF NoFrame, LaterFrames
  <2>2. QED
    BY <1>1, <1>2, <2>1, StartFrames
<1>4. NoneAt(posted', "rtimer")
  BY <1>1, <1>2, FreshLeaves, OldAt DEF Cancellable
<1>5. OneIn(ops', "rtimer", "forever")
  BY <1>1 DEF OneIn, Op
<1>6. Resting(stack', ops', posted')
  BY <1>3, <1>4, <1>5 DEF Resting
<1>7. NoWaker(events', stack') /\ Closing(state', events')
  BY <1>1, FreshLeaves DEF NoWaker, Waker, Wakers, Closing
<1>8. QED
  BY <1>6, <1>7 DEF WokenNow, Woken, Phase

LEMMA WokenKeeps == IInv /\ OneLife /\ IInv' /\ WokenNow /\ [Next]_vars /\ [StartsAtRest]_vars => WokenNow'
<1>1. SUFFICES ASSUME IInv, OneLife, IInv', WokenNow, [Next]_vars, [StartsAtRest]_vars PROVE WokenNow'
  OBVIOUS
<1>2. CASE FreshNow
  <2>1. CASE ConnectBody
    BY <1>1, <1>2, <2>1, WokenConnectBody
  <2>2. CASE ~ConnectBody
    <3>1. FreshNow'
      BY <1>1, <1>2, <2>2, OneLifeCases, FreshKeeps
    <3>2. IInv' /\ FreshNow' => WokenNow'
      BY FreshWoken, PTL
    <3>3. QED
      BY <1>1, <3>1, <3>2
  <2>3. QED
    BY <2>1, <2>2
<1>3. CASE BegunNow /\ starts' = starts
  BY <1>1, <1>3, WokenStep
<1>4. QED
  BY <1>1, <1>2, <1>3, OneLifeCases

LEMMA WokenInit == Init => WokenNow
<1>1. SUFFICES ASSUME Init PROVE WokenNow
  OBVIOUS
<1>2. IInv
  BY <1>1, IInvInit
<1>3. FreshNow
  <2>1. OneLife /\ starts = 0
    BY <1>1, OneLifeInit DEF Init
  <2>2. QED
    BY <2>1 DEF OneLife
<1>4. QED
  BY <1>2, <1>3, FreshWoken

\* One event or timer at a time wakes a client between two attempts, whatever
\* its callbacks and its application do (reconnect_timer_cp.hpp:111-176).
THEOREM WokenInvariant == Spec /\ [][StartsAtRest]_vars => []WokenNow
<1>1. Init => WokenNow
  BY WokenInit
<1>2. IInv /\ OneLife /\ IInv' /\ WokenNow /\ [Next]_vars /\ [StartsAtRest]_vars => WokenNow'
  BY WokenKeeps
<1>3. QED
  BY <1>1, <1>2, InductiveInvariant, OneLifeInvariant, PTL DEF Spec

\* When the body of a disconnect event of a client that is started only at
\* rest runs, the client is stopping: what disconnect_cp.hpp:149 asserts.
THEOREM DisconnectHolds == Spec /\ [][StartsAtRest]_vars => []DisconnectExpected
<1>1. ASSUME IInv, WokenNow, RunsEvent("disconnect") PROVE state = "stopping"
  <2>1. Closing(state, events)
    BY <1>1 DEF WokenNow, Woken
  <2>2. 1 \in DOMAIN events /\ events[1].k = "disconnect"
    BY <1>1, ReleasedAlike, BodyOver DEF RunsEvent
  <2>3. QED
    BY <2>1, <2>2 DEF Closing
<1>2. IInv /\ WokenNow => DisconnectExpected
  BY <1>1 DEF DisconnectExpected
<1>3. QED
  BY <1>2, InductiveInvariant, WokenInvariant, PTL

-----------------------------------------------------------------------------
(* The frames that hold the guard of the first event back, however often    *)
(* the client is started.                                                  *)

\* They sit directly on the frame that will destroy it.
Held == {"sent2", "disc2"}
Seated(stk) == \A i \in DOMAIN stk : stk[i].k \in Held => i # 1 /\ stk[i - 1].k = "release"

\* The callback of a message runs while its event is the first.
Sending(es, stk) == ~NoFrame(stk, {"sent2"}) => es # <<>> /\ Head(es).k = "send"

\* A completion is named after its operation; a call is of no attempt.
CallKinds == {"push", "stop", "refused"}
IsNamed(h) == (h.op.k \in AttemptOps => h.k = h.op.k) /\ (h.k \in CallKinds => ~h.op.old)
Named(q) == \A i \in DOMAIN q : IsNamed(q[i])

SeatedNow == Seated(stack) /\ Sending(events, stack) /\ Named(posted)

LEMMA SeatedPush ==
  ASSUME NEW st \in Stacks, NEW f \in FrameType, Seated(st),
         f.k \in Held => st # <<>> /\ Last(st).k = "release"
  PROVE  Seated(Append(st, f))
<1> DEFINE t == Append(st, f)
           n == Len(st)
<1>1. st \in Seq(FrameType)
  BY DEF Stacks
<1>2. /\ n \in Nat /\ DOMAIN st = 1 .. n /\ DOMAIN t = 1 .. (n + 1)
      /\ \A i \in 1 .. n : t[i] = st[i]
      /\ t[n + 1] = f
  BY <1>1, Appended
<1>3. st # <<>> => n \in 1 .. n /\ Last(st) = st[n]
  BY <1>1, <1>2, EmptySeq DEF Last
<1>4. \A i \in 1 .. (n + 1) : i \in 1 .. n \/ i = n + 1
  BY <1>2
<1>5. \A i \in 1 .. n : i # 1 => i - 1 \in 1 .. n
  BY <1>2
<1> HIDE DEF t, n
<1>6. SUFFICES ASSUME NEW i \in 1 .. (n + 1), t[i].k \in Held PROVE i # 1 /\ t[i - 1].k = "release"
  BY <1>2 DEF Seated, t
<1>7. CASE i \in 1 .. n
  <2>1. i # 1 /\ st[i - 1].k = "release"
    BY <1>2, <1>6, <1>7 DEF Seated
  <2>2. QED
    BY <1>2, <1>5, <1>7, <2>1
<1>8. CASE i = n + 1
  <2>1. st # <<>> /\ Last(st).k = "release"
    BY <1>2, <1>6, <1>8
  <2>2. n \in 1 .. n /\ st[n].k = "release"
    BY <1>3, <2>1
  <2>3. i # 1 /\ i - 1 = n
    BY <1>2, <1>8, <2>2
  <2>4. QED
    BY <1>2, <2>2, <2>3
<1>9. QED
  BY <1>4, <1>7, <1>8

LEMMA SeatedPop ==
  ASSUME NEW st \in Stacks, st # <<>>, Seated(st)
  PROVE  Seated(Front(st))
<1> DEFINE t == Front(st)
           n == Len(t)
<1>1. st \in Seq(FrameType) /\ t \in Seq(FrameType) /\ Last(st) \in FrameType /\ st = Append(t, Last(st))
  BY StackPop DEF Stacks
<1>2. n \in Nat /\ DOMAIN t = 1 .. n
  BY <1>1, LenProperties
<1>3. DOMAIN st = 1 .. (n + 1) /\ \A i \in 1 .. n : st[i] = t[i]
  BY <1>1, Appended
<1>4. \A i \in 1 .. n : i \in 1 .. (n + 1) /\ (i # 1 => i - 1 \in 1 .. n)
  BY <1>2
<1> HIDE DEF t, n
<1>5. SUFFICES ASSUME NEW i \in 1 .. n, t[i].k \in Held PROVE i # 1 /\ t[i - 1].k = "release"
  BY <1>2 DEF Seated, t
<1>6. i # 1 /\ st[i - 1].k = "release"
  BY <1>3, <1>4, <1>5 DEF Seated
<1>7. QED
  BY <1>3, <1>4, <1>6

\* While the frame of the guard is the innermost, it holds nothing back.
LEMMA GuardOnTop ==
  ASSUME IInv, ~Idle, Top.k \in Guard, Seated(stack)
  PROVE  NoFrame(stack, Held)
<1> DEFINE n == Len(Below)
<1>1. Below \in Seq(FrameType) /\ Top \in FrameType /\ stack = Append(Below, Top) /\ NoFrame(Below, Guard)
  BY TopFrame DEF Stacks
<1>2. n \in Nat /\ DOMAIN Below = 1 .. n
  BY <1>1, LenProperties
<1>3. DOMAIN stack = 1 .. (n + 1) /\ (\A i \in 1 .. n : stack[i] = Below[i]) /\ stack[n + 1] = Top
  BY <1>1, Appended
<1>4. \A i \in 1 .. (n + 1) : (i # n + 1 => i \in 1 .. n) /\ (i # 1 => i - 1 \in 1 .. n)
  BY <1>2
<1> HIDE DEF n
<1>5. SUFFICES ASSUME NEW i \in 1 .. (n + 1), stack[i].k \in Held PROVE FALSE
  BY <1>3 DEF NoFrame
<1>6. i # 1 /\ stack[i - 1].k = "release"
  BY <1>3, <1>5 DEF Seated
<1>7. i - 1 \in 1 .. n /\ Below[i - 1].k = "release"
  BY <1>3, <1>4, <1>6
<1>8. QED
  BY <1>1, <1>2, <1>7 DEF NoFrame, Guard

\* What pushing plain frames and popping any keeps.
Steady(s1, s2) ==
  /\ Seated(s1) => Seated(s2)
  /\ NoFrame(s1, {"sent2"}) => NoFrame(s2, {"sent2"})

LEMMA SteadyPush ==
  ASSUME NEW st \in Stacks, NEW f \in FrameType, f.k \notin Held
  PROVE  Steady(st, Append(st, f))
<1>1. st \in Seq(FrameType)
  BY DEF Stacks
<1>2. \A K : NoFrame(Append(st, f), K) <=> (NoFrame(st, K) /\ f.k \notin K)
  BY <1>1, FramePush
<1>3. f.k \notin {"sent2"}
  BY DEF Held
<1>4. QED
  BY <1>2, <1>3, SeatedPush DEF Steady

LEMMA SteadyPop ==
  ASSUME NEW st \in Stacks, st # <<>>
  PROVE  Steady(st, Front(st))
<1>1. Front(st) \in Seq(FrameType) /\ Last(st) \in FrameType /\ st = Append(Front(st), Last(st))
  BY StackPop DEF Stacks
<1>2. \A K : NoFrame(Append(Front(st), Last(st)), K) <=> (NoFrame(Front(st), K) /\ Last(st).k \notin K)
  BY <1>1, FramePush
<1>3. NoFrame(st, {"sent2"}) => NoFrame(Front(st), {"sent2"})
  BY <1>1, <1>2
<1>4. QED
  BY <1>3, SeatedPop DEF Steady

LEMMA SteadyTwice ==
  ASSUME NEW s1, NEW s2, NEW s3, Steady(s1, s2), Steady(s2, s3)
  PROVE  Steady(s1, s3)
BY DEF Steady

LEMMA SteadyPushTwo ==
  ASSUME NEW st \in Stacks, NEW f \in FrameType, f.k \notin Held \cup {"start2"}
  PROVE  Steady(st, st \o <<f, User>>)
<1> DEFINE s2 == Append(st, f)
<1>1. s2 \in Stacks /\ Steady(st, s2)
  BY StackPush, SteadyPush
<1>2. st \o <<f, User>> = Append(s2, User)
  BY Chain, FrameTypes DEF Stacks
<1> HIDE DEF s2
<1>3. Steady(s2, Append(s2, User))
  BY <1>1, FrameTypes, SteadyPush DEF Held
<1>4. QED
  BY <1>1, <1>2, <1>3, SteadyTwice

LEMMA SteadyStart ==
  ASSUME NEW st \in Stacks, NEW sync \in {"sync", "async"}
  PROVE  Steady(st, st \o <<Frame("release", sync), Frame("start2", sync), User>>)
<1> DEFINE f == Frame("release", sync)
           g == Frame("start2", sync)
           s1 == Append(st, f)
           s2 == Append(s1, g)
<1>1. /\ f \in FrameType /\ f.k = "release" /\ g \in FrameType /\ g.k = "start2" /\ g.x = sync
      /\ User \in FrameType /\ User.k = "user" /\ st \in Seq(FrameType)
  BY FrameTypes DEF Stacks
<1>2. f.k \notin Held /\ g.k \notin Held /\ User.k \notin Held
  BY <1>1 DEF Held
<1> HIDE DEF f, g
<1>3. s1 \in Stacks /\ s1 # <<>> /\ Last(s1) = f /\ Steady(st, s1)
  BY <1>1, <1>2, StackPush, SteadyPush
<1>4. st \o <<f, g, User>> = Append(s2, User)
  BY <1>1, Chain
<1> HIDE DEF s1
<1>5. s2 \in Stacks /\ Steady(s1, s2)
  BY <1>1, <1>2, <1>3, StackPush, SteadyPush
<1> HIDE DEF s2
<1>6. Steady(s2, Append(s2, User))
  BY <1>1, <1>2, <1>5, SteadyPush
<1>7. Steady(st, Append(s2, User))
  BY <1>3, <1>5, <1>6, SteadyTwice
<1>8. QED
  BY <1>4, <1>7 DEF f, g

\* The first event stays the first.
Leads(es1, es2) == es1 # <<>> => es2 # <<>> /\ Head(es2) = Head(es1)

LEMMA EmplaceSteady ==
  ASSUME events \in Seq(QueueType), NEW stk \in Stacks, NEW ev \in QueueType, Emplace(ev, stk)
  PROVE  Steady(stk, stack') /\ Leads(events, events') /\ stack' \in Stacks
<1>1. Leads(events, events')
  BY AppendProperties, HeadTailAppend DEF Emplace, Leads
<1>2. stack' = stk \/ stack' = Append(stk, Body)
  BY DEF Emplace
<1>3. Steady(stk, Append(stk, Body)) /\ Append(stk, Body) \in Stacks
  BY FrameTypes, SteadyPush, StackPush DEF Held
<1>4. QED
  BY <1>1, <1>2, <1>3 DEF Steady

LEMMA DisconnectSteady ==
  ASSUME events \in Seq(QueueType), NEW stk \in Stacks, NEW chain, chain \in {"stop", "wake"},
         DoDisconnect(chain, stk)
  PROVE  Steady(stk, stack') /\ Leads(events, events')
<1>1. CASE state \in {"started", "starting"}
  <2>1. DisconnectEvent(state, chain) \in QueueType /\ Emplace(DisconnectEvent(state, chain), stk)
    BY <1>1, EventTypes DEF DoDisconnect
  <2>2. QED
    BY <2>1, EmplaceSteady
<1>2. CASE state \notin {"started", "starting"} /\ chain = "stop"
  <2>1. Emplace(StopEvent, stk)
    BY <1>2 DEF DoDisconnect
  <2>2. QED
    BY <2>1, EventTypes, EmplaceSteady
<1>3. CASE state \notin {"started", "starting"} /\ chain # "stop"
  BY <1>3 DEF DoDisconnect, Steady, Leads
<1>4. QED
  BY <1>1, <1>2, <1>3

LEMMA SeatedKept ==
  ASSUME SeatedNow, Steady(stack, stack'), Leads(events, events'), Named(posted')
  PROVE  SeatedNow'
BY DEF SeatedNow, Steady, Leads, Sending

LEMMA NamedConcat ==
  ASSUME NEW q \in Seq(WorkType), NEW r \in Seq(WorkType), Named(q), Named(r)
  PROVE  Named(q \o r)
<1> DEFINE t == q \o r
           m == Len(q)
           n == Len(r)
<1>1. /\ m \in Nat /\ DOMAIN q = 1 .. m /\ n \in Nat /\ DOMAIN r = 1 .. n
  BY LenProperties
<1>2. /\ t \in Seq(WorkType) /\ Len(t) = m + n
      /\ \A i \in 1 .. m + n : t[i] = IF i <= m THEN q[i] ELSE r[i - m]
  BY ConcatProperties
<1>3. DOMAIN t = 1 .. (m + n)
  BY <1>2, LenProperties
<1>4. \A i \in DOMAIN t : \/ i \in 1 .. m /\ t[i] = q[i]
                          \/ i - m \in 1 .. n /\ t[i] = r[i - m]
  BY <1>1, <1>2, <1>3
<1> HIDE DEF t, m, n
<1>5. Named(t)
  BY <1>1, <1>4 DEF Named
<1>6. QED
  BY <1>5 DEF t

LEMMA NamedAppend ==
  ASSUME NEW q \in Seq(WorkType), NEW h \in WorkType, Named(q), IsNamed(h)
  PROVE  Named(Append(q, h))
<1> DEFINE r == <<h>>
<1>1. Append(q, h) = q \o r /\ r \in Seq(WorkType) /\ Named(r)
  BY AppendIsConcat DEF Named
<1> HIDE DEF r
<1>2. QED
  BY <1>1, NamedConcat

LEMMA NamedTail ==
  ASSUME NEW q \in Seq(WorkType), q # <<>>, Named(q)
  PROVE  Named(Tail(q))
<1>1. /\ Tail(q) \in Seq(WorkType) /\ Len(Tail(q)) = Len(q) - 1 /\ Len(q) \in Nat
      /\ \A i \in 1 .. Len(Tail(q)) : Tail(q)[i] = q[i + 1]
      /\ DOMAIN q = 1 .. Len(q) /\ DOMAIN Tail(q) = 1 .. Len(Tail(q))
  BY HeadTailProperties, LenProperties
<1>2. \A i \in DOMAIN Tail(q) : i + 1 \in DOMAIN q /\ Tail(q)[i] = q[i + 1]
  BY <1>1
<1>3. QED
  BY <1>2 DEF Named

LEMMA NamedCompletion ==
  ASSUME NEW o \in OpType, NEW ec
  PROVE  IsNamed(Completion(o, ec))
<1>1. o.k \notin CallKinds
  BY DEF OpType, AttemptOps, CallKinds
<1>2. QED
  BY <1>1, CompletionOp DEF IsNamed

LEMMA NamedAborted ==
  ASSUME NEW C, C \subseteq OpType, IsFiniteSet(C)
  PROVE  Aborted(C) \in Seq(WorkType) /\ Named(Aborted(C))
<1> DEFINE q == Aborted(C)
<1>1. q \in Seq(WorkType) /\ Lists(q, {o \in C : o.k \in Cancellable})
  BY AbortedLists
<1> HIDE DEF q
<1>2. ASSUME NEW i \in DOMAIN q PROVE IsNamed(q[i])
  <2>1. PICK o \in C : q[i] = Completion(o, "aborted")
    BY <1>1, <1>2 DEF Lists
  <2>2. QED
    BY <2>1, NamedCompletion
<1>3. QED
  BY <1>1, <1>2 DEF Named, q

LEMMA NamedOutstanding ==
  ASSUME StrandTypes, NEW P \in Seq(WorkType), NEW C, C \subseteq ops, NEW N, Outstanding(P, C, N),
         Named(P)
  PROVE  Named(posted')
<1>1. C \subseteq OpType /\ IsFiniteSet(C)
  BY FS_Subset DEF StrandTypes
<1>2. Aborted(C) \in Seq(WorkType) /\ Named(Aborted(C))
  BY <1>1, NamedAborted
<1>3. QED
  BY <1>2, NamedConcat DEF Outstanding

LEMMA OldMark ==
  ASSUME NEW o \in OpType, o.k \notin AttemptOps
  PROVE  ~OldOp(o).old
<1>1. OldOp(o).old = (o.k \in AttemptOps)
  <2> DEFINE b == o.k \in AttemptOps
  <2> HIDE DEF b
  <2>1. [o EXCEPT !.old = b].old = b
    BY DEF OpType
  <2>2. OldOp(o) = [o EXCEPT !.old = b]
    BY DEF OldOp, b
  <2>3. QED
    BY <2>1, <2>2 DEF b
<1>2. QED
  BY <1>1

LEMMA NamedOld ==
  ASSUME NEW q \in Seq(WorkType), Named(q)
  PROVE  Named(OldSeq(q))
<1>1. \A i \in DOMAIN q : q[i].op \in OpType /\ OldOp(q[i].op).k = q[i].op.k
  <2>1. \A i \in DOMAIN q : q[i] \in WorkType
    BY ElementOfSeq, LenProperties
  <2>2. QED
    BY <2>1, OldOpType DEF WorkType, HandlerType
<1>2. ASSUME NEW i \in DOMAIN q PROVE IsNamed(OldSeq(q)[i])
  <2> DEFINE h == q[i]
  <2>1. OldSeq(q)[i] = [h EXCEPT !.op = OldOp(@)] /\ h \in WorkType /\ IsNamed(h)
    BY <1>2, ElementOfSeq, LenProperties DEF OldSeq, Named
  <2>2. h.op \in OpType /\ OldOp(h.op).k = h.op.k
    BY <1>1, <1>2
  <2> HIDE DEF h
  <2>3. /\ [h EXCEPT !.op = OldOp(@)].k = h.k
        /\ [h EXCEPT !.op = OldOp(@)].op = OldOp(h.op)
    BY <2>1 DEF WorkType, HandlerType
  <2>4. h.k \in CallKinds => h.op.k \notin AttemptOps
    BY <2>1 DEF IsNamed, CallKinds, AttemptOps
  <2>5. h.k \in CallKinds => ~OldOp(h.op).old
    BY <2>2, <2>4, OldMark
  <2>6. QED
    BY <2>1, <2>2, <2>3, <2>5 DEF IsNamed
<1>3. DOMAIN OldSeq(q) = DOMAIN q
  BY DEF OldSeq
<1>4. QED
  BY <1>2, <1>3 DEF Named

\* The bodies of events, but that of a disconnect.
LEMMA SeatedBodies ==
  ASSUME IInv, SeatedNow, \/ ConnectBody \/ ReconnectBody \/ WakeBody \/ StopBody \/ SendBody
  PROVE  SeatedNow'
<1>1. /\ ~Idle /\ Top.k \in Guard /\ StrandTypes /\ Named(posted) /\ posted \in Seq(WorkType)
      /\ stack \in Stacks /\ stack # <<>> /\ events' = events
  BY IInvParts DEF ConnectBody, ReconnectBody, WakeBody, StopBody, SendBody, RunsEvent, Guard,
                   StrandTypes, SeatedNow, Idle
<1>2. Steady(stack, Below) /\ Below \in Stacks /\ events # <<>> /\ Head(events) \in QueueType
  BY <1>1, SteadyPop, TopFrame DEF Below
<1>3. Leads(events, events')
  BY <1>1 DEF Leads
<1>4. ASSUME NEW f \in FrameType, f.k = "release" PROVE Steady(stack, Append(Below, f))
  <2>1. Steady(Below, Append(Below, f))
    BY <1>2, <1>4, SteadyPush DEF Held
  <2>2. QED
    BY <1>2, <2>1, SteadyTwice
<1>5. ASSUME NEW sync \in {"sync", "async"}, NEW N, StartConnect(sync, Below, N)
      PROVE  Steady(stack, stack') /\ Named(posted')
  <2> DEFINE all == posted \o Aborted(SocketOps)
  <2>1. SocketOps \subseteq ops /\ SocketOps \subseteq OpType /\ IsFiniteSet(SocketOps)
    BY <1>1, FS_Subset DEF StrandTypes, SocketOps
  <2>2. Aborted(SocketOps) \in Seq(WorkType) /\ Named(Aborted(SocketOps))
    BY <2>1, NamedAborted
  <2>3. all \in Seq(WorkType) /\ Named(all)
    BY <1>1, <2>2, NamedConcat, ConcatProperties
  <2>4. posted' = OldSeq(all)
    BY <1>5 DEF StartConnect, OldOp, OldSeq
  <2> HIDE DEF all
  <2>5. Named(posted')
    BY <2>3, <2>4, NamedOld
  <2>6. Steady(Below, stack')
    BY <1>2, <1>5, SteadyStart DEF StartConnect
  <2>7. QED
    BY <1>2, <2>5, <2>6, SteadyTwice
<1>6. ASSUME stack' = Append(Below, Release), posted' = posted PROVE Steady(stack, stack') /\ Named(posted')
  BY <1>1, <1>4, <1>6, FrameTypes
<1>7. CASE ConnectBody
  <2> DEFINE p == Head(events).p
  <2>1. p \in {"sync", "async"}
    BY <1>2, <1>7, EventParts DEF ConnectBody, RunsEvent
  <2>2. \/ \E N : StartConnect(p, Below, N)
        \/ stack' = Append(Below, Frame("release", p)) /\ posted' = posted
    BY <1>7 DEF ConnectBody
  <2> HIDE DEF p
  <2>3. Frame("release", p) \in FrameType /\ Frame("release", p).k = "release"
    BY <2>1, FrameTypes
  <2>4. Steady(stack, stack') /\ Named(posted')
    BY <1>1, <1>4, <1>5, <2>1, <2>2, <2>3
  <2>5. QED
    BY <1>3, <2>4, SeatedKept
<1>8. CASE ReconnectBody
  <2>1. StartConnect("async", Below, {}) \/ (stack' = Append(Below, Release) /\ posted' = posted)
    BY <1>8 DEF ReconnectBody
  <2>2. Steady(stack, stack') /\ Named(posted')
    BY <1>5, <1>6, <2>1
  <2>3. QED
    BY <1>3, <2>2, SeatedKept
<1>9. CASE WakeBody \/ StopBody
  <2>1. /\ stack' = Append(Below, Release)
        /\ \/ Outstanding(posted, ReconnectWait, {})
           \/ Outstanding(posted, ReconnectWait \cup ConnectWait, {})
    BY <1>9 DEF WakeBody, StopBody
  <2>2. ReconnectWait \subseteq ops /\ ReconnectWait \cup ConnectWait \subseteq ops
    BY DEF ReconnectWait, ConnectWait
  <2>3. Named(posted')
    BY <1>1, <2>1, <2>2, NamedOutstanding
  <2>4. Steady(stack, stack')
    BY <1>4, <2>1, FrameTypes
  <2>5. QED
    BY <1>3, <2>3, <2>4, SeatedKept
<1>10. CASE SendBody
  <2> DEFINE o == Op("write", 0, Head(events).p)
             h == Completion(o, "err")
  <2>1. o \in OpType /\ o.k # "none"
    <3>1. Head(events).p \in Data
      BY <1>2, <1>10, EventParts DEF SendBody, RunsEvent
    <3>2. o.k = "write"
      BY DEF Op
    <3>3. QED
      BY <3>1, <3>2, OpTypes
  <2>2. \/ Outstanding(posted, {}, {o})
        \/ posted' = Append(posted, h)
    BY <1>10 DEF SendBody
  <2>3. stack' = Below
    BY <1>10 DEF SendBody
  <2> HIDE DEF o
  <2>4. h \in WorkType /\ IsNamed(h)
    BY <2>1, CompletionType, NamedCompletion DEF Codes
  <2> HIDE DEF h
  <2>5. Named(posted')
    BY <1>1, <2>2, <2>4, NamedAppend, NamedOutstanding
  <2>6. QED
    BY <1>2, <1>3, <2>3, <2>5, SeatedKept
<1>11. QED
  BY <1>7, <1>8, <1>9, <1>10

LEMMA SeatedDisconnectBody ==
  ASSUME IInv, SeatedNow, DisconnectBody
  PROVE  SeatedNow'
<1> DEFINE s1 == Append(Below, Release)
           f == Frame("disc2", "-")
           s2 == Append(s1, f)
<1>1. /\ ~Idle /\ Top.k \in Guard /\ Below \in Stacks /\ Top \in FrameType /\ stack = Append(Below, Top)
      /\ stack \in Stacks /\ stack # <<>> /\ Seated(stack)
      /\ UNCHANGED <<events, posted>>
  BY TopFrame DEF DisconnectBody, RunsEvent, Guard, SeatedNow, Idle
<1>2. Seated(Below)
  BY <1>1, SeatedPop DEF Below
<1>3. NoFrame(Below, {"sent2"})
  <2>1. NoFrame(stack, Held)
    BY <1>1, GuardOnTop
  <2>2. NoFrame(stack, {"sent2"})
    BY <2>1 DEF NoFrame, Held
  <2>3. Below \in Seq(FrameType)
    BY <1>1 DEF Stacks
  <2>4. QED
    BY <1>1, <2>2, <2>3, FramePush
<1>4. Release \in FrameType /\ Release.k = "release" /\ f \in FrameType /\ f.k = "disc2"
      /\ User \in FrameType /\ User.k = "user"
  BY FrameTypes
<1>5. stack' = s2 \/ stack' = Append(s2, User)
  <2>1. Below \o <<Release, f>> = s2 /\ s2 \in Seq(FrameType)
    BY <1>1, <1>4, AppendProperties, Chain DEF Stacks
  <2>2. s2 \o <<User>> = Append(s2, User) /\ s2 \o <<>> = s2
    <3> HIDE DEF s2
    <3>1. QED
      BY <1>4, <2>1, Chain
  <2>3. stack' = s2 \o <<User>> \/ stack' = s2 \o <<>>
    BY <2>1 DEF DisconnectBody
  <2>4. QED
    BY <2>2, <2>3
<1> HIDE DEF f
<1>6. s1 \in Stacks /\ s1 # <<>> /\ Last(s1) = Release /\ Steady(Below, s1)
  BY <1>1, <1>4, StackPush, SteadyPush DEF Held
<1> HIDE DEF s1
<1>7. s2 \in Stacks /\ Seated(s2) /\ NoFrame(s2, {"sent2"})
  <2>1. s1 \in Seq(FrameType) /\ Seated(s1) /\ NoFrame(s1, {"sent2"})
    BY <1>2, <1>3, <1>6 DEF Stacks, Steady
  <2>2. QED
    BY <1>4, <1>6, <2>1, StackPush, SeatedPush, FramePush
<1> HIDE DEF s2
<1>8. Steady(s2, Append(s2, User))
  BY <1>4, <1>7, SteadyPush DEF Held
<1>9. Seated(stack') /\ NoFrame(stack', {"sent2"})
  BY <1>5, <1>7, <1>8 DEF Steady
<1>10. QED
  BY <1>1, <1>9 DEF SeatedNow, Sending

LEMMA SeatedReleaseGuard ==
  ASSUME IInv, SeatedNow, ReleaseGuard
  PROVE  SeatedNow'
<1>1. /\ ~Idle /\ Top.k \in Guard /\ stack \in Stacks /\ stack # <<>> /\ Seated(stack) /\ posted' = posted
      /\ Below \in Stacks
  BY TopFrame DEF ReleaseGuard, Guard, SeatedNow, Idle
<1>2. NoFrame(stack, Held)
  BY <1>1, GuardOnTop
<1>3. Steady(stack, Below)
  BY <1>1, SteadyPop DEF Below
<1>4. Steady(Below, Append(Below, Body))
  BY <1>1, FrameTypes, SteadyPush DEF Held
<1>5. stack' = Below \/ stack' = Append(Below, Body)
  BY DEF ReleaseGuard
<1>6. Steady(stack, stack')
  <2>1. CASE stack' = Below
    BY <1>3, <2>1
  <2>2. CASE stack' = Append(Below, Body)
    BY <1>3, <1>4, <2>2, SteadyTwice
  <2>3. QED
    BY <1>5, <2>1, <2>2
<1>7. NoFrame(stack, {"sent2"})
  BY <1>2 DEF NoFrame, Held
<1>8. QED
  BY <1>1, <1>6, <1>7 DEF SeatedNow, Sending, Steady

\* What the rest of handlers leave: the frame popped, or a disconnect below it.
LEMMA SeatedAfter ==
  ASSUME IInv, SeatedNow, \/ HandleDisconnect \/ DoneConnect2 \/ HandleRecv2 \/ HandleSend2
                          \/ ReconnectTimer2 \/ Stop2 \/ CallbackReturns
  PROVE  SeatedNow'
<1>1. /\ ~Idle /\ StrandTypes /\ Named(posted) /\ posted \in Seq(WorkType)
      /\ stack \in Stacks /\ stack # <<>> /\ events \in Seq(QueueType)
  BY IInvParts DEF HandleDisconnect, DoneConnect2, HandleRecv2, HandleSend2, ReconnectTimer2, Stop2,
                   CallbackReturns, StrandTypes, SeatedNow, Idle
<1>2. Steady(stack, Below) /\ Below \in Stacks
  BY <1>1, SteadyPop, TopFrame DEF Below
<1>3. \/ stack' = Below /\ events' = events
      \/ DoDisconnect("wake", Below)
  BY DEF HandleDisconnect, DoneConnect2, HandleRecv2, HandleSend2, ReconnectTimer2, Stop2, CallbackReturns
<1>4. \/ posted' = posted
      \/ Outstanding(posted, SocketOps, {})
      \/ \E N : Outstanding(posted, {}, N) \/ Outstanding(posted, ReconnectWait, N)
  BY DEF HandleDisconnect, DoneConnect2, HandleRecv2, HandleSend2, ReconnectTimer2, Stop2, CallbackReturns,
         PostRecv
<1>5. Named(posted')
  <2>1. SocketOps \subseteq ops /\ ReconnectWait \subseteq ops /\ {} \subseteq ops
    BY DEF SocketOps, ReconnectWait
  <2>2. QED
    BY <1>1, <1>4, <2>1, NamedOutstanding
<1>6. Steady(stack, stack') /\ Leads(events, events')
  <2>1. CASE stack' = Below /\ events' = events
    BY <1>2, <2>1 DEF Leads
  <2>2. CASE DoDisconnect("wake", Below)
    BY <1>1, <1>2, <2>2, DisconnectSteady, SteadyTwice
  <2>3. QED
    BY <1>3, <2>1, <2>2
<1>7. QED
  BY <1>5, <1>6, SeatedKept

LEMMA DoneSteady ==
  ASSUME IInv, NEW ec \in Codes, NEW P \in Seq(WorkType), NEW stk \in Stacks, DoneConnect(ec, P, stk), Named(P)
  PROVE  Steady(stk, stack') /\ events' = events /\ Named(posted')
<1> DEFINE ec1 == IF cFlag THEN "timed_out" ELSE ec
           ec2 == IF ec1 = "ok" /\ state # "starting" THEN "aborted" ELSE ec1
           f == Frame("done2", ec2)
<1>1. f \in FrameType /\ f.k \notin Held \cup {"start2"}
  BY FrameTypes DEF Codes, Held
<1>2. StrandTypes /\ ConnectWait \subseteq ops /\ Outstanding(P, ConnectWait, {}) /\ events' = events
  BY IInvParts DEF ConnectWait, DoneConnect
<1>3. stack' = stk \/ stack' = stk \o <<f, User>>
  BY DEF DoneConnect
<1> HIDE DEF f
<1>4. Steady(stk, stk \o <<f, User>>)
  BY <1>1, SteadyPushTwo
<1>5. QED
  BY <1>2, <1>3, <1>4, NamedOutstanding DEF Steady

LEMMA SeatedPostConnect ==
  ASSUME IInv, SeatedNow, Idle, NEW n \in 0 .. Endpoints, NEW P \in Seq(WorkType), PostConnect(n, P), Named(P)
  PROVE  SeatedNow'
<1>1. StrandTypes /\ stack = <<>>
  BY IInvParts DEF Idle
<1>2. CASE n = 0
  <2>1. DoneConnect("err", P, <<>>) /\ "err" \in Codes
    BY <1>2 DEF PostConnect, Codes
  <2>2. QED
    BY <1>1, <2>1, DoneSteady, EmptyStack, SeatedKept DEF Leads
<1>3. CASE n # 0
  <2> DEFINE o == Op("connect", n - 1, "-")
             h == Completion(o, "err")
  <2>1. o \in OpType /\ o.k = "connect"
    <3>1. n - 1 \in 0 .. Endpoints
      BY <1>3, BoundsAssumption
    <3>2. QED
      BY <3>1 DEF Op, OpType, AttemptOps
  <2>2. UNCHANGED <<stack, events>> /\ (Outstanding(P, {}, {o}) \/ posted' = Append(P, h))
    BY <1>3 DEF PostConnect
  <2> HIDE DEF o
  <2>3. h \in WorkType /\ IsNamed(h)
    BY <2>1, CompletionType, NamedCompletion DEF Codes
  <2> HIDE DEF h
  <2>4. Named(posted')
    BY <1>1, <2>2, <2>3, NamedAppend, NamedOutstanding
  <2>5. QED
    BY <2>2, <2>4 DEF SeatedNow
<1>4. QED
  BY <1>2, <1>3

LEMMA SeatedStartConnect2 ==
  ASSUME IInv, SeatedNow, StartConnect2
  PROVE  SeatedNow'
<1>1. /\ ~Idle /\ Top.k = "start2" /\ StrandTypes /\ Named(posted) /\ posted \in Seq(WorkType)
      /\ stack \in Stacks /\ stack # <<>>
  BY IInvParts DEF StartConnect2, StrandTypes, SeatedNow, Idle
<1>2. Steady(stack, Below) /\ Below \in Stacks /\ Below # <<>>
  BY <1>1, SteadyPop, TopFrame DEF Below
<1>3. CASE DoneConnect("err", posted, Below)
  BY <1>1, <1>2, <1>3, DoneSteady, SteadyTwice, SeatedKept DEF Leads, Codes
<1>4. CASE /\ Outstanding(posted, ConnectWait, {Op("ctimer", 0, Top.x), Op("resolve", 0, "-")})
           /\ stack' = Append(Front(Below), Release) /\ UNCHANGED events
  <2>1. Named(posted')
    BY <1>1, <1>4, NamedOutstanding DEF ConnectWait
  <2>2. Steady(Below, Front(Below)) /\ Front(Below) \in Stacks
    BY <1>2, SteadyPop, StackPop
  <2>3. Steady(Front(Below), stack')
    BY <1>4, <2>2, FrameTypes, SteadyPush DEF Held
  <2>4. Steady(stack, stack')
    BY <1>2, <2>2, <2>3, SteadyTwice
  <2>5. QED
    BY <1>4, <2>1, <2>4, SeatedKept DEF Leads
<1>5. QED
  BY <1>3, <1>4 DEF StartConnect2

LEMMA SeatedNext ==
  ASSUME IInv, SeatedNow, NEW k, Runs(k)
  PROVE  /\ Idle /\ StrandTypes /\ stack = <<>> /\ events \in Seq(QueueType) /\ Rest \in Seq(WorkType)
         /\ Done \in WorkType /\ Done.k = k /\ Done.ec \in Codes /\ Done.op.n \in 0 .. Endpoints
         /\ Done.ev \in EventType /\ (k = "push" => Done.ev \in QueueType) /\ Named(Rest)
<1>1. /\ posted \in Seq(WorkType) /\ posted # <<>> /\ stack = <<>> /\ Rest \in Seq(WorkType)
      /\ Done \in WorkType /\ Done.k = k
  BY NextHandler
<1>2. Idle /\ StrandTypes /\ events \in Seq(QueueType)
  BY IInvParts DEF Runs, StrandTypes
<1>3. /\ Done.ec \in Codes /\ Done.op.n \in 0 .. Endpoints /\ Done.ev \in EventType
      /\ k = "push" => Done.ev \in QueueType
  BY <1>1 DEF WorkType, HandlerType, OpType, QueueType
<1>4. Named(Rest)
  BY <1>1, NamedTail DEF SeatedNow, Rest
<1>5. QED
  BY <1>1, <1>2, <1>3, <1>4

\* The handlers of the strand, but that of a write.
LEMMA SeatedHandlers ==
  ASSUME IInv, SeatedNow, \/ RunPush \/ RunStop \/ HandleResolve \/ HandleConnect \/ HandleRecv
                          \/ HandleRefused \/ HandleConnectTimer \/ HandleReconnectTimer
  PROVE  SeatedNow'
<1>1. CASE RunPush
  <2>1. Emplace(Done.ev, <<>>) /\ posted' = Rest /\ Runs("push")
    BY <1>1 DEF RunPush
  <2>2. Done.ev \in QueueType /\ Named(Rest) /\ stack = <<>> /\ events \in Seq(QueueType)
    BY <2>1, SeatedNext
  <2>3. QED
    BY <2>1, <2>2, EmptyStack, EmplaceSteady, SeatedKept
<1>2. CASE RunStop
  <2>1. DoDisconnect("stop", <<>>) /\ Outstanding(Rest, ReconnectWait, {}) /\ Runs("stop")
    BY <1>2 DEF RunStop, StopOnStrand
  <2>2. Named(Rest) /\ Rest \in Seq(WorkType) /\ stack = <<>> /\ events \in Seq(QueueType) /\ StrandTypes
    BY <2>1, SeatedNext
  <2>3. Named(posted')
    BY <2>1, <2>2, NamedOutstanding DEF ReconnectWait
  <2>4. QED
    BY <2>1, <2>2, <2>3, EmptyStack, DisconnectSteady, SeatedKept
<1>3. CASE HandleResolve \/ HandleConnect
  <2>1. PICK k : Runs(k) /\ \/ \E n \in 0 .. Endpoints : PostConnect(n, Rest)
                            \/ \E ec \in Codes : DoneConnect(ec, Rest, <<>>)
    <3>1. CASE HandleResolve
      <4>1. \/ \E n \in 1 .. Endpoints : PostConnect(n, Rest)
            \/ DoneConnect("err", Rest, <<>>)
        BY <3>1 DEF HandleResolve
      <4>2. \A n \in 1 .. Endpoints : n \in 0 .. Endpoints
        BY BoundsAssumption
      <4>3. "err" \in Codes /\ Runs("resolve")
        BY <3>1 DEF Codes, HandleResolve
      <4>4. QED
        BY <4>1, <4>2, <4>3
    <3>2. CASE HandleConnect
      <4>1. Runs("connect") /\ (PostConnect(Done.op.n, Rest) \/ DoneConnect(Done.ec, Rest, <<>>))
        BY <3>2 DEF HandleConnect
      <4>2. QED
        BY <4>1, SeatedNext
    <3>3. QED
      BY <1>3, <3>1, <3>2
  <2>2. Named(Rest) /\ Rest \in Seq(WorkType) /\ stack = <<>> /\ Idle
    BY <2>1, SeatedNext
  <2>3. CASE \E n \in 0 .. Endpoints : PostConnect(n, Rest)
    BY <2>2, <2>3, SeatedPostConnect
  <2>4. CASE \E ec \in Codes : DoneConnect(ec, Rest, <<>>)
    BY <2>2, <2>4, EmptyStack, DoneSteady, SeatedKept DEF Leads
  <2>5. QED
    BY <2>1, <2>3, <2>4
<1>4. CASE HandleRecv
  <2>1. posted' = Rest /\ Runs("recv")
    BY <1>4 DEF HandleRecv
  <2>2. Named(Rest) /\ stack = <<>> /\ events \in Seq(QueueType)
    BY <2>1, SeatedNext
  <2> DEFINE f == Frame("recv2", "-")
  <2>3. (stack' = <<f, User>> /\ events' = events) \/ DoDisconnect("wake", <<>>)
    BY <1>4 DEF HandleRecv
  <2>4. f \in FrameType /\ f.k \notin Held \cup {"start2"}
    BY FrameTypes DEF Held
  <2>5. <<>> \o <<f, User>> = <<f, User>>
    OBVIOUS
  <2> HIDE DEF f
  <2>6. Steady(<<>>, <<f, User>>)
    BY <2>4, <2>5, EmptyStack, SteadyPushTwo
  <2>7. QED
    BY <2>1, <2>2, <2>3, <2>6, EmptyStack, DisconnectSteady, SeatedKept DEF Leads
<1>5. CASE HandleRefused
  <2>1. posted' = Rest /\ Runs("refused") /\ stack' = <<User>> /\ events' = events
    BY <1>5 DEF HandleRefused
  <2>2. Named(Rest) /\ stack = <<>>
    BY <2>1, SeatedNext
  <2>3. <<User>> = Append(<<>>, User)
    OBVIOUS
  <2>4. Steady(<<>>, Append(<<>>, User))
    BY EmptyStack, FrameTypes, SteadyPush DEF Held
  <2>5. QED
    BY <2>1, <2>2, <2>3, <2>4, SeatedKept DEF Leads
<1>6. CASE HandleConnectTimer
  <2>1. /\ Runs("ctimer") /\ UNCHANGED <<stack, events>>
        /\ Outstanding(Rest, SocketOps, {}) \/ posted' = Rest
    BY <1>6 DEF HandleConnectTimer
  <2>2. Named(Rest) /\ Rest \in Seq(WorkType) /\ StrandTypes
    BY <2>1, SeatedNext
  <2>3. Named(posted')
    BY <2>1, <2>2, NamedOutstanding DEF SocketOps
  <2>4. QED
    BY <2>1, <2>3 DEF SeatedNow
<1>7. CASE HandleReconnectTimer
  <2> DEFINE f == Frame("rtimer2", "-")
  <2>1. /\ Runs("rtimer")
        /\ \/ posted' = Rest
           \/ \E N : Outstanding(Rest, ReconnectWait, N)
        /\ \/ UNCHANGED <<stack, events>>
           \/ Emplace(ReconnectEvent, <<f>>)
    BY <1>7 DEF HandleReconnectTimer
  <2>2. Named(Rest) /\ Rest \in Seq(WorkType) /\ StrandTypes /\ stack = <<>> /\ events \in Seq(QueueType)
    BY <2>1, SeatedNext
  <2>3. Named(posted')
    BY <2>1, <2>2, NamedOutstanding DEF ReconnectWait
  <2>4. f \in FrameType /\ f.k = "rtimer2" /\ <<f>> = Append(<<>>, f)
    BY FrameTypes
  <2> HIDE DEF f
  <2>5. <<f>> \in Stacks /\ Steady(<<>>, <<f>>)
    BY <2>4, EmptyStack, StackPush, SteadyPush DEF Held
  <2>6. Steady(stack, stack') /\ Leads(events, events')
    <3>1. CASE UNCHANGED <<stack, events>>
      BY <3>1 DEF Steady, Leads
    <3>2. CASE Emplace(ReconnectEvent, <<f>>)
      BY <2>2, <2>5, <3>2, EventTypes, EmplaceSteady, SteadyTwice
    <3>3. QED
      BY <2>1, <3>1, <3>2
  <2>7. QED
    BY <2>3, <2>6, SeatedKept
<1>8. QED
  BY <1>1, <1>2, <1>3, <1>4, <1>5, <1>6, <1>7

LEMMA SeatedHandleSend ==
  ASSUME IInv, SeatedNow, HandleSend
  PROVE  SeatedNow'
<1> DEFINE f == Frame("sent2", Done.ec)
           s1 == Append(<<>>, Release)
           s2 == Append(s1, f)
<1>1. Runs("write") /\ posted' = Rest /\ stack' = <<Release, f, User>> /\ events' = events
  BY DEF HandleSend
<1>2. Done.ec \in Codes /\ Named(Rest)
  BY <1>1, SeatedNext
<1>3. f \in FrameType /\ f.k = "sent2" /\ Release \in FrameType /\ Release.k = "release"
      /\ User \in FrameType /\ User.k = "user"
  BY <1>2, FrameTypes
<1>4. stack' = Append(s2, User)
  BY <1>1
<1> HIDE DEF f
<1>5. s1 \in Stacks /\ s1 # <<>> /\ Last(s1) = Release /\ Seated(s1)
  <2>1. Seated(<<>>)
    BY DEF Seated
  <2>2. QED
    BY <1>3, <2>1, EmptyStack, StackPush, SeatedPush DEF Held
<1> HIDE DEF s1
<1>6. s2 \in Stacks /\ Seated(s2)
  BY <1>3, <1>5, StackPush, SeatedPush
<1> HIDE DEF s2
<1>7. Seated(stack')
  BY <1>3, <1>4, <1>6, SeatedPush DEF Held
<1>8. Head(events).k = "send" /\ events # <<>>
  BY <1>1, WritesFirst
<1>9. QED
  BY <1>1, <1>2, <1>7, <1>8 DEF SeatedNow, Sending

LEMMA SeatedCalls ==
  ASSUME IInv, SeatedNow, Calls
  PROVE  SeatedNow'
<1>1. stack \in Stacks /\ events \in Seq(QueueType) /\ StrandTypes /\ Named(posted) /\ posted \in Seq(WorkType)
  BY IInvParts DEF StrandTypes, SeatedNow
<1>2. CASE CallbackStops
  <2> DEFINE f == Frame("stop2", "-")
             st == Append(stack, f)
  <2>1. f \in FrameType /\ f.k = "stop2"
    BY FrameTypes
  <2>2. DoDisconnect("stop", st) /\ Outstanding(posted, ReconnectWait, {})
    BY <1>2 DEF CallbackStops, StopOnStrand
  <2> HIDE DEF f
  <2>3. st \in Stacks /\ Steady(stack, st)
    BY <1>1, <2>1, StackPush, SteadyPush DEF Held
  <2> HIDE DEF st
  <2>4. Steady(st, stack') /\ Leads(events, events')
    BY <1>1, <2>2, <2>3, DisconnectSteady
  <2>5. Named(posted')
    BY <1>1, <2>2, NamedOutstanding DEF ReconnectWait
  <2>6. QED
    BY <2>3, <2>4, <2>5, SteadyTwice, SeatedKept
<1>3. CASE CallbackStarts
  <2>1. Emplace(ConnectEvent("async"), stack) /\ posted' = posted
    BY <1>3 DEF CallbackStarts
  <2>2. QED
    BY <1>1, <2>1, EventTypes, EmplaceSteady, SeatedKept
<1>4. ASSUME NEW d \in Data, CallbackSends(d) PROVE SeatedNow'
  <2>1. posted' = posted /\ (Emplace(SendEvent(d), stack) \/ (stack' = Append(stack, User) /\ events' = events))
    BY <1>4 DEF CallbackSends
  <2>2. Steady(stack, Append(stack, User))
    BY <1>1, FrameTypes, SteadyPush DEF Held
  <2>3. QED
    BY <1>1, <2>1, <2>2, EventTypes, EmplaceSteady, SeatedKept DEF Leads
<1>5. ASSUME NEW sync \in {"sync", "async"}, AppStarts(sync) PROVE SeatedNow'
  <2> DEFINE h == Handler("push", ConnectEvent(sync))
  <2>1. h \in WorkType /\ h.op.k = "none" /\ ~h.op.old
    BY EventTypes, HandlerTypes DEF Handler, Op
  <2>2. posted' = Append(posted, h) /\ UNCHANGED <<stack, events>>
    BY <1>5 DEF AppStarts
  <2> HIDE DEF h
  <2>3. Named(posted')
    BY <1>1, <2>1, <2>2, NamedAppend DEF IsNamed, AttemptOps
  <2>4. QED
    BY <2>2, <2>3 DEF SeatedNow
<1>6. CASE (\E d \in Data : AppSends(d)) \/ AppStops
  <2>1. \E h \in WorkType : /\ h.op.k = "none" /\ ~h.op.old /\ posted' = Append(posted, h) /\ UNCHANGED <<stack, events>>
    <3>1. ASSUME NEW d \in Data, AppSends(d)
          PROVE  \E h \in WorkType : /\ h.op.k = "none" /\ ~h.op.old /\ posted' = Append(posted, h)
                                     /\ UNCHANGED <<stack, events>>
      <4> DEFINE h == Handler(IF IsStarted THEN "push" ELSE "refused", SendEvent(d))
      <4>1. h \in WorkType /\ h.op.k = "none" /\ ~h.op.old
        BY EventTypes, HandlerTypes DEF Handler, Op
      <4>2. posted' = Append(posted, h) /\ UNCHANGED <<stack, events>>
        BY <3>1 DEF AppSends
      <4> HIDE DEF h
      <4>3. QED
        BY <4>1, <4>2
    <3>2. ASSUME AppStops
          PROVE  \E h \in WorkType : /\ h.op.k = "none" /\ ~h.op.old /\ posted' = Append(posted, h)
                                     /\ UNCHANGED <<stack, events>>
      <4> DEFINE h == Handler("stop", NoEvent)
      <4>1. h \in WorkType /\ h.op.k = "none" /\ ~h.op.old
        BY HandlerTypes DEF Handler, Op
      <4>2. posted' = Append(posted, h) /\ UNCHANGED <<stack, events>>
        BY <3>2 DEF AppStops
      <4> HIDE DEF h
      <4>3. QED
        BY <4>1, <4>2
    <3>3. QED
      BY <1>6, <3>1, <3>2
  <2>2. PICK h \in WorkType : h.op.k = "none" /\ ~h.op.old /\ posted' = Append(posted, h) /\ UNCHANGED <<stack, events>>
    BY <2>1
  <2>3. Named(posted')
    BY <1>1, <2>2, NamedAppend DEF IsNamed, AttemptOps
  <2>4. QED
    BY <2>2, <2>3 DEF SeatedNow
<1>7. QED
  BY <1>2, <1>3, <1>4, <1>5, <1>6 DEF Calls

LEMMA SeatedStep == IInv /\ SeatedNow /\ [Next]_vars => SeatedNow'
<1>1. SUFFICES ASSUME IInv, SeatedNow, [Next]_vars PROVE SeatedNow'
  OBVIOUS
<1>2. CASE StrandWork
  BY <1>1, <1>2, SeatedBodies, SeatedDisconnectBody, SeatedReleaseGuard, SeatedAfter,
     SeatedStartConnect2, SeatedHandlers, SeatedHandleSend DEF StrandWork
<1>3. CASE Calls
  BY <1>1, <1>3, SeatedCalls
<1>4. CASE AppReturns \/ UNCHANGED vars
  <2>1. UNCHANGED <<posted, stack, events>>
    BY <1>4 DEF AppReturns, AppStarted, AppStopsPool, AppStopped, strand, vars
  <2>2. QED
    BY <1>1, <2>1 DEF SeatedNow
<1>5. CASE World
  <2>1. PICK o \in ops, ec \in Codes : o.k # "none" /\ Ends(o, ec)
    BY <1>5, WorldEnds
  <2> DEFINE h == Completion(o, ec)
  <2>2. posted \in Seq(WorkType) /\ o \in OpType
    BY <1>1, IInvParts DEF StrandTypes
  <2>3. h \in WorkType /\ IsNamed(h)
    BY <2>1, <2>2, CompletionType, NamedCompletion
  <2>4. posted' = Append(posted, h) /\ UNCHANGED <<stack, events>>
    BY <2>1 DEF Ends
  <2> HIDE DEF h
  <2>5. Named(posted')
    BY <1>1, <2>2, <2>3, <2>4, NamedAppend DEF SeatedNow
  <2>6. QED
    BY <1>1, <2>4, <2>5 DEF SeatedNow
<1>6. QED
  BY <1>1, <1>2, <1>3, <1>4, <1>5 DEF Next, StrandStep

LEMMA SeatedInvariant == Spec => []SeatedNow
<1>1. Init => SeatedNow
  BY NoFrameEmpty DEF Init, SeatedNow, Seated, Sending, Named
<1>2. QED
  BY <1>1, SeatedStep, InductiveInvariant, PTL DEF Spec

-----------------------------------------------------------------------------
(* A connection is one thread of control: its attempt, then the callback    *)
(* that announces it, then one receive after the other.                     *)

\* Its frames; its operations are "resolve", "connect" and "recv".
ThreadFrames == {"start2", "done2", "recv2"}

NoWork(S, q) == NoneOf(S, q, "resolve") /\ NoneOf(S, q, "connect") /\ NoneOf(S, q, "recv")
OneWork(S, q) ==
  \/ OneOf(S, q, "resolve", "-") /\ NoneOf(S, q, "connect") /\ NoneOf(S, q, "recv")
  \/ NoneOf(S, q, "resolve") /\ OneOf(S, q, "connect", "-") /\ NoneOf(S, q, "recv")
  \/ NoneOf(S, q, "resolve") /\ NoneOf(S, q, "connect") /\ OneOf(S, q, "recv", "-")

\* At most one thread.
Thread(stk, S, q) ==
  \/ NoFrame(stk, ThreadFrames) /\ (NoWork(S, q) \/ OneWork(S, q))
  \/ OneFrame(stk, ThreadFrames) /\ NoWork(S, q)

\* The timeout of an attempt is outstanding only while the attempt is.
Limited(S, q) == NoneOf(S, q, "resolve") /\ NoneOf(S, q, "connect") => NoneIn(S, "ctimer")

\* No operation is of an earlier attempt.
NoOld(S, q) == (\A o \in S : ~o.old) /\ \A i \in DOMAIN q : ~q[i].op.old

\* Somebody reads from the connection.
Succeeded(stk) == \E i \in DOMAIN stk : stk[i].k = "done2" /\ stk[i].x = "ok"
Reader(stk, S, q) == ~NoneOf(S, q, "recv") \/ ~NoFrame(stk, {"recv2"}) \/ Succeeded(stk)
Reads(st, sk, stk, S, q) == st = "started" /\ sk # "closed" => Reader(stk, S, q)

\* While an attempt is made nothing is sent or received, and nothing of an
\* attempt is left when none is made.
NoSends(es, q) == NoneAt(q, "push") /\ \A i \in DOMAIN es : es[i].k # "send"
NoAttempt(stk, S, q) == NoFrame(stk, {"start2"}) /\ NoneOf(S, q, "resolve") /\ NoneOf(S, q, "connect")
Attempts(st, es, stk, S, q) ==
  /\ st = "starting" => NoneOf(S, q, "recv") /\ NoFrame(stk, {"recv2"}) /\ NoSends(es, q)
  /\ st # "starting" => NoAttempt(stk, S, q)

\* Once a disconnect has closed the socket no receive is outstanding.
Closed(es, stk) ==
  \A i \in DOMAIN es : es[i].k = "disconnect" => i = 1 /\ NoFrame(stk, {"event", "disc2"})
Drained(st, es, stk, S) == st = "stopping" /\ Closed(es, stk) => NoneIn(S, "recv")

\* What the connection left in the strand comes before the reconnect timer.
Ordered(q) ==
  \A i, j \in DOMAIN q : q[i].k = "rtimer" /\ q[j].k \in {"recv", "ctimer", "push"} => j < i

\* Nothing is left of it when the reconnect event is queued.
Quiet(stk, S, q) ==
  NoFrame(stk, ThreadFrames) /\ NoWork(S, q) /\ NoneOf(S, q, "ctimer") /\ NoneAt(q, "push")
Retrying(es, stk, S, q) ==
  \A i \in DOMAIN es : es[i].k = "reconnect" /\ Waker(es, stk, i) =>
    Quiet(stk, S, q) /\ \A j \in DOMAIN es : es[j].k = "send" => j < i

Linked(st, rC, sk, es, stk, S, q) ==
  /\ Thread(stk, S, q) /\ Limited(S, q) /\ NoOld(S, q) /\ Reads(st, sk, stk, S, q)
  /\ ~rC => /\ Attempts(st, es, stk, S, q) /\ Drained(st, es, stk, S) /\ Ordered(q)
            /\ Retrying(es, stk, S, q)

LinkedNow == Linked(state, rCanceled, sock, events, stack, ops, posted)

\* Two stacks with the same frames of the connection.
Same(s1, s2) ==
  /\ NoFrame(s1, ThreadFrames) <=> NoFrame(s2, ThreadFrames)
  /\ OneFrame(s1, ThreadFrames) <=> OneFrame(s2, ThreadFrames)
  /\ NoFrame(s1, {"start2"}) <=> NoFrame(s2, {"start2"})
  /\ NoFrame(s1, {"recv2"}) <=> NoFrame(s2, {"recv2"})
  /\ Succeeded(s1) <=> Succeeded(s2)

LEMMA SamePush ==
  ASSUME NEW st \in Seq(FrameType), NEW f \in FrameType, f.k \notin ThreadFrames
  PROVE  Same(st, Append(st, f)) /\ Same(Append(st, f), st)
<1>1. \A K : /\ NoFrame(Append(st, f), K) <=> (NoFrame(st, K) /\ f.k \notin K)
             /\ OneFrame(Append(st, f), K) <=> (\/ (OneFrame(st, K) /\ f.k \notin K)
                                               \/ (NoFrame(st, K) /\ f.k \in K))
  BY FramePush
<1>2. f.k \notin {"start2"} /\ f.k \notin {"recv2"} /\ f.k # "done2"
  BY DEF ThreadFrames
<1>3. Succeeded(st) <=> Succeeded(Append(st, f))
  <2>1. /\ Len(st) \in Nat /\ DOMAIN st = 1 .. Len(st) /\ DOMAIN Append(st, f) = 1 .. (Len(st) + 1)
        /\ \A i \in 1 .. Len(st) : Append(st, f)[i] = st[i]
        /\ Append(st, f)[Len(st) + 1] = f
    BY Appended
  <2>2. /\ \A i \in 1 .. (Len(st) + 1) : i \in 1 .. Len(st) \/ i = Len(st) + 1
        /\ \A i \in 1 .. Len(st) : i \in 1 .. (Len(st) + 1)
    BY <2>1
  <2>3. QED
    BY <1>2, <2>1, <2>2 DEF Succeeded
<1>4. QED
  BY <1>1, <1>2, <1>3 DEF Same

LEMMA SamePop ==
  ASSUME IInv, ~Idle, Top.k \notin ThreadFrames
  PROVE  Same(stack, Below)
<1>1. Below \in Seq(FrameType) /\ Top \in FrameType /\ stack = Append(Below, Top)
  BY TopFrame DEF Stacks
<1>2. QED
  BY <1>1, SamePush

LEMMA SameTwice ==
  ASSUME NEW s1, NEW s2, NEW s3, Same(s1, s2), Same(s2, s3)
  PROVE  Same(s1, s3) /\ Same(s2, s1)
BY DEF Same

\* The stack changes, not the connection.
LEMMA LinkedStack ==
  ASSUME NEW st, NEW rC, NEW sk, NEW es, NEW s1, NEW s2, NEW S, NEW q, Same(s1, s2),
         NoFrame(s1, {"event"}) => NoFrame(s2, {"event"}),
         ~rC /\ st = "stopping" /\ Closed(es, s2) => Closed(es, s1) \/ NoneIn(S, "recv"),
         Linked(st, rC, sk, es, s1, S, q)
  PROVE  Linked(st, rC, sk, es, s2, S, q)
<1>1. Thread(s2, S, q) /\ Limited(S, q) /\ NoOld(S, q) /\ Reads(st, sk, s2, S, q)
  BY DEF Linked, Thread, Reads, Reader, Same
<1>2. ASSUME ~rC PROVE Attempts(st, es, s2, S, q) /\ Drained(st, es, s2, S) /\ Ordered(q) /\ Retrying(es, s2, S, q)
  <2>1. Attempts(st, es, s2, S, q)
    BY <1>2 DEF Linked, Attempts, NoAttempt, Same
  <2>2. Drained(st, es, s2, S)
    BY <1>2 DEF Linked, Drained
  <2>3. \A i : Waker(es, s2, i) => Waker(es, s1, i)
    BY DEF Waker
  <2>4. Quiet(s1, S, q) => Quiet(s2, S, q)
    BY DEF Quiet, Same
  <2>5. Retrying(es, s2, S, q)
    BY <1>2, <2>3, <2>4 DEF Linked, Retrying
  <2>6. QED
    BY <1>2, <2>1, <2>2, <2>5 DEF Linked
<1>3. QED
  BY <1>1, <1>2 DEF Linked

LEMMA LinkedSock ==
  ASSUME NEW st, NEW rC, NEW rC2, rC => rC2, NEW sk, NEW sk2, NEW es, NEW stk, NEW S, NEW q,
         st # "started" \/ sk2 = "closed" \/ sk2 = sk,
         Linked(st, rC, sk, es, stk, S, q)
  PROVE  Linked(st, rC2, sk2, es, stk, S, q)
BY DEF Linked, Reads

\* Outside of the stop between two attempts nothing waits for the timer.
LEMMA LinkedAwake ==
  ASSUME NEW st, NEW rC, NEW sk, NEW es, NEW stk, NEW S, NEW q, st # "stopping",
         Woken(st, rC, es, stk, S, q), Thread(stk, S, q), Limited(S, q), NoOld(S, q),
         Reads(st, sk, stk, S, q), ~rC => Attempts(st, es, stk, S, q)
  PROVE  Linked(st, rC, sk, es, stk, S, q)
<1>1. ASSUME ~rC PROVE Drained(st, es, stk, S) /\ Ordered(q) /\ Retrying(es, stk, S, q)
  <2>1. NoWaker(es, stk) /\ NoneAt(q, "rtimer")
    BY <1>1 DEF Woken, Phase, Resting
  <2>2. QED
    BY <2>1 DEF Drained, Ordered, Retrying, NoWaker, NoneAt
<1>2. QED
  BY <1>1 DEF Linked

-----------------------------------------------------------------------------
(* Operations that leave the connection alone.                              *)

Keeps(S1, q1, S2, q2, k) ==
  /\ NoneOf(S1, q1, k) => NoneOf(S2, q2, k)
  /\ OneOf(S1, q1, k, "-") => OneOf(S2, q2, k, "-")

WorkKept(S1, q1, S2, q2) ==
  /\ Keeps(S1, q1, S2, q2, "resolve") /\ Keeps(S1, q1, S2, q2, "connect") /\ Keeps(S1, q1, S2, q2, "recv")
  /\ NoneIn(S1, "ctimer") => NoneIn(S2, "ctimer")
  /\ NoneIn(S1, "recv") => NoneIn(S2, "recv")
  /\ NoneOf(S1, q1, "ctimer") => NoneOf(S2, q2, "ctimer")
  /\ NoneAt(q1, "push") => NoneAt(q2, "push")
  /\ NoOld(S1, q1) => NoOld(S2, q2)

LEMMA ThreadKept ==
  ASSUME NEW stk, NEW S1, NEW q1, NEW S2, NEW q2, WorkKept(S1, q1, S2, q2), Thread(stk, S1, q1)
  PROVE  /\ Thread(stk, S2, q2)
         /\ NoneOf(S2, q2, "resolve") <=> NoneOf(S1, q1, "resolve")
         /\ NoneOf(S2, q2, "connect") <=> NoneOf(S1, q1, "connect")
         /\ NoneOf(S2, q2, "recv") <=> NoneOf(S1, q1, "recv")
<1>1. \A k : ~(OneOf(S2, q2, k, "-") /\ NoneOf(S2, q2, k))
  BY OneExcludesNone
<1>2. \A k : Keeps(S1, q1, S2, q2, k) /\ (NoneOf(S1, q1, k) \/ OneOf(S1, q1, k, "-")) =>
        (NoneOf(S2, q2, k) <=> NoneOf(S1, q1, k))
  BY <1>1 DEF Keeps
<1>3. /\ NoneOf(S1, q1, "resolve") \/ OneOf(S1, q1, "resolve", "-")
      /\ NoneOf(S1, q1, "connect") \/ OneOf(S1, q1, "connect", "-")
      /\ NoneOf(S1, q1, "recv") \/ OneOf(S1, q1, "recv", "-")
  BY DEF Thread, NoWork, OneWork
<1>4. /\ NoneOf(S2, q2, "resolve") <=> NoneOf(S1, q1, "resolve")
      /\ NoneOf(S2, q2, "connect") <=> NoneOf(S1, q1, "connect")
      /\ NoneOf(S2, q2, "recv") <=> NoneOf(S1, q1, "recv")
  BY <1>2, <1>3 DEF WorkKept
<1>5. (NoWork(S1, q1) => NoWork(S2, q2)) /\ (OneWork(S1, q1) => OneWork(S2, q2))
  BY DEF NoWork, OneWork, WorkKept, Keeps
<1>6. QED
  BY <1>4, <1>5 DEF Thread

LEMMA LinkedWork ==
  ASSUME NEW st, NEW rC, NEW sk, NEW es, NEW stk, NEW S1, NEW q1, NEW S2, NEW q2,
         WorkKept(S1, q1, S2, q2), ~rC /\ Ordered(q1) => Ordered(q2),
         Linked(st, rC, sk, es, stk, S1, q1)
  PROVE  Linked(st, rC, sk, es, stk, S2, q2)
<1>1. Thread(stk, S1, q1) /\ WorkKept(S1, q1, S2, q2)
  BY DEF Linked
<1>2. /\ Thread(stk, S2, q2)
      /\ NoneOf(S2, q2, "resolve") <=> NoneOf(S1, q1, "resolve")
      /\ NoneOf(S2, q2, "connect") <=> NoneOf(S1, q1, "connect")
      /\ NoneOf(S2, q2, "recv") <=> NoneOf(S1, q1, "recv")
  BY <1>1, ThreadKept
<1>3. Limited(S2, q2) /\ NoOld(S2, q2) /\ Reads(st, sk, stk, S2, q2)
  BY <1>2 DEF Linked, Limited, WorkKept, Reads, Reader
<1>4. ASSUME ~rC
      PROVE  Attempts(st, es, stk, S2, q2) /\ Drained(st, es, stk, S2) /\ Ordered(q2) /\ Retrying(es, stk, S2, q2)
  <2>1. Attempts(st, es, stk, S2, q2)
    BY <1>2, <1>4 DEF Linked, Attempts, NoAttempt, NoSends, WorkKept
  <2>2. Drained(st, es, stk, S2)
    BY <1>4 DEF Linked, Drained, WorkKept
  <2>3. Quiet(stk, S1, q1) => Quiet(stk, S2, q2)
    BY DEF Quiet, NoWork, WorkKept, Keeps
  <2>4. Retrying(es, stk, S2, q2)
    BY <1>4, <2>3 DEF Linked, Retrying
  <2>5. QED
    BY <1>4, <2>1, <2>2, <2>4 DEF Linked
<1>5. QED
  BY <1>2, <1>3, <1>4 DEF Linked

\* What an aborted operation leaves in the strand.
LEMMA AbortedOthers ==
  ASSUME NEW C, C \subseteq OpType, IsFiniteSet(C)
  PROVE  /\ Aborted(C) \in Seq(WorkType)
         /\ NoneAt(Aborted(C), "resolve") /\ NoneAt(Aborted(C), "push")
         /\ \A i \in DOMAIN Aborted(C) : Aborted(C)[i].op \in C
<1> DEFINE q == Aborted(C)
<1>1. q \in Seq(WorkType) /\ Lists(q, {o \in C : o.k \in Cancellable})
  BY AbortedLists
<1> HIDE DEF q
<1>2. \A i \in DOMAIN q : q[i].op \in C /\ q[i].k \in Cancellable
  BY <1>1, CompletionOp DEF Lists
<1>3. NoneAt(q, "resolve") /\ NoneAt(q, "push")
  BY <1>2 DEF NoneAt, Cancellable
<1>4. QED
  BY <1>1, <1>2, <1>3 DEF q

LEMMA NoOldConcat ==
  ASSUME NEW q \in Seq(WorkType), NEW r \in Seq(WorkType),
         \A i \in DOMAIN q : ~q[i].op.old, \A i \in DOMAIN r : ~r[i].op.old
  PROVE  \A i \in DOMAIN (q \o r) : ~(q \o r)[i].op.old
<1> DEFINE t == q \o r
           m == Len(q)
           n == Len(r)
<1>1. /\ m \in Nat /\ DOMAIN q = 1 .. m /\ n \in Nat /\ DOMAIN r = 1 .. n
  BY LenProperties
<1>2. /\ t \in Seq(WorkType) /\ Len(t) = m + n
      /\ \A i \in 1 .. m + n : t[i] = IF i <= m THEN q[i] ELSE r[i - m]
  BY ConcatProperties
<1>3. DOMAIN t = 1 .. (m + n)
  BY <1>2, LenProperties
<1>4. \A i \in DOMAIN t : \/ i \in 1 .. m /\ t[i] = q[i]
                          \/ i - m \in 1 .. n /\ t[i] = r[i - m]
  BY <1>1, <1>2, <1>3
<1> HIDE DEF t, m, n
<1>5. \A i \in DOMAIN t : ~t[i].op.old
  BY <1>1, <1>4
<1>6. QED
  BY <1>5 DEF t

LEMMA WorkOutstanding ==
  ASSUME StrandTypes, NEW P \in Seq(WorkType), NEW C, C \subseteq ops, NEW N, Outstanding(P, C, N),
         NoneIn(C, "resolve"), NoneIn(N, "resolve"), NoneIn(N, "connect"), NoneIn(N, "recv"),
         NoneIn(N, "ctimer"), \A o \in N : ~o.old
  PROVE  WorkKept(ops, P, ops', posted')
<1> DEFINE T == (ops \ C) \cup N
           A == Aborted(C)
<1>1. /\ ops \subseteq OpType /\ IsFiniteSet(ops) /\ C \subseteq OpType /\ IsFiniteSet(C)
      /\ ops' = T /\ posted' = P \o A
  BY FS_Subset DEF StrandTypes, Outstanding
<1>2. /\ A \in Seq(WorkType) /\ NoneAt(A, "resolve") /\ NoneAt(A, "push")
      /\ \A i \in DOMAIN A : A[i].op \in C
  BY <1>1, AbortedOthers
<1>3. \A k : NoneIn(ops, k) /\ NoneIn(N, k) => NoneIn(T, k)
  BY DEF NoneIn
<1>4. ASSUME NEW k \in Cancellable, NoneIn(N, k) PROVE Keeps(ops, P, ops', posted', k)
  BY <1>1, <1>4, OutstandingOf DEF Keeps
<1>5. Keeps(ops, P, ops', posted', "resolve")
  <2>1. NoneIn(ops, "resolve") <=> NoneIn(T, "resolve")
    BY DEF NoneIn
  <2>2. OneIn(ops, "resolve", "-") => OneIn(T, "resolve", "-")
    BY DEF NoneIn, OneIn
  <2> HIDE DEF A, T
  <2>3. /\ NoneAt(P, "resolve") => NoneAt(P \o A, "resolve")
        /\ OneAt(P, "resolve", "-") => OneAt(P \o A, "resolve", "-")
    BY <1>2, ConcatAt
  <2>4. QED
    BY <1>1, <2>1, <2>2, <2>3 DEF Keeps, NoneOf, OneOf
<1>6. NoneAt(P, "push") => NoneAt(posted', "push")
  <2> HIDE DEF A
  <2>1. QED
    BY <1>1, <1>2, ConcatAt
<1>7. NoOld(ops, P) => NoOld(ops', posted')
  <2>1. SUFFICES ASSUME NoOld(ops, P) PROVE NoOld(ops', posted')
    OBVIOUS
  <2>2. \A o \in T : ~o.old
    BY <2>1 DEF NoOld
  <2>3. \A i \in DOMAIN A : ~A[i].op.old
    BY <1>2, <2>1 DEF NoOld
  <2> HIDE DEF A
  <2>4. \A i \in DOMAIN (P \o A) : ~(P \o A)[i].op.old
    BY <1>2, <2>1, <2>3, NoOldConcat DEF NoOld
  <2>5. QED
    BY <1>1, <2>2, <2>4 DEF NoOld
<1>8. /\ NoneIn(ops, "ctimer") => NoneIn(ops', "ctimer")
      /\ NoneIn(ops, "recv") => NoneIn(ops', "recv")
  BY <1>1, <1>3
<1>9. /\ Keeps(ops, P, ops', posted', "connect") /\ Keeps(ops, P, ops', posted', "recv")
      /\ Keeps(ops, P, ops', posted', "ctimer")
  BY <1>4 DEF Cancellable
<1>10. QED
  BY <1>5, <1>6, <1>7, <1>8, <1>9 DEF WorkKept, Keeps

LEMMA OrderedConcat ==
  ASSUME NEW q \in Seq(WorkType), NEW r \in Seq(WorkType), Ordered(q), Ordered(r),
         \/ NoneAt(q, "rtimer")
         \/ NoneAt(r, "recv") /\ NoneAt(r, "ctimer") /\ NoneAt(r, "push")
  PROVE  Ordered(q \o r)
<1> DEFINE t == q \o r
           m == Len(q)
           n == Len(r)
<1>1. /\ m \in Nat /\ DOMAIN q = 1 .. m /\ n \in Nat /\ DOMAIN r = 1 .. n
  BY LenProperties
<1>2. /\ t \in Seq(WorkType) /\ Len(t) = m + n
      /\ \A i \in 1 .. m + n : t[i] = IF i <= m THEN q[i] ELSE r[i - m]
  BY ConcatProperties
<1>3. DOMAIN t = 1 .. (m + n)
  BY <1>2, LenProperties
<1>4. \A i \in DOMAIN t : \/ i \in 1 .. m /\ t[i] = q[i]
                          \/ i - m \in 1 .. n /\ t[i] = r[i - m] /\ m < i /\ i \in Int
  BY <1>1, <1>2, <1>3
<1> HIDE DEF t, m, n
<1>5. ASSUME NEW i \in DOMAIN t, NEW j \in DOMAIN t,
             t[i].k = "rtimer", t[j].k \in {"recv", "ctimer", "push"}
      PROVE  j < i
  <2>1. CASE i \in 1 .. m /\ t[i] = q[i] /\ j \in 1 .. m /\ t[j] = q[j]
    BY <1>1, <1>5, <2>1 DEF Ordered
  <2>2. CASE i \in 1 .. m /\ t[i] = q[i] /\ j - m \in 1 .. n /\ t[j] = r[j - m]
    BY <1>1, <1>5, <2>2 DEF NoneAt
  <2>3. CASE m < i /\ i \in Int /\ j \in 1 .. m
    BY <1>1, <2>3
  <2>4. CASE /\ i - m \in 1 .. n /\ t[i] = r[i - m] /\ j - m \in 1 .. n /\ t[j] = r[j - m]
             /\ i \in Int /\ j \in Int
    <3>1. j - m < i - m
      BY <1>1, <1>5, <2>4 DEF Ordered
    <3>2. QED
      BY <1>1, <2>4, <3>1
  <2>5. QED
    BY <1>4, <2>1, <2>2, <2>3, <2>4
<1>6. QED
  BY <1>5 DEF Ordered, t

LEMMA OrderedAbsent ==
  ASSUME NEW q, NoneAt(q, "rtimer") \/ (NoneAt(q, "recv") /\ NoneAt(q, "ctimer") /\ NoneAt(q, "push"))
  PROVE  Ordered(q)
BY DEF Ordered, NoneAt

LEMMA OrderedOutstanding ==
  ASSUME StrandTypes, NEW P \in Seq(WorkType), NEW C, C \subseteq ops, NEW N, Outstanding(P, C, N),
         Ordered(P),
         \/ NoneAt(P, "rtimer") /\ NoneIn(C, "rtimer")
         \/ NoneIn(C, "recv") /\ NoneIn(C, "ctimer")
  PROVE  Ordered(posted')
<1> DEFINE A == Aborted(C)
<1>1. C \subseteq OpType /\ IsFiniteSet(C) /\ posted' = P \o A
  BY FS_Subset DEF StrandTypes, Outstanding
<1>2. /\ A \in Seq(WorkType) /\ NoneAt(A, "push")
      /\ NoneIn(C, "rtimer") => NoneAt(A, "rtimer")
      /\ NoneIn(C, "recv") => NoneAt(A, "recv")
      /\ NoneIn(C, "ctimer") => NoneAt(A, "ctimer")
  BY <1>1, AbortedOthers, AbortedAt DEF Cancellable
<1> HIDE DEF A
<1>3. Ordered(A)
  BY <1>2, OrderedAbsent
<1>4. QED
  BY <1>1, <1>2, <1>3, OrderedConcat

LEMMA OrderedPost ==
  ASSUME NEW q \in Seq(WorkType), NEW h \in WorkType, Ordered(q),
         h.k \notin {"recv", "ctimer", "push"} \/ NoneAt(q, "rtimer")
  PROVE  Ordered(Append(q, h))
<1> DEFINE r == <<h>>
<1>1. Append(q, h) = q \o r /\ r \in Seq(WorkType)
  BY AppendIsConcat
<1>2. \A k : h.k # k => NoneAt(r, k)
  BY SingleAt
<1> HIDE DEF r
<1>3. \/ NoneAt(r, "recv") /\ NoneAt(r, "ctimer") /\ NoneAt(r, "push")
      \/ NoneAt(r, "rtimer") /\ NoneAt(q, "rtimer")
  BY <1>2
<1>4. Ordered(r)
  BY <1>3, OrderedAbsent
<1>5. QED
  BY <1>1, <1>3, <1>4, OrderedConcat

LEMMA OrderedTail ==
  ASSUME NEW q \in Seq(WorkType), q # <<>>, Ordered(q)
  PROVE  /\ Ordered(Tail(q))
         /\ Head(q).k = "rtimer" => NoneAt(Tail(q), "recv") /\ NoneAt(Tail(q), "ctimer") /\ NoneAt(Tail(q), "push")
<1>1. /\ Tail(q) \in Seq(WorkType) /\ Len(Tail(q)) = Len(q) - 1 /\ Len(q) \in Nat
      /\ \A i \in 1 .. Len(Tail(q)) : Tail(q)[i] = q[i + 1]
      /\ DOMAIN q = 1 .. Len(q) /\ DOMAIN Tail(q) = 1 .. Len(Tail(q)) /\ Head(q) = q[1]
  BY HeadTailProperties, LenProperties
<1> DEFINE n == Len(q)
<1>2. n \in Nat /\ DOMAIN q = 1 .. n /\ DOMAIN Tail(q) = 1 .. (n - 1) /\ n # 0
  BY <1>1, EmptySeq
<1> HIDE DEF n
<1>3. /\ \A i \in DOMAIN Tail(q) : i + 1 \in DOMAIN q /\ ~(i + 1 < 1) /\ i \in Int
      /\ 1 \in DOMAIN q
  BY <1>2
<1>4. \A i \in DOMAIN Tail(q) : Tail(q)[i] = q[i + 1]
  BY <1>1
<1>5. \A i, j \in DOMAIN Tail(q) : j + 1 < i + 1 => j < i
  BY <1>3
<1>6. Ordered(Tail(q))
  BY <1>3, <1>4, <1>5 DEF Ordered
<1>7. ASSUME Head(q).k = "rtimer", NEW i \in DOMAIN Tail(q)
      PROVE  Tail(q)[i].k \notin {"recv", "ctimer", "push"}
  BY <1>1, <1>3, <1>4, <1>7 DEF Ordered
<1>8. QED
  BY <1>6, <1>7 DEF NoneAt

LEMMA NoOldTail ==
  ASSUME NEW S, NEW q \in Seq(WorkType), q # <<>>, NoOld(S, q)
  PROVE  NoOld(S, Tail(q))
<1>1. /\ Tail(q) \in Seq(WorkType) /\ Len(Tail(q)) = Len(q) - 1 /\ Len(q) \in Nat
      /\ \A i \in 1 .. Len(Tail(q)) : Tail(q)[i] = q[i + 1]
      /\ DOMAIN q = 1 .. Len(q) /\ DOMAIN Tail(q) = 1 .. Len(Tail(q))
  BY HeadTailProperties, LenProperties
<1>2. \A i \in DOMAIN Tail(q) : i + 1 \in DOMAIN q /\ Tail(q)[i] = q[i + 1]
  BY <1>1
<1>3. QED
  BY <1>2 DEF NoOld

LEMMA WorkTail ==
  ASSUME NEW q \in Seq(WorkType), q # <<>>, Head(q).k \notin {"resolve", "connect", "recv"}, NEW S
  PROVE  WorkKept(S, q, S, Tail(q))
<1>1. \A k : k # Head(q).k => Keeps(S, q, S, Tail(q), k)
  BY TailAt DEF Keeps, NoneOf, OneOf
<1>2. (NoneOf(S, q, "ctimer") => NoneOf(S, Tail(q), "ctimer")) /\ (NoneAt(q, "push") => NoneAt(Tail(q), "push"))
  BY TailAt DEF NoneOf
<1>3. QED
  BY <1>1, <1>2, NoOldTail DEF WorkKept

LEMMA NoOldPost ==
  ASSUME NEW S, NEW q \in Seq(WorkType), NEW h \in WorkType, NoOld(S, q), ~h.op.old
  PROVE  NoOld(S, Append(q, h))
<1> DEFINE r == <<h>>
<1>1. Append(q, h) = q \o r /\ r \in Seq(WorkType) /\ \A i \in DOMAIN r : ~r[i].op.old
  BY AppendIsConcat
<1> HIDE DEF r
<1>2. \A i \in DOMAIN (q \o r) : ~(q \o r)[i].op.old
  BY <1>1, NoOldConcat DEF NoOld
<1>3. QED
  BY <1>1, <1>2 DEF NoOld

LEMMA WorkPost ==
  ASSUME NEW q \in Seq(WorkType), NEW h \in WorkType, NEW S, ~h.op.old,
         h.k \notin {"resolve", "connect", "recv", "ctimer", "push"}
  PROVE  WorkKept(S, q, S, Append(q, h))
<1>1. \A k : k # h.k => Keeps(S, q, S, Append(q, h), k)
  BY AppendAt DEF Keeps, NoneOf, OneOf
<1>2. NoneAt(q, "push") => NoneAt(Append(q, h), "push")
  BY AppendAt
<1>3. QED
  BY <1>1, <1>2, NoOldPost DEF WorkKept, Keeps

-----------------------------------------------------------------------------
(* What the pieces of handlers do to the connection.                        *)

\* Nobody waits to connect again.
NoRetry(es, stk) == \A i \in DOMAIN es : es[i].k = "reconnect" => ~Waker(es, stk, i)

\* While the reconnect timer is to be handled no more of the connection comes.
LEMMA Silent ==
  ASSUME NEW st, NEW rC, NEW sk, NEW es, NEW stk, NEW S, NEW q, ~rC, ~NoneAt(q, "rtimer"),
         Woken(st, rC, es, stk, S, q), Linked(st, rC, sk, es, stk, S, q)
  PROVE  /\ st = "stopping" /\ NoWaker(es, stk) /\ NoAttempt(stk, S, q)
         /\ NoneIn(S, "recv") /\ NoneIn(S, "ctimer")
<1>1. st = "stopping" /\ NoWaker(es, stk)
  BY DEF Woken, Phase, Resting
<1>2. Closed(es, stk)
  BY <1>1 DEF NoWaker, Waker, Wakers, Closed
<1>3. NoneIn(S, "recv") /\ NoAttempt(stk, S, q)
  BY <1>1, <1>2 DEF Linked, Drained, Attempts
<1>4. NoneIn(S, "ctimer")
  BY <1>3 DEF Linked, Limited, NoAttempt
<1>5. QED
  BY <1>1, <1>3, <1>4

\* After a stop the order of what is left no longer matters.
LEMMA LinkedState ==
  ASSUME NEW st, NEW st2, NEW sk, NEW es, NEW stk, NEW S, NEW q, st2 # "started" \/ st2 = st,
         Linked(st, TRUE, sk, es, stk, S, q)
  PROVE  Linked(st2, TRUE, sk, es, stk, S, q)
BY DEF Linked, Reads

LEMMA LinkedCanceled ==
  ASSUME NEW st, NEW rC, NEW sk, NEW es, NEW stk, NEW S, NEW q, rC,
         Thread(stk, S, q), Limited(S, q), NoOld(S, q), Reads(st, sk, stk, S, q)
  PROVE  Linked(st, rC, sk, es, stk, S, q)
BY DEF Linked

LEMMA EmplaceSame ==
  ASSUME events \in Seq(QueueType), NEW stk \in Stacks, NEW ev \in QueueType, Emplace(ev, stk)
  PROVE  Same(stk, stack')
<1>1. stack' = stk \/ stack' = Append(stk, Body)
  BY DEF Emplace
<1>2. Body.k \notin ThreadFrames /\ Body \in FrameType /\ stk \in Seq(FrameType)
  BY FrameTypes DEF ThreadFrames, Stacks
<1>3. Same(stk, Append(stk, Body))
  BY <1>2, SamePush
<1>4. QED
  BY <1>1, <1>3 DEF Same

LEMMA EmplaceOld ==
  ASSUME events \in Seq(QueueType), NEW stk \in Stacks, NEW ev \in QueueType, Emplace(ev, stk),
         NEW i \in DOMAIN events
  PROVE  Waker(events', stack', i) <=> Waker(events, stk, i)
<1>1. events'[i] = events[i] /\ (events # <<>> => stack' = stk)
  BY EmplaceEvents
<1>2. events # <<>>
  OBVIOUS
<1>3. QED
  BY <1>1, <1>2 DEF Waker

\* An event that wakes nobody joins the queue.
LEMMA LinkedEmplace ==
  ASSUME events \in Seq(QueueType), NEW stk \in Stacks, NEW ev \in QueueType, Emplace(ev, stk),
         ev.k \notin Wakers, NEW st, NEW rC, NEW rC2, rC => rC2, NEW sk, NEW S, NEW q,
         ~rC2 /\ ev.k = "send" => st # "starting" /\ NoRetry(events, stk),
         Linked(st, rC, sk, events, stk, S, q)
  PROVE  Linked(st, rC2, sk, events', stack', S, q)
<1> DEFINE n == Len(events)
<1>1. /\ \A i \in DOMAIN events : events'[i] = events[i]
      /\ events'[n + 1] = ev
      /\ \A i \in DOMAIN events' : i \in DOMAIN events \/ i = n + 1
      /\ \A i \in DOMAIN events : i \in DOMAIN events' /\ i < n + 1
      /\ events # <<>> => stack' = stk
  BY EmplaceEvents
<1>2. \A i \in DOMAIN events : Waker(events', stack', i) <=> Waker(events, stk, i)
  BY EmplaceOld
<1>3. Same(stk, stack')
  BY EmplaceSame
<1> HIDE DEF n
<1>4. Thread(stack', S, q) /\ Limited(S, q) /\ NoOld(S, q) /\ Reads(st, sk, stack', S, q)
  BY <1>3 DEF Linked, Thread, Reads, Reader, Same
<1>5. ASSUME ~rC2
      PROVE  /\ Attempts(st, events', stack', S, q) /\ Drained(st, events', stack', S) /\ Ordered(q)
             /\ Retrying(events', stack', S, q)
  <2>1. /\ Attempts(st, events, stk, S, q) /\ Drained(st, events, stk, S) /\ Ordered(q)
        /\ Retrying(events, stk, S, q)
    BY <1>5 DEF Linked
  <2>2. NoSends(events, q) /\ ev.k # "send" => NoSends(events', q)
    BY <1>1 DEF NoSends
  <2>3. Attempts(st, events', stack', S, q)
    BY <1>3, <1>5, <2>1, <2>2 DEF Attempts, NoAttempt, Same
  <2>4. Closed(events', stack') => Closed(events, stk)
    <3>1. SUFFICES ASSUME Closed(events', stack'), NEW i \in DOMAIN events, events[i].k = "disconnect"
                   PROVE  i = 1 /\ NoFrame(stk, {"event", "disc2"})
      BY DEF Closed
    <3>2. events # <<>>
      OBVIOUS
    <3>3. i \in DOMAIN events' /\ events'[i].k = "disconnect" /\ stack' = stk
      BY <1>1, <3>1, <3>2
    <3>4. QED
      BY <3>1, <3>3 DEF Closed
  <2>5. Drained(st, events', stack', S)
    BY <2>1, <2>4 DEF Drained
  <2>6. Quiet(stk, S, q) => Quiet(stack', S, q)
    BY <1>3 DEF Quiet, Same
  <2>7. ASSUME NEW i \in DOMAIN events', events'[i].k = "reconnect", Waker(events', stack', i)
        PROVE  Quiet(stack', S, q) /\ \A j \in DOMAIN events' : events'[j].k = "send" => j < i
    <3>1. i \in DOMAIN events /\ events[i].k = "reconnect" /\ Waker(events, stk, i)
      BY <1>1, <1>2, <2>7 DEF Wakers
    <3>2. Quiet(stk, S, q) /\ \A j \in DOMAIN events : events[j].k = "send" => j < i
      BY <2>1, <3>1 DEF Retrying
    <3>3. ev.k # "send"
      BY <1>5, <3>1 DEF NoRetry
    <3>4. QED
      BY <1>1, <2>6, <3>2, <3>3
  <2>8. Retrying(events', stack', S, q)
    BY <2>7 DEF Retrying
  <2>9. QED
    BY <2>1, <2>3, <2>5, <2>8
<1>6. QED
  BY <1>4, <1>5 DEF Linked

LEMMA LinkedDisconnect ==
  ASSUME events \in Seq(QueueType), NEW stk \in Stacks, NEW chain \in {"stop", "wake"},
         DoDisconnect(chain, stk), NEW rC, NEW rC2, rC => rC2, NEW sk, NEW sk2, NEW S, NEW q,
         ~rC2 => /\ state # "stopping" => NoWaker(events, stk)
                 /\ state = "starting" => NoAttempt(stk, S, q),
         Linked(state, rC, sk, events, stk, S, q)
  PROVE  Linked(state', rC2, sk2, events', stack', S, q)
<1>1. CASE state \in {"started", "starting"}
  <2> DEFINE ev == DisconnectEvent(state, chain)
             n == Len(events)
  <2>1. ev \in QueueType /\ ev.k = "disconnect"
    BY <1>1, EventTypes DEF DisconnectEvent
  <2>2. Emplace(ev, stk) /\ state' = "stopping"
    BY <1>1 DEF DoDisconnect
  <2> HIDE DEF ev
  <2>3. /\ \A i \in DOMAIN events : events'[i] = events[i]
        /\ events'[n + 1] = ev /\ n + 1 \in DOMAIN events'
        /\ \A i \in DOMAIN events' : i \in DOMAIN events \/ i = n + 1
        /\ events # <<>> => n + 1 # 1
        /\ events = <<>> => ~NoFrame(stack', {"event"})
    BY <2>1, <2>2, EmplaceEvents
  <2>4. \A i \in DOMAIN events : Waker(events', stack', i) <=> Waker(events, stk, i)
    BY <2>1, <2>2, EmplaceOld
  <2>5. Same(stk, stack')
    BY <2>1, <2>2, EmplaceSame
  <2> HIDE DEF n
  <2>6. Thread(stack', S, q) /\ Limited(S, q) /\ NoOld(S, q)
    BY <2>5 DEF Linked, Thread, Same
  <2>7. ASSUME ~rC2
        PROVE  /\ Attempts("stopping", events', stack', S, q) /\ Drained("stopping", events', stack', S)
               /\ Ordered(q) /\ Retrying(events', stack', S, q)
    <3>1. Attempts(state, events, stk, S, q) /\ Ordered(q)
      BY <2>7 DEF Linked
    <3>2. NoAttempt(stk, S, q)
      BY <1>1, <2>7, <3>1 DEF Attempts
    <3>3. Attempts("stopping", events', stack', S, q)
      BY <2>5, <3>2 DEF Attempts, NoAttempt, Same
    <3>4. ~Closed(events', stack')
      <4>1. NoFrame(stack', {"event", "disc2"}) => NoFrame(stack', {"event"})
        BY DEF NoFrame
      <4>2. QED
        BY <2>1, <2>3, <4>1 DEF Closed
    <3>5. Retrying(events', stack', S, q)
      <4>1. NoWaker(events, stk)
        BY <1>1, <2>7
      <4>2. QED
        BY <2>1, <2>3, <2>4, <4>1 DEF Retrying, NoWaker
    <3>6. QED
      BY <3>1, <3>3, <3>4, <3>5 DEF Drained
  <2>8. QED
    BY <2>2, <2>6, <2>7 DEF Linked, Reads
<1>2. CASE state \notin {"started", "starting"} /\ chain = "stop"
  <2>1. Emplace(StopEvent, stk) /\ state' = state
    BY <1>2 DEF DoDisconnect
  <2>2. StopEvent \in QueueType /\ StopEvent.k \notin Wakers /\ StopEvent.k # "send"
    BY EventTypes DEF StopEvent, Wakers
  <2>3. Linked(state, rC2, sk, events', stack', S, q)
    BY <2>1, <2>2, LinkedEmplace
  <2>4. Linked(state, rC2, sk2, events', stack', S, q)
    BY <1>2, <2>3, LinkedSock
  <2>5. QED
    BY <2>1, <2>4
<1>3. CASE state \notin {"started", "starting"} /\ chain # "stop"
  <2>1. stack' = stk /\ events' = events /\ state' = state
    BY <1>3 DEF DoDisconnect
  <2>2. QED
    BY <1>3, <2>1, LinkedSock
<1>4. QED
  BY <1>1, <1>2, <1>3

LEMMA OutstandingWaits ==
  ASSUME StrandTypes
  PROVE  /\ ReconnectWait \subseteq ops /\ ConnectWait \subseteq ops /\ SocketOps \subseteq ops
         /\ \A k \in {"resolve", "connect", "recv", "ctimer"} : NoneIn(ReconnectWait, k)
         /\ \A k \in {"resolve", "connect", "recv", "rtimer"} : NoneIn(ConnectWait, k)
         /\ \A k \in {"resolve", "ctimer", "rtimer"} : NoneIn(SocketOps, k)
         /\ \A k : NoneIn({}, k)
         /\ {} \subseteq ops
BY DEF NoneIn, ReconnectWait, ConnectWait, SocketOps

\* tcp_client::stop.
LEMMA LinkedStops ==
  ASSUME IInv, NEW stk \in Stacks, NEW P \in Seq(WorkType), StopOnStrand(P, stk),
         Linked(state, rCanceled, sock, events, stk, ops, P)
  PROVE  LinkedNow'
<1>1. StrandTypes /\ events \in Seq(QueueType)
  BY IInvParts DEF StrandTypes
<1>2. /\ Outstanding(P, ReconnectWait, {}) /\ DoDisconnect("stop", stk) /\ rCanceled' = TRUE
      /\ sock' = sock
  BY DEF StopOnStrand
<1>3. WorkKept(ops, P, ops', posted')
  BY <1>1, <1>2, OutstandingWaits, WorkOutstanding
<1>4. Linked(state, TRUE, sock, events, stk, ops, P)
  BY LinkedSock
<1>5. Linked(state, TRUE, sock, events, stk, ops', posted')
  BY <1>3, <1>4, LinkedWork
<1> DEFINE S == ops'
           q == posted'
<1>6. Linked(state, TRUE, sock, events, stk, S, q)
  BY <1>5
<1> HIDE DEF S, q
<1>7. Linked(state', TRUE, sock, events', stack', S, q)
  BY <1>1, <1>2, <1>6, LinkedDisconnect
<1>8. QED
  BY <1>2, <1>7 DEF LinkedNow, S, q

\* An operation ends by itself.
LEMMA EndsWork ==
  ASSUME IInv, NEW o \in ops, o.k # "none", NEW ec \in Codes, Ends(o, ec)
  PROVE  /\ WorkKept(ops, posted, ops', posted')
         /\ Ordered(posted) /\ (o.k \notin {"recv", "ctimer"} \/ NoneAt(posted, "rtimer")) => Ordered(posted')
<1> DEFINE h == Completion(o, ec)
<1>1. posted \in Seq(WorkType) /\ ops \subseteq OpType
  BY IInvParts DEF StrandTypes
<1>2. h \in WorkType /\ h.k = o.k /\ h.op = o /\ h.k # "push"
  BY <1>1, CompletionType, CompletionOp
<1>3. ops' = ops \ {o} /\ posted' = Append(posted, h)
  BY DEF Ends
<1> HIDE DEF h
<1>4. ASSUME NEW k PROVE Keeps(ops, posted, ops', posted', k)
  <2>1. CASE o.k # k
    <3>1. /\ NoneIn(ops, k) => NoneIn(ops', k)
          /\ OneIn(ops, k, "-") => OneIn(ops', k, "-")
      BY <1>3, <2>1 DEF NoneIn, OneIn
    <3>2. /\ NoneAt(posted, k) => NoneAt(posted', k)
          /\ OneAt(posted, k, "-") => OneAt(posted', k, "-")
      BY <1>1, <1>2, <1>3, <2>1, AppendAt
    <3>3. QED
      BY <3>1, <3>2 DEF Keeps, NoneOf, OneOf
  <2>2. CASE o.k = k
    <3>1. ~NoneIn(ops, k)
      BY <2>2 DEF NoneIn
    <3>2. ASSUME OneIn(ops, k, "-"), NoneAt(posted, k)
          PROVE  NoneIn(ops', k) /\ OneAt(posted', k, "-")
      <4>1. o.x = "-" /\ NoneIn(ops', k)
        BY <1>3, <2>2, <3>2 DEF NoneIn, OneIn
      <4>2. OneAt(posted', k, h.op.x)
        BY <1>1, <1>2, <1>3, <2>2, <3>2, AppendAt
      <4>3. QED
        BY <1>2, <4>1, <4>2
    <3>3. QED
      BY <3>1, <3>2 DEF Keeps, NoneOf, OneOf
  <2>3. QED
    BY <2>1, <2>2
<1>5. /\ NoneIn(ops, "ctimer") => NoneIn(ops', "ctimer")
      /\ NoneIn(ops, "recv") => NoneIn(ops', "recv")
  BY <1>3 DEF NoneIn
<1>6. NoneAt(posted, "push") => NoneAt(posted', "push")
  BY <1>1, <1>2, <1>3, AppendAt
<1>7. NoOld(ops, posted) => NoOld(ops', posted')
  <2>1. ASSUME NoOld(ops, posted) PROVE NoOld(ops, Append(posted, h))
    <3>1. ~h.op.old
      BY <1>2, <2>1 DEF NoOld
    <3>2. QED
      BY <1>1, <1>2, <2>1, <3>1, NoOldPost
  <2>2. NoOld(ops, Append(posted, h)) => NoOld(ops', posted')
    BY <1>3 DEF NoOld
  <2>3. QED
    BY <2>1, <2>2
<1>8. NoneOf(ops, posted, "ctimer") => NoneOf(ops', posted', "ctimer")
  BY <1>4 DEF Keeps
<1>9. WorkKept(ops, posted, ops', posted')
  BY <1>4, <1>5, <1>6, <1>7, <1>8 DEF WorkKept
<1>10. Ordered(posted) /\ (o.k \notin {"recv", "ctimer"} \/ NoneAt(posted, "rtimer")) => Ordered(posted')
  BY <1>1, <1>2, <1>3, OrderedPost
<1>11. QED
  BY <1>9, <1>10

LEMMA LinkedEnds ==
  ASSUME IInv, BegunNow, WokenNow, LinkedNow, NEW o \in ops, o.k # "none", NEW ec \in Codes, Ends(o, ec),
         sock' = sock \/ (o.k = "connect" /\ sock' = "connected")
  PROVE  LinkedNow'
<1>1. /\ Linked(state, rCanceled, sock, events, stack, ops, posted)
      /\ Woken(state, rCanceled, events, stack, ops, posted)
  BY DEF LinkedNow, WokenNow
<1>2. UNCHANGED <<state, rCanceled, events, stack>>
  BY DEF Ends, timers
<1>3. ~rCanceled => o.k \notin {"recv", "ctimer"} \/ NoneAt(posted, "rtimer")
  <2>1. ASSUME ~rCanceled, ~NoneAt(posted, "rtimer") PROVE NoneIn(ops, "recv") /\ NoneIn(ops, "ctimer")
    BY <1>1, <2>1, Silent
  <2>2. QED
    BY <2>1 DEF NoneIn
<1>4. WorkKept(ops, posted, ops', posted') /\ (~rCanceled /\ Ordered(posted) => Ordered(posted'))
  BY <1>3, EndsWork
<1>5. o.k = "connect" => state # "started"
  <2>1. o.k = "connect" => ~NoneOf(ops, posted, "connect")
    BY DEF NoneOf, NoneIn
  <2>2. o.k = "connect" /\ ~rCanceled => state = "starting"
    BY <1>1, <2>1 DEF Linked, Attempts, NoAttempt
  <2>3. rCanceled => state # "started"
    BY DEF BegunNow, Begun
  <2>4. QED
    BY <2>2, <2>3
<1>6. Linked(state, rCanceled, sock, events, stack, ops', posted')
  BY <1>1, <1>4, LinkedWork
<1>7. Linked(state, rCanceled, sock', events, stack, ops', posted')
  BY <1>5, <1>6, LinkedSock
<1>8. QED
  BY <1>2, <1>7 DEF LinkedNow

-----------------------------------------------------------------------------
(* A step of the connection: its frame or its completion is taken, and       *)
(* gives way to what comes next.                                            *)

Free(st, rC, es, stk, S, q) ==
  /\ NoFrame(stk, ThreadFrames) /\ NoWork(S, q) /\ NoOld(S, q)
  /\ ~rC => (st = "starting" => NoSends(es, q)) /\ Ordered(q) /\ NoRetry(es, stk)

\* The frame of the connection is done.
LEMMA FreeTop ==
  ASSUME IInv, LinkedNow, ~Idle, Top.k \in ThreadFrames
  PROVE  /\ Free(state, rCanceled, events, Below, ops, posted) /\ NoneIn(ops, "ctimer")
         /\ Top.k = "start2" /\ ~rCanceled => state = "starting"
<1>1. Below \in Seq(FrameType) /\ Top \in FrameType /\ stack = Append(Below, Top)
  BY TopFrame DEF Stacks
<1>2. \A K : /\ NoFrame(stack, K) <=> (NoFrame(Below, K) /\ Top.k \notin K)
             /\ OneFrame(stack, K) <=> (\/ (OneFrame(Below, K) /\ Top.k \notin K)
                                       \/ (NoFrame(Below, K) /\ Top.k \in K))
  BY <1>1, FramePush
<1>3. Linked(state, rCanceled, sock, events, stack, ops, posted)
  BY DEF LinkedNow
<1>4. NoFrame(Below, ThreadFrames) /\ NoWork(ops, posted) /\ ~NoFrame(stack, ThreadFrames)
  BY <1>2, <1>3 DEF Linked, Thread
<1>5. NoOld(ops, posted) /\ NoneIn(ops, "ctimer")
  BY <1>3, <1>4 DEF Linked, Limited, NoWork
<1>6. ASSUME ~rCanceled
      PROVE  /\ state = "starting" => NoSends(events, posted)
             /\ Ordered(posted) /\ NoRetry(events, Below)
             /\ Top.k = "start2" => state = "starting"
  <2>1. /\ Attempts(state, events, stack, ops, posted) /\ Ordered(posted)
        /\ Retrying(events, stack, ops, posted)
    BY <1>3, <1>6 DEF Linked
  <2>2. Top.k = "start2" => ~NoFrame(stack, {"start2"})
    BY <1>2
  <2>3. \A i : Waker(events, Below, i) => Waker(events, stack, i)
    BY <1>2 DEF Waker
  <2>4. NoRetry(events, Below)
    BY <1>4, <2>1, <2>3 DEF NoRetry, Retrying, Quiet
  <2>5. QED
    BY <2>1, <2>2, <2>4 DEF Attempts, NoAttempt
<1>7. QED
  BY <1>4, <1>5, <1>6 DEF Free

\* Its completion is handled.
LEMMA FreeNext ==
  ASSUME IInv, BegunNow, LinkedNow, NEW k \in {"resolve", "connect", "recv"}, Runs(k)
  PROVE  /\ Free(state, rCanceled, events, <<>>, ops, Rest) /\ stack = <<>> /\ Rest \in Seq(WorkType)
         /\ k = "recv" => NoneIn(ops, "ctimer")
         /\ ~rCanceled => (k # "recv" <=> state = "starting")
         /\ state = "started" => ~rCanceled
<1>1. posted \in Seq(WorkType) /\ posted # <<>> /\ Head(posted).k = k /\ stack = <<>> /\ Rest \in Seq(WorkType)
  BY BegunNext DEF Done
<1>2. Linked(state, rCanceled, sock, events, <<>>, ops, posted)
  BY <1>1 DEF LinkedNow
<1>3. ~NoneAt(posted, k)
  BY <1>1, TailAt
<1>4. ~NoneOf(ops, posted, k) /\ ~NoWork(ops, posted)
  BY <1>3 DEF NoneOf, NoWork
<1>5. OneWork(ops, posted)
  BY <1>2, <1>4 DEF Linked, Thread
<1>6. /\ OneOf(ops, posted, k, "-")
      /\ \A j \in {"resolve", "connect", "recv"} : j # k => NoneOf(ops, posted, j)
  BY <1>4, <1>5 DEF OneWork
<1>7. NoneOf(ops, Rest, k)
  <2>1. NoneIn(ops, k) /\ OneAt(posted, k, "-")
    BY <1>3, <1>6 DEF OneOf
  <2>2. NoneAt(Rest, k)
    BY <1>1, <2>1, TailAt DEF Rest
  <2>3. QED
    BY <2>1, <2>2 DEF NoneOf
<1>8. \A j \in {"resolve", "connect", "recv"} : j # k => NoneOf(ops, Rest, j)
  BY <1>1, <1>6, TailAt DEF NoneOf, Rest
<1>9. NoWork(ops, Rest) /\ NoOld(ops, Rest)
  BY <1>1, <1>2, <1>7, <1>8, NoOldTail DEF NoWork, Linked, Rest
<1>10. k = "recv" => NoneIn(ops, "ctimer")
  BY <1>2, <1>6 DEF Linked, Limited
<1>11. ASSUME ~rCanceled
       PROVE  /\ state = "starting" => NoSends(events, Rest)
              /\ Ordered(Rest) /\ NoRetry(events, <<>>)
              /\ k # "recv" <=> state = "starting"
  <2>1. /\ Attempts(state, events, <<>>, ops, posted) /\ Ordered(posted)
        /\ Retrying(events, <<>>, ops, posted)
    BY <1>2, <1>11 DEF Linked
  <2>2. NoneAt(posted, "push") => NoneAt(Rest, "push")
    BY <1>1, TailAt DEF Rest
  <2>3. NoRetry(events, <<>>)
    BY <1>4, <2>1 DEF NoRetry, Retrying, Quiet
  <2>4. k # "recv" <=> state = "starting"
    <3>1. CASE k = "recv"
      BY <1>4, <2>1, <3>1 DEF Attempts
    <3>2. CASE k # "recv"
      BY <1>4, <2>1, <3>2 DEF Attempts, NoAttempt
    <3>3. QED
      BY <3>1, <3>2
  <2>5. Ordered(Rest)
    BY <1>1, <2>1, OrderedTail DEF Rest
  <2>6. QED
    BY <2>1, <2>2, <2>3, <2>4, <2>5 DEF Attempts, NoSends
<1>12. state = "started" => ~rCanceled
  BY DEF BegunNow, Begun
<1>13. QED
  BY <1>1, <1>9, <1>10, <1>11, <1>12, NoFrameEmpty DEF Free

\* Nothing comes next.
LEMMA FreeLinked ==
  ASSUME NEW st, NEW rC, NEW sk, NEW es, NEW stk, NEW S, NEW q, Free(st, rC, es, stk, S, q),
         NoneIn(S, "ctimer"), st # "started" \/ sk = "closed"
  PROVE  Linked(st, rC, sk, es, stk, S, q)
<1>1. Thread(stk, S, q) /\ Limited(S, q) /\ NoOld(S, q) /\ Reads(st, sk, stk, S, q)
  BY DEF Free, Thread, Limited, Reads
<1>2. NoFrame(stk, {"start2"}) /\ NoFrame(stk, {"recv2"})
  BY DEF Free, NoFrame, ThreadFrames
<1>3. ~rC => Attempts(st, es, stk, S, q)
  BY <1>2 DEF Free, NoWork, Attempts, NoAttempt
<1>4. ~rC => Drained(st, es, stk, S) /\ Ordered(q) /\ Retrying(es, stk, S, q)
  BY DEF Free, NoWork, NoneOf, Drained, Retrying, NoRetry
<1>5. QED
  BY <1>1, <1>3, <1>4 DEF Linked

\* The frame of a callback that announces, or of one that reads.
LEMMA ThreadPush ==
  ASSUME NEW stk \in Stacks, NEW f \in FrameType, f.k \in {"done2", "recv2"}, NoFrame(stk, ThreadFrames)
  PROVE  /\ OneFrame(stk \o <<f, User>>, ThreadFrames) /\ NoFrame(stk \o <<f, User>>, {"start2"})
         /\ f.k = "done2" => NoFrame(stk \o <<f, User>>, {"recv2"})
         /\ f.k = "recv2" => ~NoFrame(stk \o <<f, User>>, {"recv2"})
         /\ f.k = "done2" /\ f.x = "ok" => Succeeded(stk \o <<f, User>>)
<1> DEFINE s2 == Append(stk, f)
           t == Append(s2, User)
<1>1. stk \o <<f, User>> = t /\ stk \in Seq(FrameType) /\ s2 \in Seq(FrameType) /\ User \in FrameType
  BY Chain, FrameTypes DEF Stacks
<1>2. \A K : /\ NoFrame(s2, K) <=> (NoFrame(stk, K) /\ f.k \notin K)
             /\ OneFrame(s2, K) <=> (\/ (OneFrame(stk, K) /\ f.k \notin K)
                                     \/ (NoFrame(stk, K) /\ f.k \in K))
  BY <1>1, FramePush
<1>3. f \in FrameType /\ s2[Len(stk) + 1] = f /\ Len(stk) + 1 \in DOMAIN s2
  BY <1>1, Appended
<1> HIDE DEF s2
<1>4. \A K : /\ NoFrame(t, K) <=> (NoFrame(s2, K) /\ User.k \notin K)
             /\ OneFrame(t, K) <=> (\/ (OneFrame(s2, K) /\ User.k \notin K)
                                    \/ (NoFrame(s2, K) /\ User.k \in K))
  BY <1>1, FramePush
<1>5. /\ User.k \notin ThreadFrames /\ User.k \notin {"start2"} /\ User.k \notin {"recv2"}
      /\ f.k \in ThreadFrames /\ f.k \notin {"start2"}
  BY FrameTypes DEF ThreadFrames
<1>6. NoFrame(stk, {"start2"}) /\ NoFrame(stk, {"recv2"})
  BY DEF NoFrame, ThreadFrames
<1>7. f.k = "done2" /\ f.x = "ok" => Succeeded(s2)
  BY <1>3 DEF Succeeded
<1>8. Succeeded(s2) => Succeeded(t)
  BY <1>1, <1>5, SamePush DEF Same
<1>9. /\ OneFrame(t, ThreadFrames) /\ NoFrame(t, {"start2"})
      /\ f.k = "done2" => NoFrame(t, {"recv2"})
      /\ f.k = "recv2" => ~NoFrame(t, {"recv2"})
  BY <1>2, <1>4, <1>5, <1>6
<1>10. QED
  BY <1>1, <1>7, <1>8, <1>9

\* _done_connect.
LEMMA FreeDone ==
  ASSUME IInv, NEW ec \in Codes, NEW P \in Seq(WorkType), NEW stk \in Stacks, DoneConnect(ec, P, stk),
         Free(state, rCanceled, events, stk, ops, P), ~rCanceled => state = "starting",
         state = "started" => ~rCanceled, WokenNow'
  PROVE  LinkedNow'
<1> DEFINE ec1 == IF cFlag THEN "timed_out" ELSE ec
           ec2 == IF ec1 = "ok" /\ state # "starting" THEN "aborted" ELSE ec1
           f == Frame("done2", ec2)
           S == ops'
           q == posted'
           s2 == stack'
<1>1. f \in FrameType /\ f.k = "done2" /\ f.x = ec2
  BY FrameTypes DEF Codes
<1>2. StrandTypes
  BY IInvParts
<1>3. /\ Outstanding(P, ConnectWait, {}) /\ UNCHANGED <<rCanceled, events>>
      /\ state' = IF ec2 = "ok" THEN "started" ELSE state
      /\ ec2 = "ok" => state = "starting"
      /\ IF state = "stopped" THEN s2 = stk ELSE s2 = stk \o <<f, User>>
  BY DEF DoneConnect
<1> HIDE DEF f, ec2, ec1
<1>4. WorkKept(ops, P, S, q)
  BY <1>2, <1>3, OutstandingWaits, WorkOutstanding
<1>5. NoWork(S, q) /\ NoOld(S, q) /\ (NoneAt(P, "push") => NoneAt(q, "push"))
  BY <1>4 DEF Free, WorkKept, Keeps, NoWork
<1>6. NoneIn(S, "ctimer")
  BY <1>3 DEF Outstanding, NoneIn, ConnectWait
<1> HIDE DEF S, q, s2
<1>7. NoFrame(stk, ThreadFrames)
  BY DEF Free
<1>8. CASE state = "stopped"
  <2>1. rCanceled /\ s2 = stk /\ state' = "stopped"
    BY <1>3, <1>8
  <2>2. Thread(stk, S, q) /\ Limited(S, q) /\ Reads("stopped", sock', stk, S, q)
    BY <1>5, <1>6, <1>7 DEF Thread, Limited, Reads
  <2>3. QED
    BY <1>3, <1>5, <2>1, <2>2, LinkedCanceled DEF LinkedNow, S, q, s2
<1>9. CASE state # "stopped"
  <2>1. /\ OneFrame(s2, ThreadFrames) /\ NoFrame(s2, {"start2"}) /\ NoFrame(s2, {"recv2"})
        /\ ec2 = "ok" => Succeeded(s2)
    BY <1>1, <1>3, <1>7, <1>9, ThreadPush
  <2>2. state' = "started" => ec2 = "ok"
    BY <1>3
  <2>3. /\ Thread(s2, S, q) /\ Limited(S, q) /\ Reads(state', sock', s2, S, q)
    BY <1>5, <1>6, <2>1, <2>2 DEF Thread, Limited, Reads, Reader
  <2>4. CASE rCanceled
    BY <1>3, <1>5, <2>3, <2>4, LinkedCanceled DEF LinkedNow, S, q, s2
  <2>5. CASE ~rCanceled
    <3>1. state' # "stopping" /\ NoSends(events', q)
      BY <1>3, <1>5, <2>5 DEF Free, NoSends
    <3>2. Attempts(state', events', s2, S, q)
      BY <1>5, <2>1, <3>1 DEF Attempts, NoAttempt, NoWork
    <3>3. QED
      BY <1>5, <2>3, <3>1, <3>2, LinkedAwake DEF LinkedNow, WokenNow, S, q, s2
  <2>6. QED
    BY <2>4, <2>5
<1>10. QED
  BY <1>8, <1>9

LEMMA NoneToOne ==
  ASSUME NEW S, NEW q, NEW o, NoneOf(S, q, o.k)
  PROVE  OneOf(S \cup {o}, q, o.k, o.x)
BY DEF NoneOf, NoneIn, OneOf, OneIn

\* _post_connect.
LEMMA FreePost ==
  ASSUME IInv, Idle, NEW n \in 0 .. Endpoints, NEW P \in Seq(WorkType), PostConnect(n, P),
         Free(state, rCanceled, events, <<>>, ops, P), ~rCanceled => state = "starting",
         state = "started" => ~rCanceled, WokenNow'
  PROVE  LinkedNow'
<1>1. StrandTypes /\ stack = <<>> /\ ops \subseteq OpType
  BY IInvParts DEF Idle, StrandTypes
<1>2. CASE n = 0
  <2>1. DoneConnect("err", P, <<>>) /\ "err" \in Codes
    BY <1>2 DEF PostConnect, Codes
  <2>2. QED
    BY <2>1, EmptyStack, FreeDone
<1>3. CASE n # 0
  <2> DEFINE o == Op("connect", n - 1, "-")
             h == Completion(o, "err")
             S == ops'
             q == posted'
  <2>1. o \in OpType /\ o.k = "connect" /\ o.x = "-" /\ ~o.old
    <3>1. n - 1 \in 0 .. Endpoints
      BY <1>3, BoundsAssumption
    <3>2. QED
      BY <3>1 DEF Op, OpType, AttemptOps
  <2>2. UNCHANGED <<state, rCanceled, stack, events>>
    BY <1>3 DEF PostConnect, timers
  <2>3. \/ S = ops \cup {o} /\ q = P
        \/ q = Append(P, h) /\ S = ops
    <3>1. \/ Outstanding(P, {}, {o})
          \/ posted' = Append(P, h) /\ UNCHANGED ops
      BY <1>3 DEF PostConnect
    <3>2. Outstanding(P, {}, {o}) => ops' = ops \cup {o} /\ posted' = P
      BY AbortedNone, ConcatEmptySeq DEF Outstanding
    <3>3. QED
      BY <3>1, <3>2
  <2> HIDE DEF o
  <2>4. h \in WorkType /\ h.k = "connect" /\ h.op = o
    BY <2>1, CompletionType, CompletionOp DEF Codes
  <2> HIDE DEF h, S, q
  <2>5. /\ NoneOf(ops, P, "resolve") /\ NoneOf(ops, P, "connect") /\ NoneOf(ops, P, "recv") /\ NoOld(ops, P)
    BY DEF Free, NoWork
  <2>6. /\ OneOf(S, q, "connect", "-") /\ NoneOf(S, q, "resolve") /\ NoneOf(S, q, "recv") /\ NoOld(S, q)
        /\ NoneAt(P, "push") => NoneAt(q, "push")
    <3>1. CASE S = ops \cup {o} /\ q = P
      <4>1. OneOf(S, q, "connect", "-")
        BY <2>1, <2>5, <3>1, NoneToOne
      <4>2. NoneOf(S, q, "resolve") /\ NoneOf(S, q, "recv") /\ NoOld(S, q)
        BY <2>1, <2>5, <3>1 DEF NoneOf, NoneIn, NoOld
      <4>3. QED
        BY <3>1, <4>1, <4>2
    <3>2. CASE q = Append(P, h) /\ S = ops
      <4>1. /\ OneAt(q, "connect", h.op.x) /\ NoneAt(q, "resolve") /\ NoneAt(q, "recv")
            /\ NoneAt(P, "push") => NoneAt(q, "push")
        BY <2>4, <2>5, <3>2, AppendAt DEF NoneOf
      <4>2. NoOld(S, q)
        BY <2>1, <2>4, <2>5, <3>2, NoOldPost
      <4>3. QED
        BY <2>1, <2>4, <2>5, <3>2, <4>1, <4>2 DEF NoneOf, OneOf
    <3>3. QED
      BY <2>3, <3>1, <3>2
  <2>7. ~NoneOf(S, q, "connect")
    BY <2>6, OneExcludesNone
  <2>8. state # "started"
    OBVIOUS
  <2>9. /\ Thread(<<>>, S, q) /\ Limited(S, q) /\ Reads(state, sock', <<>>, S, q)
    BY <2>6, <2>7, <2>8, NoFrameEmpty DEF Thread, OneWork, Limited, Reads
  <2>10. CASE rCanceled
    BY <1>1, <2>2, <2>6, <2>9, <2>10, LinkedCanceled DEF LinkedNow, S, q
  <2>11. CASE ~rCanceled
    <3>1. state = "starting" /\ NoSends(events, q)
      BY <2>6, <2>11 DEF Free, NoSends
    <3>2. Attempts(state, events, <<>>, S, q)
      BY <2>6, <3>1, NoFrameEmpty DEF Attempts
    <3>3. Woken(state, rCanceled, events, <<>>, S, q)
      BY <1>1, <2>2 DEF WokenNow, S, q
    <3>4. state # "stopping"
      BY <3>1
    <3>5. Linked(state, rCanceled, sock', events, <<>>, S, q)
      BY <2>6, <2>9, <3>2, <3>3, <3>4, LinkedAwake
    <3>6. QED
      BY <1>1, <2>2, <3>5 DEF LinkedNow, S, q
  <2>12. QED
    BY <2>10, <2>11
<1>4. QED
  BY <1>2, <1>3

\* _tcp_post_recv.
LEMMA FreeRecv ==
  ASSUME IInv, NEW P \in Seq(WorkType), NEW stk \in Stacks, PostRecv(P), stack' = stk,
         UNCHANGED <<state, rCanceled, sock, events>>, NoneIn(ops, "ctimer"),
         Free(state, rCanceled, events, stk, ops, P), state = "started" => ~rCanceled, WokenNow'
  PROVE  LinkedNow'
<1> DEFINE o == Op("recv", 0, "-")
<1>1. o.k = "recv" /\ o.x = "-" /\ ~o.old
  BY DEF Op
<1>2. /\ IsStarted => ops' = ops \cup {o}
      /\ ~IsStarted => ops' = ops
      /\ posted' = P
  BY AbortedNone, ConcatEmptySeq DEF PostRecv, Outstanding
<1> HIDE DEF o
<1>3. CASE ~IsStarted
  <2>1. state # "started" \/ sock = "closed"
    BY <1>3 DEF IsStarted
  <2>2. Linked(state, rCanceled, sock, events, stk, ops, P)
    BY <2>1, FreeLinked
  <2>3. QED
    BY <1>2, <1>3, <2>2 DEF LinkedNow
<1>4. CASE IsStarted
  <2> DEFINE S == ops \cup {o}
  <2>1. S = ops' /\ state = "started" /\ ~rCanceled
    BY <1>2, <1>4 DEF IsStarted
  <2>2. OneOf(S, P, "recv", "-")
    BY <1>1, NoneToOne DEF Free, NoWork
  <2>3. NoneOf(S, P, "resolve") /\ NoneOf(S, P, "connect") /\ NoneIn(S, "ctimer") /\ NoOld(S, P)
    BY <1>1 DEF Free, NoWork, NoneOf, NoneIn, NoOld
  <2> HIDE DEF S
  <2>4. ~NoneOf(S, P, "recv") /\ NoFrame(stk, ThreadFrames) /\ NoFrame(stk, {"start2"})
    BY <2>2, OneExcludesNone DEF Free, NoFrame, ThreadFrames
  <2>5. Thread(stk, S, P) /\ Limited(S, P) /\ Reads(state, sock, stk, S, P)
    BY <2>2, <2>3, <2>4 DEF Thread, OneWork, Limited, Reads, Reader
  <2>6. Attempts(state, events, stk, S, P) /\ state # "stopping"
    BY <2>1, <2>3, <2>4 DEF Attempts, NoAttempt
  <2>7. Woken(state, rCanceled, events, stk, S, P)
    BY <1>2, <2>1 DEF WokenNow
  <2>8. Linked(state, rCanceled, sock, events, stk, S, P)
    BY <2>3, <2>5, <2>6, <2>7, LinkedAwake
  <2>9. QED
    BY <1>2, <2>1, <2>8 DEF LinkedNow
<1>5. QED
  BY <1>3, <1>4

-----------------------------------------------------------------------------
(* The bodies of events.                                                    *)

LEMMA ThreadStart ==
  ASSUME NEW st \in Stacks, NEW sync \in {"sync", "async"}, NoFrame(st, ThreadFrames)
  PROVE  LET s2 == st \o <<Frame("release", sync), Frame("start2", sync), User>>
         IN OneFrame(s2, ThreadFrames) /\ NoFrame(s2, {"recv2"})
<1> DEFINE f == Frame("release", sync)
           g == Frame("start2", sync)
           s1 == Append(st, f)
           s2 == Append(s1, g)
           s3 == Append(s2, User)
<1>1. /\ f \in FrameType /\ f.k = "release" /\ g \in FrameType /\ g.k = "start2"
      /\ User \in FrameType /\ User.k = "user" /\ st \in Seq(FrameType)
  BY FrameTypes DEF Stacks
<1> HIDE DEF f, g
<1>2. st \o <<f, g, User>> = s3
  BY <1>1, Chain
<1>3. s1 \in Seq(FrameType) /\ \A K : NoFrame(s1, K) <=> (NoFrame(st, K) /\ f.k \notin K)
  BY <1>1, Appended, FramePush
<1> HIDE DEF s1
<1>4. /\ s2 \in Seq(FrameType)
      /\ \A K : /\ NoFrame(s2, K) <=> (NoFrame(s1, K) /\ g.k \notin K)
                /\ OneFrame(s2, K) <=> (\/ (OneFrame(s1, K) /\ g.k \notin K)
                                        \/ (NoFrame(s1, K) /\ g.k \in K))
  BY <1>1, <1>3, Appended, FramePush
<1> HIDE DEF s2
<1>5. \A K : /\ NoFrame(s3, K) <=> (NoFrame(s2, K) /\ User.k \notin K)
             /\ OneFrame(s3, K) <=> (\/ (OneFrame(s2, K) /\ User.k \notin K)
                                     \/ (NoFrame(s2, K) /\ User.k \in K))
  BY <1>1, <1>4, FramePush
<1> HIDE DEF s3
<1>6. /\ f.k \notin ThreadFrames /\ g.k \in ThreadFrames /\ User.k \notin ThreadFrames
      /\ f.k \notin {"recv2"} /\ g.k \notin {"recv2"} /\ User.k \notin {"recv2"}
  BY <1>1 DEF ThreadFrames
<1>7. NoFrame(st, {"recv2"})
  BY DEF NoFrame, ThreadFrames
<1>8. OneFrame(s3, ThreadFrames) /\ NoFrame(s3, {"recv2"})
  BY <1>3, <1>4, <1>5, <1>6, <1>7
<1>9. QED
  BY <1>2, <1>8 DEF f, g

\* The handlers that an attempt leaves to the next are of no attempt.
LEMMA OldKept ==
  ASSUME NEW q \in Seq(WorkType), Named(q), \A k \in AttemptOps : NoneAt(q, k)
  PROVE  \A i \in DOMAIN OldSeq(q) : ~OldSeq(q)[i].op.old
<1>1. SUFFICES ASSUME NEW i \in DOMAIN OldSeq(q) PROVE ~OldSeq(q)[i].op.old
  OBVIOUS
<1>2. DOMAIN OldSeq(q) = DOMAIN q
  BY DEF OldSeq
<1>3. i \in DOMAIN q /\ q[i] \in WorkType
  <2>1. i \in DOMAIN q
    BY <1>1, <1>2
  <2>2. DOMAIN q = 1 .. Len(q)
    BY LenProperties
  <2>3. QED
    BY <2>1, <2>2, ElementOfSeq
<1>4. q[i].k \notin AttemptOps
  BY <1>3 DEF NoneAt
<1>5. q[i].op.k \notin AttemptOps
  BY <1>3, <1>4 DEF Named, IsNamed
<1> DEFINE h == q[i]
<1>6. OldSeq(q)[i] = [h EXCEPT !.op = OldOp(@)]
  BY <1>3 DEF OldSeq
<1>7. h \in WorkType /\ h.op.k \notin AttemptOps
  BY <1>3, <1>5
<1> HIDE DEF h
<1>8. [h EXCEPT !.op = OldOp(@)].op = OldOp(h.op) /\ h.op \in OpType
  BY <1>7 DEF WorkType, HandlerType
<1>9. ~OldOp(h.op).old
  BY <1>7, <1>8, OldMark
<1>10. QED
  BY <1>6, <1>8, <1>9

\* A new attempt, when nothing is left of the one before.
LEMMA LinkedStart ==
  ASSUME NEW stk \in Stacks, NEW sync \in {"sync", "async"}, posted \in Seq(WorkType), Named(posted),
         \A k \in AttemptOps \cup {"push"} : NoneAt(posted, k), posted' = OldSeq(posted),
         \A k \in {"resolve", "connect", "recv", "ctimer"} : NoneIn(ops', k),
         \A o \in ops' : ~o.old, NoFrame(stk, ThreadFrames),
         stack' = stk \o <<Frame("release", sync), Frame("start2", sync), User>>,
         state' = "starting", \A i \in DOMAIN events' : events'[i].k # "send", WokenNow'
  PROVE  LinkedNow'
<1> DEFINE S == ops'
           q == posted'
           s2 == stack'
<1>1. OneFrame(s2, ThreadFrames) /\ NoFrame(s2, {"recv2"})
  BY ThreadStart
<1>2. \A k \in AttemptOps \cup {"push"} : NoneAt(q, k)
  BY OldAt
<1>3. NoOld(S, q)
  <2>1. \A i \in DOMAIN OldSeq(posted) : ~OldSeq(posted)[i].op.old
    BY OldKept
  <2>2. QED
    BY <2>1 DEF NoOld
<1>4. NoneAt(q, "resolve") /\ NoneAt(q, "connect") /\ NoneAt(q, "recv") /\ NoneAt(q, "push")
  BY <1>2 DEF AttemptOps
<1>5. NoneIn(S, "resolve") /\ NoneIn(S, "connect") /\ NoneIn(S, "recv") /\ NoneIn(S, "ctimer")
  OBVIOUS
<1> HIDE DEF S, q, s2
<1>6. NoWork(S, q)
  BY <1>4, <1>5 DEF NoWork, NoneOf
<1>7. Thread(s2, S, q) /\ Limited(S, q) /\ Reads(state', sock', s2, S, q)
  BY <1>1, <1>5, <1>6 DEF Thread, Limited, Reads
<1>8. Attempts(state', events', s2, S, q)
  BY <1>1, <1>4, <1>6 DEF Attempts, NoSends, NoWork
<1>9. QED
  BY <1>3, <1>7, <1>8, LinkedAwake DEF LinkedNow, WokenNow, S, q, s2

LEMMA LinkedConnectBody ==
  ASSUME IInv, FreshNow, SeatedNow, ConnectBody, WokenNow'
  PROVE  LinkedNow'
<1>1. PICK sync \in {"sync", "async"} :
           /\ UNCHANGED events /\ state' = "starting"
           /\ posted' = OldSeq(posted) /\ ops' = {Op("rtimer", 0, "forever")}
           /\ stack' = Below \o <<Frame("release", sync), Frame("start2", sync), User>>
  BY FreshConnects
<1>2. Below \in Stacks /\ posted \in Seq(WorkType) /\ Head(events).k = "connect" /\ events # <<>>
  BY TopFrame, IInvParts DEF ConnectBody, RunsEvent, StrandTypes, Guard
<1>3. NoFrame(Below, ThreadFrames)
  <2>1. NoFrame(Below, LaterFrames)
    BY FreshSteps DEF ConnectBody, RunsEvent
  <2>2. QED
    BY <2>1 DEF NoFrame, LaterFrames, ThreadFrames
<1>4. \A k \in AttemptOps \cup {"push"} : NoneAt(posted, k)
  <2>1. \A k \in AttemptOps : NoneAt(posted, k)
    BY FreshLeaves DEF Cancellable, AttemptOps
  <2>2. NoneAt(posted, "push")
    BY <1>2 DEF FreshNow
  <2>3. QED
    BY <2>1, <2>2
<1>5. \A k \in {"resolve", "connect", "recv", "ctimer"} : NoneIn(ops', k)
  BY <1>1 DEF NoneIn, Op
<1>6. \A o \in ops' : ~o.old
  BY <1>1 DEF Op
<1>7. \A i \in DOMAIN events' : events'[i].k # "send"
  BY <1>1, FreshLeaves
<1>8. QED
  BY <1>1, <1>2, <1>3, <1>4, <1>5, <1>6, <1>7, LinkedStart DEF SeatedNow

\* The body of an event other than a disconnect gives way to the guard's frame.
LEMMA LinkedBody ==
  ASSUME IInv, ~Idle, Top.k = "event", Head(events).k # "disconnect",
         NEW s2, s2 = Below \/ s2 = Append(Below, Release),
         NEW st, NEW rC, NEW sk, NEW S, NEW q, Linked(st, rC, sk, events, stack, S, q)
  PROVE  Linked(st, rC, sk, events, s2, S, q)
<1>1. Below \in Stacks /\ Below \in Seq(FrameType) /\ Top \in FrameType /\ stack = Append(Below, Top)
  BY TopFrame DEF Stacks
<1>2. Top.k \notin ThreadFrames /\ Release.k \notin ThreadFrames /\ Release \in FrameType
  BY FrameTypes DEF ThreadFrames
<1>3. Same(stack, Below) /\ Same(Below, Append(Below, Release))
  BY <1>1, <1>2, SamePop, SamePush
<1>4. Same(stack, s2)
  BY <1>3 DEF Same
<1>5. ~NoFrame(stack, {"event"})
  BY <1>1, FramePush
<1>6. Closed(events, s2) => Closed(events, stack)
  <2>1. Head(events) = events[1]
    OBVIOUS
  <2>2. QED
    BY <2>1 DEF Closed
<1>7. QED
  BY <1>4, <1>5, <1>6, LinkedStack

LEMMA LinkedReconnectBody ==
  ASSUME IInv, BegunNow, WokenNow, SeatedNow, LinkedNow, ReconnectBody, WokenNow'
  PROVE  LinkedNow'
<1>1. /\ ~Idle /\ Top.k = "event" /\ Top.k \in Guard /\ Head(events).k = "reconnect" /\ StrandTypes
      /\ Woken(state, rCanceled, events, stack, ops, posted)
      /\ Linked(state, rCanceled, sock, events, stack, ops, posted)
  BY IInvParts DEF ReconnectBody, RunsEvent, WokenNow, LinkedNow, Guard
<1>2. /\ Below \in Stacks /\ Below \in Seq(FrameType) /\ Top \in FrameType /\ stack = Append(Below, Top)
      /\ NoneOf(ops, posted, "write") /\ posted \in Seq(WorkType) /\ ops \subseteq OpType
  BY <1>1, TopFrame DEF Stacks, StrandTypes
<1>3. 1 \in DOMAIN events /\ Head(events) = events[1]
  BY <1>1, ReleasedAlike, BodyOver
<1>4. CASE ~rCanceled /\ state = "stopping"
  <2>1. StartConnect("async", Below, {}) /\ UNCHANGED events
    BY <1>4 DEF ReconnectBody
  <2>2. ~NoFrame(stack, {"event"}) /\ (NoFrame(stack, ThreadFrames) => NoFrame(Below, ThreadFrames))
    BY <1>1, <1>2, FramePush
  <2>3. Waker(events, stack, 1)
    BY <1>1, <1>3, <2>2 DEF Waker, Wakers
  <2>4. Quiet(stack, ops, posted) /\ \A j \in DOMAIN events : events[j].k = "send" => j < 1
    BY <1>1, <1>3, <1>4, <2>3 DEF Linked, Retrying
  <2>5. \A k \in AttemptOps : NoneOf(ops, posted, k)
    BY <1>2, <2>4 DEF Quiet, NoWork, AttemptOps
  <2>6. \A j \in DOMAIN events : events[j].k # "send"
    <3>1. DOMAIN events = 1 .. Len(events) /\ Len(events) \in Nat
      BY <1>1, LenProperties DEF StrandTypes
    <3>2. \A j \in DOMAIN events : ~(j < 1)
      BY <3>1
    <3>3. QED
      BY <2>4, <3>2
  <2>7. SocketOps = {} /\ \A o \in ops : o.k \notin AttemptOps
    <3>1. \A o \in ops : o.k \notin AttemptOps
      BY <2>5 DEF NoneOf, NoneIn
    <3>2. QED
      BY <3>1 DEF SocketOps, AttemptOps
  <2>8. posted \o Aborted(SocketOps) = posted
    BY <1>2, <2>7, AbortedNone, ConcatEmptySeq
  <2>9. /\ posted' = OldSeq(posted) /\ ops' = {OldOp(o) : o \in ops}
        /\ state' = "starting"
        /\ stack' = Below \o <<Frame("release", "async"), Frame("start2", "async"), User>>
    BY <2>1, <2>7, <2>8 DEF StartConnect, OldSeq, OldOp
  <2>10. \A k \in {"resolve", "connect", "recv", "ctimer"} : NoneIn(ops', k)
    BY <1>2, <2>5, <2>9, OldIn DEF NoneOf, AttemptOps
  <2>11. ASSUME NEW p \in ops' PROVE ~p.old
    <3>1. PICK o \in ops : p = OldOp(o)
      BY <2>9
    <3>2. o \in OpType /\ o.k \notin AttemptOps
      BY <1>2, <2>7
    <3>3. ~OldOp(o).old
      BY <3>2, OldMark
    <3>4. QED
      BY <3>1, <3>3
  <2>12. \A k \in AttemptOps \cup {"push"} : NoneAt(posted, k)
    BY <2>4, <2>5 DEF NoneOf, Quiet
  <2>13. NoFrame(Below, ThreadFrames) /\ Named(posted)
    BY <2>2, <2>4 DEF Quiet, SeatedNow
  <2>14. QED
    BY <1>2, <2>1, <2>6, <2>9, <2>10, <2>11, <2>12, <2>13, LinkedStart
<1>5. CASE ~(~rCanceled /\ state = "stopping")
  <2>1. stack' = Append(Below, Release) /\ UNCHANGED <<state, events, ops, posted, rCanceled, sock>>
    BY <1>5 DEF ReconnectBody, timers
  <2>2. Linked(state, rCanceled, sock, events, Append(Below, Release), ops, posted)
    BY <1>1, LinkedBody
  <2>3. QED
    BY <2>1, <2>2 DEF LinkedNow
<1>6. QED
  BY <1>4, <1>5

LEMMA LinkedDisconnectBody ==
  ASSUME IInv, LinkedNow, DisconnectBody
  PROVE  LinkedNow'
<1> DEFINE s1 == Append(Below, Release)
           f == Frame("disc2", "-")
           s2 == Append(s1, f)
           s3 == Append(s2, User)
<1>1. /\ ~Idle /\ Top.k = "event" /\ Head(events).k = "disconnect" /\ Top.k \notin ThreadFrames
      /\ Linked(state, rCanceled, sock, events, stack, ops, posted)
  BY DEF DisconnectBody, RunsEvent, LinkedNow, ThreadFrames
<1>2. Below \in Seq(FrameType) /\ Top \in FrameType /\ stack = Append(Below, Top)
  BY <1>1, TopFrame DEF Stacks
<1>3. /\ Release \in FrameType /\ Release.k \notin ThreadFrames
      /\ f \in FrameType /\ f.k \notin ThreadFrames /\ f.k \in {"event", "disc2"}
      /\ User \in FrameType /\ User.k \notin ThreadFrames
  BY FrameTypes DEF ThreadFrames
<1>4. stack' = s2 \/ stack' = s3
  <2>1. Below \o <<Release, f>> = s2 /\ s2 \in Seq(FrameType)
    BY <1>2, <1>3, Chain, Appended
  <2>2. s2 \o <<User>> = s3 /\ s2 \o <<>> = s2
    <3> HIDE DEF s2
    <3>1. QED
      BY <1>3, <2>1, Chain
  <2>3. stack' = s2 \o <<User>> \/ stack' = s2 \o <<>>
    BY <2>1 DEF DisconnectBody
  <2>4. QED
    BY <2>2, <2>3
<1> HIDE DEF f
<1>5. Same(stack, Below) /\ Same(Below, s1) /\ s1 \in Seq(FrameType)
  BY <1>1, <1>2, <1>3, SamePop, SamePush, Appended
<1> HIDE DEF s1
<1>6. Same(s1, s2) /\ s2 \in Seq(FrameType) /\ ~NoFrame(s2, {"event", "disc2"})
  BY <1>3, <1>5, SamePush, Appended, FramePush
<1> HIDE DEF s2
<1>7. Same(s2, s3) /\ ~NoFrame(s3, {"event", "disc2"})
  BY <1>3, <1>6, SamePush, FramePush
<1> HIDE DEF s3
<1> DEFINE t == stack'
<1>8. Same(stack, t) /\ ~NoFrame(t, {"event", "disc2"})
  BY <1>4, <1>5, <1>6, <1>7 DEF Same
<1>9. ~NoFrame(stack, {"event"})
  BY <1>1, <1>2, FramePush
<1>10. ~Closed(events, t)
  <2>1. 1 \in DOMAIN events /\ Head(events) = events[1]
    BY <1>1, ReleasedAlike, BodyOver
  <2>2. QED
    BY <1>1, <1>8, <2>1 DEF Closed
<1> HIDE DEF t
<1>11. Linked(state, rCanceled, sock, events, t, ops, posted)
  BY <1>1, <1>8, <1>9, <1>10, LinkedStack
<1>12. QED
  BY <1>11 DEF DisconnectBody, LinkedNow, timers, t

LEMMA LinkedWakeBody ==
  ASSUME IInv, LinkedNow, WakeBody
  PROVE  LinkedNow'
<1> DEFINE s2 == Append(Below, Release)
           S == ops'
           q == posted'
<1>1. /\ ~Idle /\ Top.k = "event" /\ Head(events).k # "disconnect" /\ StrandTypes
      /\ Linked(state, rCanceled, sock, events, stack, ops, posted) /\ posted \in Seq(WorkType)
  BY IInvParts DEF WakeBody, RunsEvent, LinkedNow, StrandTypes
<1>2. /\ stack' = s2 /\ UNCHANGED <<state, rCanceled, sock, events>>
      /\ Outstanding(posted, ReconnectWait, {})
  BY DEF WakeBody, timers
<1>3. WorkKept(ops, posted, S, q) /\ (Ordered(posted) => Ordered(q))
  BY <1>1, <1>2, OutstandingWaits, WorkOutstanding, OrderedOutstanding
<1> HIDE DEF S, q
<1>4. Linked(state, rCanceled, sock, events, stack, S, q)
  BY <1>1, <1>3, LinkedWork
<1>5. Linked(state, rCanceled, sock, events, s2, S, q)
  BY <1>1, <1>4, LinkedBody
<1>6. QED
  BY <1>2, <1>5 DEF LinkedNow, S, q

LEMMA LinkedStopBody ==
  ASSUME IInv, LinkedNow, StopBody
  PROVE  LinkedNow'
<1> DEFINE s2 == Append(Below, Release)
           S == ops'
           q == posted'
           C == ReconnectWait \cup ConnectWait
<1>1. /\ ~Idle /\ Top.k = "event" /\ Head(events).k # "disconnect" /\ StrandTypes
      /\ Linked(state, rCanceled, sock, events, stack, ops, posted) /\ posted \in Seq(WorkType)
  BY IInvParts DEF StopBody, RunsEvent, LinkedNow, StrandTypes
<1>2. /\ stack' = s2 /\ UNCHANGED <<sock, events>> /\ rCanceled' = TRUE
      /\ Outstanding(posted, C, {}) /\ (state' = "stopped" \/ state' = state)
  BY DEF StopBody
<1>3. C \subseteq ops /\ NoneIn(C, "resolve")
  BY DEF ReconnectWait, ConnectWait, NoneIn
<1> HIDE DEF C
<1>4. WorkKept(ops, posted, S, q)
  BY <1>1, <1>2, <1>3, OutstandingWaits, WorkOutstanding
<1> HIDE DEF S, q
<1>5. Linked(state, TRUE, sock, events, stack, ops, posted)
  BY <1>1, LinkedSock
<1>6. Linked(state, TRUE, sock, events, stack, S, q)
  BY <1>4, <1>5, LinkedWork
<1>7. Linked(state, TRUE, sock, events, s2, S, q)
  BY <1>1, <1>6, LinkedBody
<1>8. Linked(state', TRUE, sock, events, s2, S, q)
  BY <1>2, <1>7, LinkedState
<1>9. QED
  BY <1>2, <1>8 DEF LinkedNow, S, q

LEMMA LinkedSendBody ==
  ASSUME IInv, LinkedNow, SendBody
  PROVE  LinkedNow'
<1> DEFINE o == Op("write", 0, Head(events).p)
           h == Completion(o, "err")
           S == ops'
           q == posted'
<1>1. /\ ~Idle /\ Top.k = "event" /\ Top.k \in Guard /\ Head(events).k = "send" /\ StrandTypes
      /\ posted \in Seq(WorkType) /\ Linked(state, rCanceled, sock, events, stack, ops, posted)
  BY IInvParts DEF SendBody, RunsEvent, StrandTypes, Guard, LinkedNow
<1>2. o \in OpType /\ o.k = "write" /\ ~o.old
  <2>1. Head(events).p \in Data
    BY <1>1, TopFrame, EventParts
  <2>2. o.k = "write" /\ ~o.old
    BY DEF Op
  <2>3. QED
    BY <2>1, <2>2, OpTypes
<1> HIDE DEF o
<1>3. h \in WorkType /\ h.k = "write" /\ h.op = o
  BY <1>2, CompletionType, CompletionOp DEF Codes
<1> HIDE DEF h
<1>4. Outstanding(posted, {}, {o}) \/ (posted' = Append(posted, h) /\ UNCHANGED ops)
  BY DEF SendBody, o, h
<1>5. WorkKept(ops, posted, S, q) /\ (Ordered(posted) => Ordered(q))
  <2>1. CASE Outstanding(posted, {}, {o})
    <3>1. \A k \in {"resolve", "connect", "recv", "ctimer"} : NoneIn({o}, k)
      BY <1>2 DEF NoneIn
    <3>2. \A p \in {o} : ~p.old
      BY <1>2
    <3>3. QED
      BY <1>1, <2>1, <3>1, <3>2, OutstandingWaits, WorkOutstanding, OrderedOutstanding
  <2>2. CASE posted' = Append(posted, h) /\ UNCHANGED ops
    BY <1>1, <1>2, <1>3, <2>2, WorkPost, OrderedPost
  <2>3. QED
    BY <1>4, <2>1, <2>2
<1> HIDE DEF S, q
<1>6. Linked(state, rCanceled, sock, events, stack, S, q)
  BY <1>1, <1>5, LinkedWork
<1>7. Linked(state, rCanceled, sock, events, Below, S, q)
  BY <1>1, <1>6, LinkedBody
<1>8. QED
  BY <1>7 DEF SendBody, LinkedNow, timers, S, q

LEMMA LinkedReleaseGuard ==
  ASSUME IInv, SeatedNow, LinkedNow, ReleaseGuard
  PROVE  LinkedNow'
<1> DEFINE n == Len(events)
           e == ChainEvent(Head(events))
           es == events'
           t == stack'
<1>1. /\ n \in Nat /\ DOMAIN events = 1 .. n
      /\ \A i \in DOMAIN es :
           \/ i + 1 \in DOMAIN events /\ i + 1 # 1 /\ es[i] = events[i + 1] /\ i < n
           \/ i = n /\ es[i] = e
      /\ \A i \in DOMAIN events : i # 1 => i - 1 \in DOMAIN es /\ es[i - 1] = events[i]
      /\ es # <<>> => ~NoFrame(t, {"event"})
      /\ \A i \in DOMAIN es : i \in Nat
  BY ReleaseEvents
<1>2. e.k \notin {"send", "disconnect", "reconnect"}
  BY DEF ChainEvent, StopEvent, WakeEvent
<1>3. /\ UNCHANGED <<state, rCanceled, sock, ops, posted>>
      /\ Linked(state, rCanceled, sock, events, stack, ops, posted)
      /\ ~Idle /\ Top.k = "release" /\ Top.k \in Guard /\ Top.k \notin ThreadFrames
      /\ (t = Below \/ t = Append(Below, Body)) /\ Seated(stack)
  BY DEF ReleaseGuard, LinkedNow, timers, Guard, ThreadFrames, SeatedNow
<1>4. /\ Below \in Seq(FrameType) /\ Top \in FrameType /\ stack = Append(Below, Top)
      /\ NoFrame(Below, Guard)
  BY <1>3, TopFrame DEF Stacks
<1>5. Same(stack, t)
  <2>1. Body \in FrameType /\ Body.k \notin ThreadFrames
    BY FrameTypes DEF ThreadFrames
  <2>2. Same(stack, Below) /\ Same(Below, Append(Below, Body))
    BY <1>3, <1>4, <2>1, SamePop, SamePush
  <2>3. QED
    BY <1>3, <2>2 DEF Same
<1>6. NoFrame(stack, {"event", "disc2"})
  <2>1. NoFrame(stack, Held)
    BY <1>3, GuardOnTop DEF SeatedNow
  <2>2. NoFrame(stack, {"event"})
    BY ReleaseEvents
  <2>3. QED
    BY <2>1, <2>2 DEF NoFrame, Held
<1> HIDE DEF n, e, es, t
<1>7. /\ Thread(t, ops, posted) /\ Limited(ops, posted) /\ NoOld(ops, posted)
      /\ Reads(state, sock, t, ops, posted)
  BY <1>3, <1>5 DEF Linked, Thread, Reads, Reader, Same
<1>8. ASSUME ~rCanceled
      PROVE  /\ Attempts(state, es, t, ops, posted) /\ Drained(state, es, t, ops) /\ Ordered(posted)
             /\ Retrying(es, t, ops, posted)
  <2>1. /\ Attempts(state, events, stack, ops, posted) /\ Drained(state, events, stack, ops)
        /\ Ordered(posted) /\ Retrying(events, stack, ops, posted)
    BY <1>3, <1>8 DEF Linked
  <2>2. NoSends(events, posted) => NoSends(es, posted)
    <3>1. SUFFICES ASSUME NoSends(events, posted), NEW i \in DOMAIN es PROVE es[i].k # "send"
      BY DEF NoSends
    <3>2. QED
      BY <1>1, <1>2, <3>1 DEF NoSends
  <2>3. Attempts(state, es, t, ops, posted)
    BY <1>5, <2>1, <2>2 DEF Attempts, NoAttempt, Same
  <2>4. Closed(es, t) => Closed(events, stack)
    <3>1. SUFFICES ASSUME Closed(es, t), NEW i \in DOMAIN events, events[i].k = "disconnect" PROVE i = 1
      BY <1>6 DEF Closed
    <3>2. SUFFICES ASSUME i # 1 PROVE FALSE
      OBVIOUS
    <3>3. i - 1 \in DOMAIN es /\ es[i - 1].k = "disconnect"
      BY <1>1, <3>1, <3>2
    <3>4. es # <<>>
      BY <3>3
    <3>5. NoFrame(t, {"event", "disc2"})
      BY <3>1, <3>3 DEF Closed
    <3>6. NoFrame(t, {"event"})
      BY <3>5 DEF NoFrame
    <3>7. QED
      BY <1>1, <3>4, <3>6
  <2>5. Drained(state, es, t, ops)
    BY <2>1, <2>4 DEF Drained
  <2>6. Quiet(stack, ops, posted) => Quiet(t, ops, posted)
    BY <1>5 DEF Quiet, Same
  <2>7. ASSUME NEW i \in DOMAIN es, es[i].k = "reconnect"
        PROVE  Quiet(t, ops, posted) /\ \A j \in DOMAIN es : es[j].k = "send" => j < i
    <3>1. i + 1 \in DOMAIN events /\ i + 1 # 1 /\ es[i] = events[i + 1]
      BY <1>1, <1>2, <2>7
    <3>2. events[i + 1].k = "reconnect" /\ Waker(events, stack, i + 1)
      BY <2>7, <3>1 DEF Waker, Wakers
    <3>3. Quiet(stack, ops, posted) /\ \A j \in DOMAIN events : events[j].k = "send" => j < i + 1
      BY <2>1, <3>1, <3>2 DEF Retrying
    <3>4. ASSUME NEW j \in DOMAIN es, es[j].k = "send" PROVE j < i
      <4>1. j + 1 \in DOMAIN events /\ events[j + 1].k = "send"
        BY <1>1, <1>2, <3>4
      <4>2. j + 1 < i + 1
        BY <3>3, <4>1
      <4>3. QED
        BY <1>1, <4>2
    <3>5. QED
      BY <2>6, <3>3, <3>4
  <2>8. Retrying(es, t, ops, posted)
    BY <2>7 DEF Retrying
  <2>9. QED
    BY <2>1, <2>3, <2>5, <2>8
<1>9. Linked(state, rCanceled, sock, es, t, ops, posted)
  BY <1>7, <1>8 DEF Linked
<1>10. QED
  BY <1>3, <1>9 DEF LinkedNow, es, t

-----------------------------------------------------------------------------
(* What is left of a handler after its callback.                            *)

LEMMA LinkedPop ==
  ASSUME IInv, ~Idle, Top.k \notin ThreadFrames, Top.k \notin {"event", "disc2"},
         NEW st, NEW rC, NEW sk, NEW S, NEW q, Linked(st, rC, sk, events, stack, S, q)
  PROVE  Linked(st, rC, sk, events, Below, S, q)
<1>1. Below \in Seq(FrameType) /\ Top \in FrameType /\ stack = Append(Below, Top)
  BY TopFrame DEF Stacks
<1>2. Same(stack, Below)
  BY SamePop
<1>3. \A K : NoFrame(stack, K) <=> (NoFrame(Below, K) /\ Top.k \notin K)
  BY <1>1, FramePush
<1>4. NoFrame(stack, {"event"}) => NoFrame(Below, {"event"})
  BY <1>3
<1>5. NoFrame(Below, {"event", "disc2"}) => NoFrame(stack, {"event", "disc2"})
  BY <1>3
<1>6. Closed(events, Below) => Closed(events, stack)
  BY <1>5 DEF Closed
<1>7. QED
  BY <1>2, <1>4, <1>6, LinkedStack

LEMMA LinkedDisconnectBelow ==
  ASSUME IInv, WokenNow, ~Idle, Top.k \notin Guard \cup {"rtimer2"}, DoDisconnect("wake", Below),
         UNCHANGED <<rCanceled, sock, ops, posted>>, NEW sk,
         Linked(state, rCanceled, sk, events, Below, ops, posted),
         ~rCanceled /\ state = "starting" => NoAttempt(Below, ops, posted)
  PROVE  LinkedNow'
<1>1. Below \in Stacks /\ events \in Seq(QueueType)
  BY TopFrame, IInvParts DEF StrandTypes
<1>2. Woken(state, rCanceled, events, Below, ops, posted)
  BY WokenPop DEF WokenNow, Guard
<1>3. ~rCanceled /\ state # "stopping" => NoWaker(events, Below)
  BY <1>2 DEF Woken, Phase
<1>4. Linked(state', rCanceled, sock, events', stack', ops, posted)
  BY <1>1, <1>3, LinkedDisconnect
<1>5. QED
  BY <1>4 DEF LinkedNow

LEMMA LinkedHandleDisconnect ==
  ASSUME IInv, WokenNow, LinkedNow, HandleDisconnect
  PROVE  LinkedNow'
<1> DEFINE S == ops'
           q == posted'
<1>1. /\ ~Idle /\ Top.k = "disc2" /\ Top.k \notin ThreadFrames /\ StrandTypes /\ posted \in Seq(WorkType)
      /\ Linked(state, rCanceled, sock, events, stack, ops, posted)
      /\ Woken(state, rCanceled, events, stack, ops, posted)
  BY IInvParts DEF HandleDisconnect, StrandTypes, LinkedNow, WokenNow, ThreadFrames
<1>2. /\ Outstanding(posted, SocketOps, {}) /\ stack' = Below /\ sock' = "closed"
      /\ UNCHANGED <<state, rCanceled, events>>
  BY DEF HandleDisconnect, timers
<1>3. NoneIn(S, "recv")
  BY <1>2 DEF Outstanding, NoneIn, SocketOps
<1>4. WorkKept(ops, posted, S, q)
  BY <1>1, <1>2, OutstandingWaits, WorkOutstanding
<1>5. ASSUME ~rCanceled, Ordered(posted) PROVE Ordered(q)
  <2>1. NoneAt(posted, "rtimer") \/ NoneIn(SocketOps, "recv")
    <3>1. ~NoneAt(posted, "rtimer") => NoneIn(ops, "recv")
      BY <1>1, <1>5, Silent
    <3>2. QED
      BY <3>1 DEF NoneIn, SocketOps
  <2>2. QED
    BY <1>1, <1>2, <1>5, <2>1, OutstandingWaits, OrderedOutstanding
<1> HIDE DEF S, q
<1>6. Linked(state, rCanceled, sock, events, stack, S, q)
  BY <1>1, <1>4, <1>5, LinkedWork
<1>7. Below \in Seq(FrameType) /\ Top \in FrameType /\ stack = Append(Below, Top)
  BY <1>1, TopFrame DEF Stacks
<1>8. NoFrame(stack, {"event"}) => NoFrame(Below, {"event"})
  BY <1>7, FramePush
<1>9. Same(stack, Below)
  BY <1>1, SamePop
<1>10. Linked(state, rCanceled, sock, events, Below, S, q)
  BY <1>3, <1>6, <1>8, <1>9, LinkedStack
<1>11. Linked(state, rCanceled, "closed", events, Below, S, q)
  BY <1>10, LinkedSock
<1>12. QED
  BY <1>2, <1>11 DEF LinkedNow, S, q

LEMMA LinkedDoneConnect2 ==
  ASSUME IInv, BegunNow, WokenNow, LinkedNow, DoneConnect2, WokenNow'
  PROVE  LinkedNow'
<1>1. /\ ~Idle /\ Top.k = "done2" /\ Top.k \in ThreadFrames /\ Top.k \notin Guard \cup {"rtimer2"}
      /\ posted \in Seq(WorkType) /\ UNCHANGED <<rCanceled, sock>>
      /\ state = "started" => ~rCanceled
  BY IInvParts DEF DoneConnect2, ThreadFrames, Guard, StrandTypes, timers, BegunNow, Begun
<1>2. /\ Free(state, rCanceled, events, Below, ops, posted) /\ NoneIn(ops, "ctimer") /\ Below \in Stacks
  BY <1>1, FreeTop, TopFrame
<1>3. CASE PostRecv(posted) /\ stack' = Below /\ UNCHANGED <<state, events>>
  BY <1>1, <1>2, <1>3, FreeRecv
<1>4. CASE DoDisconnect("wake", Below) /\ UNCHANGED <<ops, posted>>
  <2>1. Linked(state, rCanceled, "closed", events, Below, ops, posted)
    BY <1>2, FreeLinked
  <2>2. NoAttempt(Below, ops, posted)
    BY <1>2 DEF Free, NoAttempt, NoWork, NoFrame, ThreadFrames
  <2>3. QED
    BY <1>1, <1>4, <2>1, <2>2, LinkedDisconnectBelow
<1>5. QED
  BY <1>3, <1>4 DEF DoneConnect2

LEMMA LinkedHandleRecv2 ==
  ASSUME IInv, BegunNow, LinkedNow, HandleRecv2, WokenNow'
  PROVE  LinkedNow'
<1>1. /\ ~Idle /\ Top.k \in ThreadFrames /\ posted \in Seq(WorkType)
      /\ PostRecv(posted) /\ stack' = Below /\ UNCHANGED <<state, rCanceled, sock, events>>
      /\ state = "started" => ~rCanceled
  BY IInvParts DEF HandleRecv2, ThreadFrames, StrandTypes, timers, BegunNow, Begun
<1>2. Free(state, rCanceled, events, Below, ops, posted) /\ NoneIn(ops, "ctimer") /\ Below \in Stacks
  BY <1>1, FreeTop, TopFrame
<1>3. QED
  BY <1>1, <1>2, FreeRecv

LEMMA LinkedHandleSend2 ==
  ASSUME IInv, WokenNow, SeatedNow, LinkedNow, HandleSend2
  PROVE  LinkedNow'
<1>1. /\ ~Idle /\ Top.k = "sent2" /\ Top.k \notin ThreadFrames /\ Top.k \notin {"event", "disc2"}
      /\ Top.k \notin Guard \cup {"rtimer2"} /\ UNCHANGED <<rCanceled, sock, ops, posted>>
      /\ Linked(state, rCanceled, sock, events, stack, ops, posted)
  BY DEF HandleSend2, ThreadFrames, Guard, timers, LinkedNow
<1>2. Linked(state, rCanceled, sock, events, Below, ops, posted)
  BY <1>1, LinkedPop
<1>3. CASE stack' = Below /\ UNCHANGED <<state, events>>
  BY <1>1, <1>2, <1>3 DEF LinkedNow
<1>4. CASE DoDisconnect("wake", Below)
  <2>1. ~NoFrame(stack, {"sent2"})
    <3>1. Below \in Seq(FrameType) /\ Top \in FrameType /\ stack = Append(Below, Top)
      BY <1>1, TopFrame DEF Stacks
    <3>2. QED
      BY <1>1, <3>1, FramePush
  <2>2. 1 \in DOMAIN events /\ events[1].k = "send"
    <3>1. events # <<>> /\ Head(events).k = "send" /\ events \in Seq(QueueType)
      BY <2>1, IInvParts DEF SeatedNow, Sending, StrandTypes
    <3>2. Head(events) = events[1] /\ Len(events) \in Nat \ {0} /\ DOMAIN events = 1 .. Len(events)
      BY <3>1, EmptySeq, LenProperties
    <3>3. QED
      BY <3>1, <3>2
  <2>3. ~(~rCanceled /\ state = "starting")
    BY <1>2, <2>2 DEF Linked, Attempts, NoSends
  <2>4. QED
    BY <1>1, <1>2, <1>4, <2>3, LinkedDisconnectBelow
<1>5. QED
  BY <1>3, <1>4 DEF HandleSend2

LEMMA LinkedReconnectTimer2 ==
  ASSUME IInv, LinkedNow, ReconnectTimer2
  PROVE  LinkedNow'
<1> DEFINE o == Op("rtimer", 0, "forever")
           S == ops'
           q == posted'
<1>1. /\ ~Idle /\ Top.k \notin ThreadFrames /\ Top.k \notin {"event", "disc2"} /\ StrandTypes
      /\ posted \in Seq(WorkType) /\ Linked(state, rCanceled, sock, events, stack, ops, posted)
      /\ Outstanding(posted, ReconnectWait, {o}) /\ stack' = Below
      /\ UNCHANGED <<state, rCanceled, sock, events>>
  BY IInvParts DEF ReconnectTimer2, ThreadFrames, StrandTypes, timers, LinkedNow
<1>2. o.k = "rtimer" /\ ~o.old
  BY DEF Op
<1> HIDE DEF o
<1>3. /\ \A k \in {"resolve", "connect", "recv", "ctimer"} : NoneIn({o}, k)
      /\ \A p \in {o} : ~p.old
  BY <1>2 DEF NoneIn
<1>4. WorkKept(ops, posted, S, q) /\ (Ordered(posted) => Ordered(q))
  BY <1>1, <1>3, OutstandingWaits, WorkOutstanding, OrderedOutstanding
<1> HIDE DEF S, q
<1>5. Linked(state, rCanceled, sock, events, stack, S, q)
  BY <1>1, <1>4, LinkedWork
<1>6. Linked(state, rCanceled, sock, events, Below, S, q)
  BY <1>1, <1>5, LinkedPop
<1>7. QED
  BY <1>1, <1>6 DEF LinkedNow, S, q

LEMMA LinkedReturns ==
  ASSUME IInv, LinkedNow, Stop2 \/ CallbackReturns
  PROVE  LinkedNow'
<1>1. /\ ~Idle /\ Top.k \notin ThreadFrames /\ Top.k \notin {"event", "disc2"} /\ stack' = Below
      /\ UNCHANGED <<state, rCanceled, sock, events, ops, posted>>
      /\ Linked(state, rCanceled, sock, events, stack, ops, posted)
  BY FrameTypes DEF Stop2, CallbackReturns, ThreadFrames, timers, LinkedNow
<1>2. Linked(state, rCanceled, sock, events, Below, ops, posted)
  BY <1>1, LinkedPop
<1>3. QED
  BY <1>1, <1>2 DEF LinkedNow

LEMMA LinkedStartConnect2 ==
  ASSUME IInv, BegunNow, LinkedNow, StartConnect2, WokenNow'
  PROVE  LinkedNow'
<1>1. /\ ~Idle /\ Top.k = "start2" /\ Top.k \in ThreadFrames /\ StrandTypes /\ posted \in Seq(WorkType)
      /\ state = "started" => ~rCanceled
  BY IInvParts DEF StartConnect2, ThreadFrames, StrandTypes, BegunNow, Begun
<1>2. /\ Free(state, rCanceled, events, Below, ops, posted) /\ NoneIn(ops, "ctimer") /\ Below \in Stacks
      /\ ~rCanceled => state = "starting"
  BY <1>1, FreeTop, TopFrame
<1>3. CASE DoneConnect("err", posted, Below)
  <2>1. "err" \in Codes
    BY DEF Codes
  <2>2. QED
    BY <1>1, <1>2, <1>3, <2>1, FreeDone
<1>4. CASE /\ Outstanding(posted, ConnectWait, {Op("ctimer", 0, Top.x), Op("resolve", 0, "-")})
           /\ stack' = Append(Front(Below), Release)
           /\ UNCHANGED <<state, sock, rCanceled, events>>
  <2> DEFINE c == Op("ctimer", 0, Top.x)
             o == Op("resolve", 0, "-")
             S1 == ops \cup {c}
             S == S1 \cup {o}
             t == stack'
             q == posted
  <2>1. c.k = "ctimer" /\ ~c.old /\ o.k = "resolve" /\ o.x = "-" /\ ~o.old
    BY DEF Op
  <2>2. ConnectWait = {}
    BY <1>2 DEF NoneIn, ConnectWait
  <2>3. Outstanding(posted, {}, {c, o})
    BY <1>4, <2>2
  <2> HIDE DEF c, o
  <2>4. ops' = S /\ posted' = q
    BY <1>1, <2>3, AbortedNone, ConcatEmptySeq DEF Outstanding
  <2>5. NoneOf(ops, q, "resolve") /\ NoneOf(ops, q, "connect") /\ NoneOf(ops, q, "recv") /\ NoOld(ops, q)
    BY <1>2 DEF Free, NoWork
  <2>6. NoneOf(S1, q, "resolve")
    BY <2>1, <2>5 DEF NoneOf, NoneIn
  <2>7. OneOf(S, q, "resolve", "-")
    <3> HIDE DEF S1
    <3>1. QED
      BY <2>1, <2>6, NoneToOne
  <2>8. NoneOf(S, q, "connect") /\ NoneOf(S, q, "recv") /\ NoOld(S, q)
    BY <2>1, <2>5 DEF NoneOf, NoneIn, NoOld
  <2> HIDE DEF S
  <2>9. ~NoneOf(S, q, "resolve")
    BY <2>7, OneExcludesNone
  <2>10. NoFrame(t, ThreadFrames) /\ NoFrame(t, {"recv2"})
    <3> DEFINE s1 == Front(Below)
               f == Last(Below)
    <3>1. Below # <<>> /\ f.k = "release"
      BY <1>1, TopFrame
    <3>2. s1 \in Stacks /\ f \in FrameType /\ Below = Append(s1, f) /\ s1 \in Seq(FrameType)
      BY <1>2, <3>1, StackPop DEF Stacks
    <3>3. t = Append(s1, Release)
      BY <1>4
    <3> HIDE DEF s1, f, t
    <3>4. Release \in FrameType /\ Release.k = "release"
      BY FrameTypes
    <3>5. NoFrame(Below, ThreadFrames) /\ NoFrame(Below, {"recv2"})
      BY <1>2 DEF Free, NoFrame, ThreadFrames
    <3>6. NoFrame(s1, ThreadFrames) /\ NoFrame(s1, {"recv2"})
      BY <3>2, <3>5, FramePush
    <3>7. Release.k \notin ThreadFrames /\ Release.k \notin {"recv2"}
      BY <3>4 DEF ThreadFrames
    <3>8. QED
      BY <3>2, <3>3, <3>4, <3>6, <3>7, FramePush
  <2> HIDE DEF t
  <2>11. state # "started"
    BY <1>1, <1>2
  <2>12. Thread(t, S, q) /\ Limited(S, q) /\ Reads(state, sock, t, S, q)
    BY <2>7, <2>8, <2>9, <2>10, <2>11 DEF Thread, OneWork, Limited, Reads
  <2>13. CASE rCanceled
    <3>1. Linked(state, rCanceled, sock, events, t, S, q)
      BY <2>8, <2>12, <2>13, LinkedCanceled
    <3>2. QED
      BY <1>4, <2>4, <3>1 DEF LinkedNow, t
  <2>14. CASE ~rCanceled
    <3>1. state = "starting" /\ state # "stopping" /\ NoSends(events, q)
      BY <1>2, <2>14 DEF Free
    <3>2. Attempts(state, events, t, S, q)
      BY <2>8, <2>10, <3>1 DEF Attempts
    <3>3. Woken(state, rCanceled, events, t, S, q)
      BY <1>4, <2>4 DEF WokenNow, t
    <3>4. Linked(state, rCanceled, sock, events, t, S, q)
      BY <2>8, <2>12, <3>1, <3>2, <3>3, LinkedAwake
    <3>5. QED
      BY <1>4, <2>4, <3>4 DEF LinkedNow, t
  <2>15. QED
    BY <2>13, <2>14
<1>5. QED
  BY <1>3, <1>4 DEF StartConnect2

-----------------------------------------------------------------------------
(* The handlers of the strand.                                              *)

\* A handler that is not of the connection is taken from the strand.
LEMMA LinkedNext ==
  ASSUME IInv, BegunNow, LinkedNow, NEW k, Runs(k), k \notin {"resolve", "connect", "recv"}
  PROVE  Linked(state, rCanceled, sock, events, <<>>, ops, Rest)
<1>1. posted \in Seq(WorkType) /\ posted # <<>> /\ Head(posted).k = k /\ stack = <<>>
  BY BegunNext DEF Done
<1>2. Linked(state, rCanceled, sock, events, <<>>, ops, posted)
  BY <1>1 DEF LinkedNow
<1>3. WorkKept(ops, posted, ops, Rest) /\ (Ordered(posted) => Ordered(Rest))
  BY <1>1, WorkTail, OrderedTail DEF Rest
<1>4. QED
  BY <1>2, <1>3, LinkedWork

\* On an idle strand a frame that is not of the connection changes nothing.
LEMMA LinkedIdle ==
  ASSUME NEW st, NEW rC, NEW sk, NEW es, NEW t, NEW S, NEW q, Same(<<>>, t), NoFrame(t, {"event"}),
         Linked(st, rC, sk, es, <<>>, S, q)
  PROVE  Linked(st, rC, sk, es, t, S, q)
<1>1. Closed(es, t) => Closed(es, <<>>)
  BY NoFrameEmpty DEF Closed
<1>2. QED
  BY <1>1, LinkedStack

LEMMA LinkedPush ==
  ASSUME NEW stk \in Stacks, NEW f \in FrameType, f.k \notin ThreadFrames, f.k \notin {"event", "disc2"},
         NEW st, NEW rC, NEW sk, NEW es, NEW S, NEW q, Linked(st, rC, sk, es, stk, S, q)
  PROVE  Linked(st, rC, sk, es, Append(stk, f), S, q)
<1> DEFINE t == Append(stk, f)
<1>1. stk \in Seq(FrameType)
  BY DEF Stacks
<1>2. Same(stk, t) /\ \A K : NoFrame(t, K) <=> (NoFrame(stk, K) /\ f.k \notin K)
  BY <1>1, SamePush, FramePush
<1> HIDE DEF t
<1>3. NoFrame(stk, {"event"}) => NoFrame(t, {"event"})
  BY <1>2
<1>4. NoFrame(t, {"event", "disc2"}) => NoFrame(stk, {"event", "disc2"})
  BY <1>2
<1>5. Closed(es, t) => Closed(es, stk)
  BY <1>4 DEF Closed
<1>6. Linked(st, rC, sk, es, t, S, q)
  BY <1>2, <1>3, <1>5, LinkedStack
<1>7. QED
  BY <1>6 DEF t

LEMMA LinkedRunPush ==
  ASSUME IInv, BegunNow, LinkedNow, RunPush
  PROVE  LinkedNow'
<1>1. /\ Done \in WorkType /\ Done.k = "push" /\ ~PushesCall(Done) /\ events \in Seq(QueueType)
      /\ posted \in Seq(WorkType) /\ posted # <<>> /\ Head(posted).k = "push" /\ stack = <<>>
      /\ Linked(state, rCanceled, sock, events, <<>>, ops, Rest)
  BY BegunNext, LinkedNext DEF RunPush, StrandTypes, Done
<1> DEFINE ev == Done.ev
<1>2. ev \in QueueType /\ ev.k = "send"
  BY <1>1 DEF PushesCall, WorkType, HandlerType, QueueType
<1>3. Emplace(ev, <<>>) /\ posted' = Rest /\ UNCHANGED <<state, rCanceled, sock, ops>>
  BY DEF RunPush, timers
<1> HIDE DEF ev
<1>4. ev.k \notin Wakers
  BY <1>2 DEF Wakers
<1>5. ~NoneAt(posted, "push")
  BY <1>1, TailAt
<1>6. ~rCanceled => state # "starting" /\ NoRetry(events, <<>>)
  BY <1>1, <1>5 DEF LinkedNow, Linked, Attempts, NoSends, NoRetry, Retrying, Quiet
<1>7. Linked(state, rCanceled, sock, events', stack', ops, Rest)
  BY <1>1, <1>2, <1>3, <1>4, <1>6, EmptyStack, LinkedEmplace
<1>8. QED
  BY <1>3, <1>7 DEF LinkedNow

LEMMA LinkedRunStop ==
  ASSUME IInv, BegunNow, LinkedNow, RunStop
  PROVE  LinkedNow'
<1>1. Rest \in Seq(WorkType) /\ Linked(state, rCanceled, sock, events, <<>>, ops, Rest)
  BY BegunNext, LinkedNext DEF RunStop
<1>2. StopOnStrand(Rest, <<>>)
  BY DEF RunStop
<1>3. QED
  BY <1>1, <1>2, EmptyStack, LinkedStops

LEMMA LinkedHandleResolve ==
  ASSUME IInv, BegunNow, LinkedNow, HandleResolve, WokenNow'
  PROVE  LinkedNow'
<1>1. /\ Idle /\ Rest \in Seq(WorkType) /\ Free(state, rCanceled, events, <<>>, ops, Rest)
      /\ ~rCanceled => state = "starting"
      /\ state = "started" => ~rCanceled
  BY BegunNext, FreeNext DEF HandleResolve
<1>2. CASE \E n \in 1 .. Endpoints : PostConnect(n, Rest)
  <2>1. PICK n \in 1 .. Endpoints : PostConnect(n, Rest)
    BY <1>2
  <2>2. n \in 0 .. Endpoints
    BY BoundsAssumption
  <2>3. QED
    BY <1>1, <2>1, <2>2, FreePost
<1>3. CASE DoneConnect("err", Rest, <<>>)
  <2>1. "err" \in Codes
    BY DEF Codes
  <2>2. QED
    BY <1>1, <1>3, <2>1, EmptyStack, FreeDone
<1>4. QED
  BY <1>2, <1>3 DEF HandleResolve

LEMMA LinkedHandleConnect ==
  ASSUME IInv, BegunNow, LinkedNow, HandleConnect, WokenNow'
  PROVE  LinkedNow'
<1>1. /\ Idle /\ Rest \in Seq(WorkType) /\ Free(state, rCanceled, events, <<>>, ops, Rest)
      /\ ~rCanceled => state = "starting"
      /\ state = "started" => ~rCanceled
      /\ Done \in WorkType
  BY BegunNext, FreeNext DEF HandleConnect
<1>2. Done.op.n \in 0 .. Endpoints /\ Done.ec \in Codes
  BY <1>1 DEF WorkType, HandlerType, OpType
<1>3. PostConnect(Done.op.n, Rest) \/ DoneConnect(Done.ec, Rest, <<>>)
  BY DEF HandleConnect
<1>4. CASE PostConnect(Done.op.n, Rest)
  BY <1>1, <1>2, <1>4, FreePost
<1>5. CASE DoneConnect(Done.ec, Rest, <<>>)
  BY <1>1, <1>2, <1>5, EmptyStack, FreeDone
<1>6. QED
  BY <1>3, <1>4, <1>5

LEMMA LinkedHandleRecv ==
  ASSUME IInv, BegunNow, WokenNow, LinkedNow, HandleRecv
  PROVE  LinkedNow'
<1>1. /\ Runs("recv") /\ posted' = Rest /\ UNCHANGED <<rCanceled, sock, ops>> /\ events \in Seq(QueueType)
      /\ Woken(state, rCanceled, events, <<>>, ops, Rest)
  BY WokenNext, IInvParts DEF HandleRecv, timers, StrandTypes
<1>2. /\ Free(state, rCanceled, events, <<>>, ops, Rest) /\ NoneIn(ops, "ctimer")
      /\ ~rCanceled => state # "starting"
  BY <1>1, FreeNext
<1>3. CASE stack' = <<Frame("recv2", "-"), User>> /\ UNCHANGED <<state, events>>
  <2> DEFINE f == Frame("recv2", "-")
             t == <<>> \o <<f, User>>
  <2>1. f \in FrameType /\ f.k = "recv2"
    BY FrameTypes
  <2>2. stack' = t
    BY <1>3
  <2> HIDE DEF f
  <2>3. /\ OneFrame(t, ThreadFrames) /\ NoFrame(t, {"start2"}) /\ ~NoFrame(t, {"recv2"})
        /\ Alike(<<>>, t)
    BY <2>1, NoFrameEmpty, EmptyStack, ThreadPush, AlikePushTwo
  <2> HIDE DEF t
  <2>4. NoWork(ops, Rest) /\ NoOld(ops, Rest)
    BY <1>2 DEF Free
  <2>5. Thread(t, ops, Rest) /\ Limited(ops, Rest) /\ Reads(state, sock, t, ops, Rest)
    BY <1>2, <2>3, <2>4 DEF Thread, Limited, Reads, Reader
  <2>6. ASSUME ~rCanceled
        PROVE  /\ Attempts(state, events, t, ops, Rest) /\ Drained(state, events, t, ops)
               /\ Ordered(Rest) /\ Retrying(events, t, ops, Rest)
    <3>1. Attempts(state, events, t, ops, Rest)
      BY <1>2, <2>3, <2>4, <2>6 DEF Attempts, NoAttempt, NoWork
    <3>2. Drained(state, events, t, ops)
      BY <2>4 DEF Drained, NoWork, NoneOf
    <3>3. \A i : Waker(events, t, i) => Waker(events, <<>>, i)
      BY <2>3 DEF Waker, Alike
    <3>4. Retrying(events, t, ops, Rest)
      BY <1>2, <2>6, <3>3 DEF Free, NoRetry, Retrying
    <3>5. QED
      BY <1>2, <2>6, <3>1, <3>2, <3>4 DEF Free
  <2>7. Linked(state, rCanceled, sock, events, t, ops, Rest)
    BY <2>4, <2>5, <2>6 DEF Linked
  <2>8. QED
    BY <1>1, <1>3, <2>2, <2>7 DEF LinkedNow
<1>4. CASE DoDisconnect("wake", <<>>)
  <2>1. Linked(state, rCanceled, "closed", events, <<>>, ops, Rest)
    BY <1>2, FreeLinked
  <2>2. ~rCanceled /\ state # "stopping" => NoWaker(events, <<>>)
    BY <1>1 DEF Woken, Phase
  <2>3. Linked(state', rCanceled, sock, events', stack', ops, Rest)
    BY <1>1, <1>2, <1>4, <2>1, <2>2, EmptyStack, LinkedDisconnect
  <2>4. QED
    BY <1>1, <2>3 DEF LinkedNow
<1>5. QED
  BY <1>3, <1>4 DEF HandleRecv

LEMMA LinkedHandleSend ==
  ASSUME IInv, BegunNow, LinkedNow, HandleSend
  PROVE  LinkedNow'
<1> DEFINE f == Frame("sent2", Done.ec)
           s1 == Append(<<>>, Release)
           s2 == Append(s1, f)
           s3 == Append(s2, User)
<1>1. /\ Linked(state, rCanceled, sock, events, <<>>, ops, Rest) /\ Done \in WorkType
  BY BegunNext, LinkedNext DEF HandleSend
<1>2. posted' = Rest /\ UNCHANGED <<state, rCanceled, sock, ops, events>>
  BY DEF HandleSend, timers
<1>3. /\ f \in FrameType /\ f.k = "sent2" /\ f.k \notin ThreadFrames
      /\ Release \in FrameType /\ Release.k = "release" /\ Release.k \notin ThreadFrames
      /\ User \in FrameType /\ User.k = "user" /\ User.k \notin ThreadFrames
  BY <1>1, FrameTypes DEF WorkType, HandlerType, ThreadFrames
<1>4. stack' = s3
  BY DEF HandleSend
<1> HIDE DEF f
<1>5. s1 \in Seq(FrameType) /\ Same(<<>>, s1) /\ NoFrame(s1, {"event"})
  <2>1. <<>> \in Seq(FrameType)
    BY EmptyStack DEF Stacks
  <2>2. QED
    BY <1>3, <2>1, NoFrameEmpty, Appended, SamePush, FramePush
<1> HIDE DEF s1
<1>6. s2 \in Seq(FrameType) /\ Same(s1, s2) /\ NoFrame(s2, {"event"})
  BY <1>3, <1>5, Appended, SamePush, FramePush
<1> HIDE DEF s2
<1>7. Same(s2, s3) /\ NoFrame(s3, {"event"})
  BY <1>3, <1>6, SamePush, FramePush
<1> HIDE DEF s3
<1>8. Same(<<>>, s3)
  BY <1>5, <1>6, <1>7 DEF Same
<1>9. Linked(state, rCanceled, sock, events, s3, ops, Rest)
  BY <1>1, <1>7, <1>8, LinkedIdle
<1>10. QED
  BY <1>2, <1>4, <1>9 DEF LinkedNow

LEMMA LinkedHandleRefused ==
  ASSUME IInv, BegunNow, LinkedNow, HandleRefused
  PROVE  LinkedNow'
<1>1. Linked(state, rCanceled, sock, events, <<>>, ops, Rest)
  BY LinkedNext DEF HandleRefused
<1>2. stack' = Append(<<>>, User) /\ posted' = Rest /\ UNCHANGED <<state, rCanceled, sock, ops, events>>
  BY DEF HandleRefused, timers
<1>3. User \in FrameType /\ User.k \notin ThreadFrames /\ User.k \notin {"event", "disc2"}
  BY FrameTypes DEF ThreadFrames
<1>4. Linked(state, rCanceled, sock, events, Append(<<>>, User), ops, Rest)
  BY <1>1, <1>3, EmptyStack, LinkedPush
<1>5. QED
  BY <1>2, <1>4 DEF LinkedNow

LEMMA LinkedHandleConnectTimer ==
  ASSUME IInv, BegunNow, WokenNow, LinkedNow, HandleConnectTimer
  PROVE  LinkedNow'
<1> DEFINE S == ops'
           q == posted'
<1>1. /\ StrandTypes /\ Rest \in Seq(WorkType) /\ stack = <<>>
      /\ Woken(state, rCanceled, events, <<>>, ops, Rest)
      /\ Linked(state, rCanceled, sock, events, <<>>, ops, Rest)
      /\ UNCHANGED <<state, rCanceled, stack, events>>
  BY BegunNext, WokenNext, LinkedNext DEF HandleConnectTimer
<1>2. CASE Outstanding(Rest, SocketOps, {}) /\ sock' = "closed"
  <2>1. WorkKept(ops, Rest, S, q)
    BY <1>1, <1>2, OutstandingWaits, WorkOutstanding
  <2>2. ASSUME ~rCanceled, Ordered(Rest) PROVE Ordered(q)
    <3>1. NoneAt(Rest, "rtimer") \/ NoneIn(SocketOps, "recv")
      <4>1. ~NoneAt(Rest, "rtimer") => NoneIn(ops, "recv")
        BY <1>1, <2>2, Silent
      <4>2. QED
        BY <4>1 DEF NoneIn, SocketOps
    <3>2. QED
      BY <1>1, <1>2, <2>2, <3>1, OutstandingWaits, OrderedOutstanding
  <2> HIDE DEF S, q
  <2>3. Linked(state, rCanceled, sock, events, <<>>, S, q)
    BY <1>1, <2>1, <2>2, LinkedWork
  <2>4. Linked(state, rCanceled, "closed", events, <<>>, S, q)
    BY <2>3, LinkedSock
  <2>5. QED
    BY <1>1, <1>2, <2>4 DEF LinkedNow, S, q
<1>3. CASE posted' = Rest /\ UNCHANGED <<sock, ops>>
  BY <1>1, <1>3 DEF LinkedNow
<1>4. QED
  BY <1>2, <1>3 DEF HandleConnectTimer

\* The event that connects again is queued when nothing is left to come.
LEMMA LinkedRetry ==
  ASSUME events \in Seq(QueueType), NEW stk \in Stacks, Emplace(ReconnectEvent, stk), NoWaker(events, stk),
         NEW rC, NEW sk, NEW S, NEW q, Quiet(stk, S, q), NoOld(S, q), Ordered(q)
  PROVE  Linked("stopping", rC, sk, events', stack', S, q)
<1> DEFINE n == Len(events)
           ev == ReconnectEvent
<1>1. ev \in QueueType /\ ev.k = "reconnect"
  BY EventTypes DEF ReconnectEvent
<1>2. Emplace(ev, stk)
  OBVIOUS
<1> HIDE DEF ev
<1>3. /\ \A i \in DOMAIN events : events'[i] = events[i] /\ i < n + 1
      /\ events'[n + 1] = ev
      /\ \A i \in DOMAIN events' : i \in DOMAIN events \/ i = n + 1
  BY <1>1, <1>2, EmplaceEvents
<1> HIDE DEF n
<1>4. \A i \in DOMAIN events : ~Waker(events', stack', i)
  BY <1>1, <1>2, EmplaceOld DEF NoWaker
<1>5. Same(stk, stack')
  BY <1>1, <1>2, EmplaceSame
<1>6. Quiet(stack', S, q)
  BY <1>5 DEF Quiet, Same
<1>7. NoFrame(stack', {"start2"})
  BY <1>6 DEF Quiet, NoFrame, ThreadFrames
<1>8. Thread(stack', S, q) /\ Limited(S, q) /\ Reads("stopping", sk, stack', S, q)
  BY <1>6 DEF Quiet, Thread, Limited, NoneOf, Reads
<1>9. Attempts("stopping", events', stack', S, q) /\ Drained("stopping", events', stack', S)
  BY <1>6, <1>7 DEF Quiet, NoWork, NoneOf, Attempts, NoAttempt, Drained
<1>10. Retrying(events', stack', S, q)
  <2>1. SUFFICES ASSUME NEW i \in DOMAIN events', Waker(events', stack', i)
                 PROVE  \A j \in DOMAIN events' : events'[j].k = "send" => j < i
    BY <1>6 DEF Retrying
  <2>2. i = n + 1
    BY <1>3, <1>4, <2>1
  <2>3. QED
    BY <1>1, <1>3, <2>2
<1>11. QED
  BY <1>8, <1>9, <1>10 DEF Linked

LEMMA LinkedHandleReconnectTimer ==
  ASSUME IInv, BegunNow, WokenNow, LinkedNow, HandleReconnectTimer
  PROVE  LinkedNow'
<1>1. /\ posted \in Seq(WorkType) /\ posted # <<>> /\ Rest \in Seq(WorkType) /\ stack = <<>>
      /\ Head(posted).k = "rtimer" /\ StrandTypes
      /\ Woken(state, rCanceled, events, <<>>, ops, posted)
      /\ Linked(state, rCanceled, sock, events, <<>>, ops, posted)
      /\ Linked(state, rCanceled, sock, events, <<>>, ops, Rest)
      /\ UNCHANGED <<state, rCanceled, sock>>
  BY BegunNext, LinkedNext DEF HandleReconnectTimer, WokenNow, LinkedNow, Done
<1>2. CASE posted' = Rest /\ UNCHANGED <<ops, stack, events>>
  BY <1>1, <1>2 DEF LinkedNow
<1>3. CASE /\ Outstanding(Rest, ReconnectWait, {Op("rtimer", 0, "delay")})
           /\ UNCHANGED <<stack, events>>
  <2> DEFINE o == Op("rtimer", 0, "delay")
             S == ops'
             q == posted'
  <2>1. o.k = "rtimer" /\ ~o.old /\ Outstanding(Rest, ReconnectWait, {o})
    BY <1>3 DEF Op
  <2> HIDE DEF o
  <2>2. /\ \A k \in {"resolve", "connect", "recv", "ctimer"} : NoneIn({o}, k)
        /\ \A p \in {o} : ~p.old
    BY <2>1 DEF NoneIn
  <2>3. WorkKept(ops, Rest, S, q) /\ (Ordered(Rest) => Ordered(q))
    BY <1>1, <2>1, <2>2, OutstandingWaits, WorkOutstanding, OrderedOutstanding
  <2> HIDE DEF S, q
  <2>4. Linked(state, rCanceled, sock, events, <<>>, S, q)
    BY <1>1, <2>3, LinkedWork
  <2>5. QED
    BY <1>1, <1>3, <2>4 DEF LinkedNow, S, q
<1>4. CASE /\ ~rCanceled /\ posted' = Rest /\ Emplace(ReconnectEvent, <<Frame("rtimer2", "-")>>)
           /\ UNCHANGED ops
  <2> DEFINE f == Frame("rtimer2", "-")
             s1 == Append(<<>>, f)
  <2>1. f \in FrameType /\ f.k = "rtimer2" /\ s1 = <<f>>
    BY FrameTypes
  <2>2. Emplace(ReconnectEvent, s1)
    BY <1>4, <2>1
  <2> HIDE DEF f
  <2>3. s1 \in Stacks /\ NoFrame(s1, ThreadFrames) /\ NoFrame(s1, {"event"})
    <3>1. f.k \notin ThreadFrames /\ f.k \notin {"event"} /\ <<>> \in Seq(FrameType)
      BY <2>1, EmptyStack DEF ThreadFrames, Stacks
    <3>2. QED
      BY <2>1, <3>1, EmptyStack, StackPush, NoFrameEmpty, FramePush
  <2> HIDE DEF s1
  <2>4. ~NoneAt(posted, "rtimer")
    BY <1>1, TailAt
  <2>5. /\ state = "stopping" /\ NoWaker(events, <<>>) /\ NoAttempt(<<>>, ops, posted)
        /\ NoneIn(ops, "recv") /\ NoneIn(ops, "ctimer")
    BY <1>1, <1>4, <2>4, Silent
  <2>6. Ordered(Rest) /\ NoneAt(Rest, "recv") /\ NoneAt(Rest, "ctimer") /\ NoneAt(Rest, "push")
    BY <1>1, <1>4, OrderedTail DEF Linked, Rest
  <2>7. NoneOf(ops, Rest, "resolve") /\ NoneOf(ops, Rest, "connect")
    BY <1>1, <2>5, TailAt DEF NoAttempt, NoneOf, Rest
  <2>8. Quiet(s1, ops, Rest)
    BY <2>3, <2>5, <2>6, <2>7 DEF Quiet, NoWork, NoneOf
  <2>9. NoWaker(events, s1)
    BY <2>3, <2>5 DEF NoWaker, Waker
  <2>10. events \in Seq(QueueType) /\ NoOld(ops, Rest)
    BY <1>1 DEF StrandTypes, Linked
  <2>11. Linked("stopping", rCanceled, sock, events', stack', ops, Rest)
    BY <2>2, <2>3, <2>6, <2>8, <2>9, <2>10, LinkedRetry
  <2>12. QED
    BY <1>1, <1>4, <2>5, <2>11 DEF LinkedNow
<1>5. QED
  BY <1>2, <1>3, <1>4 DEF HandleReconnectTimer

-----------------------------------------------------------------------------
(* The calls, the world, and every step.                                    *)

LEMMA LinkedCallbackStops ==
  ASSUME IInv, LinkedNow, CallbackStops
  PROVE  LinkedNow'
<1> DEFINE f == Frame("stop2", "-")
           st == Append(stack, f)
<1>1. stack \in Stacks /\ posted \in Seq(WorkType) /\ StopOnStrand(posted, st)
  BY IInvParts DEF StrandTypes, CallbackStops
<1>2. f \in FrameType /\ f.k \notin ThreadFrames /\ f.k \notin {"event", "disc2"}
  BY FrameTypes DEF ThreadFrames
<1>3. Linked(state, rCanceled, sock, events, stack, ops, posted)
  BY DEF LinkedNow
<1> HIDE DEF f
<1>4. Linked(state, rCanceled, sock, events, st, ops, posted) /\ st \in Stacks
  BY <1>1, <1>2, <1>3, LinkedPush, StackPush DEF ThreadFrames
<1> HIDE DEF st
<1>5. QED
  BY <1>1, <1>4, LinkedStops

\* Outside of the stop between two attempts nobody connects again.
LEMMA AwakeNoRetry ==
  ASSUME WokenNow, ~rCanceled, state # "stopping"
  PROVE  NoRetry(events, stack)
BY DEF WokenNow, Woken, Phase, NoWaker, NoRetry

LEMMA LinkedCallbackSends ==
  ASSUME IInv, WokenNow, LinkedNow, NEW d \in Data, CallbackSends(d)
  PROVE  LinkedNow'
<1>1. /\ stack \in Stacks /\ events \in Seq(QueueType)
      /\ Linked(state, rCanceled, sock, events, stack, ops, posted)
  BY IInvParts DEF StrandTypes, LinkedNow
<1>2. UNCHANGED <<state, rCanceled, sock, ops, posted>>
  BY DEF CallbackSends, timers
<1>3. CASE IsStarted
  <2> DEFINE ev == SendEvent(d)
  <2>1. ev \in QueueType /\ ev.k \notin Wakers
    BY EventTypes DEF SendEvent, Wakers
  <2>2. Emplace(ev, stack) /\ state = "started"
    BY <1>3 DEF CallbackSends, IsStarted
  <2> HIDE DEF ev
  <2>3. ~rCanceled => state # "starting" /\ NoRetry(events, stack)
    BY <2>2, AwakeNoRetry
  <2>4. Linked(state, rCanceled, sock, events', stack', ops, posted)
    BY <1>1, <2>1, <2>2, <2>3, LinkedEmplace
  <2>5. QED
    BY <1>2, <2>4 DEF LinkedNow
<1>4. CASE ~IsStarted
  <2>1. stack' = Append(stack, User) /\ UNCHANGED events
    BY <1>4 DEF CallbackSends
  <2>2. User \in FrameType /\ User.k \notin ThreadFrames /\ User.k \notin {"event", "disc2"}
    BY FrameTypes DEF ThreadFrames
  <2>3. Linked(state, rCanceled, sock, events, Append(stack, User), ops, posted)
    BY <1>1, <2>2, LinkedPush
  <2>4. QED
    BY <1>2, <2>1, <2>3 DEF LinkedNow
<1>5. QED
  BY <1>3, <1>4

\* A message is posted to the strand while the client is started.
LEMMA LinkedSends ==
  ASSUME NEW st, NEW rC, NEW sk, NEW es, NEW stk, NEW S, NEW q \in Seq(WorkType), NEW h \in WorkType,
         h.k = "push", ~h.op.old, st = "started" \/ (st = "stopped" /\ NoAttempt(stk, S, q)),
         Woken(st, rC, es, stk, S, q), Linked(st, rC, sk, es, stk, S, q)
  PROVE  Linked(st, rC, sk, es, stk, S, Append(q, h))
<1> DEFINE r == Append(q, h)
<1>1. \A k : k # "push" => /\ NoneAt(q, k) => NoneAt(r, k)
                           /\ \A x : OneAt(q, k, x) => OneAt(r, k, x)
  BY AppendAt
<1>2. \A k : NoneAt(r, k) => NoneAt(q, k)
  <2>1. /\ DOMAIN q = 1 .. Len(q) /\ DOMAIN r = 1 .. (Len(q) + 1) /\ Len(q) \in Nat
        /\ \A i \in 1 .. Len(q) : r[i] = q[i]
    BY Appended
  <2>2. \A i \in DOMAIN q : i \in DOMAIN r /\ r[i] = q[i]
    BY <2>1
  <2> HIDE DEF r
  <2>3. QED
    BY <2>2 DEF NoneAt
<1>3. NoOld(S, r)
  BY NoOldPost DEF Linked
<1>4. Woken(st, rC, es, stk, S, r)
  BY WokenPost
<1> HIDE DEF r
<1>5. \A k : k # "push" => /\ NoneOf(S, r, k) <=> NoneOf(S, q, k)
                           /\ OneOf(S, q, k, "-") => OneOf(S, r, k, "-")
  BY <1>1, <1>2 DEF NoneOf, OneOf
<1>6. /\ Thread(stk, S, q) => Thread(stk, S, r)
      /\ Limited(S, q) => Limited(S, r)
      /\ Reads(st, sk, stk, S, q) => Reads(st, sk, stk, S, r)
      /\ NoAttempt(stk, S, q) => NoAttempt(stk, S, r)
  <2>1. /\ NoneOf(S, r, "resolve") <=> NoneOf(S, q, "resolve")
        /\ NoneOf(S, r, "connect") <=> NoneOf(S, q, "connect")
        /\ NoneOf(S, r, "recv") <=> NoneOf(S, q, "recv")
        /\ OneOf(S, q, "resolve", "-") => OneOf(S, r, "resolve", "-")
        /\ OneOf(S, q, "connect", "-") => OneOf(S, r, "connect", "-")
        /\ OneOf(S, q, "recv", "-") => OneOf(S, r, "recv", "-")
    BY <1>5
  <2>2. (NoWork(S, q) => NoWork(S, r)) /\ (OneWork(S, q) => OneWork(S, r))
    BY <2>1 DEF NoWork, OneWork
  <2>3. QED
    BY <2>1, <2>2 DEF Thread, Limited, Reads, Reader, NoAttempt
<1>7. ~rC => Attempts(st, es, stk, S, r)
  <2>1. ~rC => NoAttempt(stk, S, q)
    BY DEF Linked, Attempts
  <2>2. QED
    BY <1>6, <2>1 DEF Attempts
<1>8. Linked(st, rC, sk, es, stk, S, r)
  BY <1>3, <1>4, <1>6, <1>7, LinkedAwake DEF Linked
<1>9. QED
  BY <1>8 DEF r

LEMMA LinkedPosts ==
  ASSUME NEW st, NEW rC, NEW sk, NEW es, NEW stk, NEW S, NEW q \in Seq(WorkType), NEW h \in WorkType,
         h.k \in {"stop", "refused"}, ~h.op.old, Linked(st, rC, sk, es, stk, S, q)
  PROVE  Linked(st, rC, sk, es, stk, S, Append(q, h))
<1>1. WorkKept(S, q, S, Append(q, h)) /\ (Ordered(q) => Ordered(Append(q, h)))
  BY WorkPost, OrderedPost
<1> DEFINE r == Append(q, h)
<1>2. WorkKept(S, q, S, r) /\ (Ordered(q) => Ordered(r))
  BY <1>1
<1> HIDE DEF r
<1>3. Linked(st, rC, sk, es, stk, S, r)
  BY <1>2, LinkedWork
<1>4. QED
  BY <1>3 DEF r

LEMMA LinkedAppCalls ==
  ASSUME IInv, WokenNow, LinkedNow, (\E d \in Data : AppSends(d)) \/ AppStops
  PROVE  LinkedNow'
<1>1. PICK h \in WorkType : /\ h.k \in {"push", "refused", "stop"} /\ posted' = Append(posted, h)
                            /\ h.k = "push" => h.ev.k = "send" /\ IsStarted
                            /\ ~h.op.old
                            /\ UNCHANGED <<state, sock, timers, events, stack, ops, note>>
  BY CallsPosted
<1>2. /\ posted \in Seq(WorkType) /\ UNCHANGED <<state, rCanceled, sock, events, stack, ops>>
      /\ Linked(state, rCanceled, sock, events, stack, ops, posted)
      /\ Woken(state, rCanceled, events, stack, ops, posted)
  BY <1>1, IInvParts DEF StrandTypes, timers, LinkedNow, WokenNow
<1>3. h.k = "push" => state = "started"
  BY <1>1 DEF IsStarted
<1>4. Linked(state, rCanceled, sock, events, stack, ops, Append(posted, h))
  BY <1>1, <1>2, <1>3, LinkedSends, LinkedPosts
<1>5. QED
  BY <1>1, <1>2, <1>4 DEF LinkedNow

LEMMA LinkedStep ==
  ASSUME IInv, BegunNow, WokenNow, SeatedNow, LinkedNow, [Next]_vars, WokenNow',
         starts' = starts
  PROVE  LinkedNow'
<1>1. ~ConnectBody
  BY NoSecondConnect
<1>2. CASE StrandWork
  BY <1>1, <1>2, LinkedReconnectBody, LinkedDisconnectBody, LinkedHandleDisconnect, LinkedWakeBody,
     LinkedStopBody, LinkedSendBody, LinkedReleaseGuard, LinkedStartConnect2, LinkedDoneConnect2,
     LinkedHandleRecv2, LinkedHandleSend2, LinkedReconnectTimer2, LinkedReturns, LinkedRunPush,
     LinkedRunStop, LinkedHandleResolve, LinkedHandleConnect, LinkedHandleRecv, LinkedHandleSend,
     LinkedHandleRefused, LinkedHandleConnectTimer, LinkedHandleReconnectTimer DEF StrandWork
<1>3. CASE Calls
  <2>1. ~CallbackStarts /\ \A sync : ~AppStarts(sync)
    BY NoStart
  <2>2. QED
    BY <1>3, <2>1, LinkedCallbackStops, LinkedCallbackSends, LinkedAppCalls DEF Calls
<1>4. CASE AppReturns \/ UNCHANGED vars
  <2>1. UNCHANGED <<state, rCanceled, sock, ops, posted, stack, events>>
    BY <1>4 DEF AppReturns, AppStarted, AppStopsPool, AppStopped, timers, strand, vars
  <2>2. QED
    BY <2>1 DEF LinkedNow
<1>5. CASE World
  BY <1>5, WorldEnds, LinkedEnds
<1>6. QED
  BY <1>2, <1>3, <1>4, <1>5 DEF Next, StrandStep

LEMMA FreshLinked ==
  ASSUME IInv, FreshNow, SeatedNow
  PROVE  LinkedNow
<1>1. /\ state = "stopped" /\ ops = {} /\ NoFrame(stack, LaterFrames) /\ Early(posted)
      /\ \A k \in Cancellable \cup {"resolve"} : NoneIn(ops, k) /\ NoneAt(posted, k)
  BY FreshLeaves
<1>2. NoFrame(stack, ThreadFrames) /\ NoFrame(stack, {"start2"})
  BY <1>1 DEF NoFrame, ThreadFrames, LaterFrames
<1>3. /\ NoneOf(ops, posted, "resolve") /\ NoneOf(ops, posted, "connect") /\ NoneOf(ops, posted, "recv")
      /\ NoneIn(ops, "ctimer")
  BY <1>1 DEF Cancellable, NoneOf
<1>4. Thread(stack, ops, posted) /\ Limited(ops, posted) /\ Reads(state, sock, stack, ops, posted)
  BY <1>1, <1>2, <1>3 DEF Thread, NoWork, Limited, Reads
<1>5. NoOld(ops, posted)
  <2>1. \A i \in DOMAIN posted : IsNamed(posted[i]) /\ posted[i].k \in CallKinds
    BY <1>1 DEF SeatedNow, Named, Early, IsEarly, CallKinds
  <2>2. \A i \in DOMAIN posted : ~posted[i].op.old
    BY <2>1 DEF IsNamed
  <2>3. QED
    BY <1>1, <2>2 DEF NoOld
<1>6. Attempts(state, events, stack, ops, posted)
  BY <1>1, <1>2, <1>3 DEF Attempts, NoAttempt
<1>7. Woken(state, rCanceled, events, stack, ops, posted) /\ state # "stopping"
  BY <1>1, FreshWoken DEF WokenNow
<1>8. QED
  BY <1>4, <1>5, <1>6, <1>7, LinkedAwake DEF LinkedNow

LEMMA LinkedKeeps ==
  (/\ IInv /\ OneLife /\ WokenNow /\ SeatedNow /\ LinkedNow
   /\ IInv' /\ WokenNow' /\ SeatedNow' /\ [Next]_vars /\ [StartsAtRest]_vars)
    => LinkedNow'
<1>1. SUFFICES ASSUME IInv, OneLife, WokenNow, SeatedNow, LinkedNow, IInv', WokenNow', SeatedNow',
                      [Next]_vars, [StartsAtRest]_vars
               PROVE  LinkedNow'
  OBVIOUS
<1>2. CASE FreshNow
  <2>1. CASE ConnectBody
    BY <1>1, <1>2, <2>1, LinkedConnectBody
  <2>2. CASE ~ConnectBody
    <3>1. FreshNow'
      BY <1>1, <1>2, <2>2, OneLifeCases, FreshKeeps
    <3>2. IInv' /\ FreshNow' /\ SeatedNow' => LinkedNow'
      BY FreshLinked, PTL
    <3>3. QED
      BY <1>1, <3>1, <3>2
  <2>3. QED
    BY <2>1, <2>2
<1>3. CASE BegunNow /\ starts' = starts
  BY <1>1, <1>3, LinkedStep
<1>4. QED
  BY <1>1, <1>2, <1>3, OneLifeCases

LEMMA LinkedInit == Init => LinkedNow
<1>1. SUFFICES ASSUME Init PROVE LinkedNow
  OBVIOUS
<1>2. IInv /\ OneLife /\ starts = 0
  BY <1>1, IInvInit, OneLifeInit DEF Init
<1>3. SeatedNow
  BY <1>1, NoFrameEmpty DEF Init, SeatedNow, Seated, Sending, Named
<1>4. QED
  BY <1>2, <1>3, FreshLinked DEF OneLife

\* A connection is one thread of control, from its resolver to its last
\* receive, and a new attempt begins only when the last one has left nothing in
\* the strand (connect_cp.hpp:248-268, tcp_recv_op.hpp:45-87).
THEOREM LinkedInvariant == Spec /\ [][StartsAtRest]_vars => []LinkedNow
<1>1. Init => LinkedNow
  BY LinkedInit
<1>2. (/\ IInv /\ OneLife /\ WokenNow /\ SeatedNow /\ LinkedNow
       /\ IInv' /\ WokenNow' /\ SeatedNow' /\ [Next]_vars /\ [StartsAtRest]_vars)
        => LinkedNow'
  BY LinkedKeeps
<1>3. QED
  BY <1>1, <1>2, InductiveInvariant, OneLifeInvariant, WokenInvariant, SeatedInvariant, PTL DEF Spec

\* No completion of an earlier attempt, of this life of the client or another,
\* is left when the next one begins, so that none can end it:
\* tcp_recv_op.hpp:153 and connect_cp.hpp:411 call _do_disconnect without
\* asking whose completion it is.
THEOREM NoStaleHolds == Spec /\ [][StartsAtRest]_vars => []NoStaleCompletion
<1>1. LinkedNow => NoStaleCompletion
  BY DEF LinkedNow, Linked, NoOld, NoStaleCompletion
<1>2. QED
  BY <1>1, LinkedInvariant, PTL

LEMMA ReaderCounts ==
  ASSUME Thread(stack, ops, posted), Reads(state, sock, stack, ops, posted)
  PROVE  OneReader
<1> DEFINE dones == {i \in Frames("done2") : stack[i].x = "ok"}
           a == Cardinality(InFlight("recv"))
           b == Cardinality(PostedOps("recv"))
           c == Cardinality(Frames("recv2"))
           d == Cardinality(dones)
<1>1. NoneIn(ops, "recv") => a = 0
  <2>1. NoneIn(ops, "recv") => InFlight("recv") = {}
    BY DEF NoneIn, InFlight
  <2>2. QED
    BY <2>1, CountNone
<1>2. NoneAt(posted, "recv") => b = 0
  <2>1. NoneAt(posted, "recv") => PostedOps("recv") = {}
    BY DEF NoneAt, PostedOps
  <2>2. QED
    BY <2>1, CountNone
<1>3. NoFrame(stack, ThreadFrames) => c = 0 /\ d = 0 /\ NoFrame(stack, {"recv2"}) /\ ~Succeeded(stack)
  <2>1. ASSUME NoFrame(stack, ThreadFrames)
        PROVE  Frames("recv2") = {} /\ dones = {} /\ NoFrame(stack, {"recv2"}) /\ ~Succeeded(stack)
    BY <2>1 DEF NoFrame, ThreadFrames, Frames, Succeeded
  <2>2. QED
    BY <2>1, CountNone
<1>4. ASSUME OneOf(ops, posted, "recv", "-") PROVE (a = 1 /\ b = 0) \/ (a = 0 /\ b = 1)
  <2>1. CASE OneIn(ops, "recv", "-") /\ NoneAt(posted, "recv")
    <3>1. PICK o \in ops : o.k = "recv" /\ \A p \in ops : p.k = "recv" => p = o
      BY <2>1 DEF OneIn
    <3>2. InFlight("recv") = {o}
      BY <3>1 DEF InFlight
    <3>3. QED
      BY <1>2, <2>1, <3>2, CountOne
  <2>2. CASE NoneIn(ops, "recv") /\ OneAt(posted, "recv", "-")
    <3>1. PICK i \in DOMAIN posted : posted[i].k = "recv" /\ \A j \in DOMAIN posted : posted[j].k = "recv" => j = i
      BY <2>2 DEF OneAt
    <3>2. PostedOps("recv") = {i}
      BY <3>1 DEF PostedOps
    <3>3. QED
      BY <1>1, <2>2, <3>2, CountOne
  <2>3. QED
    BY <1>4, <2>1, <2>2 DEF OneOf
<1>5. ASSUME OneFrame(stack, ThreadFrames)
      PROVE  /\ (c = 0 /\ d = 0) \/ (c = 1 /\ d = 0) \/ (c = 0 /\ d = 1)
             /\ ~NoFrame(stack, {"recv2"}) \/ Succeeded(stack) => c = 1 \/ d = 1
  <2>1. PICK i \in DOMAIN stack : /\ stack[i].k \in ThreadFrames
                                  /\ \A j \in DOMAIN stack : stack[j].k \in ThreadFrames => j = i
    BY <1>5 DEF OneFrame
  <2>2. CASE stack[i].k = "recv2"
    <3>1. Frames("recv2") = {i} /\ dones = {}
      BY <2>1, <2>2 DEF Frames, ThreadFrames
    <3>2. QED
      BY <3>1, CountNone, CountOne
  <2>3. CASE stack[i].k = "done2" /\ stack[i].x = "ok"
    <3>1. Frames("recv2") = {} /\ dones = {i}
      BY <2>1, <2>3 DEF Frames, ThreadFrames
    <3>2. QED
      BY <3>1, CountNone, CountOne
  <2>4. CASE stack[i].k # "recv2" /\ ~(stack[i].k = "done2" /\ stack[i].x = "ok")
    <3>1. /\ Frames("recv2") = {} /\ dones = {} /\ NoFrame(stack, {"recv2"}) /\ ~Succeeded(stack)
      BY <2>1, <2>4 DEF Frames, ThreadFrames, NoFrame, Succeeded
    <3>2. QED
      BY <3>1, CountNone
  <2>5. QED
    BY <2>2, <2>3, <2>4
<1>6. IsStarted => Reader(stack, ops, posted)
  BY DEF Reads, IsStarted
<1> HIDE DEF a, b, c, d
<1>7. a + b + c + d <= 1 /\ (IsStarted => a + b + c + d = 1)
  <2>1. CASE NoFrame(stack, ThreadFrames) /\ NoWork(ops, posted)
    <3>1. a = 0 /\ b = 0 /\ c = 0 /\ d = 0 /\ ~IsStarted
      BY <1>1, <1>2, <1>3, <1>6, <2>1 DEF NoWork, NoneOf, Reader
    <3>2. QED
      BY <3>1
  <2>2. CASE NoFrame(stack, ThreadFrames) /\ OneWork(ops, posted)
    <3>1. CASE NoneOf(ops, posted, "recv")
      <4>1. a = 0 /\ b = 0 /\ c = 0 /\ d = 0 /\ ~IsStarted
        BY <1>1, <1>2, <1>3, <1>6, <2>2, <3>1 DEF NoneOf, Reader
      <4>2. QED
        BY <4>1
    <3>2. CASE OneOf(ops, posted, "recv", "-")
      <4>1. c = 0 /\ d = 0 /\ ((a = 1 /\ b = 0) \/ (a = 0 /\ b = 1))
        BY <1>3, <1>4, <2>2, <3>2
      <4>2. QED
        BY <4>1
    <3>3. QED
      BY <2>2, <3>1, <3>2 DEF OneWork
  <2>3. CASE OneFrame(stack, ThreadFrames) /\ NoWork(ops, posted)
    <3>1. a = 0 /\ b = 0 /\ NoneOf(ops, posted, "recv")
      BY <1>1, <1>2, <2>3 DEF NoWork, NoneOf
    <3>2. (c = 0 /\ d = 0) \/ (c = 1 /\ d = 0) \/ (c = 0 /\ d = 1)
      BY <1>5, <2>3
    <3>3. IsStarted => c = 1 \/ d = 1
      BY <1>5, <1>6, <2>3, <3>1 DEF Reader
    <3>4. QED
      BY <3>1, <3>2, <3>3
  <2>4. QED
    BY <2>1, <2>2, <2>3 DEF Thread
<1>8. QED
  BY <1>7 DEF OneReader, a, b, c, d

\* A started connection has exactly one receive under way, and no client ever
\* two on the same buffer (tcp_recv_op.hpp:45-87).
THEOREM OneReaderHolds == Spec /\ [][StartsAtRest]_vars => []OneReader
<1>1. LinkedNow => OneReader
  BY ReaderCounts DEF LinkedNow, Linked
<1>2. QED
  BY <1>1, LinkedInvariant, PTL

-----------------------------------------------------------------------------
(* What the user is told follows the state.                                 *)

\* Event i is to announce that the connection is lost.
Owes(es, stk, i) ==
  es[i].k = "disconnect" /\ es[i].p = "started" /\ (i = 1 => ~NoFrame(stk, {"event"}))
NoneOwed(es, stk) == \A i \in DOMAIN es : ~Owes(es, stk, i)

\* A connection is announced while the client is started and until the event
\* that ends it has told so; no attempt is made meanwhile.
Announced(st, es, stk, S, q, nt) ==
  /\ nt = "connected" <=> (st = "started" \/ ~NoneOwed(es, stk))
  /\ nt = "connected" => NoAttempt(stk, S, q)

AnnouncedNow == Announced(state, events, stack, ops, posted, note)

LifeMoves == [Life!Next]_<<state, note>>

NoneStarts(S, q) == NoneOf(S, q, "resolve") /\ NoneOf(S, q, "connect")

LEMMA AnnouncedKept ==
  ASSUME NEW st, NEW es, NEW nt, NEW s1, NEW S1, NEW q1, NEW s2, NEW S2, NEW q2,
         NoFrame(s1, {"start2"}) => NoFrame(s2, {"start2"}),
         NoFrame(s1, {"event"}) <=> NoFrame(s2, {"event"}),
         NoneStarts(S1, q1) => NoneStarts(S2, q2), Announced(st, es, s1, S1, q1, nt)
  PROVE  Announced(st, es, s2, S2, q2, nt)
<1>1. NoneOwed(es, s1) <=> NoneOwed(es, s2)
  BY DEF NoneOwed, Owes
<1>2. NoAttempt(s1, S1, q1) => NoAttempt(s2, S2, q2)
  BY DEF NoAttempt, NoneStarts
<1>3. QED
  BY <1>1, <1>2 DEF Announced

LEMMA AnnouncedWork ==
  ASSUME NEW st, NEW es, NEW nt, NEW stk, NEW S1, NEW q1, NEW S2, NEW q2,
         WorkKept(S1, q1, S2, q2), Announced(st, es, stk, S1, q1, nt)
  PROVE  Announced(st, es, stk, S2, q2, nt)
<1>1. NoneStarts(S1, q1) => NoneStarts(S2, q2)
  BY DEF NoneStarts, WorkKept, Keeps
<1>2. QED
  BY <1>1, AnnouncedKept

LEMMA AnnouncedPush ==
  ASSUME NEW stk \in Stacks, NEW f \in FrameType, f.k \notin {"event", "start2"},
         NEW st, NEW es, NEW nt, NEW S, NEW q, Announced(st, es, stk, S, q, nt)
  PROVE  Announced(st, es, Append(stk, f), S, q, nt)
<1> DEFINE t == Append(stk, f)
<1>1. \A K : NoFrame(t, K) <=> (NoFrame(stk, K) /\ f.k \notin K)
  BY FramePush DEF Stacks
<1> HIDE DEF t
<1>2. /\ NoFrame(stk, {"start2"}) => NoFrame(t, {"start2"})
      /\ NoFrame(stk, {"event"}) <=> NoFrame(t, {"event"})
  BY <1>1
<1>3. Announced(st, es, t, S, q, nt)
  BY <1>2, AnnouncedKept
<1>4. QED
  BY <1>3 DEF t

LEMMA AnnouncedPop ==
  ASSUME IInv, ~Idle, Top.k # "event",
         NEW st, NEW es, NEW nt, NEW S, NEW q, Announced(st, es, stack, S, q, nt)
  PROVE  Announced(st, es, Below, S, q, nt)
<1>1. Below \in Seq(FrameType) /\ Top \in FrameType /\ stack = Append(Below, Top)
  BY TopFrame DEF Stacks
<1>2. \A K : NoFrame(stack, K) <=> (NoFrame(Below, K) /\ Top.k \notin K)
  BY <1>1, FramePush
<1>3. /\ NoFrame(stack, {"start2"}) => NoFrame(Below, {"start2"})
      /\ NoFrame(stack, {"event"}) <=> NoFrame(Below, {"event"})
  BY <1>2
<1>4. QED
  BY <1>3, AnnouncedKept

\* The next handler of the strand is taken.
LEMMA AnnouncedNext ==
  ASSUME IInv, BegunNow, AnnouncedNow, NEW k, Runs(k)
  PROVE  /\ Announced(state, events, <<>>, ops, Rest, note)
         /\ k \in {"resolve", "connect"} => note # "connected"
<1>1. posted \in Seq(WorkType) /\ posted # <<>> /\ Head(posted).k = k /\ stack = <<>>
  BY BegunNext DEF Done
<1>2. Announced(state, events, <<>>, ops, posted, note)
  BY <1>1 DEF AnnouncedNow
<1>3. NoneStarts(ops, posted) => NoneStarts(ops, Rest)
  BY <1>1, TailAt DEF NoneStarts, NoneOf, Rest
<1>4. Announced(state, events, <<>>, ops, Rest, note)
  BY <1>2, <1>3, AnnouncedKept
<1>5. ~NoneAt(posted, k)
  BY <1>1, TailAt
<1>6. k \in {"resolve", "connect"} => note # "connected"
  BY <1>2, <1>5 DEF Announced, NoAttempt, NoneOf
<1>7. QED
  BY <1>4, <1>6

\* An event that announces nothing joins the queue.
LEMMA AnnouncedEmplace ==
  ASSUME events \in Seq(QueueType), NEW stk \in Stacks, NEW ev \in QueueType, Emplace(ev, stk),
         ev.k # "disconnect", NEW st, NEW nt, NEW S, NEW q, Announced(st, events, stk, S, q, nt)
  PROVE  Announced(st, events', stack', S, q, nt)
<1> DEFINE n == Len(events)
<1>1. /\ \A i \in DOMAIN events : events'[i] = events[i] /\ i \in DOMAIN events'
      /\ events'[n + 1] = ev
      /\ \A i \in DOMAIN events' : i \in DOMAIN events \/ i = n + 1
      /\ events # <<>> => stack' = stk
  BY EmplaceEvents
<1> HIDE DEF n
<1>2. \A i \in DOMAIN events : stack' = stk
  BY <1>1
<1>3. \A i \in DOMAIN events : Owes(events', stack', i) <=> Owes(events, stk, i)
  BY <1>1, <1>2 DEF Owes
<1>4. \A i \in DOMAIN events' : Owes(events', stack', i) => i \in DOMAIN events
  BY <1>1 DEF Owes
<1>5. NoneOwed(events', stack') <=> NoneOwed(events, stk)
  BY <1>1, <1>3, <1>4 DEF NoneOwed
<1>6. NoAttempt(stk, S, q) => NoAttempt(stack', S, q)
  BY EmplaceSame DEF NoAttempt, Same
<1>7. QED
  BY <1>5, <1>6 DEF Announced

\* Without a disconnect event nothing is owed.
LEMMA NoneOwes ==
  ASSUME NEW es, \A i \in DOMAIN es : es[i].k # "disconnect", NEW stk
  PROVE  NoneOwed(es, stk)
BY DEF NoneOwed, Owes

\* _do_disconnect: what was announced is owed from now on.
LEMMA AnnouncedDisconnect ==
  ASSUME events \in Seq(QueueType), NEW stk \in Stacks, NEW chain \in {"stop", "wake"},
         DoDisconnect(chain, stk), Closing(state, events), NEW nt, NEW S, NEW q,
         Announced(state, events, stk, S, q, nt)
  PROVE  /\ Announced(state', events', stack', S, q, nt)
         /\ state' = state \/ (state \in {"starting", "started"} /\ state' = "stopping")
<1>1. CASE state \in {"started", "starting"}
  <2> DEFINE ev == DisconnectEvent(state, chain)
             n == Len(events)
  <2>1. ev \in QueueType /\ ev.k = "disconnect" /\ ev.p = state
    BY <1>1, EventTypes DEF DisconnectEvent
  <2>2. Emplace(ev, stk) /\ state' = "stopping"
    BY <1>1 DEF DoDisconnect
  <2> HIDE DEF ev
  <2>3. /\ \A i \in DOMAIN events : events'[i] = events[i]
        /\ events'[n + 1] = ev /\ n + 1 \in DOMAIN events'
        /\ \A i \in DOMAIN events' : i \in DOMAIN events \/ i = n + 1
        /\ events # <<>> => n + 1 # 1
        /\ events = <<>> => ~NoFrame(stack', {"event"})
    BY <2>1, <2>2, EmplaceEvents
  <2> HIDE DEF n
  <2>4. \A i \in DOMAIN events : events[i].k # "disconnect"
    BY <1>1 DEF Closing
  <2>5. NoneOwed(events, stk)
    BY <2>4, NoneOwes
  <2>6. Owes(events', stack', n + 1) <=> state = "started"
    BY <2>1, <2>3 DEF Owes
  <2>7. \A i \in DOMAIN events' : Owes(events', stack', i) => i = n + 1
    BY <2>3, <2>4 DEF Owes
  <2>8. NoneOwed(events', stack') <=> state # "started"
    BY <2>3, <2>6, <2>7 DEF NoneOwed
  <2>9. NoAttempt(stk, S, q) => NoAttempt(stack', S, q)
    BY <2>1, <2>2, EmplaceSame DEF NoAttempt, Same
  <2>10. QED
    BY <1>1, <2>2, <2>5, <2>8, <2>9 DEF Announced
<1>2. CASE state \notin {"started", "starting"} /\ chain = "stop"
  <2>1. Emplace(StopEvent, stk) /\ state' = state
    BY <1>2 DEF DoDisconnect
  <2>2. StopEvent \in QueueType /\ StopEvent.k # "disconnect"
    BY EventTypes DEF StopEvent
  <2>3. QED
    BY <2>1, <2>2, AnnouncedEmplace
<1>3. CASE state \notin {"started", "starting"} /\ chain # "stop"
  BY <1>3 DEF DoDisconnect
<1>4. QED
  BY <1>1, <1>2, <1>3

LEMMA LifeLoses ==
  ASSUME note' = note, state' = state \/ (state \in {"starting", "started"} /\ state' = "stopping")
  PROVE  LifeMoves
BY DEF LifeMoves, Life!Next, Life!Lose

-----------------------------------------------------------------------------
(* The bodies of events and what is told.                                   *)

\* The body of an event that announces nothing is done.
LEMMA AnnouncedBody ==
  ASSUME IInv, ~Idle, Top.k = "event", Head(events).k # "disconnect",
         NEW st, NEW nt, NEW S, NEW q, Announced(st, events, stack, S, q, nt)
  PROVE  /\ Announced(st, events, Below, S, q, nt)
         /\ Announced(st, events, Append(Below, Release), S, q, nt)
<1>1. /\ Below \in Stacks /\ Top \in FrameType /\ stack = Append(Below, Top) /\ Below \in Seq(FrameType)
      /\ Alike(Below, Below)
  BY TopFrame DEF Stacks, Alike
<1>2. 1 \in DOMAIN events /\ Head(events) = events[1]
  BY <1>1, BodyOver
<1>3. \A i \in DOMAIN events : Owes(events, stack, i) <=> Owes(events, Below, i)
  BY <1>2 DEF Owes
<1>4. NoneOwed(events, stack) <=> NoneOwed(events, Below)
  BY <1>3 DEF NoneOwed
<1>5. NoFrame(stack, {"start2"}) => NoFrame(Below, {"start2"})
  BY <1>1, FramePush
<1>6. Announced(st, events, Below, S, q, nt)
  BY <1>4, <1>5 DEF Announced, NoAttempt
<1>7. Release \in FrameType /\ Release.k \notin {"event", "start2"}
  BY FrameTypes
<1>8. QED
  BY <1>1, <1>6, <1>7, AnnouncedPush

LEMMA AnnouncedWakeBody ==
  ASSUME IInv, AnnouncedNow, WakeBody
  PROVE  AnnouncedNow' /\ LifeMoves
<1> DEFINE s2 == Append(Below, Release)
           S == ops'
           q == posted'
<1>1. /\ ~Idle /\ Top.k = "event" /\ Head(events).k # "disconnect" /\ StrandTypes
      /\ Announced(state, events, stack, ops, posted, note) /\ posted \in Seq(WorkType)
  BY IInvParts DEF WakeBody, RunsEvent, AnnouncedNow, StrandTypes
<1>2. stack' = s2 /\ UNCHANGED <<state, events, note>> /\ Outstanding(posted, ReconnectWait, {})
  BY DEF WakeBody, timers
<1>3. WorkKept(ops, posted, S, q)
  BY <1>1, <1>2, OutstandingWaits, WorkOutstanding
<1> HIDE DEF S, q
<1>4. Announced(state, events, s2, ops, posted, note)
  BY <1>1, AnnouncedBody
<1> HIDE DEF s2
<1>5. Announced(state, events, s2, S, q, note)
  BY <1>3, <1>4, AnnouncedWork
<1>6. AnnouncedNow'
  BY <1>2, <1>5 DEF AnnouncedNow, S, q
<1>7. QED
  BY <1>2, <1>6, LifeLoses

\* A client that is stopped has been told of the loss of its connection.
LEMMA AnnouncedStopBody ==
  ASSUME IInv, WokenNow, AnnouncedNow, StopBody
  PROVE  AnnouncedNow' /\ LifeMoves
<1> DEFINE s2 == Append(Below, Release)
           C == ReconnectWait \cup ConnectWait
           S == ops'
           q == posted'
<1>1. /\ ~Idle /\ Top.k = "event" /\ Head(events).k = "stop" /\ StrandTypes
      /\ Announced(state, events, stack, ops, posted, note) /\ posted \in Seq(WorkType)
      /\ Closing(state, events)
  BY IInvParts DEF StopBody, RunsEvent, AnnouncedNow, StrandTypes, WokenNow, Woken
<1>2. /\ stack' = s2 /\ UNCHANGED <<events, note>> /\ Outstanding(posted, C, {})
      /\ state' = IF state = "stopping" THEN "stopped" ELSE state
  BY DEF StopBody
<1>3. C \subseteq ops /\ NoneIn(C, "resolve")
  BY DEF ReconnectWait, ConnectWait, NoneIn
<1> HIDE DEF C
<1>4. WorkKept(ops, posted, S, q)
  BY <1>1, <1>2, <1>3, OutstandingWaits, WorkOutstanding
<1> HIDE DEF S, q
<1>5. Announced(state, events, s2, ops, posted, note)
  BY <1>1, AnnouncedBody
<1> HIDE DEF s2
<1>6. Announced(state, events, s2, S, q, note)
  BY <1>4, <1>5, AnnouncedWork
<1>7. \A i \in DOMAIN events : events[i].k # "disconnect"
  <2>1. 1 \in DOMAIN events /\ events[1].k = "stop"
    BY <1>1, ReleasedAlike, BodyOver
  <2>2. DOMAIN events = 1 .. Len(events) /\ Len(events) \in Nat
    BY IInvParts, LenProperties DEF StrandTypes
  <2>3. \A i \in DOMAIN events : ~(i < 1)
    BY <2>2
  <2>4. QED
    BY <1>1, <2>1, <2>3 DEF Closing
<1>8. NoneOwed(events, s2)
  BY <1>7, NoneOwes
<1>9. CASE state = "stopping"
  <2>1. note # "connected" /\ state' = "stopped"
    BY <1>2, <1>6, <1>8, <1>9 DEF Announced
  <2>2. Announced(state', events, s2, S, q, note)
    BY <1>8, <2>1 DEF Announced
  <2>3. AnnouncedNow'
    BY <1>2, <2>2 DEF AnnouncedNow, S, q
  <2>4. Life!Stop
    BY <1>2, <1>9, <2>1 DEF Life!Stop, Life!Announced
  <2>5. QED
    BY <2>3, <2>4 DEF LifeMoves, Life!Next
<1>10. CASE state # "stopping"
  <2>1. state' = state
    BY <1>2, <1>10
  <2>2. AnnouncedNow'
    BY <1>2, <1>6, <2>1 DEF AnnouncedNow, S, q
  <2>3. QED
    BY <1>2, <2>1, <2>2, LifeLoses
<1>11. QED
  BY <1>9, <1>10

LEMMA AnnouncedSendBody ==
  ASSUME IInv, AnnouncedNow, SendBody
  PROVE  AnnouncedNow' /\ LifeMoves
<1> DEFINE o == Op("write", 0, Head(events).p)
           h == Completion(o, "err")
           S == ops'
           q == posted'
<1>1. /\ ~Idle /\ Top.k = "event" /\ Top.k \in Guard /\ Head(events).k = "send" /\ StrandTypes
      /\ posted \in Seq(WorkType) /\ Announced(state, events, stack, ops, posted, note)
  BY IInvParts DEF SendBody, RunsEvent, StrandTypes, Guard, AnnouncedNow
<1>2. o \in OpType /\ o.k = "write" /\ ~o.old
  <2>1. Head(events).p \in Data
    BY <1>1, TopFrame, EventParts
  <2>2. o.k = "write" /\ ~o.old
    BY DEF Op
  <2>3. QED
    BY <2>1, <2>2, OpTypes
<1> HIDE DEF o
<1>3. h \in WorkType /\ h.k = "write" /\ h.op = o
  BY <1>2, CompletionType, CompletionOp DEF Codes
<1> HIDE DEF h
<1>4. Outstanding(posted, {}, {o}) \/ (posted' = Append(posted, h) /\ UNCHANGED ops)
  BY DEF SendBody, o, h
<1>5. WorkKept(ops, posted, S, q)
  <2>1. CASE Outstanding(posted, {}, {o})
    <3>1. \A k \in {"resolve", "connect", "recv", "ctimer"} : NoneIn({o}, k)
      BY <1>2 DEF NoneIn
    <3>2. \A p \in {o} : ~p.old
      BY <1>2
    <3>3. QED
      BY <1>1, <2>1, <3>1, <3>2, OutstandingWaits, WorkOutstanding
  <2>2. CASE posted' = Append(posted, h) /\ UNCHANGED ops
    BY <1>1, <1>2, <1>3, <2>2, WorkPost
  <2>3. QED
    BY <1>4, <2>1, <2>2
<1> HIDE DEF S, q
<1>6. Announced(state, events, Below, ops, posted, note)
  BY <1>1, AnnouncedBody
<1>7. Announced(state, events, Below, S, q, note)
  BY <1>5, <1>6, AnnouncedWork
<1>8. stack' = Below /\ UNCHANGED <<state, events, note>>
  BY DEF SendBody, timers
<1>9. AnnouncedNow'
  BY <1>7, <1>8 DEF AnnouncedNow, S, q
<1>10. QED
  BY <1>8, <1>9, LifeLoses

\* The user is told if, and only if, it had been told of the connection.
LEMMA AnnouncedDisconnectBody ==
  ASSUME IInv, WokenNow, AnnouncedNow, DisconnectBody
  PROVE  AnnouncedNow' /\ LifeMoves
<1> DEFINE s1 == Append(Below, Release)
           f == Frame("disc2", "-")
           s2 == Append(s1, f)
           t == stack'
           e == Head(events)
<1>1. /\ ~Idle /\ Top.k = "event" /\ e.k = "disconnect" /\ Below \in Stacks
      /\ Announced(state, events, stack, ops, posted, note) /\ Closing(state, events)
  BY TopFrame DEF DisconnectBody, RunsEvent, AnnouncedNow, WokenNow, Woken
<1>2. /\ Below \in Seq(FrameType) /\ Top \in FrameType /\ stack = Append(Below, Top)
      /\ NoFrame(Below, {"event"})
  <2>1. Below \in Seq(FrameType) /\ Top \in FrameType /\ stack = Append(Below, Top) /\ NoFrame(Below, Guard)
    BY <1>1, TopFrame DEF Stacks, Guard
  <2>2. QED
    BY <2>1 DEF NoFrame, Guard
<1>3. 1 \in DOMAIN events /\ e = events[1]
  BY <1>1, ReleasedAlike, BodyOver
<1>4. s1 \in Seq(FrameType) /\ \A K : NoFrame(s1, K) <=> (NoFrame(Below, K) /\ Release.k \notin K)
  BY <1>2, FrameTypes, Appended, FramePush
<1>5. f \in FrameType /\ f.k = "disc2"
  BY FrameTypes
<1>6. s2 \in Seq(FrameType) /\ \A K : NoFrame(s2, K) <=> (NoFrame(s1, K) /\ f.k \notin K)
  <2> HIDE DEF s1, f
  <2>1. QED
    BY <1>4, <1>5, Appended, FramePush
<1>7. \A K : NoFrame(Append(s2, User), K) <=> (NoFrame(s2, K) /\ User.k \notin K)
  <2> HIDE DEF s2
  <2>1. QED
    BY <1>6, FrameTypes, FramePush
<1>8. t = s2 \/ t = Append(s2, User)
  <2>1. Below \o <<Release, f>> = s2
    BY <1>2, <1>5, FrameTypes, Chain
  <2>2. s2 \o <<User>> = Append(s2, User) /\ s2 \o <<>> = s2
    <3> HIDE DEF s2
    <3>1. QED
      BY <1>6, FrameTypes, Chain
  <2>3. stack' = s2 \o <<User>> \/ stack' = s2 \o <<>>
    BY <2>1 DEF DisconnectBody
  <2>4. QED
    BY <2>2, <2>3
<1> HIDE DEF s1, s2, f
<1>9. /\ NoFrame(stack, {"start2"}) => NoFrame(Below, {"start2"})
      /\ ~NoFrame(stack, {"event"})
  BY <1>1, <1>2, FramePush
<1>10. /\ NoFrame(stack, {"start2"}) => NoFrame(t, {"start2"})
       /\ NoFrame(t, {"event"})
  <2>1. /\ User.k \notin {"start2"} /\ User.k \notin {"event"} /\ f.k \notin {"start2"} /\ f.k \notin {"event"}
        /\ Release.k \notin {"start2"} /\ Release.k \notin {"event"}
    BY <1>5, FrameTypes
  <2>2. QED
    BY <1>2, <1>4, <1>6, <1>7, <1>8, <1>9, <2>1
<1> HIDE DEF t
<1>11. NoneOwed(events, t)
  <2>1. \A i \in DOMAIN events : events[i].k = "disconnect" => i = 1
    BY <1>1, <1>3 DEF Closing
  <2>2. QED
    BY <1>10, <2>1 DEF NoneOwed, Owes
<1>12. state = "stopping" /\ (Owes(events, stack, 1) <=> e.p = "started")
  BY <1>1, <1>3, <1>9 DEF Closing, Owes
<1>13. /\ note' = IF e.p = "started" THEN "disconnected" ELSE note
       /\ UNCHANGED <<state, ops, posted, events>> /\ stack' = t
  BY <1>12 DEF DisconnectBody, t
<1>14. CASE e.p = "started"
  <2>1. note = "connected" /\ note' = "disconnected"
    BY <1>1, <1>3, <1>12, <1>13, <1>14 DEF Announced, NoneOwed
  <2>2. Announced(state, events, t, ops, posted, note')
    BY <1>11, <1>12, <2>1 DEF Announced
  <2>3. Life!Disconnect
    BY <1>12, <1>13, <2>1 DEF Life!Disconnect, Life!Announced
  <2>4. QED
    BY <1>13, <2>2, <2>3 DEF AnnouncedNow, LifeMoves, Life!Next
<1>15. CASE e.p # "started"
  <2>1. NoneOwed(events, stack)
    <3>1. \A i \in DOMAIN events : events[i].k = "disconnect" => i = 1
      BY <1>1, <1>3 DEF Closing
    <3>2. QED
      BY <1>3, <1>15, <3>1 DEF NoneOwed, Owes
  <2>2. note # "connected" /\ note' = note
    BY <1>1, <1>12, <1>13, <1>15, <2>1 DEF Announced
  <2>3. Announced(state, events, t, ops, posted, note')
    BY <1>11, <1>12, <2>2 DEF Announced
  <2>4. AnnouncedNow'
    BY <1>13, <2>3 DEF AnnouncedNow
  <2>5. QED
    BY <1>13, <2>2, <2>4, LifeLoses
<1>16. QED
  BY <1>14, <1>15

\* An attempt begins when nothing is announced.
LEMMA AnnouncedStart ==
  ASSUME \A i \in DOMAIN events : events[i].k # "disconnect", note # "connected",
         state' = "starting", UNCHANGED <<events, note>>
  PROVE  AnnouncedNow'
<1> DEFINE t == stack'
<1>1. NoneOwed(events, t)
  BY NoneOwes
<1> HIDE DEF t
<1>2. Announced("starting", events, t, ops', posted', note)
  BY <1>1 DEF Announced
<1>3. QED
  BY <1>2 DEF AnnouncedNow, t

LEMMA AnnouncedReconnectBody ==
  ASSUME IInv, WokenNow, AnnouncedNow, ReconnectBody
  PROVE  AnnouncedNow' /\ LifeMoves
<1>1. /\ ~Idle /\ Top.k = "event" /\ Head(events).k = "reconnect" /\ Head(events).k # "disconnect"
      /\ Woken(state, rCanceled, events, stack, ops, posted)
      /\ Announced(state, events, stack, ops, posted, note)
  BY DEF ReconnectBody, RunsEvent, WokenNow, AnnouncedNow
<1>2. CASE ~rCanceled /\ state = "stopping"
  <2>1. state' = "starting" /\ UNCHANGED <<events, note>>
    BY <1>2 DEF ReconnectBody, StartConnect
  <2>2. OneWaker(events, stack) /\ ~NoWaker(events, stack)
    <3>1. ~NoWaker(events, stack)
      BY <1>1, ReleasedAlike, BodyOver
    <3>2. QED
      BY <1>1, <1>2, <3>1 DEF Woken, Phase
  <2>3. NoWaker(events, Below)
    BY <1>1, <2>2, ReleasedAlike, BodyOver
  <2>4. \A i \in DOMAIN events : events[i].k # "disconnect"
    BY <2>3 DEF NoWaker, Waker, Wakers
  <2>5. NoneOwed(events, stack)
    BY <2>4, NoneOwes
  <2>6. note # "connected"
    BY <1>1, <1>2, <2>5 DEF Announced
  <2>7. AnnouncedNow'
    BY <2>1, <2>4, <2>6, AnnouncedStart
  <2>8. Life!Reconnect
    BY <1>2, <2>1, <2>6 DEF Life!Reconnect, Life!Announced
  <2>9. QED
    BY <2>7, <2>8 DEF LifeMoves, Life!Next
<1>3. CASE ~(~rCanceled /\ state = "stopping")
  <2> DEFINE s2 == Append(Below, Release)
  <2>1. stack' = s2 /\ UNCHANGED <<state, ops, posted, events, note>>
    BY <1>3 DEF ReconnectBody
  <2>2. Announced(state, events, s2, ops, posted, note)
    BY <1>1, AnnouncedBody
  <2> HIDE DEF s2
  <2>3. AnnouncedNow'
    BY <2>1, <2>2 DEF AnnouncedNow
  <2>4. QED
    BY <2>1, <2>3, LifeLoses
<1>4. QED
  BY <1>2, <1>3

LEMMA FreshAnnounced ==
  ASSUME IInv, FreshNow, note # "connected"
  PROVE  AnnouncedNow
<1>1. state = "stopped" /\ \A i \in DOMAIN events : events[i].k # "disconnect"
  BY FreshLeaves
<1>2. NoneOwed(events, stack)
  BY <1>1, NoneOwes
<1>3. QED
  BY <1>1, <1>2 DEF AnnouncedNow, Announced

LEMMA FreshSilent ==
  ASSUME IInv, FreshNow, AnnouncedNow
  PROVE  note # "connected"
<1>1. state = "stopped" /\ \A i \in DOMAIN events : events[i].k # "disconnect"
  BY FreshLeaves
<1>2. NoneOwed(events, stack)
  BY <1>1, NoneOwes
<1>3. QED
  BY <1>1, <1>2 DEF AnnouncedNow, Announced

LEMMA AnnouncedConnectBody ==
  ASSUME IInv, FreshNow, AnnouncedNow, ConnectBody
  PROVE  AnnouncedNow' /\ LifeMoves
<1>1. UNCHANGED <<events, note>> /\ state' = "starting"
  BY FreshConnects
<1>2. state = "stopped" /\ note # "connected" /\ \A i \in DOMAIN events : events[i].k # "disconnect"
  BY FreshLeaves, FreshSilent
<1>3. Life!Start
  BY <1>1, <1>2 DEF Life!Start
<1>4. QED
  BY <1>1, <1>2, <1>3, AnnouncedStart DEF LifeMoves, Life!Next

\* Before the connect event nothing moves.
LEMMA FreshTells ==
  ASSUME IInv, FreshNow, [Next]_vars, ~ConnectBody
  PROVE  note' = note
<1>1. /\ ~Idle => Top.k \in {"user", "stop2", "event", "release"}
      /\ ~Idle /\ Top.k \in Guard => Head(events).k \in {"stop", "connect"}
      /\ \A k : Runs(k) => k \in {"push", "stop", "refused"}
  BY FreshSteps
<1>2. ~StartConnect2 /\ ~DisconnectBody /\ ~HandleResolve /\ ~HandleConnect
  BY <1>1 DEF StartConnect2, DisconnectBody, RunsEvent, Guard, HandleResolve, HandleConnect
<1>3. CASE StrandWork
  BY <1>2, <1>3 DEF StrandWork, ReconnectBody, HandleDisconnect, WakeBody, StopBody, SendBody,
     ReleaseGuard, DoneConnect2, HandleRecv2, HandleSend2, ReconnectTimer2, Stop2, RunPush, RunStop,
     StopOnStrand, HandleRecv, HandleSend, HandleRefused, HandleConnectTimer, HandleReconnectTimer,
     CallbackReturns
<1>4. CASE Calls
  BY <1>4 DEF Calls, CallbackStops, StopOnStrand, CallbackStarts, CallbackSends, AppStarts, AppSends, AppStops
<1>5. CASE AppReturns \/ UNCHANGED vars
  BY <1>5 DEF AppReturns, AppStarted, AppStopsPool, AppStopped, vars
<1>6. CASE World
  BY <1>6, WorldEnds DEF Ends
<1>7. QED
  BY <1>3, <1>4, <1>5, <1>6 DEF Next, StrandStep

\* The guard is destroyed: the events move up, and one that tells nothing comes.
LEMMA AnnouncedReleaseGuard ==
  ASSUME IInv, AnnouncedNow, ReleaseGuard
  PROVE  AnnouncedNow' /\ LifeMoves
<1> DEFINE n == Len(events)
           e == ChainEvent(Head(events))
           es == events'
           t == stack'
<1>1. /\ n \in Nat /\ DOMAIN events = 1 .. n
      /\ \A i \in DOMAIN es :
           \/ i + 1 \in DOMAIN events /\ i + 1 # 1 /\ es[i] = events[i + 1]
           \/ i = n /\ es[i] = e
      /\ \A i \in DOMAIN events : i # 1 => i - 1 \in DOMAIN es /\ es[i - 1] = events[i]
      /\ NoFrame(stack, {"event"})
      /\ es # <<>> => ~NoFrame(t, {"event"})
  BY ReleaseEvents
<1>2. e.k # "disconnect"
  BY DEF ChainEvent, StopEvent, WakeEvent
<1>3. /\ UNCHANGED <<state, ops, posted, note>> /\ Announced(state, events, stack, ops, posted, note)
      /\ ~Idle /\ Top.k = "release" /\ Top.k \notin ThreadFrames
      /\ (t = Below \/ t = Append(Below, Body))
  BY DEF ReleaseGuard, AnnouncedNow, timers, ThreadFrames
<1>4. Below \in Seq(FrameType) /\ Top \in FrameType /\ stack = Append(Below, Top)
  BY <1>3, TopFrame DEF Stacks
<1>5. Same(stack, t)
  <2>1. Body \in FrameType /\ Body.k \notin ThreadFrames
    BY FrameTypes DEF ThreadFrames
  <2>2. Same(stack, Below) /\ Same(Below, Append(Below, Body))
    BY <1>3, <1>4, <2>1, SamePop, SamePush
  <2>3. QED
    BY <1>3, <2>2 DEF Same
<1> HIDE DEF n, e, es, t
<1>6. ASSUME ~NoneOwed(es, t) PROVE ~NoneOwed(events, stack)
  <2>1. PICK i \in DOMAIN es : Owes(es, t, i)
    BY <1>6 DEF NoneOwed
  <2>2. i + 1 \in DOMAIN events /\ i + 1 # 1 /\ es[i] = events[i + 1]
    BY <1>1, <1>2, <2>1 DEF Owes
  <2>3. Owes(events, stack, i + 1)
    BY <2>1, <2>2 DEF Owes
  <2>4. QED
    BY <2>2, <2>3 DEF NoneOwed
<1>7. ASSUME ~NoneOwed(events, stack) PROVE ~NoneOwed(es, t)
  <2>1. PICK i \in DOMAIN events : Owes(events, stack, i)
    BY <1>7 DEF NoneOwed
  <2>2. i # 1
    BY <1>1, <2>1 DEF Owes
  <2>3. i - 1 \in DOMAIN es /\ es[i - 1] = events[i]
    BY <1>1, <2>1, <2>2
  <2>4. es # <<>>
    BY <2>3
  <2>5. Owes(es, t, i - 1)
    BY <1>1, <2>1, <2>3, <2>4 DEF Owes
  <2>6. QED
    BY <2>3, <2>5 DEF NoneOwed
<1>8. Announced(state, es, t, ops, posted, note)
  BY <1>3, <1>5, <1>6, <1>7 DEF Announced, NoAttempt, Same
<1>9. AnnouncedNow'
  BY <1>3, <1>8 DEF AnnouncedNow, es, t
<1>10. QED
  BY <1>3, <1>9, LifeLoses

-----------------------------------------------------------------------------
(* The rest of handlers, and the handlers of the strand.                    *)

LEMMA AnnouncedHandleDisconnect ==
  ASSUME IInv, AnnouncedNow, HandleDisconnect
  PROVE  AnnouncedNow' /\ LifeMoves
<1> DEFINE S == ops'
           q == posted'
<1>1. /\ ~Idle /\ Top.k # "event" /\ StrandTypes /\ posted \in Seq(WorkType)
      /\ Announced(state, events, stack, ops, posted, note)
  BY IInvParts DEF HandleDisconnect, StrandTypes, AnnouncedNow
<1>2. Outstanding(posted, SocketOps, {}) /\ stack' = Below /\ UNCHANGED <<state, events, note>>
  BY DEF HandleDisconnect, timers
<1>3. WorkKept(ops, posted, S, q)
  BY <1>1, <1>2, OutstandingWaits, WorkOutstanding
<1> HIDE DEF S, q
<1>4. Announced(state, events, Below, ops, posted, note)
  BY <1>1, AnnouncedPop
<1>5. Announced(state, events, Below, S, q, note)
  BY <1>3, <1>4, AnnouncedWork
<1>6. AnnouncedNow'
  BY <1>2, <1>5 DEF AnnouncedNow, S, q
<1>7. QED
  BY <1>2, <1>6, LifeLoses

\* _do_disconnect in a handler that returns to stk and leaves S and q.
LEMMA AnnouncedLoss ==
  ASSUME IInv, WokenNow, NEW stk \in Stacks, NEW chain \in {"stop", "wake"}, DoDisconnect(chain, stk),
         note' = note, Announced(state, events, stk, ops', posted', note)
  PROVE  AnnouncedNow' /\ LifeMoves
<1> DEFINE S == ops'
           q == posted'
<1>1. events \in Seq(QueueType) /\ Closing(state, events) /\ Announced(state, events, stk, S, q, note)
  BY IInvParts DEF StrandTypes, WokenNow, Woken
<1> HIDE DEF S, q
<1>2. /\ Announced(state', events', stack', S, q, note)
      /\ state' = state \/ (state \in {"starting", "started"} /\ state' = "stopping")
  BY <1>1, AnnouncedDisconnect
<1>3. AnnouncedNow'
  BY <1>2 DEF AnnouncedNow, S, q
<1>4. QED
  BY <1>2, <1>3, LifeLoses

\* _tcp_post_recv.
LEMMA AnnouncedPostRecv ==
  ASSUME IInv, NEW P \in Seq(WorkType), PostRecv(P), NEW st, NEW es, NEW stk, NEW nt,
         Announced(st, es, stk, ops, P, nt)
  PROVE  Announced(st, es, stk, ops', posted', nt)
<1> DEFINE N == IF IsStarted THEN {Op("recv", 0, "-")} ELSE {}
<1>1. \A o \in N : o.k = "recv"
  BY DEF Op
<1>2. Outstanding(P, {}, N)
  BY DEF PostRecv
<1> HIDE DEF N
<1>3. ops' = ops \cup N /\ posted' = P
  BY <1>2, AbortedNone, ConcatEmptySeq DEF Outstanding
<1>4. NoneIn(ops, "resolve") => NoneIn(ops', "resolve")
  BY <1>1, <1>3 DEF NoneIn
<1>5. NoneIn(ops, "connect") => NoneIn(ops', "connect")
  BY <1>1, <1>3 DEF NoneIn
<1>6. NoneStarts(ops, P) => NoneStarts(ops', posted')
  BY <1>3, <1>4, <1>5 DEF NoneStarts, NoneOf
<1> DEFINE S == ops'
           q == posted'
<1>7. NoneStarts(ops, P) => NoneStarts(S, q)
  BY <1>6
<1> HIDE DEF S, q
<1>8. Announced(st, es, stk, S, q, nt)
  BY <1>7, AnnouncedKept
<1>9. QED
  BY <1>8 DEF S, q

LEMMA AnnouncedAfterCallbacks ==
  ASSUME IInv, WokenNow, AnnouncedNow, DoneConnect2 \/ HandleRecv2 \/ HandleSend2 \/ Stop2 \/ CallbackReturns
  PROVE  AnnouncedNow' /\ LifeMoves
<1>1. /\ ~Idle /\ Top.k # "event" /\ Below \in Stacks /\ posted \in Seq(WorkType) /\ note' = note
  BY TopFrame, FrameTypes, IInvParts
     DEF DoneConnect2, HandleRecv2, HandleSend2, Stop2, CallbackReturns, StrandTypes
<1>2. Announced(state, events, Below, ops, posted, note)
  BY <1>1, AnnouncedPop DEF AnnouncedNow
<1>3. \/ PostRecv(posted) /\ stack' = Below /\ UNCHANGED <<state, events>>
      \/ DoDisconnect("wake", Below) /\ UNCHANGED <<ops, posted>>
      \/ stack' = Below /\ UNCHANGED <<state, events, ops, posted>>
  BY DEF DoneConnect2, HandleRecv2, HandleSend2, Stop2, CallbackReturns
<1>4. CASE PostRecv(posted) /\ stack' = Below /\ UNCHANGED <<state, events>>
  <2>1. Announced(state, events, Below, ops', posted', note)
    BY <1>1, <1>2, <1>4, AnnouncedPostRecv
  <2>2. AnnouncedNow'
    BY <1>1, <1>4, <2>1 DEF AnnouncedNow
  <2>3. QED
    BY <1>1, <1>4, <2>2, LifeLoses
<1>5. CASE DoDisconnect("wake", Below) /\ UNCHANGED <<ops, posted>>
  <2>1. Announced(state, events, Below, ops', posted', note)
    BY <1>2, <1>5
  <2>2. QED
    BY <1>1, <1>5, <2>1, AnnouncedLoss
<1>6. CASE stack' = Below /\ UNCHANGED <<state, events, ops, posted>>
  <2>1. AnnouncedNow'
    BY <1>1, <1>2, <1>6 DEF AnnouncedNow
  <2>2. QED
    BY <1>1, <1>6, <2>1, LifeLoses
<1>7. QED
  BY <1>3, <1>4, <1>5, <1>6

LEMMA AnnouncedReconnectTimer2 ==
  ASSUME IInv, AnnouncedNow, ReconnectTimer2
  PROVE  AnnouncedNow' /\ LifeMoves
<1> DEFINE o == Op("rtimer", 0, "forever")
           S == ops'
           q == posted'
<1>1. /\ ~Idle /\ Top.k # "event" /\ StrandTypes
      /\ posted \in Seq(WorkType) /\ Announced(state, events, stack, ops, posted, note)
      /\ Outstanding(posted, ReconnectWait, {o}) /\ stack' = Below
      /\ UNCHANGED <<state, events, note>>
  BY IInvParts DEF ReconnectTimer2, StrandTypes, timers, AnnouncedNow
<1>2. o.k = "rtimer" /\ ~o.old
  BY DEF Op
<1> HIDE DEF o
<1>3. /\ \A k \in {"resolve", "connect", "recv", "ctimer"} : NoneIn({o}, k)
      /\ \A p \in {o} : ~p.old
  BY <1>2 DEF NoneIn
<1>4. WorkKept(ops, posted, S, q)
  BY <1>1, <1>3, OutstandingWaits, WorkOutstanding
<1> HIDE DEF S, q
<1>5. Announced(state, events, Below, ops, posted, note)
  BY <1>1, AnnouncedPop
<1>6. Announced(state, events, Below, S, q, note)
  BY <1>4, <1>5, AnnouncedWork
<1>7. AnnouncedNow'
  BY <1>1, <1>6 DEF AnnouncedNow, S, q
<1>8. QED
  BY <1>1, <1>7, LifeLoses

LEMMA AnnouncedRunPush ==
  ASSUME IInv, BegunNow, AnnouncedNow, RunPush
  PROVE  AnnouncedNow' /\ LifeMoves
<1> DEFINE ev == Done.ev
<1>1. /\ Done \in WorkType /\ Done.k = "push" /\ ~PushesCall(Done) /\ events \in Seq(QueueType)
      /\ Announced(state, events, <<>>, ops, Rest, note)
  BY BegunNext, AnnouncedNext DEF RunPush, StrandTypes
<1>2. ev \in QueueType /\ ev.k # "disconnect"
  BY <1>1 DEF PushesCall, WorkType, HandlerType, QueueType
<1>3. Emplace(ev, <<>>) /\ posted' = Rest /\ UNCHANGED <<state, ops, note>>
  BY DEF RunPush, timers
<1> HIDE DEF ev
<1>4. Announced(state, events', stack', ops, Rest, note)
  BY <1>1, <1>2, <1>3, EmptyStack, AnnouncedEmplace
<1>5. AnnouncedNow'
  BY <1>3, <1>4 DEF AnnouncedNow
<1>6. QED
  BY <1>3, <1>5, LifeLoses

\* tcp_client::stop.
LEMMA AnnouncedStops ==
  ASSUME IInv, WokenNow, NEW stk \in Stacks, NEW P \in Seq(WorkType), StopOnStrand(P, stk),
         Announced(state, events, stk, ops, P, note)
  PROVE  AnnouncedNow' /\ LifeMoves
<1> DEFINE S == ops'
           q == posted'
<1>1. Outstanding(P, ReconnectWait, {}) /\ DoDisconnect("stop", stk) /\ note' = note /\ StrandTypes
  BY IInvParts DEF StopOnStrand
<1>2. WorkKept(ops, P, S, q)
  BY <1>1, OutstandingWaits, WorkOutstanding
<1> HIDE DEF S, q
<1>3. Announced(state, events, stk, S, q, note)
  BY <1>2, AnnouncedWork
<1>4. Announced(state, events, stk, ops', posted', note)
  BY <1>3 DEF S, q
<1>5. QED
  BY <1>1, <1>4, AnnouncedLoss

LEMMA AnnouncedRunStop ==
  ASSUME IInv, BegunNow, WokenNow, AnnouncedNow, RunStop
  PROVE  AnnouncedNow' /\ LifeMoves
<1>1. Rest \in Seq(WorkType) /\ Announced(state, events, <<>>, ops, Rest, note) /\ StopOnStrand(Rest, <<>>)
  BY BegunNext, AnnouncedNext DEF RunStop
<1>2. QED
  BY <1>1, EmptyStack, AnnouncedStops

LEMMA AnnouncedHandleRecv ==
  ASSUME IInv, BegunNow, WokenNow, AnnouncedNow, HandleRecv
  PROVE  AnnouncedNow' /\ LifeMoves
<1>1. /\ Announced(state, events, <<>>, ops, Rest, note)
      /\ posted' = Rest /\ UNCHANGED <<ops, note>>
  BY AnnouncedNext DEF HandleRecv
<1>2. CASE stack' = <<Frame("recv2", "-"), User>> /\ UNCHANGED <<state, events>>
  <2> DEFINE f == Frame("recv2", "-")
             s1 == Append(<<>>, f)
             s2 == Append(s1, User)
  <2>1. f \in FrameType /\ f.k = "recv2" /\ stack' = s2 /\ User \in FrameType /\ User.k = "user"
    BY <1>2, FrameTypes
  <2> HIDE DEF f
  <2>2. s1 \in Stacks
    BY <2>1, EmptyStack, StackPush
  <2>3. Announced(state, events, s1, ops, Rest, note)
    BY <1>1, <2>1, EmptyStack, AnnouncedPush
  <2> HIDE DEF s1
  <2>4. Announced(state, events, s2, ops, Rest, note)
    BY <2>1, <2>2, <2>3, AnnouncedPush
  <2> HIDE DEF s2
  <2>5. AnnouncedNow'
    BY <1>1, <1>2, <2>1, <2>4 DEF AnnouncedNow
  <2>6. QED
    BY <1>1, <1>2, <2>5, LifeLoses
<1>3. CASE DoDisconnect("wake", <<>>)
  <2>1. Announced(state, events, <<>>, ops', posted', note)
    BY <1>1
  <2>2. QED
    BY <1>1, <1>3, <2>1, EmptyStack, AnnouncedLoss
<1>4. QED
  BY <1>2, <1>3 DEF HandleRecv

LEMMA AnnouncedHandleSend ==
  ASSUME IInv, BegunNow, AnnouncedNow, HandleSend
  PROVE  AnnouncedNow' /\ LifeMoves
<1> DEFINE f == Frame("sent2", Done.ec)
           s1 == Append(<<>>, Release)
           s2 == Append(s1, f)
           s3 == Append(s2, User)
<1>1. Announced(state, events, <<>>, ops, Rest, note) /\ Done \in WorkType
  BY BegunNext, AnnouncedNext DEF HandleSend
<1>2. posted' = Rest /\ UNCHANGED <<state, ops, events, note>> /\ stack' = s3
  BY DEF HandleSend, timers
<1>3. /\ f \in FrameType /\ f.k = "sent2" /\ Release \in FrameType /\ Release.k = "release"
      /\ User \in FrameType /\ User.k = "user"
  BY <1>1, FrameTypes DEF WorkType, HandlerType
<1> HIDE DEF f
<1>4. s1 \in Stacks /\ Announced(state, events, s1, ops, Rest, note)
  BY <1>1, <1>3, EmptyStack, StackPush, AnnouncedPush
<1> HIDE DEF s1
<1>5. s2 \in Stacks /\ Announced(state, events, s2, ops, Rest, note)
  BY <1>3, <1>4, StackPush, AnnouncedPush
<1> HIDE DEF s2
<1>6. Announced(state, events, s3, ops, Rest, note)
  BY <1>3, <1>5, AnnouncedPush
<1> HIDE DEF s3
<1>7. AnnouncedNow'
  BY <1>2, <1>6 DEF AnnouncedNow
<1>8. QED
  BY <1>2, <1>7, LifeLoses

LEMMA AnnouncedHandleRefused ==
  ASSUME IInv, BegunNow, AnnouncedNow, HandleRefused
  PROVE  AnnouncedNow' /\ LifeMoves
<1> DEFINE t == Append(<<>>, User)
<1>1. Announced(state, events, <<>>, ops, Rest, note)
  BY AnnouncedNext DEF HandleRefused
<1>2. stack' = t /\ posted' = Rest /\ UNCHANGED <<state, ops, events, note>>
  BY DEF HandleRefused, timers
<1>3. Announced(state, events, t, ops, Rest, note)
  BY <1>1, EmptyStack, FrameTypes, AnnouncedPush
<1> HIDE DEF t
<1>4. AnnouncedNow'
  BY <1>2, <1>3 DEF AnnouncedNow
<1>5. QED
  BY <1>2, <1>4, LifeLoses

LEMMA AnnouncedHandleConnectTimer ==
  ASSUME IInv, BegunNow, AnnouncedNow, HandleConnectTimer
  PROVE  AnnouncedNow' /\ LifeMoves
<1> DEFINE S == ops'
           q == posted'
<1>1. /\ StrandTypes /\ Rest \in Seq(WorkType) /\ stack = <<>>
      /\ Announced(state, events, <<>>, ops, Rest, note) /\ UNCHANGED <<state, stack, events, note>>
  BY BegunNext, AnnouncedNext DEF HandleConnectTimer
<1>2. CASE Outstanding(Rest, SocketOps, {})
  <2>1. WorkKept(ops, Rest, S, q)
    BY <1>1, <1>2, OutstandingWaits, WorkOutstanding
  <2> HIDE DEF S, q
  <2>2. Announced(state, events, <<>>, S, q, note)
    BY <1>1, <2>1, AnnouncedWork
  <2>3. AnnouncedNow'
    BY <1>1, <2>2 DEF AnnouncedNow, S, q
  <2>4. QED
    BY <1>1, <2>3, LifeLoses
<1>3. CASE posted' = Rest /\ UNCHANGED ops
  <2>1. AnnouncedNow'
    BY <1>1, <1>3 DEF AnnouncedNow
  <2>2. QED
    BY <1>1, <2>1, LifeLoses
<1>4. QED
  BY <1>2, <1>3 DEF HandleConnectTimer

LEMMA AnnouncedHandleReconnectTimer ==
  ASSUME IInv, BegunNow, AnnouncedNow, HandleReconnectTimer
  PROVE  AnnouncedNow' /\ LifeMoves
<1>1. /\ Rest \in Seq(WorkType) /\ stack = <<>> /\ StrandTypes /\ events \in Seq(QueueType)
      /\ Announced(state, events, <<>>, ops, Rest, note)
      /\ UNCHANGED <<state, note>>
  BY BegunNext, AnnouncedNext DEF HandleReconnectTimer, StrandTypes
<1>2. CASE posted' = Rest /\ UNCHANGED <<ops, stack, events>>
  <2>1. AnnouncedNow'
    BY <1>1, <1>2 DEF AnnouncedNow
  <2>2. QED
    BY <1>1, <2>1, LifeLoses
<1>3. CASE Outstanding(Rest, ReconnectWait, {Op("rtimer", 0, "delay")}) /\ UNCHANGED <<stack, events>>
  <2> DEFINE o == Op("rtimer", 0, "delay")
             S == ops'
             q == posted'
  <2>1. o.k = "rtimer" /\ ~o.old /\ Outstanding(Rest, ReconnectWait, {o})
    BY <1>3 DEF Op
  <2> HIDE DEF o
  <2>2. /\ \A k \in {"resolve", "connect", "recv", "ctimer"} : NoneIn({o}, k)
        /\ \A p \in {o} : ~p.old
    BY <2>1 DEF NoneIn
  <2>3. WorkKept(ops, Rest, S, q)
    BY <1>1, <2>1, <2>2, OutstandingWaits, WorkOutstanding
  <2> HIDE DEF S, q
  <2>4. Announced(state, events, <<>>, S, q, note)
    BY <1>1, <2>3, AnnouncedWork
  <2>5. AnnouncedNow'
    BY <1>1, <1>3, <2>4 DEF AnnouncedNow, S, q
  <2>6. QED
    BY <1>1, <2>5, LifeLoses
<1>4. CASE posted' = Rest /\ Emplace(ReconnectEvent, <<Frame("rtimer2", "-")>>) /\ UNCHANGED ops
  <2> DEFINE f == Frame("rtimer2", "-")
             s1 == Append(<<>>, f)
  <2>1. f \in FrameType /\ f.k = "rtimer2" /\ s1 = <<f>>
    BY FrameTypes
  <2>2. Emplace(ReconnectEvent, s1)
    BY <1>4, <2>1
  <2> HIDE DEF f
  <2>3. s1 \in Stacks /\ Announced(state, events, s1, ops, Rest, note)
    BY <1>1, <2>1, EmptyStack, StackPush, AnnouncedPush
  <2> HIDE DEF s1
  <2>4. ReconnectEvent \in QueueType /\ ReconnectEvent.k # "disconnect"
    BY EventTypes DEF ReconnectEvent
  <2>5. Announced(state, events', stack', ops, Rest, note)
    BY <1>1, <2>2, <2>3, <2>4, AnnouncedEmplace
  <2>6. AnnouncedNow'
    BY <1>1, <1>4, <2>5 DEF AnnouncedNow
  <2>7. QED
    BY <1>1, <2>6, LifeLoses
<1>5. QED
  BY <1>2, <1>3, <1>4 DEF HandleReconnectTimer

-----------------------------------------------------------------------------
(* The steps of an attempt.                                                 *)

\* _done_connect.
LEMMA AnnouncedDone ==
  ASSUME IInv, NEW ec \in Codes, NEW P \in Seq(WorkType), NEW stk \in Stacks, DoneConnect(ec, P, stk),
         Free(state, rCanceled, events, stk, ops, P), note # "connected",
         Announced(state, events, stk, ops, P, note)
  PROVE  AnnouncedNow' /\ LifeMoves
<1> DEFINE ec1 == IF cFlag THEN "timed_out" ELSE ec
           ec2 == IF ec1 = "ok" /\ state # "starting" THEN "aborted" ELSE ec1
           f == Frame("done2", ec2)
           S == ops'
           q == posted'
           t == stack'
<1>1. f \in FrameType /\ f.k = "done2" /\ f.k \notin {"event", "rtimer2", "start2"}
  BY FrameTypes DEF Codes
<1>2. StrandTypes /\ state \in States
  BY IInvParts DEF ValueTypes
<1>3. /\ Outstanding(P, ConnectWait, {}) /\ UNCHANGED events
      /\ state' = IF ec2 = "ok" THEN "started" ELSE state
      /\ ec2 = "ok" => state = "starting"
      /\ IF state = "stopped"
           THEN t = stk /\ note' = note
           ELSE t = stk \o <<f, User>> /\ note' = IF ec2 = "ok" THEN "connected" ELSE "failed"
  BY DEF DoneConnect
<1> HIDE DEF f, ec2, ec1
<1>4. WorkKept(ops, P, S, q)
  <2>1. StrandTypes /\ Outstanding(P, ConnectWait, {}) /\ P \in Seq(WorkType)
    BY <1>2, <1>3
  <2>2. QED
    BY <2>1, OutstandingWaits, WorkOutstanding
<1> HIDE DEF S, q, t
<1>5. state # "started" /\ NoneOwed(events, stk)
  BY DEF Announced
<1>6. CASE state = "stopped"
  <2>1. Announced(state', events', t, S, q, note')
    BY <1>3, <1>5, <1>6 DEF Announced
  <2>2. state' = state /\ note' = note
    BY <1>3, <1>6
  <2>3. QED
    BY <2>1, <2>2, LifeLoses DEF AnnouncedNow, S, q, t
<1>7. CASE state # "stopped"
  <2>1. t = stk \o <<f, User>> /\ note' = IF ec2 = "ok" THEN "connected" ELSE "failed"
    BY <1>3, <1>7
  <2>2. NoFrame(stk, {"event"}) <=> NoFrame(t, {"event"})
    BY <1>1, <2>1, AlikePushTwo DEF Alike
  <2>3. NoneOwed(events, t)
    BY <1>5, <2>2 DEF NoneOwed, Owes
  <2>4. NoAttempt(t, S, q)
    <3>1. NoFrame(t, {"start2"})
      BY <1>1, <2>1, ThreadPush DEF Free
    <3>2. NoneOf(S, q, "resolve") /\ NoneOf(S, q, "connect")
      BY <1>4 DEF Free, NoWork, WorkKept, Keeps
    <3>3. QED
      BY <3>1, <3>2 DEF NoAttempt
  <2>5. Announced(state', events', t, S, q, note')
    BY <1>3, <1>5, <2>1, <2>3, <2>4 DEF Announced
  <2>6. AnnouncedNow'
    BY <2>5 DEF AnnouncedNow, S, q, t
  <2>7. CASE ec2 = "ok"
    <3>1. Life!Connect
      BY <1>3, <2>1, <2>7 DEF Life!Connect, Life!Announced
    <3>2. QED
      BY <2>6, <3>1 DEF LifeMoves, Life!Next
  <2>8. CASE ec2 # "ok"
    <3>1. Life!Fail
      BY <1>2, <1>3, <1>5, <1>7, <2>1, <2>8 DEF Life!Fail, Life!Announced, States
    <3>2. QED
      BY <2>6, <3>1 DEF LifeMoves, Life!Next
  <2>9. QED
    BY <2>7, <2>8
<1>8. QED
  BY <1>6, <1>7

\* A handler that leaves state, events and what the user was told, while no
\* connection is announced.
LEMMA AnnouncedSilent ==
  ASSUME note # "connected", UNCHANGED <<state, events, note>>,
         NEW stk, NEW S, NEW q, Announced(state, events, stk, S, q, note),
         NoneOwed(events, stk) => NoneOwed(events', stack')
  PROVE  AnnouncedNow' /\ LifeMoves
<1>1. NoneOwed(events', stack') /\ state' # "started" /\ note' # "connected"
  BY DEF Announced
<1>2. AnnouncedNow'
  BY <1>1 DEF AnnouncedNow, Announced
<1>3. QED
  BY <1>2, LifeLoses

\* _post_connect.
LEMMA AnnouncedPostConnect ==
  ASSUME IInv, Idle, NEW n \in 0 .. Endpoints, NEW P \in Seq(WorkType), PostConnect(n, P),
         Free(state, rCanceled, events, <<>>, ops, P), note # "connected",
         Announced(state, events, <<>>, ops, P, note)
  PROVE  AnnouncedNow' /\ LifeMoves
<1>1. CASE n = 0
  <2>1. DoneConnect("err", P, <<>>) /\ "err" \in Codes
    BY <1>1 DEF PostConnect, Codes
  <2>2. QED
    BY <2>1, EmptyStack, AnnouncedDone
<1>2. CASE n # 0
  <2>1. UNCHANGED <<state, events, note>> /\ stack' = <<>>
    BY <1>2 DEF PostConnect, Idle
  <2>2. QED
    BY <2>1, AnnouncedSilent
<1>3. QED
  BY <1>1, <1>2

LEMMA AnnouncedHandleResolve ==
  ASSUME IInv, BegunNow, LinkedNow, AnnouncedNow, HandleResolve
  PROVE  AnnouncedNow' /\ LifeMoves
<1>1. Runs("resolve") /\ "resolve" \in {"resolve", "connect", "recv"}
  BY DEF HandleResolve
<1>2. Idle /\ Rest \in Seq(WorkType) /\ Free(state, rCanceled, events, <<>>, ops, Rest)
  BY <1>1, BegunNext, FreeNext DEF Runs
<1>3. note # "connected" /\ Announced(state, events, <<>>, ops, Rest, note)
  BY <1>1, AnnouncedNext
<1>4. CASE \E n \in 1 .. Endpoints : PostConnect(n, Rest)
  <2>1. PICK n \in 1 .. Endpoints : PostConnect(n, Rest)
    BY <1>4
  <2>2. n \in 0 .. Endpoints
    BY BoundsAssumption
  <2>3. QED
    BY <1>2, <1>3, <2>1, <2>2, AnnouncedPostConnect
<1>5. CASE DoneConnect("err", Rest, <<>>)
  <2>1. "err" \in Codes
    BY DEF Codes
  <2>2. QED
    BY <1>2, <1>3, <1>5, <2>1, EmptyStack, AnnouncedDone
<1>6. QED
  BY <1>4, <1>5 DEF HandleResolve

LEMMA AnnouncedHandleConnect ==
  ASSUME IInv, BegunNow, LinkedNow, AnnouncedNow, HandleConnect
  PROVE  AnnouncedNow' /\ LifeMoves
<1>1. Runs("connect") /\ "connect" \in {"resolve", "connect", "recv"}
  BY DEF HandleConnect
<1>2. /\ Idle /\ Rest \in Seq(WorkType) /\ Free(state, rCanceled, events, <<>>, ops, Rest)
      /\ Done \in WorkType
  BY <1>1, BegunNext, FreeNext DEF Runs
<1>3. note # "connected" /\ Announced(state, events, <<>>, ops, Rest, note)
  BY <1>1, AnnouncedNext
<1>4. Done.op.n \in 0 .. Endpoints /\ Done.ec \in Codes
  BY <1>2 DEF WorkType, HandlerType, OpType
<1>5. PostConnect(Done.op.n, Rest) \/ DoneConnect(Done.ec, Rest, <<>>)
  BY DEF HandleConnect
<1>6. CASE PostConnect(Done.op.n, Rest)
  BY <1>2, <1>3, <1>4, <1>6, AnnouncedPostConnect
<1>7. CASE DoneConnect(Done.ec, Rest, <<>>)
  BY <1>2, <1>3, <1>4, <1>7, EmptyStack, AnnouncedDone
<1>8. QED
  BY <1>5, <1>6, <1>7

LEMMA AnnouncedStartConnect2 ==
  ASSUME IInv, LinkedNow, AnnouncedNow, StartConnect2
  PROVE  AnnouncedNow' /\ LifeMoves
<1>1. /\ ~Idle /\ Top.k = "start2" /\ Top.k \in ThreadFrames /\ Top.k # "event"
      /\ StrandTypes /\ posted \in Seq(WorkType)
  BY IInvParts DEF StartConnect2, ThreadFrames, StrandTypes
<1>2. Free(state, rCanceled, events, Below, ops, posted)
  BY <1>1, FreeTop
<1>3. Announced(state, events, Below, ops, posted, note)
  BY <1>1, AnnouncedPop DEF AnnouncedNow
<1>4. /\ Below \in Stacks /\ Below # <<>> /\ Last(Below).k = "release"
      /\ Below \in Seq(FrameType) /\ Top \in FrameType /\ stack = Append(Below, Top)
  BY <1>1, TopFrame DEF Stacks
<1>5. ~NoFrame(stack, {"start2"})
  BY <1>1, <1>4, FramePush
<1>6. note # "connected"
  BY <1>5 DEF AnnouncedNow, Announced, NoAttempt
<1>7. CASE DoneConnect("err", posted, Below)
  <2>1. "err" \in Codes
    BY DEF Codes
  <2>2. QED
    BY <1>1, <1>2, <1>3, <1>4, <1>6, <1>7, <2>1, AnnouncedDone
<1>8. CASE stack' = Append(Front(Below), Release) /\ UNCHANGED <<state, events, note>>
  <2> DEFINE s1 == Front(Below)
             f == Last(Below)
             t == stack'
  <2>1. s1 \in Seq(FrameType) /\ f \in FrameType /\ f.k = "release" /\ Below = Append(s1, f)
    BY <1>4, StackPop DEF Stacks
  <2>2. t = Append(s1, Release) /\ Release \in FrameType /\ Release.k = "release"
    BY <1>8, FrameTypes
  <2> HIDE DEF s1, f, t
  <2>3. NoFrame(Below, {"event"}) <=> NoFrame(t, {"event"})
    BY <2>1, <2>2, FramePush
  <2>4. NoneOwed(events, Below) => NoneOwed(events', t)
    BY <1>8, <2>3 DEF NoneOwed, Owes
  <2>5. NoneOwed(events, Below) => NoneOwed(events', stack')
    BY <2>4 DEF t
  <2>6. QED
    BY <1>3, <1>6, <1>8, <2>5, AnnouncedSilent
<1>9. QED
  BY <1>7, <1>8 DEF StartConnect2

-----------------------------------------------------------------------------
(* The calls of the application, and the network.                           *)

LEMMA AnnouncedCallbackStops ==
  ASSUME IInv, WokenNow, AnnouncedNow, CallbackStops
  PROVE  AnnouncedNow' /\ LifeMoves
<1> DEFINE f == Frame("stop2", "-")
           st == Append(stack, f)
<1>1. stack \in Stacks /\ posted \in Seq(WorkType) /\ StopOnStrand(posted, st)
  BY IInvParts DEF StrandTypes, CallbackStops
<1>2. f \in FrameType /\ f.k = "stop2"
  BY FrameTypes
<1>3. Announced(state, events, stack, ops, posted, note)
  BY DEF AnnouncedNow
<1> HIDE DEF f
<1>4. Announced(state, events, st, ops, posted, note) /\ st \in Stacks
  BY <1>1, <1>2, <1>3, AnnouncedPush, StackPush
<1> HIDE DEF st
<1>5. QED
  BY <1>1, <1>4, AnnouncedStops

LEMMA AnnouncedCallbackSends ==
  ASSUME IInv, AnnouncedNow, NEW d \in Data, CallbackSends(d)
  PROVE  AnnouncedNow' /\ LifeMoves
<1>1. /\ stack \in Stacks /\ events \in Seq(QueueType)
      /\ Announced(state, events, stack, ops, posted, note)
  BY IInvParts DEF StrandTypes, AnnouncedNow
<1>2. UNCHANGED <<state, ops, posted, note>>
  BY DEF CallbackSends
<1>3. CASE IsStarted
  <2> DEFINE ev == SendEvent(d)
  <2>1. ev \in QueueType /\ ev.k # "disconnect"
    BY EventTypes DEF SendEvent
  <2>2. Emplace(ev, stack)
    BY <1>3 DEF CallbackSends
  <2> HIDE DEF ev
  <2>3. Announced(state, events', stack', ops, posted, note)
    BY <1>1, <2>1, <2>2, AnnouncedEmplace
  <2>4. AnnouncedNow'
    BY <1>2, <2>3 DEF AnnouncedNow
  <2>5. QED
    BY <1>2, <2>4, LifeLoses
<1>4. CASE ~IsStarted
  <2>1. stack' = Append(stack, User) /\ UNCHANGED events
    BY <1>4 DEF CallbackSends
  <2>2. Announced(state, events, Append(stack, User), ops, posted, note)
    BY <1>1, FrameTypes, AnnouncedPush
  <2>3. AnnouncedNow'
    BY <1>2, <2>1, <2>2 DEF AnnouncedNow
  <2>4. QED
    BY <1>2, <2>3, LifeLoses
<1>5. QED
  BY <1>3, <1>4

LEMMA AnnouncedAppCalls ==
  ASSUME IInv, AnnouncedNow, (\E d \in Data : AppSends(d)) \/ AppStops
  PROVE  AnnouncedNow' /\ LifeMoves
<1>1. PICK h \in WorkType : /\ h.k \in {"push", "refused", "stop"} /\ posted' = Append(posted, h)
                            /\ h.k = "push" => h.ev.k = "send" /\ IsStarted
                            /\ ~h.op.old
                            /\ UNCHANGED <<state, sock, timers, events, stack, ops, note>>
  BY CallsPosted
<1>2. /\ posted \in Seq(WorkType) /\ h.k \notin {"resolve", "connect"}
      /\ Announced(state, events, stack, ops, posted, note)
  BY <1>1, IInvParts DEF StrandTypes, AnnouncedNow
<1> DEFINE q == Append(posted, h)
<1>3. /\ NoneAt(posted, "resolve") => NoneAt(q, "resolve")
      /\ NoneAt(posted, "connect") => NoneAt(q, "connect")
  BY <1>2, AppendAt
<1>4. posted' = q
  BY <1>1
<1> HIDE DEF q
<1>5. NoneStarts(ops, posted) => NoneStarts(ops, q)
  BY <1>3 DEF NoneStarts, NoneOf
<1>6. Announced(state, events, stack, ops, q, note)
  BY <1>2, <1>5, AnnouncedKept
<1>7. AnnouncedNow'
  BY <1>1, <1>4, <1>6 DEF AnnouncedNow
<1>8. QED
  BY <1>1, <1>7, LifeLoses

LEMMA AnnouncedEnds ==
  ASSUME IInv, AnnouncedNow, NEW o \in ops, o.k # "none", NEW ec \in Codes, Ends(o, ec)
  PROVE  AnnouncedNow' /\ LifeMoves
<1> DEFINE S == ops'
           q == posted'
<1>1. WorkKept(ops, posted, S, q)
  BY EndsWork
<1> HIDE DEF S, q
<1>2. UNCHANGED <<state, events, stack, note>>
  BY DEF Ends
<1>3. Announced(state, events, stack, S, q, note)
  BY <1>1, AnnouncedWork DEF AnnouncedNow
<1>4. AnnouncedNow'
  BY <1>2, <1>3 DEF AnnouncedNow, S, q
<1>5. QED
  BY <1>2, <1>4, LifeLoses

LEMMA AnnouncedStep ==
  ASSUME IInv, BegunNow, WokenNow, LinkedNow, AnnouncedNow, [Next]_vars, starts' = starts
  PROVE  AnnouncedNow' /\ LifeMoves
<1>1. ~ConnectBody
  BY NoSecondConnect
<1>2. CASE StrandWork
  BY <1>1, <1>2, AnnouncedReconnectBody, AnnouncedDisconnectBody, AnnouncedHandleDisconnect,
     AnnouncedWakeBody, AnnouncedStopBody, AnnouncedSendBody, AnnouncedReleaseGuard,
     AnnouncedStartConnect2, AnnouncedAfterCallbacks, AnnouncedReconnectTimer2, AnnouncedRunPush,
     AnnouncedRunStop, AnnouncedHandleResolve, AnnouncedHandleConnect, AnnouncedHandleRecv,
     AnnouncedHandleSend, AnnouncedHandleRefused, AnnouncedHandleConnectTimer,
     AnnouncedHandleReconnectTimer DEF StrandWork
<1>3. CASE Calls
  <2>1. ~CallbackStarts /\ \A sync : ~AppStarts(sync)
    BY NoStart
  <2>2. QED
    BY <1>3, <2>1, AnnouncedCallbackStops, AnnouncedCallbackSends, AnnouncedAppCalls DEF Calls
<1>4. CASE AppReturns \/ UNCHANGED vars
  <2>1. UNCHANGED <<state, ops, posted, stack, events, note>>
    BY <1>4 DEF AppReturns, AppStarted, AppStopsPool, AppStopped, timers, strand, vars
  <2>2. AnnouncedNow'
    BY <2>1 DEF AnnouncedNow
  <2>3. QED
    BY <2>1, <2>2, LifeLoses
<1>5. CASE World
  <2>1. PICK o \in ops, ec \in Codes : o.k # "none" /\ Ends(o, ec)
    BY <1>5, WorldEnds
  <2>2. QED
    BY <2>1, AnnouncedEnds
<1>6. QED
  BY <1>2, <1>3, <1>4, <1>5 DEF Next, StrandStep

LEMMA AnnouncedKeeps ==
  IInv /\ OneLife /\ IInv' /\ WokenNow /\ LinkedNow /\ AnnouncedNow /\ [Next]_vars /\ [StartsAtRest]_vars
    => AnnouncedNow' /\ LifeMoves
<1>1. SUFFICES ASSUME IInv, OneLife, IInv', WokenNow, LinkedNow, AnnouncedNow, [Next]_vars, [StartsAtRest]_vars
               PROVE  AnnouncedNow' /\ LifeMoves
  OBVIOUS
<1>2. CASE FreshNow
  <2>1. CASE ConnectBody
    BY <1>1, <1>2, <2>1, AnnouncedConnectBody
  <2>2. CASE ~ConnectBody
    <3>1. FreshNow'
      BY <1>1, <1>2, <2>2, OneLifeCases, FreshKeeps
    <3>2. note # "connected" /\ note' = note
      BY <1>1, <1>2, <2>2, FreshSilent, FreshTells
    <3>3. IInv' /\ FreshNow' /\ (note # "connected")' => AnnouncedNow' /\ (state = "stopped")'
      BY FreshAnnounced, FreshLeaves, PTL
    <3>4. AnnouncedNow' /\ state' = "stopped"
      BY <1>1, <3>1, <3>2, <3>3
    <3>5. state = "stopped"
      BY <1>1, <1>2, FreshLeaves
    <3>6. QED
      BY <3>2, <3>4, <3>5, LifeLoses
  <2>3. QED
    BY <2>1, <2>2
<1>3. CASE BegunNow /\ starts' = starts
  BY <1>1, <1>3, AnnouncedStep
<1>4. QED
  BY <1>1, <1>2, <1>3, OneLifeCases

LEMMA AnnouncedInit == Init => AnnouncedNow
<1>1. SUFFICES ASSUME Init PROVE AnnouncedNow
  OBVIOUS
<1>2. IInv /\ OneLife /\ starts = 0 /\ note # "connected"
  BY <1>1, IInvInit, OneLifeInit DEF Init
<1>3. FreshNow
  BY <1>2 DEF OneLife
<1>4. QED
  BY <1>2, <1>3, FreshAnnounced

\* The last thing the user was told is that the client is connected exactly
\* while the client is started or an event is queued that will announce the
\* loss, and then no attempt is under way.
THEOREM AnnouncedInvariant == Spec /\ [][StartsAtRest]_vars => []AnnouncedNow
<1>1. Init => AnnouncedNow
  BY AnnouncedInit
<1>2. IInv /\ OneLife /\ IInv' /\ WokenNow /\ LinkedNow /\ AnnouncedNow /\ [Next]_vars /\ [StartsAtRest]_vars
        => AnnouncedNow'
  BY AnnouncedKeeps
<1>3. QED
  BY <1>1, <1>2, InductiveInvariant, OneLifeInvariant, WokenInvariant, LinkedInvariant, PTL DEF Spec

\* A client that is started only at rest keeps what it promises to its user
\* (ClientLife): every connection announced by _fire_connect
\* (connect_cp.hpp:396) is announced as lost by _fire_disconnect
\* (disconnect_cp.hpp:144) before the next attempt begins and before the client
\* is stopped, whatever its callbacks, its peer and the network do.
THEOREM LifeHolds == Spec /\ [][StartsAtRest]_vars => LifeSpec
<1>1. Init => Life!Init
  BY DEF Init, Life!Init
<1>2. IInv /\ OneLife /\ IInv' /\ WokenNow /\ LinkedNow /\ AnnouncedNow /\ [Next]_vars /\ [StartsAtRest]_vars
        => [Life!Next]_(Life!lifeVars)
  BY AnnouncedKeeps DEF LifeMoves, Life!lifeVars
<1>3. QED
  BY <1>1, <1>2, InductiveInvariant, OneLifeInvariant, WokenInvariant, LinkedInvariant, AnnouncedInvariant,
     PTL DEF Spec, LifeSpec, Life!Spec
=============================================================================
