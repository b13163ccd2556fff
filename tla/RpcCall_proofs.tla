---------------------------- MODULE RpcCall_proofs ----------------------------
(***************************************************************************)
(* Proofs about RpcCall, for every number of calls and of connections: its *)
(* type invariant; that no call is answered twice; that every entry of     *)
(* reqs_ has somebody who takes it out; and that the calls implement       *)
(* CallLife.                                                               *)
(***************************************************************************)
EXTENDS RpcCall, SequenceTheorems, TLAPS

-----------------------------------------------------------------------------
(* Type correctness.                                                       *)

Tasks == [t : {"send", "erase", "fail"}, c : Ids]
Frames == [f : {"callback", "drain", "sent"}, c : Ids \cup {0}]
Writes == [e : {"send", "disconnect"}, c : Ids \cup {0}]

LEMMA Records ==
  /\ \A c \in Ids, t \in {"send", "erase", "fail"} : Task(t, c) \in Tasks
  /\ \A c \in Ids : Callback(c) \in Frames /\ Send(c) \in Writes
  /\ Drain \in Frames /\ Sent \in Frames /\ Disconnect \in Writes
BY DEF Task, Tasks, Callback, Frames, Send, Writes, Drain, Sent, Disconnect

\* Posting one or two handlers.
LEMMA PostsType ==
  ASSUME TypeOK, NEW tasks \in Seq(Tasks), Posts(tasks)
  PROVE  posted' \in Seq(Tasks)
BY ConcatProperties DEF TypeOK, Posts, Tasks

\* A call that is answered, over well-typed frames.
LEMMA CompleteType ==
  ASSUME TypeOK, NEW c \in Ids, NEW o \in Outcomes, NEW below \in Seq(Frames),
         Complete(c, o, below)
  PROVE  answers' \in [Ids -> Seq(Outcomes)] /\ stack' \in Seq(Frames)
<1>1. Append(answers[c], o) \in Seq(Outcomes)
  BY AppendProperties DEF TypeOK
<1>2. answers' \in [Ids -> Seq(Outcomes)]
  BY <1>1 DEF Complete, TypeOK
<1>3. <<Callback(c)>> \in Seq(Frames) /\ <<>> \in Seq(Frames)
  BY Records
<1>4. stack' \in Seq(Frames)
  BY <1>3, ConcatProperties DEF Complete
<1>5. QED
  BY <1>2, <1>4

LEMMA LeftType ==
  ASSUME NEW c, NEW S \in SUBSET Ids
  PROVE  Left(S, c) \in SUBSET Ids
BY DEF Left

LEMMA CancelledType ==
  ASSUME TypeOK, NEW c \in Ids
  PROVE  Cancelled(c) \in [Ids -> {"idle", "armed", "expired"}]
BY DEF TypeOK, Cancelled

\* The next event of a well-typed queue, and the disconnect in front of frames.
LEMMA NextEventType ==
  ASSUME NEW queue \in Seq(Writes), queue # <<>>, NEW frames \in Seq(Frames), NextEvent(queue, frames)
  PROVE  events' \in Seq(Writes) /\ stack' \in Seq(Frames)
<1>1. events' \in Seq(Writes)
  BY HeadTailProperties DEF NextEvent
<1>2. <<Drain>> \o frames \in Seq(Frames)
  BY Records, ConcatProperties
<1>3. QED
  BY <1>1, <1>2 DEF NextEvent

LEMMA PushDisconnectType ==
  ASSUME TypeOK, NEW frames \in Seq(Frames), PushDisconnect(frames)
  PROVE  events' \in Seq(Writes) /\ stack' \in Seq(Frames)
<1>1. events' \in Seq(Writes)
  BY Records, AppendProperties DEF PushDisconnect, TypeOK, Writes
<1>2. <<Drain>> \o frames \in Seq(Frames)
  BY Records, ConcatProperties
<1>3. QED
  BY <1>1, <1>2 DEF PushDisconnect

\* A handler that runs leaves the others.
LEMMA RunsType ==
  ASSUME TypeOK, NEW c \in Ids, NEW t, Runs(t, c)
  PROVE  posted' \in Seq(Tasks) /\ posted # <<>> /\ posted[1] = Task(t, c) /\ stack = <<>>
BY HeadTailProperties DEF TypeOK, Runs, Tasks, Idle

-----------------------------------------------------------------------------
(* The frame that works for the event at the front: the loop over reqs_, or *)
(* the handler of a write that failed.  There is at most one, and its event *)
(* is in the queue: its end takes nothing from an empty queue.              *)

Works(frame) == frame.f \in {"drain", "sent"}
NoWorker(frames) == \A i \in DOMAIN frames : ~Works(frames[i])
AtMostOne(frames) ==
  \A i, j \in DOMAIN frames : Works(frames[i]) /\ Works(frames[j]) => i = j

OneWorker == AtMostOne(stack) /\ (events = <<>> => NoWorker(stack))

\* A frame on top of others.
LEMMA Cons ==
  ASSUME NEW x \in Frames, NEW st \in Seq(Frames)
  PROVE  /\ <<x>> \o st \in Seq(Frames) /\ Len(<<x>> \o st) = 1 + Len(st)
         /\ (<<x>> \o st)[1] = x
         /\ \A i \in 1 .. Len(st) : (<<x>> \o st)[i + 1] = st[i]
         /\ \A i \in 2 .. Len(st) + 1 : (<<x>> \o st)[i] = st[i - 1]
BY ConcatProperties

\* A frame that has returned.
LEMMA Uncons ==
  ASSUME NEW st \in Seq(Frames), st # <<>>
  PROVE  /\ Tail(st) \in Seq(Frames) /\ Len(Tail(st)) = Len(st) - 1
         /\ \A i \in 1 .. Len(st) - 1 : Tail(st)[i] = st[i + 1]
BY HeadTailProperties

LEMMA ConsCallback ==
  ASSUME NEW c \in Ids, NEW st \in Seq(Frames)
  PROVE  /\ AtMostOne(st) => AtMostOne(<<Callback(c)>> \o st)
         /\ NoWorker(st) => NoWorker(<<Callback(c)>> \o st)
<1>1. Callback(c) \in Frames /\ ~Works(Callback(c))
  BY Records DEF Callback, Works
<1>2. QED
  BY <1>1, Cons DEF AtMostOne, NoWorker

LEMMA ConsDrain ==
  ASSUME NEW st \in Seq(Frames), NoWorker(st)
  PROVE  AtMostOne(<<Drain>> \o st)
<1>1. Drain \in Frames
  BY Records
<1>2. QED
  BY <1>1, Cons DEF AtMostOne, NoWorker

LEMMA UnconsWorker ==
  ASSUME NEW st \in Seq(Frames), st # <<>>, AtMostOne(st)
  PROVE  /\ AtMostOne(Tail(st))
         /\ Works(st[1]) => NoWorker(Tail(st))
         /\ NoWorker(st) => NoWorker(Tail(st))
BY Uncons DEF AtMostOne, NoWorker

LEMMA NoWorkerIsAtMostOne == \A st : NoWorker(st) => AtMostOne(st)
BY DEF NoWorker, AtMostOne

\* A call that is answered keeps the frames below.
LEMMA CompleteWorker ==
  ASSUME NEW c \in Ids, NEW o, NEW st \in Seq(Frames), Complete(c, o, st)
  PROVE  /\ AtMostOne(st) => AtMostOne(stack')
         /\ NoWorker(st) => NoWorker(stack')
<1>1. <<>> \o st = st
  BY ConcatEmptySeq
<1>2. QED
  BY <1>1, ConsCallback DEF Complete

\* The end of an event, when no frame below works.
LEMMA NextEventWorker ==
  ASSUME NEW queue \in Seq(Writes), queue # <<>>, NEW st \in Seq(Frames), NoWorker(st),
         NextEvent(queue, st)
  PROVE  OneWorker'
<1>1. CASE Len(queue) > 1
  <2>1. events' # <<>>
    <3>1. Len(Tail(queue)) = Len(queue) - 1
      BY HeadTailProperties
    <3>2. Len(Tail(queue)) # 0
      BY <1>1, <3>1
    <3>3. Tail(queue) # <<>>
      BY <3>2, EmptySeq
    <3>4. QED
      BY <3>3 DEF NextEvent
  <2>2. AtMostOne(stack')
    BY <1>1, ConsDrain, NoWorkerIsAtMostOne DEF NextEvent
  <2>3. QED
    BY <2>1, <2>2 DEF OneWorker
<1>2. CASE ~(Len(queue) > 1)
  BY <1>2, NoWorkerIsAtMostOne DEF NextEvent, OneWorker
<1>3. QED
  BY <1>1, <1>2

LEMMA PushDisconnectWorker ==
  ASSUME TypeOK, NEW st \in Seq(Frames), AtMostOne(st), events = <<>> => NoWorker(st),
         PushDisconnect(st)
  PROVE  OneWorker'
<1>1. events' # <<>>
  BY AppendProperties, EmptySeq DEF PushDisconnect, TypeOK
<1>2. AtMostOne(stack')
  BY ConsDrain DEF PushDisconnect
<1>3. QED
  BY <1>1, <1>2 DEF OneWorker

\* A step keeps the types.
LEMMA TypeStep == TypeOK /\ OneWorker /\ [Next]_vars => TypeOK'
<1> SUFFICES ASSUME TypeOK, OneWorker, [Next]_vars PROVE TypeOK'
  OBVIOUS
<1> USE DEF caller, table, strand, peer, link
<1>types. /\ posted \in Seq(Tasks) /\ events \in Seq(Writes) /\ stack \in Seq(Frames)
          /\ <<>> \in Seq(Frames)
  BY DEF TypeOK, Tasks, Writes, Frames
<1>goal. ASSUME posted' \in Seq(Tasks), events' \in Seq(Writes), stack' \in Seq(Frames),
                answers' \in [Ids -> Seq(Outcomes)],
                timer' \in [Ids -> {"idle", "armed", "expired"}],
                reqs' \in SUBSET Ids, UNCHANGED <<caller, peer, link, write>>
         PROVE  TypeOK'
  BY <1>goal DEF TypeOK, Tasks, Writes, Frames
<1>1. CASE UNCHANGED vars
  BY <1>1, <1>goal, <1>types DEF vars, TypeOK
<1>2. CASE \E c \in Ids : Calls(c)
  <2>1. PICK c \in Ids : Calls(c)
    BY <1>2
  <2>2. \A t, u \in {"send", "erase", "fail"} :
           <<Task(t, c)>> \in Seq(Tasks) /\ <<Task(t, c), Task(u, c)>> \in Seq(Tasks)
    BY Records
  <2>3. \A ts \in Seq(Tasks) : Posts(ts) => posted' \in Seq(Tasks)
    BY PostsType
  <2>4. posted' \in Seq(Tasks)
    BY <2>1, <2>2, <2>3, <1>types
       DEF Calls, CallSync, CallOnStrand, CallAsync, CallOneway
  <2>5. kind' \in [Ids -> {"-", "sync", "strand", "async", "oneway"}]
        /\ thread' \in [Ids -> {"-", "waiting", "in_progress"} \cup Outcomes]
        /\ UNCHANGED <<events, write, stack, table, peer, link>>
    BY <2>1 DEF Calls, CallSync, CallOnStrand, CallAsync, CallOneway, Makes, Returns, Posts, TypeOK,
                Outcomes
  <2>6. QED
    BY <2>4, <2>5 DEF TypeOK, Tasks
<1>3. CASE \E c \in Ids : Waits(c)
  <2>1. PICK c \in Ids : Waits(c)
    BY <1>3
  <2>2. <<Task("erase", c)>> \in Seq(Tasks)
    BY Records
  <2>3. posted' \in Seq(Tasks)
    BY <2>1, <2>2, PostsType, <1>types DEF Waits, WaitTimesOut, WaitEnds
  <2>4. answers[c] # <<>> => answers[c][1] \in Outcomes
    BY DEF TypeOK
  <2>5. thread' \in [Ids -> {"-", "waiting", "in_progress"} \cup Outcomes]
        /\ UNCHANGED <<kind, events, write, stack, table, peer, link>>
    BY <2>1, <2>4 DEF Waits, WaitTimesOut, WaitEnds, Returns, Posts, TypeOK, Outcomes
  <2>6. QED
    BY <2>3, <2>5 DEF TypeOK, Tasks
<1>4. CASE \E c \in Ids : Transmit(c) \/ TimerExpires(c)
  BY <1>4 DEF Transmit, TimerExpires, TypeOK
<1>5. ASSUME NEW c \in Ids, RunSend(c) PROVE TypeOK'
  <2>1. posted' \in Seq(Tasks)
    BY <1>5, RunsType DEF RunSend
  <2>2. reqs' \in SUBSET Ids
    <3>1. reqs \cup {c} \in SUBSET Ids /\ reqs \in SUBSET Ids
      BY DEF TypeOK
    <3>2. QED
      BY <1>5, <3>1, LeftType DEF RunSend
  <2>3. events' \in Seq(Writes)
    <3>1. Append(events, Send(c)) \in Seq(Writes)
      BY <1>types, Records, AppendProperties
    <3>2. QED
      BY <1>5, <3>1, <1>types DEF RunSend
  <2>4. timer' \in [Ids -> {"idle", "armed", "expired"}]
    BY <1>5 DEF RunSend, TypeOK
  <2>5. answers' \in [Ids -> Seq(Outcomes)] /\ stack' \in Seq(Frames)
    BY <1>5, CompleteType, <1>types DEF RunSend, TypeOK, Outcomes
  <2>6. QED
    BY <1>5, <1>goal, <2>1, <2>2, <2>3, <2>4, <2>5 DEF RunSend
<1>6. ASSUME NEW c \in Ids, RunErase(c) \/ RunFail(c) PROVE TypeOK'
  <2>1. posted' \in Seq(Tasks)
    BY <1>6, RunsType DEF RunErase, RunFail
  <2>2. answers' \in [Ids -> Seq(Outcomes)] /\ stack' \in Seq(Frames)
    BY <1>6, CompleteType, <1>types DEF RunErase, RunFail, TypeOK, Outcomes
  <2>3. QED
    BY <1>6, <1>goal, <1>types, <2>1, <2>2 DEF RunErase, RunFail, TypeOK
<1>7. ASSUME NEW c \in Ids, HandleTimer(c) PROVE TypeOK'
  <2>1. answers' \in [Ids -> Seq(Outcomes)] /\ stack' \in Seq(Frames)
    BY <1>7, CompleteType, <1>types DEF HandleTimer, TypeOK, Outcomes
  <2>2. QED
    BY <1>7, <1>goal, <1>types, <2>1 DEF HandleTimer, TypeOK
<1>8. ASSUME NEW c \in Ids, HandleSent(c) PROVE TypeOK'
  <2>1. <<Sent>> \in Seq(Frames) /\ events # <<>>
    BY <1>8, Records DEF HandleSent, FrontWrites
  <2>2. answers' \in [Ids -> Seq(Outcomes)] /\ stack' \in Seq(Frames)
    <3>1. CASE write = "sent" /\ NextEvent(events, <<>>) /\ UNCHANGED table
      BY <3>1, <2>1, <1>types, NextEventType DEF TypeOK
    <3>2. CASE Complete(c, "failed", <<Sent>>)
      BY <3>2, <2>1, CompleteType DEF Outcomes
    <3>3. CASE stack' = <<Sent>> /\ UNCHANGED table
      BY <3>3, <2>1 DEF TypeOK
    <3>4. QED
      BY <1>8, <3>1, <3>2, <3>3 DEF HandleSent
  <2>3. events' \in Seq(Writes)
    BY <1>8, <2>1, <1>types, NextEventType DEF HandleSent
  <2>4. reqs' \in SUBSET Ids /\ timer' \in [Ids -> {"idle", "armed", "expired"}]
        /\ write' \in {"busy", "failed"}
    BY <1>8, LeftType, CancelledType DEF HandleSent, TypeOK
  <2>5. QED
    BY <1>8, <1>types, <2>2, <2>3, <2>4 DEF HandleSent, TypeOK, Tasks, Writes, Frames
<1>9. CASE HandleResponse
  <2>1. PICK r \in responses : /\ responses' = responses \ {r}
                               /\ \/ /\ Complete(r.c, r.outcome, <<>>)
                                     /\ timer' = Cancelled(r.c)
                                     /\ reqs' = Left(reqs, r.c)
                                  \/ UNCHANGED <<table, stack>>
    BY <1>9 DEF HandleResponse
  <2>2. r.c \in Ids /\ r.outcome \in Outcomes /\ responses' \subseteq [c : Ids, outcome : {"ok", "remote"}]
    BY <2>1 DEF TypeOK, Outcomes
  <2>3. /\ answers' \in [Ids -> Seq(Outcomes)] /\ stack' \in Seq(Frames)
        /\ timer' \in [Ids -> {"idle", "armed", "expired"}] /\ reqs' \in SUBSET Ids
    BY <2>1, <2>2, <1>types, CompleteType, CancelledType, LeftType DEF TypeOK
  <2>4. QED
    BY <1>9, <1>types, <2>2, <2>3 DEF HandleResponse, TypeOK, Tasks, Writes, Frames
<1>10. CASE CallbackReturns
  <2>1. Tail(stack) \in Seq(Frames)
    BY <1>10, <1>types, HeadTailProperties DEF CallbackReturns, InFrame, Idle
  <2>2. QED
    BY <1>10, <2>1, <1>goal, <1>types DEF CallbackReturns, TypeOK
<1>11. CASE SentReturns
  <2>1. Tail(stack) \in Seq(Frames)
    BY <1>11, <1>types, HeadTailProperties DEF SentReturns, InFrame, Idle
  <2>2. events # <<>>
    <3>1. stack # <<>> /\ Works(stack[1])
      BY <1>11 DEF SentReturns, InFrame, Idle, Works
    <3>2. 1 \in DOMAIN stack
      BY <3>1, <1>types, EmptySeq
    <3>3. QED
      BY <3>1, <3>2 DEF OneWorker, NoWorker
  <2>3. Append(events, Disconnect) \in Seq(Writes) /\ Append(events, Disconnect) # <<>>
    BY <1>types, Records, AppendProperties, EmptySeq
  <2>4. events' \in Seq(Writes) /\ stack' \in Seq(Frames)
    BY <1>11, <1>types, <2>1, <2>2, <2>3, NextEventType DEF SentReturns
  <2>5. QED
    BY <1>11, <2>4, <1>types DEF SentReturns, TypeOK, Tasks, Writes, Frames
<1>12. CASE DrainNext
  <2>1. PICK c \in reqs : Complete(c, "aborted", stack) /\ timer' = Cancelled(c) /\ reqs' = Left(reqs, c)
    BY <1>12 DEF DrainNext
  <2>2. c \in Ids /\ "aborted" \in Outcomes
    BY DEF TypeOK, Outcomes
  <2>3. /\ answers' \in [Ids -> Seq(Outcomes)] /\ stack' \in Seq(Frames)
        /\ timer' \in [Ids -> {"idle", "armed", "expired"}] /\ reqs' \in SUBSET Ids
    BY <2>1, <2>2, <1>types, CompleteType, CancelledType, LeftType DEF TypeOK
  <2>4. QED
    BY <1>12, <2>3, <1>types, <1>goal DEF DrainNext
<1>13. CASE Close
  <2>1. Tail(stack) \in Seq(Frames)
    BY <1>13, <1>types, HeadTailProperties DEF Close, InFrame, Idle
  <2>2. events # <<>>
    <3>1. stack # <<>> /\ Works(stack[1])
      BY <1>13 DEF Close, InFrame, Idle, Works
    <3>2. 1 \in DOMAIN stack
      BY <3>1, <1>types, EmptySeq
    <3>3. QED
      BY <3>1, <3>2 DEF OneWorker, NoWorker
  <2>3. events' \in Seq(Writes) /\ stack' \in Seq(Frames)
    BY <1>13, <1>types, <2>1, <2>2, NextEventType DEF Close
  <2>4. QED
    BY <1>13, <2>3, <1>types DEF Close, TypeOK, Tasks, Writes, Frames
<1>14. CASE LoseConnection \/ CallbackCallsStop
  <2>1. events' \in Seq(Writes) /\ stack' \in Seq(Frames)
    BY <1>14, <1>types, PushDisconnectType DEF LoseConnection, CallbackCallsStop
  <2>2. QED
    BY <1>14, <2>1, <1>types DEF LoseConnection, CallbackCallsStop, TypeOK, Tasks, Writes, Frames
<1>15. CASE Reconnect
  BY <1>15, BoundsAssumption DEF Reconnect, TypeOK
<1>16. CASE Peer
  <2>1. PICK c \in Ids : Serve(c) \/ Finish(c)
    BY <1>16 DEF Peer
  <2>2. \A d \in Ids, o \in {"ok", "remote"} : Response(d, o) \in [c : Ids, outcome : {"ok", "remote"}]
    BY DEF Response
  <2>3. CASE Serve(c)
    <3>0. Once(c) => ran' \in [Ids -> Nat]
      BY DEF Once, TypeOK
    <3>1. requests' \subseteq Ids /\ deferred' \subseteq Ids /\ ran' \in [Ids -> Nat]
      BY <2>3, <3>0 DEF Serve, TypeOK
    <3>2. responses' \subseteq [c : Ids, outcome : {"ok", "remote"}]
      BY <2>2, <2>3 DEF Serve, TypeOK
    <3>3. QED
      BY <2>3, <3>1, <3>2 DEF Serve, TypeOK
  <2>4. CASE Finish(c)
    BY <2>2, <2>4 DEF Finish, TypeOK
  <2>5. QED
    BY <2>1, <2>3, <2>4
<1>17. QED
  BY <1>1, <1>2, <1>3, <1>4, <1>5, <1>6, <1>7, <1>8, <1>9, <1>10, <1>11, <1>12, <1>13, <1>14, <1>15, <1>16
     DEF Next, StrandStep

\* A step keeps the one frame that works.
LEMMA WorkerStep == TypeOK /\ OneWorker /\ [Next]_vars => OneWorker'
<1> SUFFICES ASSUME TypeOK, OneWorker, [Next]_vars PROVE OneWorker'
  OBVIOUS
<1> USE DEF caller, table, strand, peer, link
<1>types. events \in Seq(Writes) /\ stack \in Seq(Frames) /\ <<>> \in Seq(Frames)
  BY DEF TypeOK, Writes, Frames
<1>empty. NoWorker(<<>>) /\ AtMostOne(<<>>)
  BY DEF NoWorker, AtMostOne
<1>first. ASSUME stack # <<>>
          PROVE  /\ Tail(stack) \in Seq(Frames) /\ AtMostOne(Tail(stack))
                 /\ Works(stack[1]) => events # <<>> /\ NoWorker(Tail(stack))
                 /\ events = <<>> => NoWorker(Tail(stack))
  <2>1. 1 \in DOMAIN stack
    BY <1>first, <1>types, EmptySeq
  <2>2. QED
    BY <1>first, <2>1, <1>types, Uncons, UnconsWorker DEF OneWorker, NoWorker
<1>1. CASE UNCHANGED <<events, stack>>
  BY <1>1 DEF OneWorker
\* The answer of a call by an idle strand.
<1>2. ASSUME NEW c \in Ids, NEW o, Complete(c, o, <<>>) PROVE OneWorker'
  <2>1. NoWorker(stack')
    BY <1>2, <1>types, <1>empty, CompleteWorker
  <2>2. QED
    BY <2>1, NoWorkerIsAtMostOne DEF OneWorker
<1>3. ASSUME NEW c \in Ids, RunSend(c) PROVE OneWorker'
  <2>1. CASE UNCHANGED stack
    <3>1. NoWorker(stack')
      BY <1>3, <2>1, <1>empty DEF RunSend, Runs, Idle
    <3>2. QED
      BY <3>1, NoWorkerIsAtMostOne DEF OneWorker
  <2>2. QED
    BY <1>2, <1>3, <2>1 DEF RunSend
<1>4. ASSUME NEW c \in Ids, RunErase(c) \/ RunFail(c) \/ HandleTimer(c) PROVE OneWorker'
  BY <1>1, <1>2, <1>4 DEF RunErase, RunFail, HandleTimer
<1>5. ASSUME NEW c \in Ids, HandleSent(c) PROVE OneWorker'
  <2>1. events # <<>>
    BY <1>5 DEF HandleSent, FrontWrites
  <2>2. <<Sent>> \in Seq(Frames) /\ AtMostOne(<<Sent>>)
    BY Records DEF AtMostOne
  <2>3. CASE NextEvent(events, <<>>)
    BY <2>1, <2>3, <1>types, <1>empty, NextEventWorker
  <2>4. CASE Complete(c, "failed", <<Sent>>) /\ UNCHANGED events
    BY <2>1, <2>2, <2>4, CompleteWorker DEF OneWorker
  <2>5. CASE stack' = <<Sent>> /\ UNCHANGED events
    BY <2>1, <2>2, <2>5 DEF OneWorker
  <2>6. QED
    BY <1>5, <2>3, <2>4, <2>5 DEF HandleSent
<1>6. CASE HandleResponse
  <2>1. PICK r \in responses : Complete(r.c, r.outcome, <<>>) \/ UNCHANGED stack
    BY <1>6 DEF HandleResponse
  <2>2. r.c \in Ids
    BY DEF TypeOK
  <2>3. QED
    BY <1>1, <1>2, <1>6, <2>1, <2>2 DEF HandleResponse
<1>7. CASE CallbackReturns
  BY <1>7, <1>first DEF CallbackReturns, InFrame, Idle, OneWorker
<1>8. CASE SentReturns
  <2>1. events # <<>> /\ Tail(stack) \in Seq(Frames) /\ NoWorker(Tail(stack))
    BY <1>8, <1>first DEF SentReturns, InFrame, Idle, Works
  <2>2. Append(events, Disconnect) \in Seq(Writes) /\ Append(events, Disconnect) # <<>>
    BY <1>types, Records, AppendProperties, EmptySeq
  <2>3. QED
    BY <1>8, <2>1, <2>2, <1>types, NextEventWorker DEF SentReturns
<1>9. CASE DrainNext
  <2>1. PICK c \in reqs : Complete(c, "aborted", stack)
    BY <1>9 DEF DrainNext
  <2>2. c \in Ids
    BY DEF TypeOK
  <2>3. QED
    BY <1>9, <2>1, <2>2, <1>types, CompleteWorker DEF DrainNext, OneWorker
<1>10. CASE Close
  <2>1. events # <<>> /\ Tail(stack) \in Seq(Frames) /\ NoWorker(Tail(stack))
    BY <1>10, <1>first DEF Close, InFrame, Idle, Works
  <2>2. QED
    BY <1>10, <2>1, <1>types, NextEventWorker DEF Close
<1>11. CASE LoseConnection
  BY <1>11, <1>types, <1>empty, PushDisconnectWorker DEF LoseConnection
<1>12. CASE CallbackCallsStop
  BY <1>12, <1>types, PushDisconnectWorker DEF CallbackCallsStop, OneWorker
<1>13. CASE UNCHANGED vars \/ (\E c \in Ids : Calls(c) \/ Waits(c) \/ Transmit(c) \/ TimerExpires(c))
            \/ Peer \/ Reconnect
  <2>1. UNCHANGED <<events, stack>>
    BY <1>13 DEF vars, Calls, CallSync, CallOnStrand, CallAsync, CallOneway, Posts, Waits, WaitTimesOut,
                 WaitEnds, Transmit, TimerExpires, Peer, Serve, Finish, Reconnect
  <2>2. QED
    BY <1>1, <2>1
<1>14. QED
  BY <1>3, <1>4, <1>5, <1>6, <1>7, <1>8, <1>9, <1>10, <1>11, <1>12, <1>13 DEF Next, StrandStep

LEMMA InitType == Init => TypeOK /\ OneWorker
<1>1. ASSUME Init PROVE TypeOK
  BY <1>1, BoundsAssumption DEF Init, TypeOK, Ids
<1>2. ASSUME Init PROVE OneWorker
  BY <1>2 DEF Init, OneWorker, AtMostOne, NoWorker
<1>3. QED
  BY <1>1, <1>2

LEMMA TypeInductive == Spec => [](TypeOK /\ OneWorker)
<1>1. TypeOK /\ OneWorker /\ [Next]_vars => TypeOK' /\ OneWorker'
  BY TypeStep, WorkerStep
<1>2. QED
  BY <1>1, InitType, PTL DEF Spec

\* Every variable keeps its type, whatever the interleaving of the callers, the
\* strand and the peer; in particular the end of an event never finds the queue
\* empty.
THEOREM TypeCorrect == Spec => []TypeOK
BY TypeInductive, PTL

-----------------------------------------------------------------------------
(* One answer, and an owner for every entry.  A call is in one of three     *)
(* places: its first handler is posted; it is in the table, unanswered; or  *)
(* it has its answer, and is in the table only while its callback runs, on  *)
(* top of the stack.  A stop where it Reenters breaks the last part:        *)
(* the loop over reqs_ starts on top of the callback and finds its entry    *)
(* again.                                                                   *)

Asks(task) == task.t \in {"send", "fail"}

\* Nothing is known of a request that was not made.
Unmade ==
  \A c \in Ids : kind[c] = "-" =>
    /\ thread[c] = "-" /\ answers[c] = <<>> /\ c \notin reqs /\ timer[c] = "idle"
    /\ \A i \in DOMAIN posted : posted[i].c # c

\* A request whose first handler is posted, once, has no entry and no answer.
Asked ==
  \A i \in DOMAIN posted : Asks(posted[i]) =>
    /\ answers[posted[i].c] = <<>> /\ posted[i].c \notin reqs
    /\ \A j \in DOMAIN posted : Asks(posted[j]) /\ posted[j].c = posted[i].c => j = i

\* An entry that was answered is the one whose callback runs.
Running ==
  \A c \in reqs : answers[c] # <<>> =>
    kind[c] = "async" /\ stack # <<>> /\ stack[1] = Callback(c)

KindOfEntry == \A c \in reqs : kind[c] \in {"sync", "strand", "async"}
KindOfTimer == \A c \in Ids : timer[c] # "idle" => kind[c] = "async"

\* The erase of a caller that does not wait comes after the send.
EraseFollows ==
  \A i \in DOMAIN posted :
    LET c == posted[i].c
    IN posted[i].t = "send" /\ (kind[c] = "strand" \/ (kind[c] = "sync" /\ thread[c] # "waiting"))
         => \E j \in DOMAIN posted : j > i /\ posted[j] = Task("erase", c)

IInv == /\ AnsweredOnce /\ EntryHasOwner /\ Unmade /\ Asked /\ Running
        /\ KindOfEntry /\ KindOfTimer /\ EraseFollows

\* What is posted behind the handlers that wait.
LEMMA PostedBehind ==
  ASSUME TypeOK, NEW ts \in Seq(Tasks), posted' = posted \o ts
  PROVE  /\ \A i \in DOMAIN posted : i \in DOMAIN posted' /\ posted'[i] = posted[i]
         /\ \A i \in DOMAIN ts : Len(posted) + i \in DOMAIN posted' /\ posted'[Len(posted) + i] = ts[i]
         /\ \A i \in DOMAIN posted' : \/ i \in DOMAIN posted /\ posted'[i] = posted[i]
                                     \/ \E j \in DOMAIN ts : i = Len(posted) + j /\ posted'[i] = ts[j]
         /\ Len(posted) \in Nat
<1>1. posted \in Seq(Tasks)
  BY DEF TypeOK, Tasks
<1>2. Len(posted) \in Nat /\ Len(ts) \in Nat /\ DOMAIN posted = 1 .. Len(posted) /\ DOMAIN ts = 1 .. Len(ts)
  BY <1>1, LenProperties
<1>3. /\ DOMAIN posted' = 1 .. Len(posted) + Len(ts)
      /\ \A i \in 1 .. Len(posted) + Len(ts) :
           posted'[i] = IF i <= Len(posted) THEN posted[i] ELSE ts[i - Len(posted)]
  BY <1>1, <1>2, ConcatProperties
<1>4. \A i \in DOMAIN posted' : \/ i \in DOMAIN posted /\ posted'[i] = posted[i]
                               \/ \E j \in DOMAIN ts : i = Len(posted) + j /\ posted'[i] = ts[j]
  <2>1. TAKE i \in DOMAIN posted'
  <2>2. CASE i <= Len(posted)
    BY <1>2, <1>3, <2>2
  <2>3. CASE i > Len(posted)
    <3>1. i - Len(posted) \in DOMAIN ts /\ i = Len(posted) + (i - Len(posted))
          /\ posted'[i] = ts[i - Len(posted)]
      BY <1>2, <1>3, <2>3
    <3>2. QED
      BY <3>1
  <2>4. QED
    BY <1>2, <1>3, <2>2, <2>3
<1>5. QED
  BY <1>2, <1>3, <1>4

\* The first handler runs, the others move up.
LEMMA PostedTail ==
  ASSUME TypeOK, posted # <<>>, posted' = Tail(posted)
  PROVE  /\ 1 \in DOMAIN posted
         /\ \A i \in DOMAIN posted' : i \in Nat \ {0} /\ i + 1 \in DOMAIN posted /\ posted'[i] = posted[i + 1]
         /\ \A i \in DOMAIN posted : i \in Nat /\ (i # 1 => i - 1 \in DOMAIN posted' /\ posted'[i - 1] = posted[i])
<1>1. posted \in Seq(Tasks)
  BY DEF TypeOK, Tasks
<1>2. Len(posted) \in Nat \ {0} /\ DOMAIN posted = 1 .. Len(posted)
  BY <1>1, EmptySeq, LenProperties
<1>3. /\ Tail(posted) \in Seq(Tasks) /\ Len(Tail(posted)) = Len(posted) - 1
      /\ \A i \in 1 .. Len(Tail(posted)) : Tail(posted)[i] = posted[i + 1]
  BY <1>1, HeadTailProperties
<1>4. DOMAIN posted' = 1 .. Len(posted) - 1
  BY <1>3, LenProperties
<1>5. QED
  BY <1>2, <1>3, <1>4

\* A posted handler is about a request.
LEMMA PostedIds == ASSUME TypeOK PROVE \A i \in DOMAIN posted : posted[i] \in Tasks /\ posted[i].c \in Ids
<1>1. posted \in Seq(Tasks)
  BY DEF TypeOK, Tasks
<1>2. \A i \in DOMAIN posted : posted[i] \in Tasks
  BY <1>1, LenProperties, ElementOfSeq
<1>3. QED
  BY <1>2 DEF Tasks

\* A record of a handler and of a frame has its parts.
LEMMA Parts ==
  /\ \A c, d, t, u : Task(t, c) = Task(u, d) => t = u /\ c = d
  /\ \A c, t : Task(t, c).t = t /\ Task(t, c).c = c
  /\ \A c, d : Callback(c) = Callback(d) => c = d
  /\ \A c : Callback(c).f = "callback" /\ Callback(c).c = c
BY DEF Task, Callback

\* The callbacks that run go on while the frames below or above them change.
CallbacksGoOn ==
  \A c \in Ids, i \in DOMAIN stack :
    stack[i] = Callback(c) => \E j \in DOMAIN stack' : stack'[j] = Callback(c)

\* Nothing is in the middle of an answer.
Unanswered == \A c \in reqs : answers[c] = <<>>

\* An idle strand, or one with a working frame on top, is in no answer.
LEMMA NoAnswer ==
  ASSUME TypeOK, IInv, stack = <<>> \/ stack[1].f # "callback"
  PROVE  Unanswered
BY Parts DEF IInv, Running, Unanswered

\* Frames come and go, calls stay as they are.
LEMMA FramesMove ==
  ASSUME TypeOK, IInv, Unanswered, CallbacksGoOn,
         UNCHANGED <<kind, thread, answers, reqs, timer, posted>>
  PROVE  IInv'
<1>1. EntryHasOwner'
  <2>1. reqs \subseteq Ids
    BY DEF TypeOK
  <2>2. QED
    BY <2>1 DEF IInv, EntryHasOwner, CallbacksGoOn
<1>2. Running'
  BY DEF Unanswered, Running
<1>3. AnsweredOnce' /\ Unmade' /\ Asked' /\ KindOfEntry' /\ KindOfTimer' /\ EraseFollows'
  BY DEF IInv, AnsweredOnce, Unmade, Asked, KindOfEntry, KindOfTimer, EraseFollows
<1>4. QED
  BY <1>1, <1>2, <1>3 DEF IInv

\* The answer of an entry that has none.
LEMMA Answering ==
  ASSUME TypeOK, IInv, Unanswered, NEW c \in reqs, NEW o \in Outcomes, NEW below \in Seq(Frames),
         stack = <<>> \/ below = stack,
         Complete(c, o, below), reqs' = Left(reqs, c),
         timer' = Cancelled(c) \/ timer' = [timer EXCEPT ![c] = "idle"],
         UNCHANGED <<kind, thread, posted>>
  PROVE  IInv'
<1>1. c \in Ids /\ answers[c] = <<>> /\ kind[c] # "-"
  BY DEF TypeOK, Unanswered, IInv, Unmade
<1>2. /\ \A d \in Ids : d # c => answers'[d] = answers[d]
      /\ answers'[c] = <<o>>
  BY <1>1 DEF Complete, TypeOK
<1>3. \A d \in Ids : d # c => timer'[d] = timer[d]
  BY <1>1 DEF Cancelled, TypeOK
<1>4. timer'[c] \in {timer[c], "idle"}
  BY <1>1 DEF Cancelled, TypeOK
<1>5. reqs' \subseteq reqs /\ (c \in reqs' => kind[c] = "async")
  BY DEF Left
<1>6. kind[c] = "async" => stack' = <<Callback(c)>> \o below
  BY DEF Complete
<1>7. kind[c] = "async" => stack' # <<>> /\ stack'[1] = Callback(c) /\ 1 \in DOMAIN stack'
                           /\ \A i \in DOMAIN below : i + 1 \in DOMAIN stack' /\ stack'[i + 1] = below[i]
  <2>1. Callback(c) \in Frames
    BY <1>1, Records
  <2>2. QED
    BY <1>6, <2>1, Cons, EmptySeq, LenProperties
<1>8. kind[c] # "async" => stack' = below
  BY ConcatEmptySeq DEF Complete
<1>9. AnsweredOnce'
  <2>1. \A d \in Ids : Len(answers[d]) <= 1
    BY DEF IInv, AnsweredOnce
  <2>2. Len(<<o>>) = 1
    OBVIOUS
  <2>3. Len(answers'[c]) <= 1
    <3>1. Len(answers'[c]) = 1
      BY <1>2, <2>2
    <3>2. QED
      BY <3>1
  <2>4. ASSUME NEW d \in Ids, d # c PROVE Len(answers'[d]) <= 1
    BY <1>2, <2>1, <2>4
  <2>5. QED
    BY <2>3, <2>4 DEF AnsweredOnce
<1>10. Running'
  <2>1. reqs \subseteq Ids
    BY DEF TypeOK
  <2>2. \A d \in reqs' : d # c => answers'[d] = <<>>
    BY <1>2, <1>5, <2>1 DEF Unanswered
  <2>3. c \in reqs' => kind'[c] = "async" /\ stack' # <<>> /\ stack'[1] = Callback(c)
    BY <1>5, <1>7
  <2>4. QED
    BY <2>2, <2>3 DEF Running
<1>11. EntryHasOwner'
  <2>1. SUFFICES ASSUME NEW d \in reqs'
        PROVE  \/ kind'[d] = "async" /\ timer'[d] # "idle"
               \/ thread'[d] = "waiting"
               \/ \E i \in DOMAIN posted' : posted'[i] = Task("erase", d)
               \/ \E i \in DOMAIN stack' : stack'[i] = Callback(d)
    BY DEF EntryHasOwner
  <2>2. d \in Ids /\ d \in reqs
    BY <1>5 DEF TypeOK
  <2>3. CASE d = c
    BY <1>5, <1>7, <2>3
  <2>4. CASE d # c
    <3>1. CASE \E i \in DOMAIN stack : stack[i] = Callback(d)
      <4>1. PICK i \in DOMAIN stack : stack[i] = Callback(d)
        BY <3>1
      <4>2. below = stack
        BY <4>1, EmptySeq
      <4>3. \E j \in DOMAIN stack' : stack'[j] = Callback(d)
        BY <1>7, <1>8, <4>1, <4>2
      <4>4. QED
        BY <4>3
    <3>2. CASE ~\E i \in DOMAIN stack : stack[i] = Callback(d)
      <4>1. \/ kind[d] = "async" /\ timer[d] # "idle"
            \/ thread[d] = "waiting"
            \/ \E i \in DOMAIN posted : posted[i] = Task("erase", d)
        BY <2>2, <3>2 DEF IInv, EntryHasOwner
      <4>2. QED
        BY <1>3, <2>2, <2>4, <4>1
    <3>3. QED
      BY <3>1, <3>2
  <2>5. QED
    BY <2>3, <2>4
<1>12. Unmade'
  BY <1>1, <1>2, <1>3, <1>5 DEF IInv, Unmade
<1>13. Asked'
  <2>1. \A i \in DOMAIN posted : posted[i].c \in Ids
    BY PostedIds
  <2>2. \A i \in DOMAIN posted : Asks(posted[i]) => posted[i].c # c
    BY DEF IInv, Asked
  <2>3. QED
    BY <1>2, <1>5, <2>1, <2>2 DEF IInv, Asked
<1>14. KindOfEntry' /\ KindOfTimer' /\ EraseFollows'
  BY <1>3, <1>4, <1>5 DEF IInv, KindOfEntry, KindOfTimer, EraseFollows
<1>15. QED
  BY <1>9, <1>10, <1>11, <1>12, <1>13, <1>14 DEF IInv

\* The handler that runs was posted for a request that was made, and every
\* other handler stays posted, in its order.
LEMMA MovesUp ==
  ASSUME TypeOK, IInv, NEW c \in Ids, NEW t \in {"send", "erase", "fail"}, Runs(t, c)
  PROVE  /\ stack = <<>> /\ kind[c] # "-"
         /\ \A i \in DOMAIN posted' : i \in Nat \ {0} /\ i + 1 \in DOMAIN posted /\ posted'[i] = posted[i + 1]
         /\ \A i \in DOMAIN posted : i # 1 => i - 1 \in DOMAIN posted' /\ posted'[i - 1] = posted[i]
         /\ 1 \in DOMAIN posted /\ posted[1] = Task(t, c)
         /\ \A i \in DOMAIN posted : i \in Nat
<1>1. posted # <<>> /\ posted' = Tail(posted) /\ posted[1] = Task(t, c) /\ stack = <<>>
  BY RunsType DEF Runs
<1>2. 1 \in DOMAIN posted
  BY <1>1, PostedTail
<1>3. kind[c] # "-"
  BY <1>1, <1>2, Parts DEF IInv, Unmade
<1>4. QED
  BY <1>1, <1>2, <1>3, PostedTail

\* What holds of the posted handlers and of the timers after one has run.
LEMMA AfterRun ==
  ASSUME TypeOK, IInv, NEW c \in Ids, NEW t \in {"send", "erase", "fail"}, Runs(t, c),
         UNCHANGED <<kind, thread>>,
         reqs' \subseteq reqs \cup (IF t = "send" THEN {c} ELSE {}),
         \A d \in Ids : d # c => answers'[d] = answers[d] /\ timer'[d] = timer[d],
         t = "erase" => UNCHANGED answers,
         timer'[c] # timer[c] => kind[c] = "async"
  PROVE  Unmade' /\ Asked' /\ EraseFollows' /\ KindOfTimer'
<1> USE MovesUp
<1>1. Unmade'
  BY DEF IInv, Unmade
<1>2. Asked'
  <2>1. SUFFICES ASSUME NEW i \in DOMAIN posted', Asks(posted'[i])
        PROVE  /\ answers'[posted'[i].c] = <<>> /\ posted'[i].c \notin reqs'
               /\ \A j \in DOMAIN posted' : Asks(posted'[j]) /\ posted'[j].c = posted'[i].c => j = i
    BY DEF Asked
  <2>2. i \in Nat \ {0} /\ i + 1 \in DOMAIN posted /\ posted'[i] = posted[i + 1]
    OBVIOUS
  <2>3. /\ answers[posted'[i].c] = <<>> /\ posted'[i].c \notin reqs
        /\ \A j \in DOMAIN posted : Asks(posted[j]) /\ posted[j].c = posted'[i].c => j = i + 1
    BY <2>1, <2>2 DEF IInv, Asked
  <2>4. posted'[i].c \in Ids
    BY <2>2, PostedIds
  <2>5. t # "erase" => posted'[i].c # c
    <3>1. SUFFICES ASSUME t # "erase", posted'[i].c = c PROVE FALSE
      OBVIOUS
    <3>2. Asks(posted[1]) /\ posted[1].c = c
      BY <3>1, Parts DEF Asks
    <3>3. 1 = i + 1
      BY <2>3, <3>1, <3>2
    <3>4. QED
      BY <2>2, <3>3
  <2>6. answers'[posted'[i].c] = <<>>
    BY <2>3, <2>4, <2>5
  <2>7. posted'[i].c \notin reqs'
    BY <2>3, <2>5
  <2>8. ASSUME NEW j \in DOMAIN posted', Asks(posted'[j]), posted'[j].c = posted'[i].c PROVE j = i
    <3>1. j \in Nat /\ j + 1 \in DOMAIN posted /\ posted'[j] = posted[j + 1]
      OBVIOUS
    <3>2. j + 1 = i + 1
      BY <2>3, <2>8, <3>1
    <3>3. QED
      BY <2>2, <3>1, <3>2
  <2>9. QED
    BY <2>6, <2>7, <2>8
<1>3. EraseFollows'
  <2>1. SUFFICES ASSUME NEW i \in DOMAIN posted', NEW d, d = posted'[i].c, posted'[i].t = "send",
                        kind[d] = "strand" \/ (kind[d] = "sync" /\ thread[d] # "waiting")
        PROVE  \E j \in DOMAIN posted' : j > i /\ posted'[j] = Task("erase", d)
    BY DEF EraseFollows
  <2>2. i \in Nat \ {0} /\ i + 1 \in DOMAIN posted /\ posted'[i] = posted[i + 1]
    OBVIOUS
  <2>3. PICK j \in DOMAIN posted : j > i + 1 /\ posted[j] = Task("erase", d)
    BY <2>1, <2>2 DEF IInv, EraseFollows
  <2>4. j # 1 /\ j - 1 > i
    BY <2>2, <2>3
  <2>5. QED
    BY <2>3, <2>4
<1>4. KindOfTimer'
  BY DEF IInv, KindOfTimer
<1>5. QED
  BY <1>1, <1>2, <1>3, <1>4

\* The owners of the other entries do not change.
LEMMA OwnersStay ==
  ASSUME TypeOK, IInv, NEW c \in Ids, NEW t \in {"send", "erase", "fail"}, Runs(t, c),
         UNCHANGED <<kind, thread>>,
         \A d \in Ids : d # c => timer'[d] = timer[d],
         NEW d \in reqs, d # c
  PROVE  \/ kind'[d] = "async" /\ timer'[d] # "idle"
         \/ thread'[d] = "waiting"
         \/ \E i \in DOMAIN posted' : posted'[i] = Task("erase", d)
<1>1. d \in Ids
  BY DEF TypeOK
<1>2. ~\E i \in DOMAIN stack : stack[i] = Callback(d)
  BY MovesUp
<1>3. \/ kind[d] = "async" /\ timer[d] # "idle"
      \/ thread[d] = "waiting"
      \/ \E i \in DOMAIN posted : posted[i] = Task("erase", d)
  BY <1>2 DEF IInv, EntryHasOwner
<1>4. CASE \E i \in DOMAIN posted : posted[i] = Task("erase", d)
  <2>1. PICK i \in DOMAIN posted : posted[i] = Task("erase", d)
    BY <1>4
  <2>2. i # 1
    BY <2>1, MovesUp, Parts
  <2>3. QED
    BY <2>1, <2>2, MovesUp
<1>5. QED
  BY <1>1, <1>3, <1>4

\* The posted part of a call.
LEMMA RunSendStep == ASSUME TypeOK, IInv, NEW c \in Ids, RunSend(c) PROVE IInv'
<1> USE DEF table, caller
<1> DEFINE all == IF kind[c] = "oneway" THEN reqs ELSE reqs \cup {c}
<1>1. /\ Runs("send", c) /\ UNCHANGED <<kind, thread>>
      /\ 1 \in DOMAIN posted /\ posted[1] = Task("send", c) /\ stack = <<>> /\ kind[c] # "-"
  BY MovesUp DEF RunSend
<1>2. answers[c] = <<>> /\ c \notin reqs
  BY <1>1, Parts DEF IInv, Asked, Asks
<1>3. /\ \/ UNCHANGED <<answers, stack>> /\ reqs' \in {all, reqs}
         \/ Complete(c, "not_connected", <<>>) /\ reqs' = Left(all, c)
      /\ \/ UNCHANGED timer
         \/ kind[c] = "async" /\ timer' = [timer EXCEPT ![c] = "armed"]
  BY DEF RunSend
<1>4. /\ \A d \in Ids : d # c => answers'[d] = answers[d] /\ timer'[d] = timer[d]
      /\ Len(answers'[c]) <= 1
  <2>1. Len(<<"not_connected">>) <= 1 /\ Len(<<>>) <= 1
    OBVIOUS
  <2>2. answers'[c] = <<>> \/ answers'[c] = <<"not_connected">>
    BY <1>2, <1>3 DEF TypeOK, Complete
  <2>3. Len(answers'[c]) <= 1
    BY <2>1, <2>2, Zenon
  <2>4. ASSUME NEW d \in Ids, d # c PROVE answers'[d] = answers[d]
    BY <1>3, <2>4 DEF TypeOK, Complete
  <2>5. ASSUME NEW d \in Ids, d # c PROVE timer'[d] = timer[d]
    BY <1>3, <2>5 DEF TypeOK
  <2>6. QED
    BY <2>3, <2>4, <2>5
<1>5. reqs' \subseteq reqs \cup {c} /\ (c \in reqs' => kind[c] \in {"sync", "strand", "async"})
  <2>1. kind[c] \in {"sync", "strand", "async", "oneway"}
    BY <1>1 DEF TypeOK
  <2>2. QED
    BY <1>2, <1>3, <2>1 DEF Left
<1>6. timer'[c] # timer[c] => kind[c] = "async"
  BY <1>3
<1>7. Unmade' /\ Asked' /\ EraseFollows' /\ KindOfTimer'
  <2>1. \A d \in Ids : d # c => answers'[d] = answers[d] /\ timer'[d] = timer[d]
    BY <1>4
  <2>2. reqs' \subseteq reqs \cup (IF "send" = "send" THEN {c} ELSE {})
    BY <1>5
  <2>3. QED
    BY <1>1, <1>6, <2>1, <2>2, AfterRun
<1>8. AnsweredOnce'
  BY <1>4 DEF IInv, AnsweredOnce
<1>9. KindOfEntry'
  BY <1>1, <1>5 DEF IInv, KindOfEntry
\* The callback of c, if any, is the only one.
<1>10. Running' /\ (c \in reqs' /\ answers'[c] # <<>> => stack' = <<Callback(c)>>)
  <2>1. Unanswered
    BY <1>1, NoAnswer
  <2>2. \A d \in reqs' : d # c => answers'[d] = <<>>
    BY <1>4, <1>5, <2>1 DEF Unanswered, TypeOK
  <2>3. c \in reqs' /\ answers'[c] # <<>> => kind[c] = "async" /\ stack' = <<Callback(c)>> \o <<>>
    BY <1>2, <1>3 DEF Complete, Left
  <2>4. <<Callback(c)>> \o <<>> = <<Callback(c)>> /\ <<Callback(c)>> # <<>> /\ <<Callback(c)>>[1] = Callback(c)
    BY ConcatEmptySeq, EmptySeq
  <2>5. QED
    BY <1>1, <2>2, <2>3, <2>4 DEF Running
<1>11. EntryHasOwner'
  <2>1. SUFFICES ASSUME NEW d \in reqs'
        PROVE  \/ kind'[d] = "async" /\ timer'[d] # "idle"
               \/ thread'[d] = "waiting"
               \/ \E i \in DOMAIN posted' : posted'[i] = Task("erase", d)
               \/ \E i \in DOMAIN stack' : stack'[i] = Callback(d)
    BY DEF EntryHasOwner
  <2>2. CASE d # c
    BY <1>1, <1>4, <1>5, <2>2, OwnersStay
  <2>3. CASE d = c /\ kind[c] = "async"
    <3>1. CASE UNCHANGED <<answers, stack>>
      <4>1. timer'[c] # "idle"
        BY <1>2, <2>1, <2>3, <3>1 DEF RunSend, TypeOK, Complete
      <4>2. QED
        BY <1>1, <2>3, <4>1
    <3>2. CASE Complete(c, "not_connected", <<>>)
      <4>1. answers'[c] # <<>>
        BY <1>2, <3>2, EmptySeq DEF Complete, TypeOK
      <4>2. stack' = <<Callback(c)>>
        BY <1>10, <2>1, <2>3, <4>1
      <4>3. 1 \in DOMAIN stack' /\ stack'[1] = Callback(c)
        BY <4>2
      <4>4. QED
        BY <2>3, <4>3
    <3>3. QED
      BY <1>3, <3>1, <3>2
  <2>4. CASE d = c /\ kind[c] # "async"
    <3>1. kind[c] = "strand" \/ kind[c] = "sync"
      BY <1>5, <2>1, <2>4
    <3>2. CASE kind[c] = "sync" /\ thread[c] = "waiting"
      BY <1>1, <2>4, <3>2
    <3>3. CASE kind[c] = "strand" \/ (kind[c] = "sync" /\ thread[c] # "waiting")
      <4>1. PICK j \in DOMAIN posted : j > 1 /\ posted[j] = Task("erase", c)
        BY <1>1, <3>3, Parts DEF IInv, EraseFollows
      <4>2. j # 1
        BY <4>1
      <4>3. QED
        BY <1>1, <2>4, <4>1, <4>2, MovesUp
    <3>4. QED
      BY <3>1, <3>2, <3>3
  <2>5. QED
    BY <2>2, <2>3, <2>4
<1>12. QED
  BY <1>7, <1>8, <1>9, <1>10, <1>11 DEF IInv

\* The other handlers of the strand.
LEMMA RunEraseStep == ASSUME TypeOK, IInv, NEW c \in Ids, RunErase(c) PROVE IInv'
<1> USE DEF caller
<1>1. /\ Runs("erase", c) /\ stack = <<>> /\ reqs' = reqs \ {c}
      /\ UNCHANGED <<kind, thread, answers, timer, stack>>
  BY MovesUp DEF RunErase
<1>2. Unmade' /\ Asked' /\ EraseFollows' /\ KindOfTimer'
  BY <1>1, AfterRun
<1>3. EntryHasOwner'
  <2>1. \A d \in reqs' : d \in reqs /\ d # c
    BY <1>1
  <2>2. \A d \in Ids : d # c => timer'[d] = timer[d]
    BY <1>1
  <2>3. QED
    BY <1>1, <2>1, <2>2, OwnersStay DEF EntryHasOwner
<1>4. AnsweredOnce' /\ Running' /\ KindOfEntry'
  BY <1>1 DEF IInv, AnsweredOnce, Running, KindOfEntry
<1>5. QED
  BY <1>2, <1>3, <1>4 DEF IInv

LEMMA RunFailStep == ASSUME TypeOK, IInv, NEW c \in Ids, RunFail(c) PROVE IInv'
<1> USE DEF caller
<1>1. /\ Runs("fail", c) /\ stack = <<>> /\ 1 \in DOMAIN posted /\ posted[1] = Task("fail", c)
      /\ Complete(c, "not_connected", <<>>)
      /\ UNCHANGED <<kind, thread, reqs, timer>>
  BY MovesUp DEF RunFail
<1>2. answers[c] = <<>> /\ c \notin reqs
  BY <1>1, Parts DEF IInv, Asked, Asks
<1>3. answers'[c] = <<"not_connected">> /\ \A d \in Ids : d # c => answers'[d] = answers[d]
  BY <1>1, <1>2 DEF TypeOK, Complete
<1>4. Unmade' /\ Asked' /\ EraseFollows' /\ KindOfTimer'
  <2>1. \A d \in Ids : d # c => answers'[d] = answers[d] /\ timer'[d] = timer[d]
    BY <1>1, <1>3
  <2>2. QED
    BY <1>1, <2>1, AfterRun
<1>5. EntryHasOwner'
  <2>1. \A d \in reqs' : d \in reqs /\ d # c
    BY <1>1, <1>2
  <2>2. QED
    BY <1>1, <2>1, OwnersStay DEF EntryHasOwner
<1>6. AnsweredOnce'
  <2>1. Len(<<"not_connected">>) <= 1
    OBVIOUS
  <2>2. Len(answers'[c]) <= 1
    BY <1>3, <2>1, Zenon
  <2>3. QED
    BY <1>3, <2>2 DEF IInv, AnsweredOnce
<1>7. Running' /\ KindOfEntry'
  <2>1. Unanswered
    BY <1>1, NoAnswer
  <2>2. \A d \in reqs' : d \in Ids /\ d # c /\ answers'[d] = <<>>
    BY <1>1, <1>2, <1>3, <2>1 DEF Unanswered, TypeOK
  <2>3. QED
    BY <1>1, <2>2 DEF IInv, Running, KindOfEntry
<1>8. QED
  BY <1>4, <1>5, <1>6, <1>7 DEF IInv

LEMMA HandleTimerStep == ASSUME TypeOK, IInv, NEW c \in Ids, HandleTimer(c) PROVE IInv'
<1> USE DEF caller
<1>1. /\ stack = <<>> /\ timer' = [timer EXCEPT ![c] = "idle"] /\ kind[c] = "async"
      /\ UNCHANGED <<kind, thread, reqs, posted>>
  BY DEF HandleTimer, Idle, IInv, KindOfTimer
<1>2. CASE c \in reqs
  <2>1. Unanswered
    BY <1>1, NoAnswer
  <2>2. reqs' = Left(reqs, c) /\ Complete(c, "timed_out", <<>>)
    BY <1>1, <1>2 DEF Left, HandleTimer
  <2>3. "timed_out" \in Outcomes /\ <<>> \in Seq(Frames)
    BY DEF Outcomes
  <2>4. QED
    BY <1>1, <1>2, <2>1, <2>2, <2>3, Answering
<1>3. CASE c \notin reqs
  <2>1. UNCHANGED <<answers, stack>> /\ \A d \in reqs : timer'[d] = timer[d]
    BY <1>1, <1>3 DEF HandleTimer, TypeOK
  <2>2. \A d \in Ids : timer'[d] # "idle" => timer[d] # "idle"
    BY <1>1 DEF TypeOK
  <2>3. \A d \in Ids : timer[d] = "idle" => timer'[d] = "idle"
    BY <1>1 DEF TypeOK
  <2>4. EntryHasOwner'
    BY <1>1, <2>1 DEF IInv, EntryHasOwner
  <2>5. AnsweredOnce' /\ Unmade' /\ Asked' /\ Running' /\ KindOfEntry' /\ KindOfTimer' /\ EraseFollows'
    BY <1>1, <2>1, <2>2, <2>3
       DEF IInv, AnsweredOnce, Unmade, Asked, Running, KindOfEntry, KindOfTimer, EraseFollows
  <2>6. QED
    BY <2>4, <2>5 DEF IInv
<1>4. QED
  BY <1>2, <1>3

LEMMA HandleResponseStep == ASSUME TypeOK, IInv, HandleResponse PROVE IInv'
<1> USE DEF caller, table
<1>1. PICK r \in responses :
        /\ r.c \in reqs => /\ Complete(r.c, r.outcome, <<>>)
                           /\ timer' = Cancelled(r.c)
                           /\ reqs' = Left(reqs, r.c)
        /\ r.c \notin reqs => UNCHANGED <<table, stack>>
  BY DEF HandleResponse
<1>2. stack = <<>> /\ UNCHANGED <<kind, thread, posted>> /\ Unanswered
  BY NoAnswer DEF HandleResponse, Idle
<1>3. CASE r.c \in reqs
  <2>1. r.outcome \in Outcomes /\ <<>> \in Seq(Frames)
    BY DEF Outcomes, TypeOK
  <2>2. QED
    BY <1>1, <1>2, <1>3, <2>1, Answering
<1>4. CASE r.c \notin reqs
  <2>1. CallbacksGoOn
    BY <1>1, <1>4 DEF CallbacksGoOn
  <2>2. QED
    BY <1>1, <1>2, <1>4, <2>1, FramesMove
<1>5. QED
  BY <1>3, <1>4

LEMMA HandleSentStep == ASSUME TypeOK, IInv, NEW c \in Ids, HandleSent(c) PROVE IInv'
<1> USE DEF caller, table
<1>1. stack = <<>> /\ UNCHANGED <<kind, thread, posted>> /\ Unanswered
  BY NoAnswer DEF HandleSent, Idle
<1>2. CASE UNCHANGED table
  <2>1. CallbacksGoOn
    BY <1>1 DEF CallbacksGoOn
  <2>2. QED
    BY <1>1, <1>2, <2>1, FramesMove
<1>3. CASE c \in reqs /\ Complete(c, "failed", <<Sent>>) /\ reqs' = Left(reqs, c) /\ timer' = Cancelled(c)
  <2>1. "failed" \in Outcomes /\ <<Sent>> \in Seq(Frames)
    BY Records DEF Outcomes
  <2>2. QED
    BY <1>1, <1>3, <2>1, Answering
<1>4. QED
  BY <1>2, <1>3 DEF HandleSent

\* A frame that is no callback returns, and the next event may begin.
LEMMA FrameReturns ==
  ASSUME TypeOK, IInv, stack # <<>>, stack[1].f # "callback",
         NEW queue, NextEvent(queue, Tail(stack)),
         UNCHANGED <<kind, thread, answers, reqs, timer, posted>>
  PROVE  IInv'
<1>1. stack \in Seq(Frames) /\ Tail(stack) \in Seq(Frames)
  BY HeadTailProperties DEF TypeOK, Frames
<1>2. stack' = Tail(stack) \/ stack' = <<Drain>> \o Tail(stack)
  BY DEF NextEvent
<1>3. CallbacksGoOn
  <2>1. SUFFICES ASSUME NEW c \in Ids, NEW i \in DOMAIN stack, stack[i] = Callback(c)
        PROVE  \E j \in DOMAIN stack' : stack'[j] = Callback(c)
    BY DEF CallbacksGoOn
  <2>2. i # 1
    BY <2>1, Parts
  <2>3. i \in Nat /\ i - 1 \in DOMAIN Tail(stack) /\ Tail(stack)[i - 1] = stack[i]
    BY <1>1, <2>2, Uncons, LenProperties
  <2>4. CASE stack' = <<Drain>> \o Tail(stack)
    <3>1. i \in DOMAIN stack' /\ stack'[i] = Tail(stack)[i - 1]
      BY <1>1, <2>3, <2>4, Records, Cons, LenProperties
    <3>2. QED
      BY <2>1, <2>3, <3>1
  <2>5. QED
    BY <1>2, <2>1, <2>3, <2>4
<1>4. Unanswered
  BY NoAnswer
<1>5. QED
  BY <1>3, <1>4, FramesMove

LEMMA SentReturnsStep == ASSUME TypeOK, IInv, SentReturns \/ Close PROVE IInv'
<1>1. stack # <<>> /\ stack[1].f # "callback"
  BY DEF SentReturns, Close, InFrame, Idle
<1>2. UNCHANGED <<kind, thread, answers, reqs, timer, posted>>
  BY DEF SentReturns, Close, caller, table
<1>3. \E queue : NextEvent(queue, Tail(stack))
  BY DEF SentReturns, Close
<1>4. QED
  BY <1>1, <1>2, <1>3, FrameReturns

LEMMA DrainNextStep == ASSUME TypeOK, IInv, DrainNext PROVE IInv'
<1>1. PICK c \in reqs : Complete(c, "aborted", stack) /\ timer' = Cancelled(c) /\ reqs' = Left(reqs, c)
  BY DEF DrainNext
<1>2. stack \in Seq(Frames) /\ "aborted" \in Outcomes
  BY DEF TypeOK, Frames, Outcomes
<1>3. Unanswered /\ UNCHANGED <<kind, thread, posted>>
  BY NoAnswer DEF DrainNext, InFrame, Idle, caller
<1>4. QED
  BY <1>1, <1>2, <1>3, Answering

LEMMA LoseConnectionStep == ASSUME TypeOK, IInv, LoseConnection PROVE IInv'
<1>1. stack = <<>> /\ UNCHANGED <<kind, thread, answers, reqs, timer, posted>>
  BY DEF LoseConnection, Idle, caller, table
<1>2. CallbacksGoOn /\ Unanswered
  BY <1>1, NoAnswer DEF CallbacksGoOn
<1>3. QED
  BY <1>1, <1>2, FramesMove

\* A callback stops the client: its event waits, or the loop over reqs_ starts
\* on top of a callback that has no entry.
LEMMA CallbackCallsStopStep == ASSUME TypeOK, IInv, ~Reenters, CallbackCallsStop PROVE IInv'
<1>1. /\ stack # <<>> /\ stack' \in {stack, <<Drain>> \o stack} /\ (events # <<>> => stack' = stack)
      /\ UNCHANGED <<kind, thread, answers, reqs, timer, posted>>
  BY DEF CallbackCallsStop, PushDisconnect, InFrame, Idle, caller, table
<1>2. CASE events # <<>>
  BY <1>1, <1>2 DEF IInv, AnsweredOnce, EntryHasOwner, Unmade, Asked, Running, KindOfEntry, KindOfTimer,
                    EraseFollows
<1>3. CASE events = <<>>
  <2>1. Unanswered
    BY <1>3, Parts DEF Reenters, IInv, Running, Unanswered
  <2>2. stack \in Seq(Frames) /\ Drain \in Frames
    BY Records DEF TypeOK, Frames
  <2>3. CallbacksGoOn
    BY <1>1, <2>2, Cons, LenProperties DEF CallbacksGoOn
  <2>4. QED
    BY <1>1, <2>1, <2>3, FramesMove
<1>4. QED
  BY <1>2, <1>3

\* The callback that runs is the one at the top.
LEMMA CallbackReturnsStep == ASSUME TypeOK, IInv, CallbackReturns PROVE IInv'
<1> USE DEF caller
<1>1. /\ stack # <<>> /\ stack' = Tail(stack) /\ reqs' = reqs \ {stack[1].c}
      /\ UNCHANGED <<kind, thread, answers, timer, posted>>
  BY DEF CallbackReturns, InFrame, Idle
<1>2. stack \in Seq(Frames) /\ 1 \in DOMAIN stack
  BY <1>1, EmptySeq DEF TypeOK, Frames
<1>3. \A d \in reqs' : answers'[d] = <<>>
  BY <1>1, Parts DEF IInv, Running
<1>4. EntryHasOwner'
  <2>1. SUFFICES ASSUME NEW d \in reqs', NEW i \in DOMAIN stack, stack[i] = Callback(d)
        PROVE  \E j \in DOMAIN stack' : stack'[j] = Callback(d)
    BY <1>1 DEF IInv, EntryHasOwner
  <2>2. i # 1
    BY <1>1, <2>1, Parts
  <2>3. i - 1 \in DOMAIN stack' /\ stack'[i - 1] = stack[i]
    BY <1>1, <1>2, <2>2, Uncons, LenProperties
  <2>4. QED
    BY <2>1, <2>3
<1>5. Running'
  BY <1>3 DEF Running
<1>6. AnsweredOnce' /\ Unmade' /\ Asked' /\ KindOfEntry' /\ KindOfTimer' /\ EraseFollows'
  BY <1>1 DEF IInv, AnsweredOnce, Unmade, Asked, KindOfEntry, KindOfTimer, EraseFollows
<1>7. QED
  BY <1>4, <1>5, <1>6 DEF IInv

\* A new request: what it posts is about itself alone, asks for one answer, and
\* has an erase behind it when nobody waits.
LEMMA Calling ==
  ASSUME TypeOK, IInv, NEW c \in Ids, NEW k \in {"sync", "strand", "async", "oneway"}, Makes(c, k),
         NEW ts \in Seq(Tasks), posted' = posted \o ts,
         \A i \in DOMAIN ts : ts[i].c = c,
         \A i, j \in DOMAIN ts : Asks(ts[i]) /\ Asks(ts[j]) => i = j,
         \A i \in DOMAIN ts :
           ts[i].t = "send" /\ (k = "strand" \/ (k = "sync" /\ thread'[c] # "waiting"))
             => \E j \in DOMAIN ts : j > i /\ ts[j] = Task("erase", c),
         \A d \in Ids : d # c => thread'[d] = thread[d],
         UNCHANGED <<answers, reqs, timer, stack>>
  PROVE  IInv'
<1>1. kind[c] = "-" /\ kind'[c] = k /\ \A d \in Ids : d # c => kind'[d] = kind[d]
  BY DEF Makes, Fresh, TypeOK
<1>2. answers[c] = <<>> /\ c \notin reqs /\ timer[c] = "idle" /\ \A i \in DOMAIN posted : posted[i].c # c
  BY <1>1 DEF IInv, Unmade
<1>3. /\ \A i \in DOMAIN posted : i \in DOMAIN posted' /\ posted'[i] = posted[i]
      /\ \A i \in DOMAIN ts : Len(posted) + i \in DOMAIN posted' /\ posted'[Len(posted) + i] = ts[i]
      /\ \A i \in DOMAIN posted' : \/ i \in DOMAIN posted /\ posted'[i] = posted[i]
                                  \/ \E j \in DOMAIN ts : i = Len(posted) + j /\ posted'[i] = ts[j]
      /\ Len(posted) \in Nat
  BY PostedBehind
<1>4. \A i \in DOMAIN ts : i \in Nat
  BY LenProperties
<1>5. reqs \subseteq Ids /\ \A d \in reqs : d # c
  BY <1>2 DEF TypeOK
<1>6. AnsweredOnce'
  BY DEF IInv, AnsweredOnce
<1>7. EntryHasOwner'
  BY <1>1, <1>3, <1>5 DEF IInv, EntryHasOwner
<1>8. Unmade'
  BY <1>1, <1>3 DEF IInv, Unmade
<1>9. Asked'
  <2>1. SUFFICES ASSUME NEW i \in DOMAIN posted', Asks(posted'[i])
        PROVE  /\ answers'[posted'[i].c] = <<>> /\ posted'[i].c \notin reqs'
               /\ \A j \in DOMAIN posted' : Asks(posted'[j]) /\ posted'[j].c = posted'[i].c => j = i
    BY DEF Asked
  <2>2. CASE i \in DOMAIN posted /\ posted'[i] = posted[i]
    BY <1>2, <1>3, <2>1, <2>2 DEF IInv, Asked
  <2>3. CASE \E j \in DOMAIN ts : i = Len(posted) + j /\ posted'[i] = ts[j]
    BY <1>2, <1>3, <2>1, <2>3
  <2>4. QED
    BY <1>3, <2>2, <2>3
<1>10. Running'
  BY <1>1, <1>5 DEF IInv, Running
<1>11. KindOfEntry' /\ KindOfTimer'
  BY <1>1, <1>2, <1>5 DEF IInv, KindOfEntry, KindOfTimer
<1>12. EraseFollows'
  <2>1. SUFFICES ASSUME NEW i \in DOMAIN posted', NEW d, d = posted'[i].c, posted'[i].t = "send",
                        kind'[d] = "strand" \/ (kind'[d] = "sync" /\ thread'[d] # "waiting")
        PROVE  \E j \in DOMAIN posted' : j > i /\ posted'[j] = Task("erase", d)
    BY DEF EraseFollows
  <2>2. CASE i \in DOMAIN posted /\ posted'[i] = posted[i]
    <3>1. d # c /\ d \in Ids
      BY <1>2, <2>1, <2>2, PostedIds
    <3>2. PICK j \in DOMAIN posted : j > i /\ posted[j] = Task("erase", d)
      BY <1>1, <2>1, <2>2, <3>1 DEF IInv, EraseFollows
    <3>3. QED
      BY <1>3, <3>2
  <2>3. CASE \E j \in DOMAIN ts : i = Len(posted) + j /\ posted'[i] = ts[j]
    <3>1. PICK j \in DOMAIN ts : i = Len(posted) + j /\ posted'[i] = ts[j]
      BY <2>3
    <3>2. d = c
      BY <2>1, <3>1
    <3>3. PICK l \in DOMAIN ts : l > j /\ ts[l] = Task("erase", c)
      BY <1>1, <2>1, <3>1, <3>2
    <3>4. Len(posted) + l > i
      BY <1>3, <1>4, <3>1, <3>3
    <3>5. QED
      BY <1>3, <3>2, <3>3, <3>4
  <2>4. QED
    BY <1>3, <2>2, <2>3
<1>13. QED
  BY <1>6, <1>7, <1>8, <1>9, <1>10, <1>11, <1>12 DEF IInv

\* A call that posts nothing, and one that posts its first handler alone.
LEMMA CallingNone ==
  ASSUME TypeOK, IInv, NEW c \in Ids, NEW k \in {"sync", "strand", "async", "oneway"}, Makes(c, k),
         \A d \in Ids : d # c => thread'[d] = thread[d],
         UNCHANGED <<answers, reqs, timer, stack, posted>>
  PROVE  IInv'
<1>1. posted' = posted \o <<>> /\ <<>> \in Seq(Tasks)
  BY ConcatEmptySeq DEF TypeOK, Tasks
<1>2. DOMAIN <<>> = {}
  BY EmptySeq
<1>3. QED
  BY <1>1, <1>2, Calling

LEMMA CallingOne ==
  ASSUME TypeOK, IInv, NEW c \in Ids, NEW k \in {"sync", "async", "oneway"}, Makes(c, k),
         NEW t \in {"send", "fail"}, posted' = posted \o <<Task(t, c)>>,
         k = "sync" => thread'[c] = "waiting",
         \A d \in Ids : d # c => thread'[d] = thread[d],
         UNCHANGED <<answers, reqs, timer, stack>>
  PROVE  IInv'
<1> DEFINE ts == <<Task(t, c)>>
<1>1. ts \in Seq(Tasks)
  BY Records
<1>2. \A i \in DOMAIN ts : i = 1 /\ ts[i] = Task(t, c)
  OBVIOUS
<1>3. \A i \in DOMAIN ts : ts[i].c = c
  BY <1>2, Parts
<1>4. \A i, j \in DOMAIN ts : i = j
  BY <1>2
<1>5. ~(k = "strand" \/ (k = "sync" /\ thread'[c] # "waiting"))
  OBVIOUS
<1>6. posted' = posted \o ts
  OBVIOUS
<1> HIDE DEF ts
<1>7. QED
  BY <1>1, <1>3, <1>4, <1>5, <1>6, Calling

\* The four ways to call.
LEMMA CallsStep == ASSUME TypeOK, IInv, NEW c \in Ids, Calls(c) PROVE IInv'
<1> USE DEF table, strand
<1>1. \A r : Returns(c, r) => \A d \in Ids : d # c => thread'[d] = thread[d]
  BY DEF Returns, TypeOK
<1>2. \A r : Returns(c, r) => thread'[c] = r
  BY DEF Returns, TypeOK
<1>3. CASE CallSync(c)
  <2>1. CASE IsStarted
    <3>1. Makes(c, "sync") /\ thread'[c] = "waiting" /\ UNCHANGED <<answers, reqs, timer, stack>>
          /\ (\A d \in Ids : d # c => thread'[d] = thread[d]) /\ posted' = posted \o <<Task("send", c)>>
      BY <1>1, <1>2, <1>3, <2>1 DEF CallSync, Posts
    <3>2. QED
      BY <3>1, CallingOne
  <2>2. CASE ~IsStarted
    BY <1>1, <1>3, <2>2, CallingNone DEF CallSync
  <2>3. QED
    BY <2>1, <2>2
<1>4. CASE CallOnStrand(c)
  <2>1. CASE IsStarted
    <3> DEFINE two == <<Task("send", c), Task("erase", c)>>
    <3>1. two \in Seq(Tasks)
      BY Records
    <3>2. DOMAIN two = {1, 2} /\ two[1] = Task("send", c) /\ two[2] = Task("erase", c)
      OBVIOUS
    <3>3. posted' = posted \o two /\ Makes(c, "strand") /\ UNCHANGED <<answers, reqs, timer, stack>>
          /\ \A d \in Ids : d # c => thread'[d] = thread[d]
      BY <1>1, <1>4, <2>1 DEF CallOnStrand, Posts
    <3> HIDE DEF two
    <3>4. \A i, j \in DOMAIN two : Asks(two[i]) /\ Asks(two[j]) => i = j
      BY <3>2, Parts DEF Asks
    <3>5. \A i \in DOMAIN two : two[i].c = c
      BY <3>2, Parts
    <3>6. \A i \in DOMAIN two : two[i].t = "send" => \E j \in DOMAIN two : j > i /\ two[j] = Task("erase", c)
      <4>1. two[2].t # "send"
        BY <3>2, Parts
      <4>2. QED
        BY <3>2, <4>1
    <3>7. QED
      BY <3>1, <3>3, <3>4, <3>5, <3>6, Calling
  <2>2. CASE ~IsStarted
    BY <1>1, <1>4, <2>2, CallingNone DEF CallOnStrand
  <2>3. QED
    BY <2>1, <2>2
<1>5. CASE CallAsync(c)
  <2>1. PICK t \in {"send", "fail"} : posted' = posted \o <<Task(t, c)>>
    BY <1>5 DEF CallAsync, Posts
  <2>2. Makes(c, "async") /\ UNCHANGED <<thread, answers, reqs, timer, stack>>
    BY <1>5 DEF CallAsync, Posts
  <2>3. QED
    BY <2>1, <2>2, CallingOne
<1>6. CASE CallOneway(c)
  <2>1. posted' = posted \o <<Task("send", c)>> \/ UNCHANGED posted
    BY <1>6 DEF CallOneway, Posts
  <2>2. Makes(c, "oneway") /\ UNCHANGED <<thread, answers, reqs, timer, stack>>
    BY <1>6 DEF CallOneway, Posts
  <2>3. CASE UNCHANGED posted
    BY <2>2, <2>3, CallingNone
  <2>4. CASE posted' = posted \o <<Task("send", c)>>
    BY <2>2, <2>4, CallingOne
  <2>5. QED
    BY <2>1, <2>3, <2>4
<1>7. QED
  BY <1>3, <1>4, <1>5, <1>6 DEF Calls

\* A caller that waits gives up, and posts its erase.
LEMMA WaitTimesOutStep == ASSUME TypeOK, IInv, NEW c \in Ids, WaitTimesOut(c) PROVE IInv'
<1> USE DEF table
<1>1. /\ posted' = posted \o <<Task("erase", c)>> /\ UNCHANGED <<kind, answers, reqs, timer, stack>>
      /\ \A d \in Ids : d # c => thread'[d] = thread[d]
      /\ thread[c] = "waiting"
  BY DEF WaitTimesOut, Posts, Returns, TypeOK
<1> DEFINE last == Len(posted) + 1
<1>2. /\ \A i \in DOMAIN posted : i \in DOMAIN posted' /\ posted'[i] = posted[i] /\ i \in Nat /\ i < last
      /\ last \in DOMAIN posted' /\ posted'[last] = Task("erase", c)
      /\ \A i \in DOMAIN posted' : i \in DOMAIN posted \/ i = last
  <2> DEFINE ts == <<Task("erase", c)>>
  <2>1. ts \in Seq(Tasks) /\ posted' = posted \o ts
    BY <1>1, Records
  <2>2. DOMAIN ts = {1} /\ ts[1] = Task("erase", c)
    OBVIOUS
  <2> HIDE DEF ts
  <2>3. posted \in Seq(Tasks)
    BY DEF TypeOK, Tasks
  <2>4. \A i \in DOMAIN posted : i \in Nat /\ i < last
    BY <2>3, LenProperties
  <2>5. QED
    BY <2>1, <2>2, <2>4, PostedBehind, SMTT(20), ZenonT(20)
<1> HIDE DEF last
<1>3. ~Asks(posted'[last]) /\ posted'[last].c = c /\ posted'[last].t # "send"
  BY <1>2, Parts DEF Asks
<1>4. kind[c] # "-"
  BY <1>1 DEF IInv, Unmade
<1>5. EntryHasOwner'
  <2>1. SUFFICES ASSUME NEW d \in reqs'
        PROVE  \/ kind'[d] = "async" /\ timer'[d] # "idle"
               \/ thread'[d] = "waiting"
               \/ \E i \in DOMAIN posted' : posted'[i] = Task("erase", d)
               \/ \E i \in DOMAIN stack' : stack'[i] = Callback(d)
    BY DEF EntryHasOwner
  <2>2. d \in Ids /\ d \in reqs
    BY <1>1 DEF TypeOK
  <2>3. CASE d = c
    BY <1>2, <2>3
  <2>4. CASE d # c
    BY <1>1, <1>2, <2>2, <2>4 DEF IInv, EntryHasOwner
  <2>5. QED
    BY <2>3, <2>4
<1>6. EraseFollows'
  <2>1. SUFFICES ASSUME NEW i \in DOMAIN posted', NEW d, d = posted'[i].c, posted'[i].t = "send",
                        kind'[d] = "strand" \/ (kind'[d] = "sync" /\ thread'[d] # "waiting")
        PROVE  \E j \in DOMAIN posted' : j > i /\ posted'[j] = Task("erase", d)
    BY DEF EraseFollows
  <2>2. i \in DOMAIN posted /\ posted'[i] = posted[i] /\ d \in Ids
    BY <1>2, <1>3, <2>1, PostedIds
  <2>3. CASE d = c
    BY <1>2, <2>2, <2>3
  <2>4. CASE d # c
    <3>1. PICK j \in DOMAIN posted : j > i /\ posted[j] = Task("erase", d)
      BY <1>1, <2>1, <2>2, <2>4 DEF IInv, EraseFollows
    <3>2. QED
      BY <1>2, <3>1
  <2>5. QED
    BY <2>3, <2>4
<1>7. Asked'
  BY <1>1, <1>2, <1>3 DEF IInv, Asked
<1>8. Unmade'
  BY <1>1, <1>2, <1>3, <1>4 DEF IInv, Unmade
<1>9. AnsweredOnce' /\ Running' /\ KindOfEntry' /\ KindOfTimer'
  BY <1>1 DEF IInv, AnsweredOnce, Running, KindOfEntry, KindOfTimer
<1>10. QED
  BY <1>5, <1>6, <1>7, <1>8, <1>9 DEF IInv

\* A caller that waits has its promise: it was taken out of reqs_, and no
\* handler of its own is posted.
LEMMA WaitEndsStep == ASSUME TypeOK, IInv, NEW c \in Ids, WaitEnds(c) PROVE IInv'
<1> USE DEF table, strand
<1>1. /\ UNCHANGED <<kind, answers, reqs, timer, stack, posted>>
      /\ \A d \in Ids : d # c => thread'[d] = thread[d]
      /\ thread[c] = "waiting" /\ answers[c] # <<>>
  BY DEF WaitEnds, Returns, TypeOK
<1>2. kind[c] # "-" /\ \A i \in DOMAIN posted : Asks(posted[i]) => posted[i].c # c
  BY <1>1 DEF IInv, Unmade, Asked
<1>3. EntryHasOwner'
  <2>1. SUFFICES ASSUME NEW d \in reqs'
        PROVE  \/ kind'[d] = "async" /\ timer'[d] # "idle"
               \/ thread'[d] = "waiting"
               \/ \E i \in DOMAIN posted' : posted'[i] = Task("erase", d)
               \/ \E i \in DOMAIN stack' : stack'[i] = Callback(d)
    BY DEF EntryHasOwner
  <2>2. d \in Ids /\ d \in reqs
    BY <1>1 DEF TypeOK
  <2>3. CASE d = c
    <3>1. stack # <<>> /\ stack[1] = Callback(c) /\ stack \in Seq(Frames)
      BY <1>1, <2>2, <2>3 DEF IInv, Running, TypeOK, Frames
    <3>2. 1 \in DOMAIN stack
      BY <3>1, EmptySeq
    <3>3. QED
      BY <1>1, <2>3, <3>1, <3>2
  <2>4. CASE d # c
    BY <1>1, <2>2, <2>4 DEF IInv, EntryHasOwner
  <2>5. QED
    BY <2>3, <2>4
<1>4. EraseFollows'
  <2>1. \A i \in DOMAIN posted : posted[i].t = "send" => posted[i].c \in Ids /\ posted[i].c # c
    BY <1>2, PostedIds DEF Asks
  <2>2. QED
    BY <1>1, <2>1 DEF IInv, EraseFollows
<1>5. AnsweredOnce' /\ Unmade' /\ Asked' /\ Running' /\ KindOfEntry' /\ KindOfTimer'
  BY <1>1, <1>2 DEF IInv, AnsweredOnce, Unmade, Asked, Running, KindOfEntry, KindOfTimer
<1>6. QED
  BY <1>3, <1>4, <1>5 DEF IInv

\* A clock.
LEMMA TimerExpiresStep == ASSUME TypeOK, IInv, NEW c \in Ids, TimerExpires(c) PROVE IInv'
<1> USE DEF strand, caller
<1>1. /\ UNCHANGED <<kind, thread, answers, reqs, stack, posted>>
      /\ \A d \in Ids : timer[d] = "idle" <=> timer'[d] = "idle"
  BY DEF TimerExpires, TypeOK
<1>2. reqs \subseteq Ids
  BY DEF TypeOK
<1>3. EntryHasOwner'
  BY <1>1, <1>2 DEF IInv, EntryHasOwner
<1>4. AnsweredOnce' /\ Unmade' /\ Asked' /\ Running' /\ KindOfEntry' /\ KindOfTimer' /\ EraseFollows'
  BY <1>1 DEF IInv, AnsweredOnce, Unmade, Asked, Running, KindOfEntry, KindOfTimer, EraseFollows
<1>5. QED
  BY <1>3, <1>4 DEF IInv

\* What none of it depends on.
LEMMA Untouched ==
  ASSUME IInv, UNCHANGED <<kind, thread, answers, reqs, timer, posted, stack>>
  PROVE  IInv'
BY DEF IInv, AnsweredOnce, EntryHasOwner, Unmade, Asked, Running, KindOfEntry, KindOfTimer, EraseFollows

\* A step keeps the invariant, unless a callback stops the client where that
\* reenters the table.
LEMMA IInvStep == ASSUME ~CallbackStops, TypeOK, IInv, [Next]_vars PROVE IInv'
<1> USE DEF caller, table, strand, peer, link
<1>1. ASSUME NEW c \in Ids, Calls(c) \/ Waits(c) PROVE IInv'
  BY <1>1, CallsStep, WaitTimesOutStep, WaitEndsStep DEF Waits
<1>2. ASSUME NEW c \in Ids, Transmit(c) PROVE IInv'
  BY <1>2, Untouched DEF Transmit
<1>3. ASSUME NEW c \in Ids, TimerExpires(c) PROVE IInv'
  BY <1>3, TimerExpiresStep
<1>4. ASSUME NEW c \in Ids, RunSend(c) \/ RunErase(c) \/ RunFail(c) \/ HandleTimer(c) \/ HandleSent(c) PROVE IInv'
  BY <1>4, RunSendStep, RunEraseStep, RunFailStep, HandleTimerStep, HandleSentStep
<1>5. CASE HandleResponse \/ CallbackReturns \/ SentReturns \/ DrainNext \/ Close \/ LoseConnection
  BY <1>5, HandleResponseStep, CallbackReturnsStep, SentReturnsStep, DrainNextStep, LoseConnectionStep
<1>6. CASE CallbackCallsStop
  BY <1>6, CallbackCallsStopStep DEF CallbackCallsStop
<1>7. CASE Peer \/ Reconnect \/ UNCHANGED vars
  BY <1>7, Untouched DEF Peer, Serve, Finish, Reconnect, vars
<1>8. QED
  BY <1>1, <1>2, <1>3, <1>4, <1>5, <1>6, <1>7 DEF Next, StrandStep

LEMMA InitInvariant == Init => IInv
<1> SUFFICES ASSUME Init PROVE IInv
  OBVIOUS
<1>1. DOMAIN posted = {} /\ Len(<<>>) <= 1
  BY EmptySeq DEF Init
<1>2. QED
  BY <1>1 DEF Init, IInv, AnsweredOnce, EntryHasOwner, Unmade, Asked, Running, KindOfEntry, KindOfTimer,
              EraseFollows

LEMMA Inductive == ASSUME ~CallbackStops PROVE Spec => []IInv
<1>1. TypeOK /\ IInv /\ [Next]_vars => IInv'
  BY IInvStep
<1>2. QED
  BY <1>1, TypeCorrect, InitInvariant, PTL DEF Spec

\* As long as no callback stops the client while its own entry is in the table
\* and nothing is being written, whatever races - the response, the timeout,
\* the failed write, the end of the connection, other stops, a reconnection -
\* no call is answered twice (rpc_call_cp.hpp:137 and :358).
THEOREM AnsweredOnceHolds == ASSUME ~CallbackStops PROVE Spec => []AnsweredOnce
<1>1. IInv => AnsweredOnce
  BY DEF IInv
<1>2. QED
  BY <1>1, Inductive, PTL

\* And every entry of reqs_ has somebody who takes it out (rpc_call_cp.hpp:402).
THEOREM EntryHasOwnerHolds == ASSUME ~CallbackStops PROVE Spec => []EntryHasOwner
<1>1. IInv => EntryHasOwner
  BY DEF IInv
<1>2. QED
  BY <1>1, Inductive, PTL

-----------------------------------------------------------------------------
(* CallLife.  The request of a call goes from the posted handler to the     *)
(* event queue and from there to the peer, and is in one of these places    *)
(* only, so its function runs at most once.  A call that is told its        *)
(* request did not leave has none of it left: none is posted, the event at  *)
(* the front failed, none is on its way.  All this holds also when          *)
(* callbacks stop the client.                                               *)

\* A handler of c is posted; its first handler is.
Mentioned(c) == \E i \in DOMAIN posted : posted[i].c = c
Asking(c) == \E i \in DOMAIN posted : Asks(posted[i]) /\ posted[i].c = c
AskedOnce ==
  \A i, j \in DOMAIN posted : Asks(posted[i]) /\ Asks(posted[j]) /\ posted[i].c = posted[j].c => i = j

\* The request of c is in the event queue; it has not left; it may still leave.
InQueue(c) == \E i \in DOMAIN events : events[i] = Send(c)
Unwritten(c) == \E i \in DOMAIN events : events[i] = Send(c) /\ (i = 1 => write # "sent")
MayLeave(c) == \E i \in DOMAIN events : events[i] = Send(c) /\ (i = 1 => write # "failed")
QueuedOnce == \A c \in Ids : \A i, j \in DOMAIN events : events[i] = Send(c) /\ events[j] = Send(c) => i = j

\* Nothing of c left the client, or will.
Silent(c) == ran[c] = 0 /\ c \notin requests
Over(c) == Silent(c) /\ ~Asking(c) /\ ~MayLeave(c)

\* What the caller of c was told, or will be.
Told(c, o) == thread[c] = o \/ (answers[c] # <<>> /\ answers[c][1] = o)

\* The invariant, for one call.
Honest(c) ==
  /\ Asking(c) => ~InQueue(c) /\ Silent(c)
  /\ Unwritten(c) => Silent(c)
  /\ c \in requests => ran[c] = 0
  /\ c \in deferred => ran[c] = 1
  /\ Response(c, "ok") \in responses => ran[c] = 1
  /\ Told(c, "not_connected") \/ Told(c, "failed") => Over(c)
  /\ Told(c, "ok") => ran[c] = 1
  /\ kind[c] = "-" => /\ thread[c] = "-" /\ answers[c] = <<>> /\ c \notin reqs
                      /\ Silent(c) /\ ~InQueue(c) /\ ~Mentioned(c)
  /\ kind[c] \in {"sync", "strand"} => thread[c] # "-"

LifeInv == AskedOnce /\ QueuedOnce /\ \A c \in Ids : Honest(c)

\* What a step may do to a call without harm to its invariant.
LEMMA Keeps ==
  ASSUME NEW c \in Ids, Honest(c),
         Asking(c)' => Asking(c), InQueue(c)' => InQueue(c),
         Unwritten(c)' => Unwritten(c), MayLeave(c)' => MayLeave(c),
         c \in requests' => c \in requests, ran'[c] = ran[c], c \in deferred' => c \in deferred,
         Response(c, "ok") \in responses' => Response(c, "ok") \in responses \/ ran[c] = 1,
         Told(c, "not_connected")' \/ Told(c, "failed")' =>
           Told(c, "not_connected") \/ Told(c, "failed") \/ Over(c)',
         Told(c, "ok")' => Told(c, "ok") \/ ran[c] = 1,
         kind'[c] = kind[c],
         kind[c] = "-" => /\ thread'[c] = thread[c] /\ answers'[c] = answers[c] /\ c \notin reqs'
                          /\ Mentioned(c)' => Mentioned(c),
         thread'[c] = "-" => thread[c] = "-"
  PROVE  Honest(c)'
<1> HIDE DEF Asking, InQueue, Unwritten, MayLeave, Told, Mentioned
<1>1. Silent(c) => Silent(c)'
  BY DEF Silent
<1>2. Over(c) => Over(c)'
  BY <1>1 DEF Over
<1>3. /\ Asking(c)' => ~InQueue(c)' /\ Silent(c)'
      /\ Unwritten(c)' => Silent(c)'
      /\ c \in requests' => ran'[c] = 0
      /\ c \in deferred' => ran'[c] = 1
      /\ Response(c, "ok") \in responses' => ran'[c] = 1
  BY <1>1 DEF Honest
<1>4. /\ Told(c, "not_connected")' \/ Told(c, "failed")' => Over(c)'
      /\ Told(c, "ok")' => ran'[c] = 1
  BY <1>2 DEF Honest
<1>5. /\ kind'[c] = "-" => /\ thread'[c] = "-" /\ answers'[c] = <<>> /\ c \notin reqs'
                           /\ Silent(c)' /\ ~InQueue(c)' /\ ~Mentioned(c)'
      /\ kind'[c] \in {"sync", "strand"} => thread'[c] # "-"
  BY <1>1 DEF Honest
<1>6. Response(c, "ok")' = Response(c, "ok")
  BY DEF Response
<1>7. QED
  BY <1>3, <1>4, <1>5, <1>6 DEF Honest

\* The event queue: the first event leaves, or the others stay where they are.
Moves == \A i \in DOMAIN events', c \in Ids : events'[i] = Send(c) =>
           i \in Nat /\ i # 0 /\ i + 1 \in DOMAIN events /\ events[i + 1] = Send(c)
Stays == \A i \in DOMAIN events', c \in Ids : events'[i] = Send(c) =>
           i \in DOMAIN events /\ events[i] = Send(c)

QueueKept ==
  /\ QueuedOnce'
  /\ \A c \in Ids : /\ InQueue(c)' => InQueue(c) /\ (Unwritten(c)' => Unwritten(c))
                    /\ MayLeave(c)' => MayLeave(c)

LEMMA MovesKeeps == ASSUME QueuedOnce, Moves PROVE QueueKept
<1>1. QueuedOnce'
  <2>1. SUFFICES ASSUME NEW c \in Ids, NEW i \in DOMAIN events', NEW j \in DOMAIN events',
                        events'[i] = Send(c), events'[j] = Send(c)
                 PROVE  i = j
    BY DEF QueuedOnce, Send
  <2>2. i \in Nat /\ j \in Nat /\ i + 1 = j + 1
    BY <2>1 DEF Moves, QueuedOnce
  <2>3. QED
    BY <2>2
<1>2. ASSUME NEW c \in Ids, NEW i \in DOMAIN events', events'[i] = Send(c)
      PROVE  \E j \in DOMAIN events : events[j] = Send(c) /\ j # 1
  BY <1>2 DEF Moves
<1>3. \A c \in Ids : Send(c)' = Send(c)
  BY DEF Send
<1>4. QED
  BY <1>1, <1>2, <1>3 DEF QueueKept, InQueue, Unwritten, MayLeave

LEMMA StaysKeeps == ASSUME QueuedOnce, Stays, UNCHANGED write PROVE QueueKept
BY DEF QueuedOnce, Stays, QueueKept, InQueue, Unwritten, MayLeave, Send

LEMMA NoEventIsASend == \A c : Send(c) # Disconnect /\ Send(c).e = "send" /\ Send(c).c = c
BY DEF Send, Disconnect

LEMMA PushStays ==
  ASSUME TypeOK, NEW e \in Writes, events' = Append(events, e)
  PROVE  /\ DOMAIN events = 1 .. Len(events) /\ DOMAIN events' = 1 .. Len(events) + 1 /\ Len(events) \in Nat
         /\ \A i \in DOMAIN events : events'[i] = events[i]
         /\ events'[Len(events) + 1] = e
<1>1. events \in Seq(Writes)
  BY DEF TypeOK, Writes
<1>2. QED
  BY <1>1, AppendProperties, LenProperties

LEMMA DisconnectStays ==
  ASSUME TypeOK, events' = Append(events, Disconnect)
  PROVE  Stays
<1>1. Disconnect \in Writes
  BY Records
<1>2. \A i \in DOMAIN events' : i \in DOMAIN events \/ i = Len(events) + 1
  BY <1>1, PushStays
<1>3. QED
  BY <1>1, <1>2, PushStays, NoEventIsASend DEF Stays

LEMMA TailMoves ==
  ASSUME TypeOK, events # <<>>, events' = Tail(events)
  PROVE  Moves
<1>1. events \in Seq(Writes)
  BY DEF TypeOK, Writes
<1>2. /\ Len(events) \in Nat \ {0} /\ DOMAIN events = 1 .. Len(events)
      /\ DOMAIN events' = 1 .. Len(events) - 1
      /\ \A i \in 1 .. Len(events) - 1 : events'[i] = events[i + 1]
  BY <1>1, EmptySeq, LenProperties, HeadTailProperties
<1>3. QED
  BY <1>2 DEF Moves

\* The guard of the event at the front goes, also when a disconnect was pushed.
LEMMA NextMoves ==
  ASSUME TypeOK, NEW frames,
         \/ NextEvent(events, frames) /\ events # <<>>
         \/ NextEvent(Append(events, Disconnect), frames)
  PROVE  Moves
<1>1. CASE NextEvent(events, frames) /\ events # <<>>
  BY <1>1, TailMoves DEF NextEvent
<1>2. CASE NextEvent(Append(events, Disconnect), frames)
  <2> DEFINE q == Append(events, Disconnect)
  <2>1. events \in Seq(Writes) /\ Disconnect \in Writes
    BY Records DEF TypeOK, Writes
  <2>2. /\ q \in Seq(Writes) /\ Len(q) = Len(events) + 1 /\ q[Len(events) + 1] = Disconnect
        /\ Len(events) \in Nat /\ DOMAIN events = 1 .. Len(events)
        /\ \A i \in 1 .. Len(events) : q[i] = events[i]
    BY <2>1, AppendProperties, LenProperties
  <2> HIDE DEF q
  <2>3. /\ Tail(q) \in Seq(Writes) /\ Len(Tail(q)) = Len(events)
        /\ \A i \in 1 .. Len(events) : Tail(q)[i] = q[i + 1]
    BY <2>2, HeadTailProperties, EmptySeq
  <2>4. events' = Tail(q)
    BY <1>2 DEF NextEvent, q
  <2>5. DOMAIN events' = 1 .. Len(events)
    BY <2>3, <2>4, LenProperties
  <2>6. SUFFICES ASSUME NEW i \in 1 .. Len(events), NEW c \in Ids, events'[i] = Send(c)
                 PROVE  i + 1 \in DOMAIN events /\ events[i + 1] = Send(c)
    BY <2>2, <2>5 DEF Moves
  <2>7. q[i + 1] = Send(c) /\ i \in Nat
    BY <2>2, <2>3, <2>4, <2>6
  <2>8. i # Len(events)
    BY <2>2, <2>7, NoEventIsASend
  <2>9. i + 1 \in 1 .. Len(events)
    <3>1. Len(events) \in Nat /\ i \in 1 .. Len(events)
      BY <2>2, <2>6
    <3>2. QED
      BY <3>1, <2>8
  <2>10. QED
    BY <2>2, <2>7, <2>9
<1>3. QED
  BY <1>1, <1>2

\* The posted handlers: nothing asks that did not, nothing comes.
AskedKept ==
  /\ AskedOnce'
  /\ \A c \in Ids : (Asking(c)' => Asking(c)) /\ (Mentioned(c)' => Mentioned(c))

LEMMA RunsKeeps ==
  ASSUME TypeOK, AskedOnce, NEW c \in Ids, NEW t, Runs(t, c)
  PROVE  AskedKept /\ Mentioned(c) /\ (Asks(Task(t, c)) => Asking(c) /\ ~Asking(c)')
<1>1. posted # <<>> /\ posted' = Tail(posted) /\ posted[1] = Task(t, c)
  BY RunsType DEF Runs
<1>2. /\ 1 \in DOMAIN posted
      /\ \A i \in DOMAIN posted' : i \in Nat \ {0} /\ i + 1 \in DOMAIN posted /\ posted'[i] = posted[i + 1]
  BY <1>1, PostedTail
<1>3. AskedOnce'
  <2>1. SUFFICES ASSUME NEW i \in DOMAIN posted', NEW j \in DOMAIN posted',
                        Asks(posted'[i]), Asks(posted'[j]), posted'[i].c = posted'[j].c
                 PROVE  i = j
    BY DEF AskedOnce, Asks
  <2>2. i \in Nat /\ j \in Nat /\ i + 1 = j + 1
    BY <1>2, <2>1 DEF AskedOnce
  <2>3. QED
    BY <2>2
<1>4. \A d \in Ids : (Asking(d)' => Asking(d)) /\ (Mentioned(d)' => Mentioned(d))
  BY <1>2 DEF Asking, Mentioned, Asks
<1>5. Mentioned(c) /\ (Asks(Task(t, c)) => Asking(c))
  BY <1>1, <1>2, Parts DEF Mentioned, Asking
<1>6. ASSUME Asks(Task(t, c)), Asking(c)' PROVE FALSE
  <2>1. PICK i \in DOMAIN posted' : Asks(posted'[i]) /\ posted'[i].c = c
    BY <1>6 DEF Asking, Asks
  <2>2. i \in Nat \ {0} /\ i + 1 = 1
    BY <1>1, <1>2, <1>6, <2>1, Parts DEF AskedOnce
  <2>3. QED
    BY <2>2
<1>7. QED
  BY <1>3, <1>4, <1>5, <1>6 DEF AskedKept

LEMMA PostedStays == ASSUME AskedOnce, UNCHANGED posted PROVE AskedKept
BY DEF AskedKept, AskedOnce, Asking, Mentioned, Asks

LEMMA EventsStay == ASSUME QueuedOnce, UNCHANGED <<events, write>> PROVE QueueKept
BY DEF QueuedOnce, QueueKept, InQueue, Unwritten, MayLeave, Send

\* What stands behind an answer to c.
Backed(c, o) ==
  /\ o = "ok" => ran[c] = 1
  /\ o \in {"not_connected", "failed"} => Over(c)'

\* The entry of c is called, or not.
MayAnswer(c) ==
  \/ answers'[c] = answers[c]
  \/ \E o \in Outcomes : /\ kind[c] # "-" /\ answers'[c] = Append(answers[c], o)
                         /\ answers[c] = <<>> => Backed(c, o)

\* A step of the strand that sends nothing.
LEMMA StepKept ==
  ASSUME TypeOK, LifeInv, AskedKept, QueueKept, requests' \subseteq requests, deferred' \subseteq deferred,
         responses' \subseteq responses, UNCHANGED <<kind, thread, ran>>,
         \A c \in Ids : MayAnswer(c) /\ (kind[c] = "-" /\ c \notin reqs => c \notin reqs')
  PROVE  LifeInv'
<1>1. SUFFICES ASSUME NEW c \in Ids PROVE Honest(c)'
  BY DEF AskedKept, QueueKept, LifeInv
<1>2. Honest(c) /\ MayAnswer(c) /\ (kind[c] = "-" => c \notin reqs')
  BY DEF LifeInv, Honest
<1>3. /\ Asking(c)' => Asking(c)
      /\ Mentioned(c)' => Mentioned(c)
      /\ InQueue(c)' => InQueue(c)
      /\ Unwritten(c)' => Unwritten(c)
      /\ MayLeave(c)' => MayLeave(c)
  <2>1. Unwritten(c)' => InQueue(c)'
    BY DEF Unwritten, InQueue
  <2>2. QED
    BY <2>1 DEF AskedKept, QueueKept
<1>4. \A o : Told(c, o)' => Told(c, o) \/ Backed(c, o)
  <2>1. CASE answers'[c] = answers[c]
    BY <2>1 DEF Told
  <2>2. CASE answers'[c] # answers[c]
    <3>1. PICK a \in Outcomes : answers'[c] = Append(answers[c], a) /\ (answers[c] = <<>> => Backed(c, a))
      BY <1>2, <2>2 DEF MayAnswer
    <3>2. answers[c] \in Seq(Outcomes)
      BY DEF TypeOK
    <3>3. answers'[c][1] = IF answers[c] = <<>> THEN a ELSE answers[c][1]
      BY <3>1, <3>2, AppendProperties, EmptySeq
    <3>4. QED
      BY <3>1, <3>3 DEF Told
  <2>3. QED
    BY <2>1, <2>2
<1>5. /\ Told(c, "not_connected")' \/ Told(c, "failed")' =>
           Told(c, "not_connected") \/ Told(c, "failed") \/ Over(c)'
      /\ Told(c, "ok")' => Told(c, "ok") \/ ran[c] = 1
  BY <1>4 DEF Backed
<1>6. kind[c] = "-" => answers'[c] = answers[c]
  BY <1>2 DEF MayAnswer
<1> HIDE DEF Asking, InQueue, Unwritten, MayLeave, Told, Mentioned
<1>7. QED
  BY <1>2, <1>3, <1>5, <1>6, Keeps

LEMMA CompleteAnswers ==
  ASSUME TypeOK, NEW c \in Ids, NEW o \in Outcomes, NEW below, Complete(c, o, below), kind[c] # "-", Backed(c, o)
  PROVE  \A d \in Ids : MayAnswer(d)
<1> SUFFICES ASSUME NEW d \in Ids PROVE MayAnswer(d)
  OBVIOUS
<1>1. answers'[d] = IF d = c THEN Append(answers[c], o) ELSE answers[d]
  BY DEF Complete, TypeOK
<1>2. QED
  BY <1>1 DEF MayAnswer

LEMMA LeftMade ==
  ASSUME NEW S, NEW c
  PROVE  Left(S, c) \subseteq S
BY DEF Left

\* What an idle strand does.
LEMMA RunSendFails ==
  ASSUME TypeOK, LifeInv, NEW c \in Ids, RunSend(c), ~(IsStarted /\ kind[c] # "-")
  PROVE  LifeInv'
<1> USE DEF caller, table, strand, peer, link
<1>1. Runs("send", c) /\ UNCHANGED <<kind, thread, write, requests, deferred, responses, ran>>
  BY DEF RunSend
<1>2. AskedKept /\ Mentioned(c) /\ Asking(c) /\ ~Asking(c)'
  BY <1>1, RunsKeeps, Parts DEF LifeInv, Asks
<1>3. kind[c] # "-" /\ ~IsStarted /\ UNCHANGED events
  <2>1. kind[c] # "-"
    BY <1>2 DEF LifeInv, Honest
  <2>2. QED
    BY <2>1 DEF RunSend
<1>4. QueueKept
  BY <1>1, <1>3, EventsStay DEF LifeInv
<1>5. Backed(c, "not_connected")
  <2>1. ~InQueue(c) /\ Silent(c)
    BY <1>2 DEF LifeInv, Honest
  <2>2. Silent(c)' /\ ~MayLeave(c)'
    BY <1>1, <1>3, <2>1 DEF Silent, InQueue, MayLeave, Send
  <2>3. QED
    BY <1>2, <2>2 DEF Backed, Over
<1>6. \A d \in Ids : MayAnswer(d) /\ (kind[d] = "-" /\ d \notin reqs => d \notin reqs')
  <2>1. CASE kind[c] # "oneway"
    <3>1. Complete(c, "not_connected", <<>>) /\ reqs' = Left(reqs \cup {c}, c)
      BY <1>3, <2>1 DEF RunSend
    <3>2. \A d \in Ids : MayAnswer(d)
      BY <1>3, <1>5, <3>1, CompleteAnswers DEF Outcomes
    <3>3. QED
      BY <1>3, <3>1, <3>2, LeftMade
  <2>2. CASE kind[c] = "oneway"
    BY <1>3, <2>2 DEF RunSend, MayAnswer
  <2>3. QED
    BY <2>1, <2>2
<1>7. QED
  BY <1>1, <1>2, <1>4, <1>6, StepKept

LEMMA RunFailKeeps == ASSUME TypeOK, LifeInv, NEW c \in Ids, RunFail(c) PROVE LifeInv'
<1> USE DEF caller, table, strand, peer, link
<1>1. Runs("fail", c) /\ Complete(c, "not_connected", <<>>)
      /\ UNCHANGED <<kind, thread, reqs, events, write, requests, deferred, responses, ran>>
  BY DEF RunFail
<1>2. AskedKept /\ Mentioned(c) /\ Asking(c) /\ ~Asking(c)'
  BY <1>1, RunsKeeps, Parts DEF LifeInv, Asks
<1>3. kind[c] # "-"
  BY <1>2 DEF LifeInv, Honest
<1>4. QueueKept
  BY <1>1, EventsStay DEF LifeInv
<1>5. Backed(c, "not_connected")
  <2>1. ~InQueue(c) /\ Silent(c)
    BY <1>2 DEF LifeInv, Honest
  <2>2. Silent(c)' /\ ~MayLeave(c)'
    BY <1>1, <2>1 DEF Silent, InQueue, MayLeave, Send
  <2>3. QED
    BY <1>2, <2>2 DEF Backed, Over
<1>6. \A d \in Ids : MayAnswer(d)
  BY <1>1, <1>3, <1>5, CompleteAnswers DEF Outcomes
<1>7. QED
  BY <1>1, <1>2, <1>4, <1>6, StepKept

LEMMA RunEraseKeeps == ASSUME TypeOK, LifeInv, NEW c \in Ids, RunErase(c) PROVE LifeInv'
<1>1. Runs("erase", c) /\ reqs' \subseteq reqs
      /\ UNCHANGED <<kind, thread, answers, events, write, requests, deferred, responses, ran>>
  BY DEF RunErase, caller, peer
<1>2. AskedKept /\ QueueKept
  BY <1>1, RunsKeeps, EventsStay DEF LifeInv
<1>3. \A d \in Ids : MayAnswer(d)
  BY <1>1 DEF MayAnswer
<1>4. QED
  BY <1>1, <1>2, <1>3, StepKept

\* An entry of the table that is called.
LEMMA EntryMade == ASSUME LifeInv, TypeOK, NEW c \in reqs PROVE c \in Ids /\ kind[c] # "-"
BY DEF LifeInv, Honest, TypeOK

LEMMA TableKeeps ==
  ASSUME TypeOK, LifeInv, NEW c \in reqs, NEW o \in Outcomes, NEW below, Complete(c, o, below), Backed(c, o),
         QueueKept, reqs' \subseteq reqs, responses' \subseteq responses,
         UNCHANGED <<kind, thread, posted, requests, deferred, ran>>
  PROVE  LifeInv'
<1>1. c \in Ids /\ kind[c] # "-"
  BY EntryMade
<1>2. \A d \in Ids : MayAnswer(d)
  BY <1>1, CompleteAnswers
<1>3. AskedKept
  BY PostedStays DEF LifeInv
<1>4. QED
  BY <1>2, <1>3, StepKept

LEMMA QuietKeeps ==
  ASSUME TypeOK, LifeInv, QueueKept, reqs' \subseteq reqs, requests' \subseteq requests,
         deferred' \subseteq deferred, responses' \subseteq responses,
         UNCHANGED <<kind, thread, answers, posted, ran>>
  PROVE  LifeInv'
<1>1. \A d \in Ids : MayAnswer(d)
  BY DEF MayAnswer
<1>2. AskedKept
  BY PostedStays DEF LifeInv
<1>3. QED
  BY <1>1, <1>2, StepKept

LEMMA HandleTimerKeeps == ASSUME TypeOK, LifeInv, NEW c \in Ids, HandleTimer(c) PROVE LifeInv'
<1>1. UNCHANGED <<kind, thread, reqs, posted, events, write, requests, deferred, responses, ran>>
  BY DEF HandleTimer, caller, peer
<1>2. QueueKept
  BY <1>1, EventsStay DEF LifeInv
<1>3. CASE c \in reqs
  <2>1. Complete(c, "timed_out", <<>>) /\ Backed(c, "timed_out")
    BY <1>3 DEF HandleTimer, Backed
  <2>2. QED
    BY <1>1, <1>2, <1>3, <2>1, TableKeeps DEF Outcomes
<1>4. CASE c \notin reqs
  BY <1>1, <1>2, <1>4, QuietKeeps DEF HandleTimer
<1>5. QED
  BY <1>3, <1>4

LEMMA HandleResponseKeeps == ASSUME TypeOK, LifeInv, HandleResponse PROVE LifeInv'
<1> USE DEF caller, table
<1>1. PICK r \in responses :
        /\ responses' = responses \ {r}
        /\ IF r.c \in reqs
             THEN Complete(r.c, r.outcome, <<>>) /\ reqs' = Left(reqs, r.c)
             ELSE UNCHANGED <<answers, reqs>>
  BY DEF HandleResponse
<1>2. UNCHANGED <<kind, thread, posted, events, write, requests, deferred, ran>>
  BY DEF HandleResponse
<1>3. QueueKept
  BY <1>2, EventsStay DEF LifeInv
<1>4. r.c \in Ids /\ r.outcome \in {"ok", "remote"} /\ r = Response(r.c, r.outcome)
  BY DEF TypeOK, Response
<1>5. CASE r.c \in reqs
  <2>1. Backed(r.c, r.outcome)
    BY <1>4 DEF Backed, LifeInv, Honest
  <2>2. reqs' \subseteq reqs
    BY <1>1, <1>5, LeftMade
  <2>3. QED
    BY <1>1, <1>2, <1>3, <1>4, <1>5, <2>1, <2>2, TableKeeps DEF Outcomes
<1>6. CASE r.c \notin reqs
  BY <1>1, <1>2, <1>3, <1>6, QuietKeeps
<1>7. QED
  BY <1>5, <1>6

\* The write at the front has ended.
LEMMA HandleSentKeeps == ASSUME TypeOK, LifeInv, NEW c \in Ids, HandleSent(c) PROVE LifeInv'
<1> USE DEF caller, table, peer, link
<1>1. UNCHANGED <<kind, thread, posted, requests, deferred, responses, ran>>
  BY DEF HandleSent
<1>2. events # <<>> /\ 1 \in DOMAIN events /\ events[1] = Send(c)
  BY LenProperties, EmptySeq DEF HandleSent, FrontWrites, TypeOK
<1>3. CASE write = "sent"
  <2>1. NextEvent(events, <<>>) /\ UNCHANGED <<answers, reqs>>
    BY <1>3 DEF HandleSent
  <2>2. QueueKept
    BY <1>2, <2>1, NextMoves, MovesKeeps DEF LifeInv
  <2>3. QED
    BY <1>1, <2>1, <2>2, QuietKeeps
<1>4. CASE write # "sent"
  <2>1. write = "busy" /\ write' = "failed" /\ UNCHANGED events
    BY <1>4 DEF HandleSent
  <2>2. QueueKept
    BY <2>1 DEF LifeInv, QueueKept, QueuedOnce, InQueue, Unwritten, MayLeave, Send
  <2>3. Backed(c, "failed")
    <3>1. Unwritten(c) /\ InQueue(c)
      BY <1>2, <2>1 DEF Unwritten, InQueue
    <3>2. Silent(c) /\ ~Asking(c)
      BY <3>1 DEF LifeInv, Honest
    <3>3. Silent(c)' /\ ~Asking(c)'
      BY <1>1, <3>2 DEF Silent, Asking, Asks
    <3>4. ~MayLeave(c)'
      BY <1>2, <2>1 DEF MayLeave, LifeInv, QueuedOnce, Send
    <3>5. QED
      BY <3>3, <3>4 DEF Backed, Over
  <2>4. CASE c \in reqs
    <3>1. Complete(c, "failed", <<Sent>>) /\ reqs' \subseteq reqs
      BY <2>1, <2>4, LeftMade DEF HandleSent
    <3>2. QED
      BY <1>1, <2>2, <2>3, <2>4, <3>1, TableKeeps DEF Outcomes
  <2>5. CASE c \notin reqs
    <3>1. UNCHANGED <<answers, reqs>>
      BY <2>1, <2>5 DEF HandleSent
    <3>2. QED
      BY <1>1, <2>2, <3>1, QuietKeeps
  <2>6. QED
    BY <2>4, <2>5
<1>5. QED
  BY <1>3, <1>4

\* What returns to the strand, and the end of the connection.
LEMMA FramesKeep ==
  ASSUME TypeOK, OneWorker, LifeInv, CallbackReturns \/ SentReturns \/ DrainNext \/ Close
  PROVE  LifeInv'
<1> USE DEF caller, table, peer, link
<1>1. CASE CallbackReturns
  <2>1. QueueKept
    BY <1>1, EventsStay DEF LifeInv, CallbackReturns
  <2>2. QED
    BY <1>1, <2>1, QuietKeeps DEF CallbackReturns
<1>2. CASE DrainNext
  <2>1. PICK c \in reqs : Complete(c, "aborted", stack) /\ reqs' = Left(reqs, c)
    BY <1>2 DEF DrainNext
  <2>2. QueueKept
    BY <1>2, EventsStay DEF LifeInv, DrainNext
  <2>3. reqs' \subseteq reqs /\ Backed(c, "aborted") /\ "aborted" \in Outcomes
    BY <2>1, LeftMade DEF Backed, Outcomes
  <2>4. UNCHANGED <<kind, thread, posted, requests, deferred, responses, ran>>
    BY <1>2 DEF DrainNext
  <2>5. QED
    BY <2>1, <2>2, <2>3, <2>4, TableKeeps
<1>3. ASSUME SentReturns \/ Close PROVE LifeInv'
  <2>1. stack # <<>> /\ Works(Head(stack)) /\ stack \in Seq(Frames)
    BY <1>3 DEF SentReturns, Close, InFrame, Idle, Works, TypeOK, Frames
  <2>2. 1 \in DOMAIN stack /\ Head(stack) = stack[1]
    BY <2>1, LenProperties, EmptySeq
  <2>3. events # <<>>
    BY <2>1, <2>2 DEF OneWorker, NoWorker
  <2>4. Moves
    BY <1>3, <2>3, NextMoves DEF SentReturns, Close
  <2>5. QueueKept
    BY <2>4, MovesKeeps DEF LifeInv
  <2>6. UNCHANGED <<kind, thread, answers, reqs, posted, ran>> /\ requests' \subseteq requests
        /\ deferred' \subseteq deferred /\ responses' \subseteq responses
    BY <1>3 DEF SentReturns, Close
  <2>7. QED
    BY <2>5, <2>6, QuietKeeps
<1>4. QED
  BY <1>1, <1>2, <1>3

LEMMA LinkKeeps ==
  ASSUME TypeOK, LifeInv, LoseConnection \/ CallbackCallsStop \/ Reconnect \/ \E c \in Ids : TimerExpires(c)
  PROVE  LifeInv'
<1> USE DEF caller, table, strand, peer, link
<1>1. UNCHANGED <<kind, thread, answers, reqs, posted, write, requests, deferred, responses, ran>>
  BY DEF LoseConnection, CallbackCallsStop, Reconnect, TimerExpires
<1>2. UNCHANGED events \/ events' = Append(events, Disconnect)
  BY DEF LoseConnection, CallbackCallsStop, Reconnect, TimerExpires, PushDisconnect
<1>3. QueueKept
  BY <1>1, <1>2, EventsStay, DisconnectStays, StaysKeeps DEF LifeInv
<1>4. QED
  BY <1>1, <1>3, QuietKeeps

\* The request of c goes to the event queue.
LEMMA RunSendStarts ==
  ASSUME TypeOK, LifeInv, NEW c \in Ids, RunSend(c), IsStarted, kind[c] # "-"
  PROVE  LifeInv'
<1> USE DEF caller, table, peer, link
<1>1. Runs("send", c) /\ events' = Append(events, Send(c)) /\ reqs' \subseteq reqs \cup {c}
      /\ UNCHANGED <<kind, thread, answers, write, requests, deferred, responses, ran>>
  BY DEF RunSend
<1>2. AskedKept /\ Asking(c) /\ ~Asking(c)'
  BY <1>1, RunsKeeps, Parts DEF LifeInv, Asks
<1>3. ~InQueue(c) /\ Silent(c)
  BY <1>2 DEF LifeInv, Honest
<1>4. \A i \in DOMAIN events' : \/ i \in DOMAIN events /\ events'[i] = events[i]
                                \/ i \notin DOMAIN events /\ events'[i] = Send(c)
                                   /\ \A j \in DOMAIN events' : j \notin DOMAIN events => j = i
  <2>1. Send(c) \in Writes
    BY Records
  <2>2. /\ DOMAIN events = 1 .. Len(events) /\ DOMAIN events' = 1 .. Len(events) + 1 /\ Len(events) \in Nat
        /\ \A i \in DOMAIN events : events'[i] = events[i]
        /\ events'[Len(events) + 1] = Send(c)
    BY <1>1, <2>1, PushStays
  <2>3. \A i \in DOMAIN events' : i \in DOMAIN events \/ i = Len(events) + 1
    BY <2>2
  <2>4. QED
    BY <2>2, <2>3
<1>5. \A d \in Ids, i \in DOMAIN events' : events'[i] = Send(d) /\ d # c =>
        i \in DOMAIN events /\ events[i] = Send(d)
  BY <1>4, NoEventIsASend
<1>6. QueuedOnce'
  <2>1. SUFFICES ASSUME NEW d \in Ids, NEW i \in DOMAIN events', NEW j \in DOMAIN events',
                        events'[i] = Send(d), events'[j] = Send(d)
                 PROVE  i = j
    BY DEF QueuedOnce, Send
  <2>2. CASE d = c
    BY <1>3, <1>4, <2>1, <2>2 DEF InQueue
  <2>3. CASE d # c
    BY <1>5, <2>1, <2>3 DEF LifeInv, QueuedOnce
  <2>4. QED
    BY <2>2, <2>3
<1>7. ASSUME NEW d \in Ids PROVE Honest(d)'
  <2>1. Honest(d)
    BY DEF LifeInv
  <2>2. CASE d # c
    <3>1. /\ InQueue(d)' => InQueue(d)
          /\ Unwritten(d)' => Unwritten(d)
          /\ MayLeave(d)' => MayLeave(d)
      BY <1>1, <1>5, <2>2 DEF InQueue, Unwritten, MayLeave, Send
    <3>2. /\ Asking(d)' => Asking(d)
          /\ Mentioned(d)' => Mentioned(d)
      BY <1>2 DEF AskedKept
    <3>3. \A o : Told(d, o)' <=> Told(d, o)
      BY <1>1 DEF Told
    <3>4. kind[d] = "-" => d \notin reqs'
      BY <1>1, <2>1, <2>2 DEF Honest
    <3> HIDE DEF Asking, InQueue, Unwritten, MayLeave, Told, Mentioned
    <3>5. QED
      BY <1>1, <2>1, <3>1, <3>2, <3>3, <3>4, Keeps
  <2>3. CASE d = c
    <3>1. ~Asking(c)' /\ Silent(c)'
      BY <1>1, <1>2, <1>3 DEF Silent
    <3>2. ~Told(c, "not_connected") /\ ~Told(c, "failed")
      BY <1>2, <2>1, <2>3 DEF Honest, Over
    <3>3. \A o : Told(c, o)' <=> Told(c, o)
      BY <1>1 DEF Told
    <3>4. /\ c \in requests' => ran'[c] = 0
          /\ c \in deferred' => ran'[c] = 1
          /\ Response(c, "ok") \in responses' => ran'[c] = 1
          /\ Told(c, "ok") => ran'[c] = 1
          /\ kind'[c] # "-" /\ (kind'[c] \in {"sync", "strand"} => thread'[c] # "-")
      BY <1>1, <2>1, <2>3 DEF Honest
    <3>5. Response(c, "ok")' = Response(c, "ok")
      BY DEF Response
    <3> HIDE DEF Asking, InQueue, Unwritten, MayLeave, Told, Mentioned
    <3>6. Honest(c)'
      BY <3>1, <3>2, <3>3, <3>4, <3>5 DEF Honest
    <3>7. QED
      BY <2>3, <3>6
  <2>4. QED
    BY <2>2, <2>3
<1>8. QED
  BY <1>2, <1>6, <1>7 DEF LifeInv, AskedKept

\* The request of c leaves.
LEMMA TransmitKeeps == ASSUME TypeOK, LifeInv, NEW c \in Ids, Transmit(c) PROVE LifeInv'
<1> USE DEF caller, table, link
<1>1. /\ write = "busy" /\ write' = "sent" /\ requests' = requests \cup {c}
      /\ UNCHANGED <<kind, thread, answers, reqs, posted, events, deferred, responses, ran>>
  BY DEF Transmit
<1>2. 1 \in DOMAIN events /\ events[1] = Send(c)
  BY LenProperties, EmptySeq DEF Transmit, FrontWrites, TypeOK
<1>3. AskedKept
  BY <1>1, PostedStays DEF LifeInv
<1>4. QueueKept
  BY <1>1 DEF LifeInv, QueueKept, QueuedOnce, InQueue, Unwritten, MayLeave, Send
<1>5. Unwritten(c) /\ InQueue(c) /\ MayLeave(c)
  BY <1>1, <1>2 DEF Unwritten, InQueue, MayLeave
<1>6. ~Unwritten(c)'
  BY <1>1, <1>2 DEF Unwritten, LifeInv, QueuedOnce, Send
<1>7. ASSUME NEW d \in Ids PROVE Honest(d)'
  <2>1. Honest(d)
    BY DEF LifeInv
  <2>2. \A o : Told(d, o)' <=> Told(d, o)
    BY <1>1 DEF Told
  <2>3. /\ Asking(d)' => Asking(d)
        /\ Mentioned(d)' => Mentioned(d)
        /\ InQueue(d)' => InQueue(d)
        /\ Unwritten(d)' => Unwritten(d)
        /\ MayLeave(d)' => MayLeave(d)
    <3>1. Unwritten(d)' => InQueue(d)'
      BY DEF Unwritten, InQueue
    <3>2. QED
      BY <1>3, <1>4, <3>1 DEF AskedKept, QueueKept
  <2> HIDE DEF Asking, InQueue, Unwritten, MayLeave, Told, Mentioned
  <2>4. CASE d # c
    BY <1>1, <2>1, <2>2, <2>3, <2>4, Keeps DEF Honest
  <2>5. CASE d = c
    <3>1. Silent(c) /\ ~Asking(c) /\ ~Told(c, "not_connected") /\ ~Told(c, "failed") /\ kind[c] # "-"
      BY <1>5, <2>1, <2>5 DEF Honest, Over
    <3>2. ran'[c] = 0 /\ ~Asking(c)'
      BY <1>1, <2>3, <2>5, <3>1 DEF Silent
    <3>3. Response(c, "ok")' = Response(c, "ok")
      BY DEF Response
    <3>4. Honest(c)'
      BY <1>1, <1>6, <2>1, <2>2, <2>5, <3>1, <3>2, <3>3 DEF Honest
    <3>5. QED
      BY <2>5, <3>4
  <2>6. QED
    BY <2>4, <2>5
<1>8. QED
  BY <1>3, <1>4, <1>7 DEF LifeInv, AskedKept, QueueKept

\* What the peer does with a request is nothing to the client's side.
LEMMA Elsewhere ==
  ASSUME LifeInv, UNCHANGED <<kind, thread, answers, reqs, posted, events, write>>
  PROVE  /\ AskedOnce' /\ QueuedOnce'
         /\ \A c \in Ids : /\ Asking(c)' = Asking(c) /\ Mentioned(c)' = Mentioned(c)
                           /\ InQueue(c)' = InQueue(c) /\ Unwritten(c)' = Unwritten(c)
                           /\ MayLeave(c)' = MayLeave(c) /\ \A o : Told(c, o)' = Told(c, o)
<1>1. AskedOnce' /\ QueuedOnce'
  BY DEF LifeInv, AskedOnce, QueuedOnce, Asks, Send
<1>2. \A c \in Ids : Asking(c)' = Asking(c) /\ Mentioned(c)' = Mentioned(c)
  BY DEF Asking, Mentioned, Asks
<1>3. \A c \in Ids : InQueue(c)' = InQueue(c) /\ Unwritten(c)' = Unwritten(c) /\ MayLeave(c)' = MayLeave(c)
  BY DEF InQueue, Unwritten, MayLeave, Send
<1>4. \A c \in Ids : \A o : Told(c, o)' = Told(c, o)
  BY DEF Told
<1>5. QED
  BY <1>1, <1>2, <1>3, <1>4

LEMMA Responses ==
  /\ \A c, d, o, p : Response(c, o) = Response(d, p) <=> c = d /\ o = p
  /\ \A c, o : Response(c, o)' = Response(c, o)
BY DEF Response

\* A request that has left is served, and what comes back is in keeping.
LEMMA ServeKeeps == ASSUME TypeOK, LifeInv, NEW c \in Ids, Serve(c) PROVE LifeInv'
<1> USE DEF caller, table, strand, link
<1>1. /\ c \in requests /\ requests' = requests \ {c}
      /\ UNCHANGED <<kind, thread, answers, reqs, posted, events, write>>
  BY DEF Serve
<1>2. /\ AskedOnce' /\ QueuedOnce'
      /\ \A d \in Ids : /\ Asking(d)' = Asking(d) /\ Mentioned(d)' = Mentioned(d)
                        /\ InQueue(d)' = InQueue(d) /\ Unwritten(d)' = Unwritten(d)
                        /\ MayLeave(d)' = MayLeave(d) /\ \A o : Told(d, o)' = Told(d, o)
  BY <1>1, Elsewhere
<1>3. /\ ran[c] = 0 /\ ~Asking(c) /\ ~Unwritten(c) /\ c \notin deferred /\ kind[c] # "-"
      /\ Response(c, "ok") \notin responses
      /\ ~Told(c, "not_connected") /\ ~Told(c, "failed") /\ ~Told(c, "ok")
      /\ kind[c] \in {"sync", "strand"} => thread[c] # "-"
  BY <1>1 DEF LifeInv, Honest, Silent, Over
<1>4. /\ \A d \in Ids : d # c => ran'[d] = ran[d]
      /\ deferred' \subseteq deferred \cup {c} /\ (c \in deferred' => ran'[c] = 1)
      /\ \A d \in Ids : Response(d, "ok") \in responses' =>
                          Response(d, "ok") \in responses \/ (d = c /\ ran'[c] = 1) \/ (d # c /\ d \in deferred)
  <2>1. Once(c) => ran'[c] = 1 /\ \A d \in Ids : d # c => ran'[d] = ran[d]
    BY <1>3 DEF Once, TypeOK
  <2>2. \/ Once(c) /\ UNCHANGED deferred
           /\ \E o \in {"ok", "remote"} :
                responses' = responses \cup (IF kind[c] = "oneway" THEN {} ELSE {Response(c, o)})
        \/ UNCHANGED <<deferred, ran>>
           /\ responses' = responses \cup (IF kind[c] = "oneway" THEN {} ELSE {Response(c, "remote")})
        \/ Once(c) /\ deferred' = deferred \cup {c} /\ UNCHANGED responses
        \/ Once(c) /\ \E d \in deferred : responses' = responses \cup {Response(d, "ok")}
                                          /\ deferred' = deferred \ {d}
    BY DEF Serve
  <2>3. CASE Once(c) /\ UNCHANGED deferred
             /\ \E o \in {"ok", "remote"} :
                  responses' = responses \cup (IF kind[c] = "oneway" THEN {} ELSE {Response(c, o)})
    BY <1>3, <2>1, <2>3, Responses
  <2>4. CASE UNCHANGED <<deferred, ran>>
             /\ responses' = responses \cup (IF kind[c] = "oneway" THEN {} ELSE {Response(c, "remote")})
    BY <1>3, <2>4, Responses
  <2>5. CASE Once(c) /\ deferred' = deferred \cup {c} /\ UNCHANGED responses
    BY <2>1, <2>5
  <2>6. CASE Once(c) /\ \E d \in deferred : responses' = responses \cup {Response(d, "ok")}
                                            /\ deferred' = deferred \ {d}
    BY <1>3, <2>1, <2>6, Responses
  <2>7. QED
    BY <2>2, <2>3, <2>4, <2>5, <2>6
<1>5. ASSUME NEW d \in Ids PROVE Honest(d)'
  <2>1. Honest(d)
    BY DEF LifeInv
  <2>2. /\ Asking(d)' = Asking(d) /\ Mentioned(d)' = Mentioned(d)
        /\ InQueue(d)' = InQueue(d) /\ Unwritten(d)' = Unwritten(d)
        /\ MayLeave(d)' = MayLeave(d) /\ \A o : Told(d, o)' = Told(d, o)
    BY <1>2
  <2> HIDE DEF Asking, InQueue, Unwritten, MayLeave, Told, Mentioned
  <2>3. CASE d # c
    <3>1. Response(d, "ok") \in responses' => Response(d, "ok") \in responses \/ ran[d] = 1
      BY <1>4, <2>1, <2>3 DEF Honest
    <3>2. ran'[d] = ran[d] /\ (d \in deferred' => d \in deferred) /\ (d \in requests' => d \in requests)
      BY <1>1, <1>4, <2>3
    <3>3. kind[d] = "-" => d \notin reqs'
      BY <1>1, <2>1 DEF Honest
    <3>4. QED
      BY <1>1, <2>1, <2>2, <3>1, <3>2, <3>3, Keeps
  <2>4. CASE d = c
    <3>1. ~Asking(c)' /\ ~Unwritten(c)' /\ ~Told(c, "not_connected")' /\ ~Told(c, "failed")' /\ ~Told(c, "ok")'
      BY <1>3, <2>2, <2>4
    <3>2. c \notin requests' /\ (c \in deferred' => ran'[c] = 1) /\ kind'[c] # "-"
          /\ (kind'[c] \in {"sync", "strand"} => thread'[c] # "-")
      BY <1>1, <1>3, <1>4
    <3>3. Response(c, "ok") \in responses' => ran'[c] = 1
      BY <1>3, <1>4
    <3>4. Response(c, "ok")' = Response(c, "ok")
      BY Responses
    <3>5. Honest(c)'
      BY <3>1, <3>2, <3>3, <3>4 DEF Honest
    <3>6. QED
      BY <2>4, <3>5
  <2>5. QED
    BY <2>3, <2>4
<1>6. QED
  BY <1>2, <1>5 DEF LifeInv

LEMMA FinishKeeps == ASSUME TypeOK, LifeInv, NEW c \in Ids, Finish(c) PROVE LifeInv'
<1> USE DEF caller, table, strand, link
<1>1. /\ c \in deferred /\ deferred' \subseteq deferred
      /\ UNCHANGED <<kind, thread, answers, reqs, posted, events, write, requests, ran>>
  BY DEF Finish
<1>2. \A d \in Ids : Response(d, "ok") \in responses' => Response(d, "ok") \in responses \/ d = c
  BY Responses DEF Finish
<1>3. /\ AskedOnce' /\ QueuedOnce'
      /\ \A d \in Ids : /\ Asking(d)' = Asking(d) /\ Mentioned(d)' = Mentioned(d)
                        /\ InQueue(d)' = InQueue(d) /\ Unwritten(d)' = Unwritten(d)
                        /\ MayLeave(d)' = MayLeave(d) /\ \A o : Told(d, o)' = Told(d, o)
  BY <1>1, Elsewhere
<1>4. ASSUME NEW d \in Ids PROVE Honest(d)'
  <2>1. Honest(d) /\ ran[c] = 1
    BY <1>1 DEF LifeInv, Honest
  <2>2. Response(d, "ok") \in responses' => Response(d, "ok") \in responses \/ ran[d] = 1
    BY <1>2, <2>1
  <2>3. /\ Asking(d)' = Asking(d) /\ Mentioned(d)' = Mentioned(d)
        /\ InQueue(d)' = InQueue(d) /\ Unwritten(d)' = Unwritten(d)
        /\ MayLeave(d)' = MayLeave(d) /\ \A o : Told(d, o)' = Told(d, o)
    BY <1>3
  <2>4. kind[d] = "-" => d \notin reqs'
    BY <1>1, <2>1 DEF Honest
  <2> HIDE DEF Asking, InQueue, Unwritten, MayLeave, Told, Mentioned
  <2>5. QED
    BY <1>1, <2>1, <2>2, <2>3, <2>4, Keeps
<1>5. QED
  BY <1>3, <1>4 DEF LifeInv

\* What is posted about c changes nothing for the others.
LEMMA PostsKeep ==
  ASSUME TypeOK, LifeInv, NEW c \in Ids, NEW ts \in Seq(Tasks), posted' = posted \o ts,
         \A i \in DOMAIN ts : ts[i].c = c,
         \A i, j \in DOMAIN ts : Asks(ts[i]) /\ Asks(ts[j]) => i = j,
         ~Mentioned(c) \/ \A i \in DOMAIN ts : ~Asks(ts[i])
  PROVE  /\ AskedOnce'
         /\ \A d \in Ids : d # c => (Asking(d)' => Asking(d)) /\ (Mentioned(d)' => Mentioned(d))
         /\ Asking(c)' => Asking(c) \/ \E i \in DOMAIN ts : Asks(ts[i])
<1>1. /\ \A i \in DOMAIN ts : Len(posted) + i \in DOMAIN posted' /\ posted'[Len(posted) + i] = ts[i]
      /\ \A i \in DOMAIN posted' : \/ i \in DOMAIN posted /\ posted'[i] = posted[i]
                                  \/ \E j \in DOMAIN ts : i = Len(posted) + j /\ posted'[i] = ts[j]
  BY PostedBehind
<1>2. AskedOnce'
  <2>1. SUFFICES ASSUME NEW i \in DOMAIN posted', NEW j \in DOMAIN posted',
                        Asks(posted'[i]), Asks(posted'[j]), posted'[i].c = posted'[j].c
                 PROVE  i = j
    BY DEF AskedOnce, Asks
  <2>2. CASE i \in DOMAIN posted /\ posted'[i] = posted[i] /\ j \in DOMAIN posted /\ posted'[j] = posted[j]
    BY <2>1, <2>2 DEF LifeInv, AskedOnce
  <2>3. ASSUME NEW k \in DOMAIN posted, NEW l \in DOMAIN ts, Asks(ts[l]), posted[k].c = ts[l].c PROVE FALSE
    BY <2>3 DEF Mentioned
  <2>4. CASE (\E l \in DOMAIN ts : i = Len(posted) + l /\ posted'[i] = ts[l])
             /\ (\E l \in DOMAIN ts : j = Len(posted) + l /\ posted'[j] = ts[l])
    BY <2>1, <2>4
  <2>5. QED
    BY <1>1, <2>1, <2>2, <2>3, <2>4
<1>3. ASSUME NEW d \in Ids, d # c PROVE (Asking(d)' => Asking(d)) /\ (Mentioned(d)' => Mentioned(d))
  BY <1>1, <1>3 DEF Asking, Mentioned, Asks
<1>4. Asking(c)' => Asking(c) \/ \E i \in DOMAIN ts : Asks(ts[i])
  BY <1>1 DEF Asking, Asks
<1>5. QED
  BY <1>2, <1>3, <1>4

\* A step of the caller of c.
LEMMA OthersKeep ==
  ASSUME TypeOK, LifeInv, NEW c \in Ids,
         UNCHANGED <<answers, reqs, events, write, requests, deferred, responses, ran>>,
         \A d \in Ids : d # c =>
           /\ (Asking(d)' => Asking(d)) /\ (Mentioned(d)' => Mentioned(d))
           /\ thread'[d] = thread[d] /\ kind'[d] = kind[d]
  PROVE  QueueKept /\ \A d \in Ids : d # c => Honest(d)'
<1>1. QueueKept
  BY EventsStay DEF LifeInv
<1>2. ASSUME NEW d \in Ids, d # c PROVE Honest(d)'
  <2>1. Honest(d)
    BY DEF LifeInv
  <2>2. /\ InQueue(d)' => InQueue(d)
        /\ Unwritten(d)' => Unwritten(d)
        /\ MayLeave(d)' => MayLeave(d)
        /\ \A o : Told(d, o)' = Told(d, o)
    BY <1>2 DEF InQueue, Unwritten, MayLeave, Told, Send
  <2>3. kind[d] = "-" => d \notin reqs'
    BY <2>1 DEF Honest
  <2> HIDE DEF Asking, InQueue, Unwritten, MayLeave, Told, Mentioned
  <2>4. QED
    BY <1>2, <2>1, <2>2, <2>3, Keeps
<1>3. QED
  BY <1>1, <1>2

LEMMA CallKeeps ==
  ASSUME TypeOK, LifeInv, NEW c \in Ids, NEW k \in {"sync", "strand", "async", "oneway"}, Makes(c, k),
         NEW ts \in Seq(Tasks), posted' = posted \o ts,
         \A i \in DOMAIN ts : ts[i].c = c,
         \A i, j \in DOMAIN ts : Asks(ts[i]) /\ Asks(ts[j]) => i = j,
         \A d \in Ids : d # c => thread'[d] = thread[d],
         \/ k \in {"async", "oneway"} /\ UNCHANGED thread
         \/ k \in {"sync", "strand"} /\ thread'[c] \in {"waiting", "in_progress"}
         \/ k \in {"sync", "strand"} /\ thread'[c] = "not_connected" /\ DOMAIN ts = {},
         UNCHANGED <<answers, reqs, events, write, requests, deferred, responses, ran>>
  PROVE  LifeInv'
<1>1. kind[c] = "-" /\ kind'[c] = k /\ \A d \in Ids : d # c => kind'[d] = kind[d]
  BY DEF Makes, Fresh, TypeOK
<1>2. thread[c] = "-" /\ answers[c] = <<>> /\ Silent(c) /\ ~InQueue(c) /\ ~Mentioned(c)
      /\ c \notin deferred /\ Response(c, "ok") \notin responses
  BY <1>1 DEF LifeInv, Honest, Silent
<1>3. /\ AskedOnce'
      /\ \A d \in Ids : d # c => (Asking(d)' => Asking(d)) /\ (Mentioned(d)' => Mentioned(d))
      /\ Asking(c)' => Asking(c) \/ \E i \in DOMAIN ts : Asks(ts[i])
  BY <1>2, PostsKeep
<1>4. QueueKept /\ \A d \in Ids : d # c => Honest(d)'
  BY <1>1, <1>3, OthersKeep
<1>5. ~InQueue(c)' /\ ~Unwritten(c)' /\ ~MayLeave(c)' /\ Silent(c)' /\ ~Asking(c)
  BY <1>2 DEF InQueue, Unwritten, MayLeave, Silent, Send, Asking, Mentioned
<1>6. \A o : Told(c, o)' <=> thread'[c] = o
  BY <1>2 DEF Told
<1>7. thread'[c] \in {"-", "waiting", "in_progress"} \/ (thread'[c] = "not_connected" /\ DOMAIN ts = {})
  BY <1>2
<1>8. thread'[c] = "not_connected" => Over(c)'
  BY <1>3, <1>5, <1>7 DEF Over
<1>9. ~Told(c, "ok")' /\ ~Told(c, "failed")' /\ (Told(c, "not_connected")' => Over(c)')
  BY <1>6, <1>7, <1>8
<1>10. k \in {"sync", "strand"} => thread'[c] # "-"
  OBVIOUS
<1>11. Honest(c)'
  <2>1. Response(c, "ok")' = Response(c, "ok") /\ c \notin requests' /\ c \notin deferred'
        /\ Response(c, "ok") \notin responses'
    BY <1>2, Responses DEF Silent
  <2> HIDE DEF Asking, InQueue, Unwritten, MayLeave, Told, Mentioned
  <2>2. QED
    BY <1>1, <1>5, <1>9, <1>10, <2>1 DEF Honest
<1>12. QED
  BY <1>3, <1>4, <1>11 DEF LifeInv, QueueKept

LEMMA CallsKeep == ASSUME TypeOK, LifeInv, NEW c \in Ids, Calls(c) PROVE LifeInv'
<1> USE DEF table, peer, link
<1>1. PICK k \in {"sync", "strand", "async", "oneway"} : Makes(c, k)
        /\ \/ k = "sync" /\ CallSync(c)
           \/ k = "strand" /\ CallOnStrand(c)
           \/ k = "async" /\ CallAsync(c)
           \/ k = "oneway" /\ CallOneway(c)
  BY DEF Calls, CallSync, CallOnStrand, CallAsync, CallOneway
<1>2. UNCHANGED <<answers, reqs, events, write, requests, deferred, responses, ran>>
  BY DEF Calls, CallSync, CallOnStrand, CallAsync, CallOneway, Posts, strand
<1>3. \A d \in Ids : d # c => thread'[d] = thread[d]
  BY DEF Calls, CallSync, CallOnStrand, CallAsync, CallOneway, Returns, TypeOK
<1>4. \/ k \in {"async", "oneway"} /\ UNCHANGED thread
      \/ k \in {"sync", "strand"} /\ thread'[c] \in {"waiting", "in_progress"}
      \/ k \in {"sync", "strand"} /\ thread'[c] = "not_connected" /\ UNCHANGED posted
  BY <1>1 DEF CallSync, CallOnStrand, CallAsync, CallOneway, Returns, TypeOK, strand
<1>5. \/ UNCHANGED posted
      \/ \E t \in {"send", "fail"} : posted' = posted \o <<Task(t, c)>>
      \/ posted' = posted \o <<Task("send", c), Task("erase", c)>>
  BY <1>1 DEF CallSync, CallOnStrand, CallAsync, CallOneway, Posts, strand
<1>6. CASE UNCHANGED posted
  <2>1. posted' = posted \o <<>> /\ <<>> \in Seq(Tasks) /\ DOMAIN <<>> = {}
    BY <1>6, ConcatEmptySeq, EmptySeq DEF TypeOK, Tasks
  <2>2. QED
    BY <1>1, <1>2, <1>3, <1>4, <1>6, <2>1, CallKeeps
<1>7. CASE ~UNCHANGED posted /\ \E t \in {"send", "fail"} : posted' = posted \o <<Task(t, c)>>
  <2>1. PICK t \in {"send", "fail"} : posted' = posted \o <<Task(t, c)>>
    BY <1>7
  <2> DEFINE ts == <<Task(t, c)>>
  <2>2. ts \in Seq(Tasks)
    BY Records
  <2>3. \A i \in DOMAIN ts : i = 1 /\ ts[i] = Task(t, c)
    OBVIOUS
  <2>4. (\A i \in DOMAIN ts : ts[i].c = c) /\ \A i, j \in DOMAIN ts : i = j
    BY <2>3, Parts
  <2>5. posted' = posted \o ts
    BY <2>1
  <2> HIDE DEF ts
  <2>6. \/ k \in {"async", "oneway"} /\ UNCHANGED thread
        \/ k \in {"sync", "strand"} /\ thread'[c] \in {"waiting", "in_progress"}
    BY <1>4, <1>7
  <2>7. QED
    BY <1>1, <1>2, <1>3, <2>2, <2>4, <2>5, <2>6, CallKeeps
<1>8. CASE ~UNCHANGED posted /\ posted' = posted \o <<Task("send", c), Task("erase", c)>>
  <2> DEFINE ts == <<Task("send", c), Task("erase", c)>>
  <2>2. ts \in Seq(Tasks)
    BY Records
  <2>3. DOMAIN ts = {1, 2} /\ ts[1] = Task("send", c) /\ ts[2] = Task("erase", c)
    OBVIOUS
  <2>5. posted' = posted \o ts
    BY <1>8
  <2> HIDE DEF ts
  <2>4. (\A i \in DOMAIN ts : ts[i].c = c) /\ \A i, j \in DOMAIN ts : Asks(ts[i]) /\ Asks(ts[j]) => i = j
    BY <2>3, Parts DEF Asks
  <2>6. \/ k \in {"async", "oneway"} /\ UNCHANGED thread
        \/ k \in {"sync", "strand"} /\ thread'[c] \in {"waiting", "in_progress"}
    BY <1>4, <1>8
  <2>7. QED
    BY <1>1, <1>2, <1>3, <2>2, <2>4, <2>5, <2>6, CallKeeps
<1>9. QED
  BY <1>5, <1>6, <1>7, <1>8

LEMMA WaitsKeep == ASSUME TypeOK, LifeInv, NEW c \in Ids, Waits(c) PROVE LifeInv'
<1> USE DEF table, peer, link
<1>1. /\ thread[c] = "waiting" /\ (\A d \in Ids : d # c => thread'[d] = thread[d])
      /\ UNCHANGED <<kind, answers, reqs, events, write, requests, deferred, responses, ran>>
      /\ \/ thread'[c] = "timed_out" /\ posted' = posted \o <<Task("erase", c)>>
         \/ answers[c] # <<>> /\ thread'[c] = answers[c][1] /\ UNCHANGED posted
  BY DEF Waits, WaitTimesOut, WaitEnds, Returns, Posts, strand, TypeOK
<1>2. PICK ts \in Seq(Tasks) : posted' = posted \o ts /\ \A i \in DOMAIN ts : ts[i].c = c /\ ~Asks(ts[i])
  <2>1. CASE UNCHANGED posted
    <3>1. posted' = posted \o <<>> /\ <<>> \in Seq(Tasks) /\ DOMAIN <<>> = {}
      BY <2>1, ConcatEmptySeq, EmptySeq DEF TypeOK, Tasks
    <3>2. QED
      BY <3>1
  <2>2. CASE posted' = posted \o <<Task("erase", c)>>
    <3> DEFINE ts == <<Task("erase", c)>>
    <3>1. ts \in Seq(Tasks) /\ \A i \in DOMAIN ts : ts[i] = Task("erase", c)
      BY Records
    <3>2. posted' = posted \o ts
      BY <2>2
    <3> HIDE DEF ts
    <3>3. \A i \in DOMAIN ts : ts[i].c = c /\ ~Asks(ts[i])
      BY <3>1, Parts DEF Asks
    <3>4. QED
      BY <3>1, <3>2, <3>3
  <2>3. QED
    BY <1>1, <2>1, <2>2
<1>3. /\ AskedOnce'
      /\ \A d \in Ids : d # c => (Asking(d)' => Asking(d)) /\ (Mentioned(d)' => Mentioned(d))
      /\ Asking(c)' => Asking(c)
  BY <1>2, PostsKeep
<1>4. QueueKept /\ \A d \in Ids : d # c => Honest(d)'
  BY <1>1, <1>3, OthersKeep
<1>5. Honest(c)'
  <2>1. Honest(c) /\ kind[c] # "-"
    BY <1>1 DEF LifeInv, Honest
  <2>2. /\ InQueue(c)' => InQueue(c)
        /\ Unwritten(c)' => Unwritten(c)
        /\ MayLeave(c)' => MayLeave(c)
    BY <1>1 DEF InQueue, Unwritten, MayLeave, Send
  <2>3. \A o \in {"ok", "not_connected", "failed"} : Told(c, o)' => Told(c, o)
    BY <1>1 DEF Told
  <2>4. thread'[c] # "-"
    <3>1. "-" \notin Outcomes /\ answers[c] \in Seq(Outcomes)
      BY DEF TypeOK, Outcomes
    <3>2. answers[c] # <<>> => answers[c][1] \in Outcomes
      BY <3>1, EmptySeq, ElementOfSeq
    <3>3. QED
      BY <1>1, <3>1, <3>2
  <2> HIDE DEF Asking, InQueue, Unwritten, MayLeave, Told, Mentioned
  <2>5. QED
    BY <1>1, <1>3, <2>1, <2>2, <2>3, <2>4, Keeps
<1>6. QED
  BY <1>3, <1>4, <1>5 DEF LifeInv, QueueKept

LEMMA LifeStep == TypeOK /\ OneWorker /\ LifeInv /\ [Next]_vars => LifeInv'
<1> SUFFICES ASSUME TypeOK, OneWorker, LifeInv, [Next]_vars PROVE LifeInv'
  OBVIOUS
<1>1. ASSUME NEW c \in Ids, Calls(c) \/ Waits(c) \/ Transmit(c) \/ TimerExpires(c) PROVE LifeInv'
  BY <1>1, CallsKeep, WaitsKeep, TransmitKeeps, LinkKeeps
<1>2. ASSUME NEW c \in Ids, RunSend(c) \/ RunErase(c) \/ RunFail(c) \/ HandleTimer(c) \/ HandleSent(c)
      PROVE  LifeInv'
  <2>1. CASE RunSend(c)
    <3>1. CASE IsStarted /\ kind[c] # "-"
      BY <2>1, <3>1, RunSendStarts
    <3>2. CASE ~(IsStarted /\ kind[c] # "-")
      BY <2>1, <3>2, RunSendFails
    <3>3. QED
      BY <3>1, <3>2
  <2>2. QED
    BY <1>2, <2>1, RunEraseKeeps, RunFailKeeps, HandleTimerKeeps, HandleSentKeeps
<1>3. ASSUME NEW c \in Ids, Serve(c) \/ Finish(c) PROVE LifeInv'
  BY <1>3, ServeKeeps, FinishKeeps
<1>4. CASE HandleResponse \/ CallbackReturns \/ SentReturns \/ DrainNext \/ Close
           \/ LoseConnection \/ CallbackCallsStop \/ Reconnect
  BY <1>4, HandleResponseKeeps, FramesKeep, LinkKeeps
<1>5. CASE UNCHANGED vars
  <2>1. UNCHANGED <<kind, thread, answers, reqs, posted, events, write, requests, deferred, responses, ran>>
    BY <1>5 DEF vars, caller, table, strand, peer, link
  <2>2. QueueKept
    BY <2>1, EventsStay DEF LifeInv
  <2>3. QED
    BY <2>1, <2>2, QuietKeeps
<1>6. QED
  BY <1>1, <1>2, <1>3, <1>4, <1>5 DEF Next, StrandStep, Peer

LEMMA InitLife == Init => LifeInv
<1> SUFFICES ASSUME Init PROVE LifeInv
  OBVIOUS
<1>1. DOMAIN posted = {} /\ DOMAIN events = {}
  BY EmptySeq DEF Init
<1>2. AskedOnce /\ QueuedOnce
  BY <1>1 DEF AskedOnce, QueuedOnce
<1>3. \A c \in Ids : ~Asking(c) /\ ~Mentioned(c) /\ ~InQueue(c) /\ ~Unwritten(c) /\ ~MayLeave(c)
  BY <1>1 DEF Asking, Mentioned, InQueue, Unwritten, MayLeave
<1>4. \A c \in Ids : \A o : Told(c, o) => o = "-"
  BY DEF Init, Told
<1>5. \A c \in Ids : Honest(c)
  BY <1>3, <1>4 DEF Init, Honest, Silent
<1>6. QED
  BY <1>2, <1>5 DEF LifeInv

LEMMA LifeInvariant == Spec => [](TypeOK /\ LifeInv)
BY TypeInductive, LifeStep, InitLife, PTL DEF Spec

\* The calls as their callers see them.
Seen(c) ==
  /\ kind[c] = "oneway" => Status(c) = "pending"
  /\ kind[c] = "async" /\ answers[c] = <<>> => Status(c) = "pending"
  /\ kind[c] = "async" /\ answers[c] # <<>> => Status(c) = answers[c][1] /\ Status(c) \in Outcomes
  /\ kind[c] \in {"-", "sync", "strand"} =>
       /\ thread[c] = "-" => Status(c) = "none"
       /\ thread[c] = "waiting" => Status(c) = "pending"
       /\ thread[c] \notin {"-", "waiting"} =>
            Status(c) = thread[c] /\ Status(c) \in Outcomes \cup {"in_progress"}

LEMMA StatusOf == TypeOK => \A c \in Ids : Seen(c)
<1> SUFFICES ASSUME TypeOK, NEW c \in Ids PROVE Seen(c)
  OBVIOUS
<1>1. answers[c] \in Seq(Outcomes)
  BY DEF TypeOK
<1>2. answers[c] # <<>> => answers[c][1] \in Outcomes
  BY <1>1, EmptySeq, ElementOfSeq
<1>3. thread[c] \in {"-", "waiting", "in_progress"} \cup Outcomes
  BY DEF TypeOK
<1>4. QED
  BY <1>2, <1>3 DEF Seen, Status, Outcomes

\* An outcome that a caller sees is one it was told.
SeesTold(c) == Status(c) \in Outcomes => Told(c, Status(c)) /\ kind[c] # "oneway"

LEMMA ToldOf == TypeOK => \A c \in Ids : SeesTold(c)
<1> SUFFICES ASSUME TypeOK, NEW c \in Ids PROVE SeesTold(c)
  OBVIOUS
<1>1. kind[c] \in {"-", "sync", "strand", "async", "oneway"} /\ Seen(c)
  BY StatusOf DEF TypeOK
<1>2. "pending" \notin Outcomes /\ "none" \notin Outcomes
  BY DEF Outcomes
<1>3. QED
  BY <1>1, <1>2 DEF Seen, Told, SeesTold

LEMMA StatusAfter == TypeOK' => \A c \in Ids : Seen(c)' /\ SeesTold(c)'
<1>1. TypeOK => \A c \in Ids : Seen(c) /\ SeesTold(c)
  BY StatusOf, ToldOf
<1>2. TypeOK' => (\A c \in Ids : Seen(c) /\ SeesTold(c))'
  BY <1>1, PTL
<1>3. QED
  BY <1>2

LifeMoves == [Life!Next]_<<[c \in Ids |-> Status(c)], ran>>

LEMMA OneStatus ==
  ASSUME NEW c \in Ids, \A d \in Ids : d # c => Status(d)' = Status(d)
  PROVE  [d \in Ids |-> Status(d)]' = [[d \in Ids |-> Status(d)] EXCEPT ![c] = Status(c)']
OBVIOUS

\* A step that tells the caller of c something implements Answer, or nothing.
LEMMA Tells ==
  ASSUME TypeOK, LifeInv, TypeOK', LifeInv', UNCHANGED <<kind, ran>>, NEW c \in Ids,
         \A d \in Ids : d # c => Status(d)' = Status(d),
         Status(c)' = Status(c) \/ Status(c) = "pending"
  PROVE  LifeMoves
<1>1. CASE Status(c)' = Status(c)
  <2>1. \A d \in Ids : Status(d)' = Status(d)
    BY <1>1
  <2>2. [d \in Ids |-> Status(d)]' = [d \in Ids |-> Status(d)]
    BY <2>1
  <2>3. QED
    BY <2>2 DEF LifeMoves
<1>2. CASE Status(c)' # Status(c)
  <2>1. Status(c) = "pending"
    BY <1>2
  <2>2. Status(c)' \in Outcomes \cup {"in_progress"}
    <3>1. kind[c] \in {"-", "sync", "strand", "async", "oneway"} /\ kind'[c] = kind[c]
      BY DEF TypeOK
    <3>2. /\ kind[c] = "-" => thread[c] = "-"
          /\ kind[c] \in {"sync", "strand"} => thread'[c] # "-"
      BY DEF LifeInv, Honest
    <3>3. Seen(c) /\ Seen(c)'
      BY StatusOf, StatusAfter
    <3>4. QED
      BY <1>2, <2>1, <3>1, <3>2, <3>3 DEF Seen
  <2>3. Status(c)' \in {"not_connected", "failed"} => ran[c] = 0
    BY StatusAfter DEF SeesTold, LifeInv, Honest, Over, Silent, Outcomes
  <2>4. Status(c)' = "ok" => ran[c] = 1
    BY StatusAfter DEF SeesTold, LifeInv, Honest, Outcomes
  <2>5. [d \in Ids |-> Status(d)]' = [[d \in Ids |-> Status(d)] EXCEPT ![c] = Status(c)']
    BY OneStatus
  <2>6. Life!Answer(c)
    BY <2>1, <2>2, <2>3, <2>4, <2>5 DEF Life!Answer, Life!Unsent, Life!InDoubt, Outcomes
  <2>7. QED
    BY <2>6 DEF Life!Next, LifeMoves
<1>3. QED
  BY <1>1, <1>2

LEMMA StatusStays ==
  ASSUME NEW c \in Ids, kind'[c] = kind[c], thread'[c] = thread[c], answers'[c] = answers[c]
  PROVE  Status(c)' = Status(c)
BY DEF Status

LEMMA AnswersMap ==
  ASSUME TypeOK, LifeInv, TypeOK', LifeInv', UNCHANGED <<kind, ran>>, NEW c \in Ids,
         \A d \in Ids : d # c => thread'[d] = thread[d] /\ answers'[d] = answers[d],
         \/ thread'[c] = thread[c] /\ \E o \in Outcomes : answers'[c] = Append(answers[c], o)
         \/ thread'[c] = thread[c] /\ answers'[c] = answers[c]
         \/ thread[c] = "waiting" /\ answers'[c] = answers[c]
  PROVE  LifeMoves
<1>1. \A d \in Ids : d # c => Status(d)' = Status(d)
  BY StatusStays
<1>2. Status(c)' = Status(c) \/ Status(c) = "pending"
  <2>1. CASE thread'[c] = thread[c] /\ \E o \in Outcomes : answers'[c] = Append(answers[c], o)
    <3>1. PICK o \in Outcomes : answers'[c] = Append(answers[c], o)
      BY <2>1
    <3>2. answers[c] \in Seq(Outcomes)
      BY DEF TypeOK
    <3>3. answers'[c] # <<>> /\ (answers[c] # <<>> => answers'[c][1] = answers[c][1])
      BY <3>1, <3>2, AppendProperties, EmptySeq
    <3>4. QED
      BY <2>1, <3>3 DEF Status
  <2>2. CASE thread'[c] = thread[c] /\ answers'[c] = answers[c]
    BY <2>2, StatusStays
  <2>3. CASE thread[c] = "waiting" /\ answers'[c] = answers[c]
    BY <2>3 DEF Status
  <2>4. QED
    BY <2>1, <2>2, <2>3
<1>3. QED
  BY <1>1, <1>2, Tells

\* A step that answers nothing.
LEMMA SilentMap ==
  ASSUME UNCHANGED <<kind, thread, answers, ran>>
  PROVE  LifeMoves
<1>1. \A c \in Ids : Status(c)' = Status(c)
  BY StatusStays
<1>2. [c \in Ids |-> Status(c)]' = [c \in Ids |-> Status(c)]
  BY <1>1
<1>3. QED
  BY <1>2 DEF LifeMoves

\* A step of the strand that calls the entry of c.
LEMMA CompleteMap ==
  ASSUME TypeOK, LifeInv, TypeOK', LifeInv', UNCHANGED <<kind, thread, ran>>, NEW c \in Ids,
         NEW o \in Outcomes, NEW below, Complete(c, o, below)
  PROVE  LifeMoves
<1>1. \A d \in Ids : answers'[d] = IF d = c THEN Append(answers[c], o) ELSE answers[d]
  BY DEF Complete, TypeOK
<1>2. QED
  BY <1>1, AnswersMap

LEMMA StrandMap ==
  ASSUME TypeOK, LifeInv, TypeOK', LifeInv', StrandStep
  PROVE  LifeMoves
<1> USE DEF caller, table, strand, peer, link
<1>1. CASE \E c \in Ids : RunSend(c) \/ RunErase(c) \/ RunFail(c) \/ HandleTimer(c) \/ HandleSent(c)
  <2>1. PICK c \in Ids : RunSend(c) \/ RunErase(c) \/ RunFail(c) \/ HandleTimer(c) \/ HandleSent(c)
    BY <1>1
  <2>2. UNCHANGED <<kind, thread, ran>>
    BY <2>1 DEF RunSend, RunErase, RunFail, HandleTimer, HandleSent
  <2>3. UNCHANGED answers \/ \E o \in Outcomes : \E below : Complete(c, o, below)
    BY <2>1 DEF RunSend, RunErase, RunFail, HandleTimer, HandleSent, Outcomes
  <2>4. QED
    BY <2>2, <2>3, SilentMap, CompleteMap
<1>2. CASE HandleResponse
  <2>1. UNCHANGED <<kind, thread, ran>>
    BY <1>2 DEF HandleResponse
  <2>2. UNCHANGED answers \/ \E c \in Ids, o \in Outcomes : \E below : Complete(c, o, below)
    <3>1. \A r \in responses : r.c \in Ids /\ r.outcome \in Outcomes
      BY DEF TypeOK, Outcomes
    <3>2. QED
      BY <1>2, <3>1 DEF HandleResponse
  <2>3. QED
    BY <2>1, <2>2, SilentMap, CompleteMap
<1>3. CASE DrainNext
  <2>1. PICK c \in reqs : Complete(c, "aborted", stack)
    BY <1>3 DEF DrainNext
  <2>2. c \in Ids /\ "aborted" \in Outcomes
    BY DEF TypeOK, Outcomes
  <2>3. QED
    BY <1>3, <2>1, <2>2, CompleteMap DEF DrainNext
<1>4. CASE CallbackReturns \/ SentReturns \/ Close
  BY <1>4, SilentMap DEF CallbackReturns, SentReturns, Close
<1>5. QED
  BY <1>1, <1>2, <1>3, <1>4 DEF StrandStep

LEMMA WaitsMap ==
  ASSUME TypeOK, LifeInv, TypeOK', LifeInv', NEW c \in Ids, Waits(c)
  PROVE  LifeMoves
<1>1. /\ thread[c] = "waiting" /\ (\A d \in Ids : d # c => thread'[d] = thread[d])
      /\ UNCHANGED <<kind, answers, ran>>
  BY DEF Waits, WaitTimesOut, WaitEnds, Returns, TypeOK, table, peer
<1>2. QED
  BY <1>1, AnswersMap

\* A call is an Ask.
LEMMA CallsMap ==
  ASSUME TypeOK, LifeInv, NEW c \in Ids, Calls(c)
  PROVE  LifeMoves
<1>1. PICK k \in {"sync", "strand", "async", "oneway"} : Makes(c, k)
        /\ \/ k \in {"async", "oneway"} /\ UNCHANGED thread
           \/ k \in {"sync", "strand"} /\ thread'[c] \in {"waiting", "in_progress", "not_connected"}
  BY DEF Calls, CallSync, CallOnStrand, CallAsync, CallOneway, Returns, TypeOK
<1>2. /\ UNCHANGED <<answers, ran>> /\ \A d \in Ids : d # c => thread'[d] = thread[d]
  BY DEF Calls, CallSync, CallOnStrand, CallAsync, CallOneway, Returns, TypeOK, table, peer
<1>3. kind[c] = "-" /\ kind'[c] = k /\ \A d \in Ids : d # c => kind'[d] = kind[d]
  BY <1>1 DEF Makes, Fresh, TypeOK
<1>4. thread[c] = "-" /\ answers[c] = <<>>
  BY <1>3 DEF LifeInv, Honest
<1>5. Status(c) = "none" /\ Status(c)' \in {"pending", "not_connected", "in_progress"}
  <2>1. Status(c) = "none"
    BY <1>3, <1>4 DEF Status
  <2>2. CASE k = "async" \/ k = "oneway"
    BY <1>2, <1>3, <1>4, <2>2 DEF Status
  <2>3. CASE k \in {"sync", "strand"}
    <3>1. kind'[c] \in {"sync", "strand"} /\ thread'[c] \in {"waiting", "in_progress", "not_connected"}
      BY <1>1, <1>3, <2>3
    <3>2. QED
      BY <2>1, <3>1 DEF Status
  <2>4. QED
    BY <1>1, <2>1, <2>2, <2>3
<1>6. [d \in Ids |-> Status(d)]' = [[d \in Ids |-> Status(d)] EXCEPT ![c] = Status(c)']
  BY <1>2, <1>3, StatusStays, OneStatus
<1>7. Life!Ask(c)
  BY <1>2, <1>5, <1>6 DEF Life!Ask
<1>8. QED
  BY <1>7 DEF Life!Next, LifeMoves

\* The function of a request that has left runs once.
LEMMA ServeMap ==
  ASSUME TypeOK, LifeInv, NEW c \in Ids, Serve(c)
  PROVE  LifeMoves
<1> USE DEF caller, table
<1>1. UNCHANGED <<kind, thread, answers>> /\ (Once(c) \/ UNCHANGED ran)
  BY DEF Serve
<1>2. CASE UNCHANGED ran
  BY <1>1, <1>2, SilentMap
<1>3. CASE Once(c)
  <2>1. ran[c] = 0 /\ ran' = [ran EXCEPT ![c] = 1]
    <3>1. ran[c] = 0 /\ ran \in [Ids -> Nat]
      BY DEF Serve, LifeInv, Honest, TypeOK
    <3>2. QED
      BY <1>3, <3>1 DEF Once
  <2>2. ~Told(c, "not_connected") /\ ~Told(c, "failed") /\ ~Told(c, "ok") /\ kind[c] # "-"
        /\ (kind[c] \in {"sync", "strand"} => thread[c] # "-")
    BY <2>1 DEF Serve, LifeInv, Honest, Silent, Over
  <2>3. Seen(c) /\ SeesTold(c) /\ kind[c] \in {"-", "sync", "strand", "async", "oneway"}
    BY StatusOf, ToldOf DEF TypeOK
  <2>4. Status(c) \notin {"not_connected", "failed", "ok", "none"}
    <3>1. Status(c) \notin {"not_connected", "failed", "ok"}
      BY <2>2, <2>3 DEF SeesTold, Outcomes
    <3>2. Status(c) # "none"
      BY <2>2, <2>3 DEF Seen, Outcomes
    <3>3. QED
      BY <3>1, <3>2
  <2>5. [d \in Ids |-> Status(d)]' = [d \in Ids |-> Status(d)]
    BY <1>1, StatusStays
  <2>6. Life!Run(c)
    BY <2>1, <2>4, <2>5 DEF Life!Run, Life!Unsent
  <2>7. QED
    BY <2>6 DEF Life!Next, LifeMoves
<1>4. QED
  BY <1>1, <1>2, <1>3

LEMMA StepMaps == TypeOK /\ LifeInv /\ TypeOK' /\ LifeInv' /\ [Next]_vars => LifeMoves
<1> SUFFICES ASSUME TypeOK, LifeInv, TypeOK', LifeInv', [Next]_vars PROVE LifeMoves
  OBVIOUS
<1>1. ASSUME NEW c \in Ids, Calls(c) \/ Waits(c) PROVE LifeMoves
  BY <1>1, CallsMap, WaitsMap
<1>2. ASSUME NEW c \in Ids, Transmit(c) \/ TimerExpires(c) \/ Finish(c) PROVE LifeMoves
  BY <1>2, SilentMap DEF Transmit, TimerExpires, Finish, caller, table, peer
<1>3. ASSUME NEW c \in Ids, Serve(c) PROVE LifeMoves
  BY <1>3, ServeMap
<1>4. CASE LoseConnection \/ CallbackCallsStop \/ Reconnect \/ UNCHANGED vars
  BY <1>4, SilentMap DEF LoseConnection, CallbackCallsStop, Reconnect, vars, caller, table, peer
<1>5. QED
  BY <1>1, <1>2, <1>3, <1>4, StrandMap DEF Next, Peer

\* Every call, of any number of calls and connections, is answered as CallLife
\* promises: its function runs at most once, a result means it ran, and a request
\* that is reported as not sent never runs; also when callbacks stop the client.
THEOREM CallsImplementLife == Spec => LifeSpec
<1>1. Init => Life!Init
  BY DEF Init, Life!Init, Status
<1>2. Spec => [](TypeOK /\ LifeInv)
  BY LifeInvariant
<1>3. TypeOK /\ LifeInv /\ TypeOK' /\ LifeInv' /\ [Next]_vars => [Life!Next]_<<[c \in Ids |-> Status(c)], ran>>
  BY StepMaps DEF LifeMoves
<1>4. QED
  BY <1>1, <1>2, <1>3, PTL DEF Spec, LifeSpec, Life!Spec
=============================================================================
