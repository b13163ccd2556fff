--------------------------- MODULE UserTasks_proofs ---------------------------
(***************************************************************************)
(* Proofs about UserTasks, for every set of threads, tasks, events and ids *)
(* and every bound: its type invariant, that one thread at a time stops    *)
(* the pool, that a timer that was stopped ends, that what was accepted    *)
(* before a stop is run before the stop returns, and that what a stop      *)
(* leaves behind ends by itself.                                           *)
(***************************************************************************)
EXTENDS UserTasks, SequenceTheorems, TLAPS

-----------------------------------------------------------------------------
(* Type correctness.                                                       *)

LEMMA HandlerTypes ==
  /\ \A k \in Tasks : Handler("task", k) \in Handlers
  /\ \A e \in Events : Handler("event", e) \in Handlers
  /\ \A o \in Objects : Handler("start", o) \in Handlers
  /\ \A i \in TimerIds : Handler("stopTimer", i) \in Handlers
  /\ \A h \in {"stop", "stopTimers", "stopTasks"} : Handler(h, 0) \in Handlers
BY DEF Handler, Handlers

LEMMA PostType ==
  ASSUME posted \in Seq(Handlers), NEW h \in Handlers, Post(h)
  PROVE  posted' \in Seq(Handlers)
BY AppendProperties DEF Post

LEMMA TailType ==
  ASSUME posted \in Seq(Handlers), NEW h, NEW x, Takes(h, x)
  PROVE  Tail(posted) \in Seq(Handlers)
BY HeadTailProperties DEF Takes

LEMMA BaseStopType ==
  ASSUME TypeOK, NEW rest \in Seq(Handlers), BaseStop(rest)
  PROVE  posted' \in Seq(Handlers) /\ event' \in [Events -> {"new", "posted", "waiting", "queued", "running", "done"}]
<1>1. <<Handler("stopTimers", 0), Handler("stopTasks", 0)>> \in Seq(Handlers)
  BY HandlerTypes
<1>2. posted' \in Seq(Handlers)
  BY <1>1, ConcatProperties DEF BaseStop
<1>3. QED
  BY <1>2 DEF BaseStop, TypeOK

\* The calls of the application.
LEMMA CallsType ==
  ASSUME TypeOK, AppCalls \/ CallbackCalls
  PROVE  TypeOK'
<1>1. CASE \E k \in Tasks : PostTask(k)
  <2>1. posted' \in Seq(Handlers)
    BY <1>1, HandlerTypes, PostType DEF PostTask, TypeOK
  <2>2. QED
    BY <1>1, <2>1 DEF PostTask, TypeOK, pool, tmrs, history
<1>2. CASE \E e \in Events : PostEvent(e)
  <2>1. posted' \in Seq(Handlers)
    BY <1>2, HandlerTypes, PostType DEF PostEvent, TypeOK
  <2>2. late' \in BOOLEAN
    BY <1>2 DEF PostEvent, NotesLate
  <2>3. QED
    BY <1>2, <2>1, <2>2 DEF PostEvent, TypeOK, pool, tmrs
<1>3. CASE \E e \in Events : Notify(e)
  BY <1>3 DEF Notify, TypeOK, pool, tmrs, history
<1>4. CASE \E i \in TimerIds : StopTimer(i)
  <2>1. posted' \in Seq(Handlers)
    BY <1>4, HandlerTypes, PostType DEF StopTimer, TypeOK
  <2>2. QED
    BY <1>4, <2>1 DEF StopTimer, TypeOK, pool, work, tmrs, history
<1>5. CASE \E i \in TimerIds, o \in Objects : StartTimer(o, i)
  <2>1. posted' \in Seq(Handlers)
    BY <1>5, HandlerTypes, PostType DEF StartTimer, TypeOK
  <2>2. late' \in BOOLEAN
    BY <1>5 DEF StartTimer, NotesLate
  <2>3. QED
    BY <1>5, <2>1, <2>2 DEF StartTimer, TypeOK, pool, work
<1>6. CASE StopInside
  <2>1. posted' \in Seq(Handlers) /\ event' \in [Events -> {"new", "posted", "waiting", "queued", "running", "done"}]
    BY <1>6, BaseStopType DEF StopInside, TypeOK
  <2>2. QED
    BY <1>6, <2>1 DEF StopInside, TypeOK, pool, tmrs, history
<1>7. CASE \E e \in Events : PostEventInside(e)
  <2>1. late' \in BOOLEAN
    BY <1>7 DEF PostEventInside, NotesLate
  <2>2. QED
    BY <1>7, <2>1 DEF PostEventInside, TypeOK, pool, tmrs
<1>8. QED
  BY <1>1, <1>2, <1>3, <1>4, <1>5, <1>6, <1>7 DEF AppCalls, CallbackCalls

\* The handlers that were posted.
LEMMA PostedType ==
  ASSUME TypeOK, RunPosted
  PROVE  TypeOK'
<1>0. \A h, x : Takes(h, x) => Tail(posted) \in Seq(Handlers)
  BY TailType DEF TypeOK
<1>1. CASE \E k \in Tasks : RunTask(k)
  BY <1>0, <1>1 DEF RunTask, TypeOK, pool, tmrs, history
<1>2. CASE \E e \in Events : RunEvent(e)
  BY <1>0, <1>2 DEF RunEvent, TypeOK, pool, tmrs, history
<1>3. CASE \E o \in Objects : RunStart(o)
  <2> PICK o \in Objects : RunStart(o)
    BY <1>3
  <2>1. timers' \in [TimerIds -> Objects \cup {0}] /\ posted' \in Seq(Handlers)
    BY <1>0 DEF RunStart, TypeOK
  <2>2. exited' \subseteq Objects /\ over' \subseteq Objects
    BY DEF RunStart, TypeOK, Mapped, Ends, Known
  <2>3. timer' \in [Objects -> {"new", "posted", "armed", "ok", "aborted", "running", "idle"}]
    BY DEF RunStart, TypeOK
  <2>4. QED
    BY <2>1, <2>2, <2>3 DEF RunStart, TypeOK, pool, work, history, Ends
<1>4. CASE \E S \in SUBSET TimerIds : StopTimers(S) /\ posted' \in Seq(Handlers)
  <2> PICK S \in SUBSET TimerIds : StopTimers(S) /\ posted' \in Seq(Handlers)
    BY <1>4
  <2>1. timers' \in [TimerIds -> Objects \cup {0}]
    BY DEF StopTimers, TypeOK
  <2>2. exited' \subseteq Objects /\ over' \subseteq Objects
    BY DEF StopTimers, TypeOK, Mapped, Ends, Known, Exit
  <2>3. timer' \in [Objects -> {"new", "posted", "armed", "ok", "aborted", "running", "idle"}]
    BY DEF StopTimers, TypeOK, Exit
  <2>4. QED
    BY <2>1, <2>2, <2>3 DEF StopTimers, TypeOK, pool, work, history, Ends
<1>5. CASE RunStopTasks
  BY <1>0, <1>5 DEF RunStopTasks, TypeOK, pool, tmrs, history
<1>6. CASE RunStop
  <2>1. posted' \in Seq(Handlers) /\ event' \in [Events -> {"new", "posted", "waiting", "queued", "running", "done"}]
    BY <1>0, <1>6, BaseStopType DEF RunStop
  <2>2. QED
    BY <1>6, <2>1 DEF RunStop, TypeOK, pool, tmrs, history
<1>7. CASE \E i \in TimerIds : RunStopTimer(i)
  BY <1>0, <1>4, <1>7 DEF RunStopTimer
<1>8. CASE RunStopTimers
  BY <1>0, <1>4, <1>8 DEF RunStopTimers
<1>9. QED
  BY <1>1, <1>2, <1>3, <1>5, <1>6, <1>7, <1>8 DEF RunPosted

\* The handlers of the timers, and the clock.
LEMMA TimersType ==
  ASSUME TypeOK,
         \/ Returns
         \/ \E k \in Tasks : RunQueuedTask(k) \/ TaskExpires(k)
         \/ \E e \in Events : RunQueuedEvent(e)
         \/ \E o \in Objects : RunTick(o) \/ TimerExpires(o)
  PROVE  TypeOK'
<1>1. CASE TaskReturns
  BY <1>1 DEF TaskReturns, TypeOK, pool, tmrs, history, NoFrame
<1>2. CASE EventReturns
  BY <1>2 DEF EventReturns, TypeOK, pool, tmrs, history, NoFrame
<1>3. CASE TickReturns
  BY <1>3 DEF TickReturns, TypeOK, pool, work, history, NoFrame
<1>4. CASE \E k \in Tasks : RunQueuedTask(k)
  BY <1>4 DEF RunQueuedTask, Calls, Frame, TypeOK, pool, tmrs, history
<1>5. CASE \E k \in Tasks : TaskExpires(k)
  BY <1>5 DEF TaskExpires, TypeOK, pool, tmrs, history
<1>6. CASE \E e \in Events : RunQueuedEvent(e)
  BY <1>6 DEF RunQueuedEvent, Calls, Frame, TypeOK, pool, tmrs, history
<1>7. CASE \E o \in Objects : RunTick(o)
  <2> PICK o \in Objects : RunTick(o)
    BY <1>7
  <2>1. extra' \in [Objects -> 0 .. 2]
    BY DEF RunTick, TypeOK
  <2>2. QED
    BY <2>1 DEF RunTick, Calls, Frame, TypeOK, pool, work, history
<1>8. CASE \E o \in Objects : TimerExpires(o)
  BY <1>8 DEF TimerExpires, TypeOK, pool, work, history
<1>9. QED
  BY <1>1, <1>2, <1>3, <1>4, <1>5, <1>6, <1>7, <1>8 DEF Returns

\* The pool and its callers.
LEMMA PoolType ==
  ASSUME TypeOK, RunReturns \/ \E t \in Threads : StartPool(t) \/ StopTests(t) \/ Stops(t)
  PROVE  TypeOK'
<1>1. CASE RunReturns
  BY <1>1 DEF RunReturns, TypeOK, work, tmrs, history
<1>2. CASE \E t \in Threads : StartPool(t)
  <2>1. starts' \in 0 .. MaxStarts /\ late' \in BOOLEAN
    BY <1>2, BoundsAssumption DEF StartPool, TypeOK, Stopping, BoundsAssumption
  <2>2. QED
    BY <1>2, <2>1 DEF StartPool, TypeOK, work, tmrs
<1>3. CASE \E t \in Threads : StopTests(t)
  BY <1>3 DEF StopTests, TypeOK, pool, work, tmrs, history
<1>4. CASE \E t \in Threads : StopPosts(t)
  <2>1. posted' \in Seq(Handlers)
    BY <1>4, HandlerTypes, PostType DEF StopPosts, TypeOK
  <2>2. Accepted \subseteq ({"task"} \X Tasks) \cup ({"event"} \X Events)
    BY DEF Accepted
  <2>3. QED
    BY <1>4, <2>1, <2>2 DEF StopPosts, TypeOK, pool, work, tmrs
<1>5. CASE \E t \in Threads : StopPool(t)
  BY <1>5 DEF StopPool, Returned, TypeOK, work, tmrs
<1>6. CASE \E t \in Threads : ResetGuard(t)
  BY <1>6 DEF ResetGuard, TypeOK, work, tmrs, history
<1>7. CASE \E t \in Threads : StopReturnsNow(t)
  BY <1>7 DEF StopReturnsNow, Returned, TypeOK, work, tmrs
<1>8. QED
  BY <1>1, <1>2, <1>3, <1>4, <1>5, <1>6, <1>7 DEF Stops

\* Every variable has its type, after any sequence of calls and handlers.
THEOREM TypeCorrect == Spec => []TypeOK
<1>1. Init => TypeOK
  <2>1. MaxStarts \in Nat
    BY BoundsAssumption DEF BoundsAssumption
  <2>2. <<>> \in Seq(Handlers)
    BY EmptySeq
  <2> SUFFICES ASSUME Init PROVE TypeOK
    OBVIOUS
  <2>3. starts \in 0 .. MaxStarts /\ posted \in Seq(Handlers) /\ frame = NoFrame
    BY <2>1, <2>2 DEF Init
  <2>4. timer \in [Objects -> {"new", "posted", "armed", "ok", "aborted", "running", "idle"}]
    BY DEF Init
  <2>5. extra \in [Objects -> 0 .. 2] /\ timers \in [TimerIds -> Objects \cup {0}]
    BY DEF Init
  <2>6. owed \in [Threads -> SUBSET (({"task"} \X Tasks) \cup ({"event"} \X Events))]
    BY DEF Init
  <2>7. QED
    BY <2>3, <2>4, <2>5, <2>6 DEF Init, TypeOK
<1>2. TypeOK /\ [Next]_vars => TypeOK'
  <2> SUFFICES ASSUME TypeOK, [Next]_vars PROVE TypeOK'
    OBVIOUS
  <2>1. CASE Next
    BY <2>1, CallsType, PostedType, TimersType, PoolType DEF Next
  <2>2. CASE UNCHANGED vars
    BY <2>2 DEF TypeOK, vars, pool, work, tmrs, history
  <2>3. QED
    BY <2>1, <2>2
<1>3. QED
  BY <1>1, <1>2, PTL DEF Spec

-----------------------------------------------------------------------------
(* The pool.                                                               *)

\* A pool that is not stopped holds its context.
HeldWhileStarted == ~stopped => guard = "held"

PoolInv == HeldWhileStarted /\ OneStopper

\* A step that leaves the pool alone and lets no thread past the test keeps it.
LEMMA PoolKept ==
  ASSUME PoolInv, UNCHANGED <<stopped, guard>>,
         \A s \in Threads : caller'[s] \in {"stopping", "waiting"} => caller[s] \in {"stopping", "waiting"}
  PROVE  PoolInv'
BY DEF PoolInv, HeldWhileStarted, OneStopper

\* PoolInv is kept by every step.
LEMMA PoolInvKept ==
  ASSUME TypeOK, PoolInv, [Next]_vars
  PROVE  PoolInv'
<1>1. CASE UNCHANGED vars
  BY <1>1, PoolKept DEF vars, pool
<1>2. CASE AppCalls \/ CallbackCalls
  <2>1. UNCHANGED <<stopped, guard, caller>>
    BY <1>2 DEF AppCalls, CallbackCalls, PostTask, PostEvent, PostEventInside, Notify, StartTimer,
                StopTimer, StopInside, pool
  <2>2. QED
    BY <2>1, PoolKept
<1>3. CASE RunPosted
  <2>1. UNCHANGED <<stopped, guard, caller>>
    BY <1>3 DEF RunPosted, RunTask, RunEvent, RunStart, RunStopTimer, RunStopTimers, StopTimers,
                RunStopTasks, RunStop, pool
  <2>2. QED
    BY <2>1, PoolKept
<1>4. CASE \/ Returns
           \/ \E k \in Tasks : RunQueuedTask(k) \/ TaskExpires(k)
           \/ \E e \in Events : RunQueuedEvent(e)
           \/ \E o \in Objects : RunTick(o) \/ TimerExpires(o)
  <2>1. UNCHANGED <<stopped, guard, caller>>
    BY <1>4 DEF Returns, TaskReturns, EventReturns, TickReturns, RunQueuedTask, TaskExpires,
                RunQueuedEvent, RunTick, TimerExpires, pool
  <2>2. QED
    BY <2>1, PoolKept
<1>5. CASE RunReturns
  BY <1>5, PoolKept DEF RunReturns
<1>6. CASE \E t \in Threads : StartPool(t)
  \* The guard is "none", so no thread is past the test.
  <2>1. \A s \in Threads : caller[s] \notin {"stopping", "waiting"}
    BY <1>6 DEF StartPool, PoolInv, OneStopper
  <2>2. QED
    BY <1>6, <2>1 DEF StartPool, PoolInv, OneStopper, HeldWhileStarted
<1>7. CASE \E t \in Threads : StopTests(t) \/ StopPosts(t)
  <2>1. UNCHANGED <<stopped, guard>>
    BY <1>7 DEF StopTests, StopPosts, pool
  <2>2. \A s \in Threads : caller'[s] \in {"stopping", "waiting"} => caller[s] \in {"stopping", "waiting"}
    BY <1>7 DEF StopTests, StopPosts, TypeOK
  <2>3. QED
    BY <2>1, <2>2, PoolKept
<1>8. CASE \E t \in Threads : StopPool(t)
  <2> PICK t \in Threads : StopPool(t)
    BY <1>8
  <2>1. CASE stopped
    <3>1. \A s \in Threads : caller'[s] \in {"stopping", "waiting"} => caller[s] \in {"stopping", "waiting"}
      BY <2>1 DEF StopPool, Returned, TypeOK
    <3>2. QED
      BY <2>1, <3>1, PoolKept DEF StopPool
  \* The pool was started, so no other thread is past the test.
  <2>2. CASE ~stopped
    <3>1. \A s \in Threads : caller[s] \notin {"stopping", "waiting"}
      BY <2>2 DEF PoolInv, OneStopper
    <3>2. stopped' = TRUE /\ guard' = "held" /\ caller' = [caller EXCEPT ![t] = "stopping"]
      BY <2>2 DEF StopPool, PoolInv, HeldWhileStarted
    <3>3. QED
      BY <3>1, <3>2 DEF PoolInv, OneStopper, HeldWhileStarted, TypeOK
  <2>3. QED
    BY <2>1, <2>2
<1>9. CASE \E t \in Threads : ResetGuard(t)
  <2> PICK t \in Threads : ResetGuard(t)
    BY <1>9
  <2>1. stopped /\ stopped' = stopped /\ guard' = "reset"
    BY DEF ResetGuard, PoolInv, OneStopper
  <2>2. \A s \in Threads : caller'[s] \in {"stopping", "waiting"} => caller[s] \in {"stopping", "waiting"}
    BY DEF ResetGuard, TypeOK
  <2>3. QED
    BY <2>1, <2>2 DEF PoolInv, OneStopper, HeldWhileStarted
<1>10. CASE \E t \in Threads : StopReturnsNow(t)
  <2> PICK t \in Threads : StopReturnsNow(t)
    BY <1>10
  <2>1. stopped' = stopped /\ stopped
    BY DEF StopReturnsNow, PoolInv, OneStopper
  \* The thread that returns was the only one.
  <2>2. \A s \in Threads : caller'[s] \notin {"stopping", "waiting"}
    BY DEF StopReturnsNow, Returned, PoolInv, OneStopper, TypeOK
  <2>3. QED
    BY <2>1, <2>2 DEF PoolInv, OneStopper, HeldWhileStarted
<1>11. QED
  BY <1>1, <1>2, <1>3, <1>4, <1>5, <1>6, <1>7, <1>8, <1>9, <1>10 DEF Next, Stops

\* One thread at a time waits for the context and joins its thread
\* (iopool::stop), whatever the others call.
THEOREM OneStopperHolds == Spec => []OneStopper
<1>1. Init => PoolInv
  BY DEF Init, PoolInv, HeldWhileStarted, OneStopper
<1>2. TypeOK /\ PoolInv /\ [Next]_vars => PoolInv'
  BY PoolInvKept
<1>3. PoolInv => OneStopper
  BY DEF PoolInv
<1>4. QED
  BY <1>1, <1>2, <1>3, TypeCorrect, PTL DEF Spec

-----------------------------------------------------------------------------
(* The timers.                                                             *)

\* The timer is one that start_timer made on the strand.
Made(o) == timer[o] \notin {"new", "posted"}

\* user_timers_ has each timer under its own id.
MappedById == \A i \in TimerIds : timers[i] # 0 => id[timers[i]] = i /\ Made(timers[i])

\* A timer that is not exited is in user_timers_.
ExitedWhenUnmapped == \A o \in Objects : Made(o) /\ o \notin exited => timers[id[o]] = o

\* A timer that is exited does not run again by itself.
ExitedNotArmed == \A o \in exited : timer[o] \in {"ok", "aborted", "running", "idle"}

\* A timer whose id was stopped is exited.
OverIsExited == over \subseteq exited

\* It has been called since then only when no further handler of it waits.
ExtraCounted ==
  \A o \in Objects :
    /\ extra[o] \in {0, 1}
    /\ o \notin over \/ timer[o] \in {"ok", "aborted"} => extra[o] = 0

\* The callback that runs is that of a timer that is running.
FrameRuns == frame.k \in {"ok", "aborted"} => frame.x \in Objects /\ timer[frame.x] = "running"

\* A timer is started once, while it is posted; q is the strand's queue and st
\* the state of the timers.
StartsOnce(q, st) ==
  \A n \in DOMAIN q : q[n].h = "start" =>
    /\ st[q[n].x] = "posted"
    /\ \A m \in DOMAIN q : q[m] = q[n] => m = n

TimersInv == MappedById /\ ExitedWhenUnmapped /\ ExitedNotArmed /\ OverIsExited /\ ExtraCounted

TimerInv == TimersInv /\ FrameRuns /\ StartsOnce(posted, timer)

\* The queue loses its head, gets a handler, or the timers change their state.
LEMMA StartsTail ==
  ASSUME NEW q \in Seq(Handlers), q # <<>>, NEW st, StartsOnce(q, st)
  PROVE  /\ StartsOnce(Tail(q), st)
         /\ \A n \in DOMAIN Tail(q) : Tail(q)[n].h = "start" => Tail(q)[n] # Head(q)
<1>1. /\ Len(q) \in Nat \ {0} /\ DOMAIN q = 1 .. Len(q)
      /\ DOMAIN Tail(q) = 1 .. Len(q) - 1
      /\ \A n \in 1 .. Len(q) - 1 : Tail(q)[n] = q[n + 1]
      /\ Head(q) = q[1]
  BY HeadTailProperties, LenProperties, EmptySeq
<1>2. QED
  BY <1>1 DEF StartsOnce

LEMMA StartsAppend ==
  ASSUME NEW q \in Seq(Handlers), NEW h \in Handlers, NEW st, StartsOnce(q, st),
         h.h = "start" => st[h.x] = "posted" /\ \A n \in DOMAIN q : q[n] # h
  PROVE  StartsOnce(Append(q, h), st)
<1>1. /\ Len(q) \in Nat /\ DOMAIN q = 1 .. Len(q)
      /\ DOMAIN Append(q, h) = 1 .. Len(q) + 1
      /\ \A n \in 1 .. Len(q) : Append(q, h)[n] = q[n]
      /\ Append(q, h)[Len(q) + 1] = h
  BY AppendProperties, LenProperties
<1>2. QED
  BY <1>1 DEF StartsOnce

LEMMA StartsState ==
  ASSUME NEW q, NEW st, StartsOnce(q, st), NEW new,
         \A n \in DOMAIN q : q[n].h = "start" => new[q[n].x] = "posted"
  PROVE  StartsOnce(q, new)
BY DEF StartsOnce

\* The base class's stop posts no start.
LEMMA StartsBaseStop ==
  ASSUME NEW rest \in Seq(Handlers), StartsOnce(rest, timer), BaseStop(rest)
  PROVE  StartsOnce(posted', timer)
<1> DEFINE a == Handler("stopTimers", 0)
           b == Handler("stopTasks", 0)
<1>1. a \in Handlers /\ b \in Handlers /\ a.h # "start" /\ b.h # "start"
  BY HandlerTypes DEF Handler
<1>2. posted' = rest \o <<a, b>>
  BY DEF BaseStop
<1> HIDE DEF a, b
<1>3. StartsOnce(Append(rest, a), timer) /\ Append(rest, a) \in Seq(Handlers)
  BY <1>1, StartsAppend, AppendProperties
<1>4. StartsOnce(Append(Append(rest, a), b), timer)
  BY <1>1, <1>3, StartsAppend
<1>5. posted' = Append(Append(rest, a), b)
  BY <1>1, <1>2
<1>6. QED
  BY <1>4, <1>5

\* A step that leaves the timers alone and calls none of them.
LEMMA TimersKept ==
  ASSUME TimersInv, FrameRuns, UNCHANGED tmrs,
         frame' = frame \/ frame'.k \notin {"ok", "aborted"}
  PROVE  TimersInv' /\ FrameRuns'
<1>1. FrameRuns'
  BY DEF FrameRuns, tmrs
<1>2. TimersInv'
  BY DEF TimersInv, MappedById, ExitedWhenUnmapped, ExitedNotArmed, OverIsExited, ExtraCounted,
         Made, tmrs
<1>3. QED
  BY <1>1, <1>2

\* start_timer, on the strand.
LEMMA RunStartKeeps ==
  ASSUME TypeOK, TimerInv, NEW o \in Objects, RunStart(o)
  PROVE  TimerInv'
<1> DEFINE old == Mapped({id[o]})
<1>1. posted # <<>> /\ posted[1] = Handler("start", o) /\ posted' = Tail(posted) /\ frame = NoFrame
  BY DEF RunStart, Takes, InCallback
<1>2. timer[o] = "posted"
  <2>1. 1 \in DOMAIN posted
    BY <1>1 DEF TypeOK
  <2>2. QED
    BY <1>1, <2>1 DEF TimerInv, StartsOnce, Handler
<1>3. \A p \in old : p \in Objects /\ Made(p) /\ p # o /\ p = timers[id[o]]
  BY <1>2 DEF Mapped, TypeOK, TimerInv, TimersInv, MappedById, Made
<1>4. /\ timer' = [p \in Objects |-> IF p = o THEN "armed"
                                       ELSE IF p \in old /\ timer[p] = "armed" THEN "aborted"
                                       ELSE timer[p]]
      /\ timers' = [timers EXCEPT ![id[o]] = o]
      /\ exited' = exited \cup old
      /\ over' = over \cup Known({id[o]})
      /\ UNCHANGED <<id, extra, frame>>
  BY DEF RunStart, Ends
<1>5. \A p \in Objects : Made(p) /\ id[p] = id[o] => p \in exited \/ p \in old
  BY DEF TimerInv, TimersInv, ExitedWhenUnmapped, Mapped, TypeOK, Objects
<1> HIDE DEF old
<1>6. MappedById'
  BY <1>2, <1>3, <1>4 DEF TypeOK, TimerInv, TimersInv, MappedById, Made
<1>7. ExitedWhenUnmapped'
  BY <1>2, <1>3, <1>4, <1>5 DEF TypeOK, TimerInv, TimersInv, ExitedWhenUnmapped, Made
<1>8. ExitedNotArmed'
  BY <1>2, <1>3, <1>4 DEF TypeOK, TimerInv, TimersInv, ExitedNotArmed, Made
<1>9. OverIsExited'
  BY <1>4, <1>5 DEF TypeOK, TimerInv, TimersInv, OverIsExited, Known, Made
<1>10. ExtraCounted'
  BY <1>2, <1>3, <1>4 DEF TypeOK, TimerInv, TimersInv, ExtraCounted, ExitedNotArmed, OverIsExited, Made
<1>11. FrameRuns'
  BY <1>1, <1>4 DEF FrameRuns, NoFrame
<1>12. StartsOnce(posted', timer')
  <2>1. /\ StartsOnce(Tail(posted), timer)
        /\ \A n \in DOMAIN Tail(posted) : Tail(posted)[n].h = "start" => Tail(posted)[n] # Head(posted)
    BY <1>1, StartsTail DEF TypeOK, TimerInv
  <2>2. \A n \in DOMAIN Tail(posted) : Tail(posted)[n] \in Handlers
    BY <1>1, HeadTailProperties, ElementOfSeq, LenProperties DEF TypeOK
  <2>3. ASSUME NEW n \in DOMAIN Tail(posted), Tail(posted)[n].h = "start"
        PROVE  timer'[Tail(posted)[n].x] = "posted"
    <3> DEFINE g == Tail(posted)[n]
    <3>1. g \in [h : {"start"}, x : Objects]
      BY <2>2, <2>3 DEF Handlers
    <3>2. g # Handler("start", o)
      BY <1>1, <2>1, <2>3
    <3>3. g.x \in Objects /\ g.x # o
      BY <3>1, <3>2 DEF Handler
    <3>4. timer[g.x] = "posted"
      BY <2>1, <2>3 DEF StartsOnce
    <3>5. g.x \notin old
      BY <1>3, <3>4 DEF Made
    <3>6. QED
      BY <1>4, <3>3, <3>4, <3>5
  <2>4. QED
    BY <1>1, <2>1, <2>3, StartsState
<1>13. QED
  BY <1>6, <1>7, <1>8, <1>9, <1>10, <1>11, <1>12 DEF TimerInv, TimersInv

\* stop_timer and stop_all_timers, on the strand.
LEMMA StopTimersKeeps ==
  ASSUME TypeOK, TimerInv, NEW S \in SUBSET TimerIds, StopTimers(S), NEW h, NEW x, Takes(h, x),
         posted' = Tail(posted)
  PROVE  TimerInv'
<1> DEFINE old == Mapped(S)
<1>1. posted # <<>> /\ frame = NoFrame
  BY DEF Takes, InCallback
<1>2. \A p \in old : p \in Objects /\ Made(p) /\ id[p] \in S
  BY DEF Mapped, TypeOK, TimerInv, TimersInv, MappedById, Made
<1>3. /\ timer' = [p \in Objects |-> IF p \in old /\ timer[p] = "armed" THEN "aborted" ELSE timer[p]]
      /\ timers' = [i \in TimerIds |-> IF i \in S THEN 0 ELSE timers[i]]
      /\ exited' = exited \cup old
      /\ over' = over \cup Known(S)
      /\ UNCHANGED <<id, extra, frame>>
  BY DEF StopTimers, Exit, Ends
<1>4. \A p \in Objects : Made(p) /\ id[p] \in S => p \in exited \/ p \in old
  BY DEF TimerInv, TimersInv, ExitedWhenUnmapped, Mapped, TypeOK, Objects
<1> HIDE DEF old
<1>5. MappedById'
  BY <1>2, <1>3 DEF TypeOK, TimerInv, TimersInv, MappedById, Made
<1>6. ExitedWhenUnmapped'
  BY <1>2, <1>3, <1>4 DEF TypeOK, TimerInv, TimersInv, ExitedWhenUnmapped, Made
<1>7. ExitedNotArmed'
  BY <1>2, <1>3 DEF TypeOK, TimerInv, TimersInv, ExitedNotArmed, Made
<1>8. OverIsExited'
  BY <1>3, <1>4 DEF TypeOK, TimerInv, TimersInv, OverIsExited, Known, Made
<1>9. ExtraCounted'
  BY <1>2, <1>3 DEF TypeOK, TimerInv, TimersInv, ExtraCounted, ExitedNotArmed, OverIsExited, Made
<1>10. FrameRuns'
  BY <1>1, <1>3 DEF FrameRuns, NoFrame
<1>11. StartsOnce(posted', timer')
  <2>1. StartsOnce(Tail(posted), timer)
    BY <1>1, StartsTail DEF TypeOK, TimerInv
  <2>2. \A p \in Objects : timer[p] = "posted" => timer'[p] = "posted"
    BY <1>3
  <2>3. \A n \in DOMAIN Tail(posted) : Tail(posted)[n] \in Handlers
    BY <1>1, HeadTailProperties, ElementOfSeq, LenProperties DEF TypeOK
  <2>4. \A n \in DOMAIN Tail(posted) : Tail(posted)[n].h = "start" => timer'[Tail(posted)[n].x] = "posted"
    BY <2>1, <2>2, <2>3 DEF StartsOnce, Handlers
  <2>5. QED
    BY <2>1, <2>4, StartsState
<1>12. QED
  BY <1>5, <1>6, <1>7, <1>8, <1>9, <1>10, <1>11 DEF TimerInv, TimersInv

\* The calls of the application.
LEMMA CallsKeep ==
  ASSUME TypeOK, TimerInv, AppCalls \/ CallbackCalls
  PROVE  TimerInv'
<1>1. CASE \E i \in TimerIds, o \in Objects : StartTimer(o, i)
  <2> PICK i \in TimerIds, o \in Objects : StartTimer(o, i)
    BY <1>1
  <2> DEFINE h == Handler("start", o)
  <2>1. /\ timer[o] = "new" /\ timer' = [timer EXCEPT ![o] = "posted"]
        /\ id' = [id EXCEPT ![o] = i] /\ posted' = Append(posted, h)
        /\ UNCHANGED <<exited, timers, over, extra, frame>>
    BY DEF StartTimer, Post
  <2>2. TimersInv'
    BY <2>1 DEF TypeOK, TimerInv, TimersInv, MappedById, ExitedWhenUnmapped, ExitedNotArmed,
                OverIsExited, ExtraCounted, Made
  <2>3. FrameRuns'
    BY <2>1 DEF TypeOK, TimerInv, FrameRuns
  <2>4. h \in Handlers /\ h.x = o /\ h.h = "start"
    BY HandlerTypes DEF Handler
  <2>5. \A n \in DOMAIN posted : posted[n] \in Handlers
    BY ElementOfSeq, LenProperties DEF TypeOK
  <2>6. \A n \in DOMAIN posted : posted[n].h = "start" => posted[n].x \in Objects /\ posted[n].x # o
    BY <2>1, <2>5 DEF TimerInv, StartsOnce, Handlers
  <2>7. StartsOnce(posted, timer')
    <3>1. \A n \in DOMAIN posted : posted[n].h = "start" => timer'[posted[n].x] = "posted"
      BY <2>1, <2>6 DEF TypeOK, TimerInv, StartsOnce
    <3>2. QED
      BY <3>1, StartsState DEF TimerInv
  <2>8. timer'[o] = "posted" /\ \A n \in DOMAIN posted : posted[n] # h
    BY <2>1, <2>4, <2>6 DEF TypeOK
  <2> HIDE DEF h
  <2>9. StartsOnce(Append(posted, h), timer')
    BY <2>4, <2>7, <2>8, StartsAppend DEF TypeOK
  <2>10. QED
    BY <2>1, <2>2, <2>3, <2>9 DEF TimerInv
<1>2. CASE \/ \E k \in Tasks : PostTask(k)
           \/ \E e \in Events : PostEvent(e)
           \/ \E i \in TimerIds : StopTimer(i)
  <2> PICK h \in Handlers : posted' = Append(posted, h) /\ h.h # "start"
    BY <1>2, HandlerTypes DEF PostTask, PostEvent, StopTimer, Post, Handler
  <2>1. UNCHANGED <<tmrs, frame>>
    BY <1>2 DEF PostTask, PostEvent, StopTimer
  <2>2. StartsOnce(posted', timer')
    BY <2>1, StartsAppend DEF TypeOK, TimerInv, tmrs
  <2>3. QED
    BY <2>1, <2>2, TimersKept DEF TimerInv
<1>3. CASE \E e \in Events : Notify(e) \/ PostEventInside(e)
  <2>1. UNCHANGED <<tmrs, frame, posted>>
    BY <1>3 DEF Notify, PostEventInside
  <2>2. QED
    BY <2>1, TimersKept DEF TimerInv, tmrs
<1>4. CASE StopInside
  <2>1. UNCHANGED <<tmrs, frame>>
    BY <1>4 DEF StopInside
  <2>2. StartsOnce(posted', timer)
    BY <1>4, StartsBaseStop DEF StopInside, TypeOK, TimerInv
  <2>3. QED
    BY <2>1, <2>2, TimersKept DEF TimerInv, tmrs
<1>5. QED
  BY <1>1, <1>2, <1>3, <1>4 DEF AppCalls, CallbackCalls

\* The handlers that were posted.
LEMMA PostedKeep ==
  ASSUME TypeOK, TimerInv, RunPosted
  PROVE  TimerInv'
<1>0. \A h, x : Takes(h, x) => StartsOnce(Tail(posted), timer) /\ Tail(posted) \in Seq(Handlers)
  BY StartsTail, TailType DEF Takes, TypeOK, TimerInv
<1>1. CASE \/ \E k \in Tasks : RunTask(k)
           \/ \E e \in Events : RunEvent(e)
           \/ RunStopTasks
  <2>1. UNCHANGED <<tmrs, frame>> /\ StartsOnce(posted', timer)
    BY <1>0, <1>1 DEF RunTask, RunEvent, RunStopTasks
  <2>2. QED
    BY <2>1, TimersKept DEF TimerInv, tmrs
<1>2. CASE RunStop
  <2>1. UNCHANGED <<tmrs, frame>> /\ StartsOnce(posted', timer)
    BY <1>0, <1>2, StartsBaseStop DEF RunStop
  <2>2. QED
    BY <2>1, TimersKept DEF TimerInv, tmrs
<1>3. CASE \E o \in Objects : RunStart(o)
  BY <1>3, RunStartKeeps
<1>4. CASE \E i \in TimerIds : RunStopTimer(i)
  <2> PICK i \in TimerIds : RunStopTimer(i)
    BY <1>4
  <2>1. {i} \in SUBSET TimerIds
    OBVIOUS
  <2>2. QED
    BY <2>1, StopTimersKeeps DEF RunStopTimer
<1>5. CASE RunStopTimers
  BY <1>5, StopTimersKeeps DEF RunStopTimers
<1>6. QED
  BY <1>1, <1>2, <1>3, <1>4, <1>5 DEF RunPosted

\* The handlers of the user's timers, and their clock.
LEMMA TicksKeep ==
  ASSUME TypeOK, TimerInv, NEW o \in Objects,
         RunTick(o) \/ TimerExpires(o) \/ (TickReturns /\ frame.x = o)
  PROVE  TimerInv'
<1>1. CASE RunTick(o)
  <2>1. /\ timer[o] \in {"ok", "aborted"} /\ timer' = [timer EXCEPT ![o] = "running"]
        /\ frame' = [k |-> timer[o], x |-> o]
        /\ UNCHANGED <<posted, id, exited, timers, over>>
    BY <1>1 DEF RunTick, Calls, Frame
  <2>2. extra[o] = 0 /\ extra' = [extra EXCEPT ![o] = IF o \in over THEN 1 ELSE 0]
    <3>1. extra[o] = 0
      BY <2>1 DEF TimerInv, TimersInv, ExtraCounted
    <3>2. extra' = [extra EXCEPT ![o] = IF o \in over /\ extra[o] < 2 THEN extra[o] + 1 ELSE extra[o]]
      BY <1>1 DEF RunTick
    <3>3. QED
      BY <3>1, <3>2
  <2>3. TimersInv'
    BY <2>1, <2>2 DEF TypeOK, TimerInv, TimersInv, MappedById, ExitedWhenUnmapped, ExitedNotArmed,
                      OverIsExited, ExtraCounted, Made
  <2>4. FrameRuns'
    BY <2>1 DEF TypeOK, FrameRuns
  <2>5. QED
    BY <2>1, <2>3, <2>4, StartsState DEF TypeOK, TimerInv, StartsOnce
<1>2. CASE TimerExpires(o)
  <2>1. /\ timer[o] = "armed" /\ timer' = [timer EXCEPT ![o] = "ok"]
        /\ UNCHANGED <<posted, frame, id, exited, timers, over, extra>>
    BY <1>2 DEF TimerExpires
  <2>2. o \notin exited /\ o \notin over
    BY <2>1 DEF TimerInv, TimersInv, ExitedNotArmed, OverIsExited
  <2>3. TimersInv'
    BY <2>1, <2>2 DEF TypeOK, TimerInv, TimersInv, MappedById, ExitedWhenUnmapped, ExitedNotArmed,
                      OverIsExited, ExtraCounted, Made
  <2>4. FrameRuns'
    BY <2>1 DEF TypeOK, TimerInv, FrameRuns
  <2>5. QED
    BY <2>1, <2>3, <2>4, StartsState DEF TypeOK, TimerInv, StartsOnce
<1>3. CASE TickReturns /\ frame.x = o
  <2>1. /\ timer[o] = "running" /\ frame' = NoFrame
        /\ \/ timer' = [timer EXCEPT ![o] = "idle"]
           \/ timer' = [timer EXCEPT ![o] = "armed"] /\ o \notin exited
        /\ UNCHANGED <<posted, id, exited, timers, over, extra>>
    BY <1>3 DEF TickReturns, TimerInv, FrameRuns
  <2>2. TimersInv'
    BY <2>1, SMTT(20), ZenonT(20)
    DEF TypeOK, TimerInv, TimersInv, MappedById, ExitedWhenUnmapped, ExitedNotArmed,
                OverIsExited, ExtraCounted, Made
  <2>3. FrameRuns'
    BY <2>1 DEF FrameRuns, NoFrame
  <2>4. \A p : timer[p] = "posted" => timer'[p] = "posted"
    <3>1. CASE timer' = [timer EXCEPT ![o] = "idle"]
      BY <2>1, <3>1 DEF TypeOK
    <3>2. CASE timer' = [timer EXCEPT ![o] = "armed"]
      BY <2>1, <3>2 DEF TypeOK
    <3>3. QED
      BY <2>1, <3>1, <3>2
  <2>5. StartsOnce(posted', timer')
    BY <2>1, <2>4 DEF TimerInv, StartsOnce
  <2>6. QED
    BY <2>2, <2>3, <2>5 DEF TimerInv
<1>4. QED
  BY <1>1, <1>2, <1>3

\* TimerInv is kept by every step.
LEMMA TimerInvKept ==
  ASSUME TypeOK, TimerInv, [Next]_vars
  PROVE  TimerInv'
<1>1. CASE AppCalls \/ CallbackCalls
  BY <1>1, CallsKeep
<1>2. CASE RunPosted
  BY <1>2, PostedKeep
<1>3. CASE \E o \in Objects : RunTick(o) \/ TimerExpires(o)
  BY <1>3, TicksKeep
<1>4. CASE TickReturns
  <2>1. frame.x \in Objects
    BY <1>4 DEF TickReturns, TimerInv, FrameRuns
  <2>2. QED
    BY <1>4, <2>1, TicksKeep
<1>5. CASE \/ TaskReturns \/ EventReturns
           \/ \E k \in Tasks : RunQueuedTask(k) \/ TaskExpires(k)
           \/ \E e \in Events : RunQueuedEvent(e)
  <2>1. UNCHANGED <<tmrs, posted>>
    BY <1>5 DEF TaskReturns, EventReturns, RunQueuedTask, TaskExpires, RunQueuedEvent
  <2>2. frame' = frame \/ frame'.k \notin {"ok", "aborted"}
    BY <1>5 DEF TaskReturns, EventReturns, RunQueuedTask, TaskExpires, RunQueuedEvent, Calls, Frame, NoFrame
  <2>3. QED
    BY <2>1, <2>2, TimersKept DEF TimerInv, tmrs
<1>6. CASE \E t \in Threads : StopPosts(t)
  <2>1. UNCHANGED <<tmrs, frame>>
    BY <1>6 DEF StopPosts
  <2>2. posted' = Append(posted, Handler("stop", 0))
    BY <1>6 DEF StopPosts, Post
  <2>3. Handler("stop", 0) \in Handlers /\ Handler("stop", 0).h # "start"
    BY HandlerTypes DEF Handler
  <2>4. StartsOnce(posted', timer)
    BY <2>2, <2>3, StartsAppend DEF TypeOK, TimerInv
  <2>5. QED
    BY <2>1, <2>4, TimersKept DEF TimerInv, tmrs
<1>7. CASE \/ RunReturns \/ UNCHANGED vars
           \/ \E t \in Threads : StartPool(t) \/ StopTests(t) \/ StopPool(t) \/ ResetGuard(t)
                                   \/ StopReturnsNow(t)
  <2>1. UNCHANGED <<tmrs, posted, frame>>
    BY <1>7 DEF RunReturns, vars, StartPool, StopTests, StopPool, ResetGuard, StopReturnsNow
  <2>2. QED
    BY <2>1, TimersKept DEF TimerInv, tmrs
<1>8. QED
  BY <1>1, <1>2, <1>3, <1>4, <1>5, <1>6, <1>7 DEF Next, Returns, Stops

\* A timer that was stopped, or started again, calls the application at most
\* once more (_handle_user_timers and the flag exited).
THEOREM StoppedTimerEndsHolds == Spec => []StoppedTimerEnds
<1>1. Init => TimerInv
  BY EmptySeq DEF Init, TimerInv, TimersInv, MappedById, ExitedWhenUnmapped, ExitedNotArmed, OverIsExited,
         ExtraCounted, FrameRuns, StartsOnce, Made, NoFrame
<1>2. TypeOK /\ TimerInv /\ [Next]_vars => TimerInv'
  BY TimerInvKept
<1>3. TimerInv => StoppedTimerEnds
  BY DEF TimerInv, TimersInv, ExtraCounted, StoppedTimerEnds
<1>4. QED
  BY <1>1, <1>2, <1>3, TypeCorrect, PTL DEF Spec

-----------------------------------------------------------------------------
(* What is queued on the strand: q stands for its queue, ta, ev and ti for  *)
(* the states of the tasks, events and timers, ex for the exited timers.    *)

In(q, h) == \E n \in DOMAIN q : q[n] = h
Covered(q, S) == \E n \in DOMAIN q : q[n].h \in S
Behind(q, h, S) == \E m, n \in DOMAIN q : m < n /\ q[m] = h /\ q[n].h \in S

Queued(q, ta, ev, ti) ==
  /\ \A k \in Tasks : ta[k] = "posted" => In(q, Handler("task", k))
  /\ \A e \in Events : ev[e] = "posted" => In(q, Handler("event", e))
  /\ \A o \in Objects : ti[o] = "posted" => In(q, Handler("start", o))

\* A stop is queued behind every event, a stop of the timers behind every
\* timer that would go on.
EventsWillEnd(q, ev) ==
  \A e \in Events :
    /\ ev[e] = "posted" => Behind(q, Handler("event", e), {"stop"})
    /\ ev[e] = "waiting" => Covered(q, {"stop"})

GoesOn(s) == s \in {"armed", "ok", "running"}

TimersWillEnd(q, ti, ex) ==
  \A o \in Objects :
    /\ ti[o] = "posted" => Behind(q, Handler("start", o), {"stop", "stopTimers"})
    /\ GoesOn(ti[o]) /\ o \notin ex => Covered(q, {"stop", "stopTimers"})

\* One handler more.
LEMMA QueueAppend ==
  ASSUME NEW q \in Seq(Handlers), NEW h \in Handlers
  PROVE  /\ In(Append(q, h), h)
         /\ \A g : In(q, g) => In(Append(q, h), g)
         /\ \A S : Covered(q, S) \/ h.h \in S => Covered(Append(q, h), S)
         /\ \A g, S : Behind(q, g, S) => Behind(Append(q, h), g, S)
         /\ \A g, S : In(q, g) /\ h.h \in S => Behind(Append(q, h), g, S)
<1>1. /\ Len(q) \in Nat /\ DOMAIN q = 1 .. Len(q)
      /\ DOMAIN Append(q, h) = 1 .. Len(q) + 1
      /\ \A n \in 1 .. Len(q) : Append(q, h)[n] = q[n]
      /\ Append(q, h)[Len(q) + 1] = h
  BY AppendProperties, LenProperties
<1> DEFINE r == Append(q, h)
           l == Len(q)
<1>2. /\ l \in Nat /\ DOMAIN q = 1 .. l /\ DOMAIN r = 1 .. l + 1
      /\ \A n \in 1 .. l : r[n] = q[n]
      /\ r[l + 1] = h
  BY <1>1
<1> HIDE DEF r, l
<1>3. In(r, h)
  BY <1>2 DEF In
<1>4. \A g : In(q, g) => In(r, g)
  BY <1>2 DEF In
<1>5. \A S : Covered(q, S) \/ h.h \in S => Covered(r, S)
  BY <1>2 DEF Covered
<1>6. \A g, S : Behind(q, g, S) => Behind(r, g, S)
  BY <1>2 DEF Behind
<1>7. \A g, S : In(q, g) /\ h.h \in S => Behind(r, g, S)
  <2>1. ASSUME NEW g, NEW S, In(q, g), h.h \in S PROVE Behind(r, g, S)
    <3>1. PICK m \in 1 .. l : q[m] = g
      BY <1>2, <2>1 DEF In
    <3>2. m \in DOMAIN r /\ l + 1 \in DOMAIN r /\ m < l + 1 /\ r[m] = g /\ r[l + 1].h \in S
      BY <1>2, <2>1, <3>1
    <3>3. QED
      BY <3>2 DEF Behind
  <2>2. QED
    BY <2>1
<1>8. QED
  BY <1>3, <1>4, <1>5, <1>6, <1>7 DEF r

\* The oldest one is taken.
LEMMA QueueTail ==
  ASSUME NEW q \in Seq(Handlers), q # <<>>
  PROVE  /\ \A g : In(q, g) /\ Head(q) # g => In(Tail(q), g)
         /\ \A S : Covered(q, S) /\ Head(q).h \notin S => Covered(Tail(q), S)
         /\ \A g, S : Behind(q, g, S) => Covered(Tail(q), S)
         /\ \A g, S : Behind(q, g, S) /\ Head(q) # g => Behind(Tail(q), g, S)
<1> DEFINE r == Tail(q)
           l == Len(q)
<1>1. /\ l \in Nat \ {0} /\ DOMAIN q = 1 .. l
      /\ DOMAIN r = 1 .. l - 1
      /\ \A n \in 1 .. l - 1 : r[n] = q[n + 1]
      /\ Head(q) = q[1]
  BY HeadTailProperties, LenProperties, EmptySeq
<1> HIDE DEF r, l
<1>2. \A n \in DOMAIN q : n = 1 \/ (n - 1 \in DOMAIN r /\ r[n - 1] = q[n])
  BY <1>1
<1>3. \A g : In(q, g) /\ Head(q) # g => In(r, g)
  BY <1>1, <1>2 DEF In
<1>4. \A S : Covered(q, S) /\ Head(q).h \notin S => Covered(r, S)
  BY <1>1, <1>2 DEF Covered
<1>5. ASSUME NEW g, NEW S, Behind(q, g, S)
      PROVE  Covered(r, S) /\ (Head(q) # g => Behind(r, g, S))
  <2>1. PICK m, n \in 1 .. l : m < n /\ q[m] = g /\ q[n].h \in S
    BY <1>1, <1>5 DEF Behind
  <2>2. n # 1 /\ n - 1 \in DOMAIN r /\ r[n - 1] = q[n]
    BY <1>1, <2>1
  <2>3. ASSUME Head(q) # g PROVE Behind(r, g, S)
    <3>1. m # 1 /\ m - 1 \in DOMAIN r /\ r[m - 1] = q[m] /\ m - 1 < n - 1
      BY <1>1, <2>1, <2>3
    <3>2. QED
      BY <2>1, <2>2, <3>1 DEF Behind
  <2>4. QED
    BY <2>1, <2>2, <2>3 DEF Covered
<1>6. QED
  BY <1>3, <1>4, <1>5 DEF r

LEMMA QueuedAppend ==
  ASSUME NEW q \in Seq(Handlers), NEW h \in Handlers, NEW ta, NEW ev, NEW ti, Queued(q, ta, ev, ti),
         NEW ta2, NEW ev2, NEW ti2,
         \A k \in Tasks : ta2[k] = "posted" => ta[k] = "posted" \/ h = Handler("task", k),
         \A e \in Events : ev2[e] = "posted" => ev[e] = "posted" \/ h = Handler("event", e),
         \A o \in Objects : ti2[o] = "posted" => ti[o] = "posted" \/ h = Handler("start", o)
  PROVE  Queued(Append(q, h), ta2, ev2, ti2)
BY QueueAppend DEF Queued

LEMMA QueuedTail ==
  ASSUME NEW q \in Seq(Handlers), q # <<>>, NEW ta, NEW ev, NEW ti, Queued(q, ta, ev, ti),
         NEW ta2, NEW ev2, NEW ti2,
         \A k \in Tasks : ta2[k] = "posted" => ta[k] = "posted" /\ Head(q) # Handler("task", k),
         \A e \in Events : ev2[e] = "posted" => ev[e] = "posted" /\ Head(q) # Handler("event", e),
         \A o \in Objects : ti2[o] = "posted" => ti[o] = "posted" /\ Head(q) # Handler("start", o)
  PROVE  Queued(Tail(q), ta2, ev2, ti2)
BY QueueTail DEF Queued

LEMMA EndsAppend ==
  ASSUME NEW q \in Seq(Handlers), NEW h \in Handlers, NEW ev, NEW ti, NEW ex
  PROVE  /\ EventsWillEnd(q, ev) => EventsWillEnd(Append(q, h), ev)
         /\ TimersWillEnd(q, ti, ex) => TimersWillEnd(Append(q, h), ti, ex)
BY QueueAppend DEF EventsWillEnd, TimersWillEnd

\* A stop is queued: all that is queued is before it.
LEMMA EndsStop ==
  ASSUME NEW q \in Seq(Handlers), NEW h \in Handlers, NEW ta, NEW ev, NEW ti, NEW ex,
         Queued(q, ta, ev, ti)
  PROVE  /\ h.h = "stop" => EventsWillEnd(Append(q, h), ev)
         /\ h.h \in {"stop", "stopTimers"} => TimersWillEnd(Append(q, h), ti, ex)
<1>1. h.h = "stop" => EventsWillEnd(Append(q, h), ev)
  BY QueueAppend DEF EventsWillEnd, Queued
<1>2. h.h \in {"stop", "stopTimers"} => TimersWillEnd(Append(q, h), ti, ex)
  BY QueueAppend DEF TimersWillEnd, Queued
<1>3. QED
  BY <1>1, <1>2

LEMMA EventsTail ==
  ASSUME NEW q \in Seq(Handlers), q # <<>>, NEW ev, EventsWillEnd(q, ev), NEW ev2,
         \A e \in Events : ev2[e] = "posted" => ev[e] = "posted" /\ Head(q) # Handler("event", e),
         \A e \in Events : ev2[e] = "waiting" =>
           ev[e] = "posted" \/ (ev[e] = "waiting" /\ Head(q).h # "stop")
  PROVE  EventsWillEnd(Tail(q), ev2)
BY QueueTail DEF EventsWillEnd

LEMMA TimersTail ==
  ASSUME NEW q \in Seq(Handlers), q # <<>>, NEW ti, NEW ex, TimersWillEnd(q, ti, ex), NEW ti2, NEW ex2,
         \A o \in Objects : ti2[o] = "posted" => ti[o] = "posted" /\ Head(q) # Handler("start", o),
         \A o \in Objects : GoesOn(ti2[o]) /\ o \notin ex2 =>
           \/ ti[o] = "posted"
           \/ GoesOn(ti[o]) /\ o \notin ex /\ Head(q).h \notin {"stop", "stopTimers"}
  PROVE  TimersWillEnd(Tail(q), ti2, ex2)
BY QueueTail DEF TimersWillEnd

LEMMA SameHandler ==
  ASSUME NEW h, NEW x, NEW g, NEW y
  PROVE  /\ Handler(h, x) = Handler(g, y) <=> h = g /\ x = y
         /\ Handler(h, x).h = h
BY DEF Handler

LEMMA BaseStopPosts ==
  ASSUME NEW rest \in Seq(Handlers), BaseStop(rest)
  PROVE  \E a, b \in Handlers :
           /\ a = Handler("stopTimers", 0) /\ b = Handler("stopTasks", 0)
           /\ a.h = "stopTimers" /\ b.h = "stopTasks"
           /\ Append(rest, a) \in Seq(Handlers)
           /\ posted' = Append(Append(rest, a), b)
<1> DEFINE a == Handler("stopTimers", 0)
           b == Handler("stopTasks", 0)
<1>1. a \in Handlers /\ b \in Handlers /\ a.h = "stopTimers" /\ b.h = "stopTasks"
  BY HandlerTypes DEF Handler
<1>2. posted' = rest \o <<a, b>>
  BY DEF BaseStop
<1>3. a = Handler("stopTimers", 0) /\ b = Handler("stopTasks", 0)
  OBVIOUS
<1> HIDE DEF a, b
<1>4. Append(rest, a) \in Seq(Handlers)
  BY <1>1, AppendProperties
<1>5. posted' = Append(Append(rest, a), b)
  BY <1>1, <1>2
<1>6. QED
  BY <1>1, <1>3, <1>4, <1>5

\* What waits in the queue stays the same but for those two.
LEMMA QueuedBaseStop ==
  ASSUME NEW rest \in Seq(Handlers), BaseStop(rest), NEW ta, NEW ti, Queued(rest, ta, event, ti)
  PROVE  Queued(posted', ta, event', ti)
<1>1. PICK a, b \in Handlers : /\ Append(rest, a) \in Seq(Handlers)
                               /\ posted' = Append(Append(rest, a), b)
  BY BaseStopPosts
<1>2. \A e \in Events : event'[e] = "posted" => event[e] = "posted"
  BY DEF BaseStop
<1>3. Queued(Append(rest, a), ta, event', ti)
  BY <1>2, QueuedAppend
<1>4. QED
  BY <1>1, <1>3, QueuedAppend

LEMMA QueuedSame ==
  ASSUME Queued(posted, task, event, timer), UNCHANGED posted,
         \A k \in Tasks : task'[k] = "posted" => task[k] = "posted",
         \A e \in Events : event'[e] = "posted" => event[e] = "posted",
         \A o \in Objects : timer'[o] = "posted" => timer[o] = "posted"
  PROVE  Queued(posted, task, event, timer)'
BY DEF Queued

\* Every task, event and timer that is posted has its handler in the queue.
LEMMA QueuedKept ==
  ASSUME TypeOK, Queued(posted, task, event, timer), [Next]_vars
  PROVE  Queued(posted, task, event, timer)'
<1>0. /\ posted \in Seq(Handlers)
      /\ task \in [Tasks -> {"new", "posted", "armed", "queued", "running", "done"}]
      /\ event \in [Events -> {"new", "posted", "waiting", "queued", "running", "done"}]
      /\ timer \in [Objects -> {"new", "posted", "armed", "ok", "aborted", "running", "idle"}]
  BY DEF TypeOK
<1>1. ASSUME NEW h \in Handlers, posted' = Append(posted, h),
             \A k \in Tasks : task'[k] = "posted" => task[k] = "posted" \/ h = Handler("task", k),
             \A e \in Events : event'[e] = "posted" => event[e] = "posted" \/ h = Handler("event", e),
             \A o \in Objects : timer'[o] = "posted" => timer[o] = "posted" \/ h = Handler("start", o)
      PROVE  Queued(posted, task, event, timer)'
  BY <1>0, <1>1, QueuedAppend
<1>2. ASSUME NEW h, NEW x, Takes(h, x), posted' = Tail(posted),
             \A k \in Tasks : task'[k] = "posted" => task[k] = "posted" /\ Handler(h, x) # Handler("task", k),
             \A e \in Events : event'[e] = "posted" => event[e] = "posted" /\ Handler(h, x) # Handler("event", e),
             \A o \in Objects : timer'[o] = "posted" => timer[o] = "posted" /\ Handler(h, x) # Handler("start", o)
      PROVE  Queued(posted, task, event, timer)'
  BY <1>0, <1>2, QueuedTail DEF Takes
<1>3. CASE \E k \in Tasks : PostTask(k)
  <2> PICK k \in Tasks : PostTask(k)
    BY <1>3
  <2>1. Handler("task", k) \in Handlers
    BY HandlerTypes
  <2>2. /\ posted' = Append(posted, Handler("task", k)) /\ UNCHANGED <<event, timer>>
        /\ \A j \in Tasks : task'[j] = "posted" => task[j] = "posted" \/ j = k
    BY <1>0 DEF PostTask, Post, tmrs
  <2>3. QED
    BY <1>1, <2>1, <2>2
<1>4. CASE \E e \in Events : PostEvent(e)
  <2> PICK e \in Events : PostEvent(e)
    BY <1>4
  <2>1. Handler("event", e) \in Handlers
    BY HandlerTypes
  <2>2. /\ posted' = Append(posted, Handler("event", e)) /\ UNCHANGED <<task, timer>>
        /\ \A d \in Events : event'[d] = "posted" => event[d] = "posted" \/ d = e
    BY <1>0 DEF PostEvent, Post, tmrs
  <2>3. QED
    BY <1>1, <2>1, <2>2
<1>5. CASE \E i \in TimerIds, o \in Objects : StartTimer(o, i)
  <2> PICK i \in TimerIds, o \in Objects : StartTimer(o, i)
    BY <1>5
  <2>1. Handler("start", o) \in Handlers
    BY HandlerTypes
  <2>2. /\ posted' = Append(posted, Handler("start", o)) /\ UNCHANGED <<task, event>>
        /\ \A p \in Objects : timer'[p] = "posted" => timer[p] = "posted" \/ p = o
    BY <1>0 DEF StartTimer, Post, work
  <2>3. QED
    BY <1>1, <2>1, <2>2
<1>6. CASE \E i \in TimerIds : StopTimer(i)
  BY <1>0, <1>1, <1>6, HandlerTypes DEF StopTimer, Post, work, tmrs
<1>7. CASE \E t \in Threads : StopPosts(t)
  BY <1>0, <1>1, <1>7, HandlerTypes DEF StopPosts, Post, work, tmrs
<1>8. CASE StopInside
  BY <1>0, <1>8, QueuedBaseStop DEF StopInside, tmrs
<1>9. CASE \E k \in Tasks : RunTask(k)
  <2> PICK k \in Tasks : RunTask(k)
    BY <1>9
  <2>1. \A j \in Tasks : task'[j] = "posted" => task[j] = "posted" /\ j # k
    BY <1>0 DEF RunTask
  <2>2. Takes("task", k) /\ posted' = Tail(posted) /\ UNCHANGED <<event, timer>>
    BY DEF RunTask, tmrs
  <2>3. QED
    BY <1>0, <1>2, <2>1, <2>2, SameHandler
<1>10. CASE \E e \in Events : RunEvent(e)
  <2> PICK e \in Events : RunEvent(e)
    BY <1>10
  <2>1. \A f \in Events : event'[f] = "posted" => event[f] = "posted" /\ f # e
    BY <1>0 DEF RunEvent
  <2>2. Takes("event", e) /\ posted' = Tail(posted) /\ UNCHANGED <<task, timer>>
    BY DEF RunEvent, tmrs
  <2>3. QED
    BY <1>0, <1>2, <2>1, <2>2, SameHandler
<1>11. CASE \E o \in Objects : RunStart(o)
  <2> PICK o \in Objects : RunStart(o)
    BY <1>11
  <2>1. \A p \in Objects : timer'[p] = "posted" => timer[p] = "posted" /\ p # o
    BY DEF RunStart
  <2>2. Takes("start", o) /\ posted' = Tail(posted) /\ UNCHANGED work
    BY DEF RunStart
  <2>3. QED
    BY <1>0, <1>2, <2>1, <2>2, SameHandler DEF work
<1>12. ASSUME NEW h, h \notin {"task", "event", "start"}, NEW x, Takes(h, x), posted' = Tail(posted),
              UNCHANGED event,
              \A k \in Tasks : task'[k] = "posted" => task[k] = "posted",
              \A o \in Objects : timer'[o] = "posted" => timer[o] = "posted"
       PROVE  Queued(posted, task, event, timer)'
  BY <1>2, <1>12, SameHandler
<1>13. CASE \E i \in TimerIds : RunStopTimer(i)
  BY <1>0, <1>12, <1>13, SMTT(20), ZenonT(20)
  DEF RunStopTimer, StopTimers, Exit, work
<1>14. CASE RunStopTimers
  BY <1>0, <1>12, <1>14 DEF RunStopTimers, StopTimers, Exit, work
<1>15. CASE RunStopTasks
  BY <1>0, <1>12, <1>15 DEF RunStopTasks, tmrs
<1>16. CASE RunStop
  <2>1. Takes("stop", 0) /\ BaseStop(Tail(posted)) /\ UNCHANGED <<task, tmrs>>
    BY <1>16 DEF RunStop
  <2>2. posted # <<>> /\ Head(posted) = Handler("stop", 0) /\ Tail(posted) \in Seq(Handlers)
    BY <1>0, <2>1, HeadTailProperties DEF Takes
  <2>3. Queued(Tail(posted), task, event, timer)
    BY <1>0, <2>2, QueuedTail, SameHandler
  <2>4. Queued(posted', task, event', timer)
    BY <2>1, <2>2, <2>3, QueuedBaseStop
  <2>5. QED
    BY <2>1, <2>4 DEF tmrs
<1>17. CASE \/ \E e \in Events : PostEventInside(e) \/ Notify(e) \/ RunQueuedEvent(e)
            \/ \E k \in Tasks : RunQueuedTask(k) \/ TaskExpires(k)
            \/ \E o \in Objects : RunTick(o) \/ TimerExpires(o)
            \/ Returns
  BY <1>0, <1>17, QueuedSame DEF PostEventInside, Notify, RunQueuedEvent, RunQueuedTask, TaskExpires, RunTick,
     TimerExpires, Returns, TaskReturns, EventReturns, TickReturns, work, tmrs
<1>18. CASE \/ RunReturns \/ UNCHANGED vars
            \/ \E t \in Threads : StartPool(t) \/ StopTests(t) \/ StopPool(t) \/ ResetGuard(t)
                                    \/ StopReturnsNow(t)
  <2>1. UNCHANGED <<posted, task, event, timer>>
    BY <1>18 DEF RunReturns, vars, StartPool, StopTests, StopPool, ResetGuard, StopReturnsNow, work, tmrs
  <2>2. QED
    BY <2>1, QueuedSame
<1>19. QED
  BY <1>3, <1>4, <1>5, <1>6, <1>7, <1>8, <1>9, <1>10, <1>11, <1>13, <1>14, <1>15, <1>16, <1>17, <1>18
     DEF Next, AppCalls, CallbackCalls, RunPosted, Returns, Stops

-----------------------------------------------------------------------------
(* What was accepted before a stop has been run when the context stops.    *)

\* The context runs while the pool holds its guard, and until a thread that
\* got past the test resets it.
Held ==
  /\ guard = "held" => run = "running"
  /\ \A t \in Threads : caller[t] = "stopping" => guard = "held"

\* What is running is the callback that is called.
CallbackRuns ==
  /\ \A k \in Tasks : task[k] = "running" => frame = Frame("task", k)
  /\ \A e \in Events : event[e] = "running" => frame = Frame("event", e)

\* What a stop owes was posted.
OwedPosted ==
  \A t \in Threads : \A w \in owed[t] : IF w[1] = "task" THEN task[w[2]] # "new" ELSE event[w[2]] # "new"

Everything == ({"task"} \X Tasks) \cup ({"event"} \X Events)

DrainInv == Queued(posted, task, event, timer) /\ Held /\ CallbackRuns /\ OwedPosted /\ DrainedBeforeReturn

\* Nothing is new again and what is done stays done.
LEMMA Progress ==
  ASSUME TypeOK, [Next]_vars
  PROVE  /\ \A k \in Tasks : task[k] # "new" => task'[k] # "new"
         /\ \A e \in Events : event[e] # "new" => event'[e] # "new"
         /\ run # "running" =>
              /\ \A k \in Tasks : task[k] = "done" => task'[k] = "done"
              /\ \A e \in Events : event[e] = "done" => event'[e] = "done"
<1>0. /\ task \in [Tasks -> {"new", "posted", "armed", "queued", "running", "done"}]
      /\ event \in [Events -> {"new", "posted", "waiting", "queued", "running", "done"}]
  BY DEF TypeOK
<1>1. CASE \E k \in Tasks : PostTask(k) \/ RunTask(k) \/ RunQueuedTask(k) \/ TaskExpires(k)
  BY <1>0, <1>1 DEF PostTask, RunTask, Takes, RunQueuedTask, Calls, TaskExpires
<1>2. CASE \E e \in Events : PostEvent(e) \/ PostEventInside(e) \/ RunEvent(e) \/ RunQueuedEvent(e) \/ Notify(e)
  BY <1>0, <1>2 DEF PostEvent, PostEventInside, RunEvent, Takes, RunQueuedEvent, Calls, Notify
<1>3. CASE StopInside \/ RunStop \/ RunStopTasks \/ TaskReturns \/ EventReturns
  BY <1>0, <1>3 DEF StopInside, RunStop, RunStopTasks, TaskReturns, EventReturns, BaseStop
<1>4. CASE \/ \E i \in TimerIds : StopTimer(i) \/ RunStopTimer(i) \/ \E o \in Objects : StartTimer(o, i)
           \/ \E o \in Objects : RunStart(o) \/ RunTick(o) \/ TimerExpires(o)
           \/ RunStopTimers \/ TickReturns
  BY <1>4 DEF StopTimer, RunStopTimer, StopTimers, StartTimer, RunStart, RunTick, TimerExpires, RunStopTimers,
     TickReturns, work
<1>5. CASE \/ RunReturns \/ UNCHANGED vars
           \/ \E t \in Threads : StartPool(t) \/ StopTests(t) \/ StopPosts(t) \/ StopPool(t) \/ ResetGuard(t)
                                   \/ StopReturnsNow(t)
  BY <1>5 DEF RunReturns, vars, StartPool, StopTests, StopPosts, StopPool, ResetGuard, StopReturnsNow, work
<1>6. QED
  BY <1>1, <1>2, <1>3, <1>4, <1>5
     DEF Next, AppCalls, CallbackCalls, RunPosted, Returns, Stops

LEMMA HeldKept ==
  ASSUME TypeOK, PoolInv, Held, [Next]_vars
  PROVE  Held'
<1>1. CASE \E t \in Threads : StartPool(t)
  BY <1>1 DEF StartPool, Held
<1>2. CASE \E t \in Threads : StopPool(t)
  BY <1>2 DEF StopPool, Returned, Held, PoolInv, HeldWhileStarted, TypeOK
<1>3. CASE \E t \in Threads : ResetGuard(t)
  BY <1>3 DEF ResetGuard, Held, PoolInv, OneStopper, TypeOK
<1>4. CASE \E t \in Threads : StopReturnsNow(t)
  BY <1>4 DEF StopReturnsNow, Returned, Held, PoolInv, OneStopper, TypeOK
<1>5. CASE \E t \in Threads : StopTests(t) \/ StopPosts(t)
  BY <1>5 DEF StopTests, StopPosts, Held, TypeOK, pool
<1>6. CASE RunReturns
  BY <1>6 DEF RunReturns, Held
<1>7. CASE AppCalls \/ CallbackCalls \/ RunPosted \/ UNCHANGED vars
  <2>1. UNCHANGED <<guard, run, caller>>
    BY <1>7 DEF AppCalls, CallbackCalls, PostTask, PostEvent, PostEventInside, Notify, StartTimer,
                StopTimer, StopInside, RunPosted, RunTask, RunEvent, RunStart, RunStopTimer, RunStopTimers,
                StopTimers, RunStopTasks, RunStop, pool, vars
  <2>2. QED
    BY <2>1 DEF Held
<1>8. CASE \/ Returns
           \/ \E k \in Tasks : RunQueuedTask(k) \/ TaskExpires(k)
           \/ \E e \in Events : RunQueuedEvent(e)
           \/ \E o \in Objects : RunTick(o) \/ TimerExpires(o)
  <2>1. UNCHANGED <<guard, run, caller>>
    BY <1>8 DEF Returns, TaskReturns, EventReturns, TickReturns, RunQueuedTask, TaskExpires,
                RunQueuedEvent, RunTick, TimerExpires, pool
  <2>2. QED
    BY <2>1 DEF Held
<1>9. QED
  BY <1>1, <1>2, <1>3, <1>4, <1>5, <1>6, <1>7, <1>8 DEF Next, Stops

LEMMA CallbackRunsKept ==
  ASSUME TypeOK, CallbackRuns, [Next]_vars
  PROVE  CallbackRuns'
<1>0. /\ task \in [Tasks -> {"new", "posted", "armed", "queued", "running", "done"}]
      /\ event \in [Events -> {"new", "posted", "waiting", "queued", "running", "done"}]
  BY DEF TypeOK
<1>1. ASSUME frame' = frame,
             \A k \in Tasks : task'[k] = "running" => task[k] = "running",
             \A e \in Events : event'[e] = "running" => event[e] = "running"
      PROVE  CallbackRuns'
  BY <1>1 DEF CallbackRuns
<1>2. \A k, x : Frame(k, x).k = k /\ Frame(k, x).x = x
  BY DEF Frame
<1>3. ~InCallback => (\A k \in Tasks : task[k] # "running") /\ \A e \in Events : event[e] # "running"
  BY <1>2 DEF CallbackRuns, InCallback, NoFrame
<1>4. CASE \E k \in Tasks : RunQueuedTask(k)
  BY <1>0, <1>3, <1>4 DEF RunQueuedTask, Calls, CallbackRuns
<1>5. CASE \E e \in Events : RunQueuedEvent(e)
  BY <1>0, <1>3, <1>5 DEF RunQueuedEvent, Calls, CallbackRuns
<1>6. CASE \E o \in Objects : RunTick(o)
  BY <1>0, <1>3, <1>6 DEF RunTick, Calls, CallbackRuns, work
<1>7. CASE TaskReturns
  <2>1. \A e \in Events : event'[e] # "running"
    BY <1>2, <1>7 DEF TaskReturns, CallbackRuns
  <2>2. \A k \in Tasks : task[k] = "running" => k = frame.x
    BY <1>2 DEF CallbackRuns
  <2>3. \A k \in Tasks : task'[k] # "running"
    BY <1>0, <1>7, <2>2 DEF TaskReturns
  <2>4. QED
    BY <2>1, <2>3 DEF CallbackRuns
<1>8. CASE EventReturns
  <2>1. \A k \in Tasks : task'[k] # "running"
    BY <1>2, <1>8 DEF EventReturns, CallbackRuns
  <2>2. \A e \in Events : event[e] = "running" => e = frame.x
    BY <1>2 DEF CallbackRuns
  <2>3. \A e \in Events : event'[e] # "running"
    BY <1>0, <1>8, <2>2 DEF EventReturns
  <2>4. QED
    BY <2>1, <2>3 DEF CallbackRuns
<1>9. CASE TickReturns
  <2>1. /\ \A k \in Tasks : task[k] # "running"
        /\ \A e \in Events : event[e] # "running"
    BY <1>2, <1>9 DEF TickReturns, CallbackRuns
  <2>2. QED
    BY <1>9, <2>1 DEF TickReturns, CallbackRuns, work
<1>10. CASE \/ \E k \in Tasks : PostTask(k) \/ RunTask(k) \/ TaskExpires(k)
            \/ \E e \in Events : PostEvent(e) \/ PostEventInside(e) \/ RunEvent(e) \/ Notify(e)
            \/ StopInside \/ RunStop \/ RunStopTasks
  BY <1>0, <1>1, <1>10 DEF PostTask, RunTask, TaskExpires, PostEvent, PostEventInside, RunEvent, Notify,
     StopInside, RunStop, RunStopTasks, BaseStop
<1>11. CASE \/ \E i \in TimerIds : StopTimer(i) \/ RunStopTimer(i) \/ \E o \in Objects : StartTimer(o, i)
            \/ \E o \in Objects : RunStart(o) \/ TimerExpires(o)
            \/ RunStopTimers \/ RunReturns \/ UNCHANGED vars
            \/ \E t \in Threads : StartPool(t) \/ StopTests(t) \/ StopPosts(t) \/ StopPool(t) \/ ResetGuard(t)
                                    \/ StopReturnsNow(t)
  <2>1. UNCHANGED <<frame, work>>
    BY <1>11 DEF StopTimer, RunStopTimer, StopTimers, StartTimer, RunStart, TimerExpires, RunStopTimers,
       RunReturns, vars, StartPool, StopTests, StopPosts, StopPool, ResetGuard, StopReturnsNow
  <2>2. QED
    BY <1>1, <2>1 DEF work
<1>12. QED
  BY <1>4, <1>5, <1>6, <1>7, <1>8, <1>9, <1>10, <1>11
     DEF Next, AppCalls, CallbackCalls, RunPosted, Returns, Stops

LEMMA OwedPostedKept ==
  ASSUME TypeOK, OwedPosted, [Next]_vars
  PROVE  OwedPosted'
<1>1. ASSUME NEW t \in Threads, NEW w \in owed[t]
      PROVE  IF w[1] = "task" THEN task'[w[2]] # "new" ELSE event'[w[2]] # "new"
  <2>1. owed[t] \subseteq Everything
    BY DEF TypeOK, Everything
  <2>2. w \in {"task"} \X Tasks \/ w \in {"event"} \X Events
    BY <2>1 DEF Everything
  <2>3. w[1] = "task" => w[2] \in Tasks
    BY <2>2
  <2>4. w[1] # "task" => w[2] \in Events
    BY <2>2
  <2>5. IF w[1] = "task" THEN task[w[2]] # "new" ELSE event[w[2]] # "new"
    BY DEF OwedPosted
  <2>6. QED
    BY <2>3, <2>4, <2>5, Progress
<1>2. ASSUME \A t \in Threads : owed'[t] \subseteq owed[t] PROVE OwedPosted'
  BY <1>1, <1>2 DEF OwedPosted
<1>3. CASE \E t \in Threads : StopPosts(t)
  <2> PICK t \in Threads : StopPosts(t)
    BY <1>3
  <2>1. owed' = [owed EXCEPT ![t] = Accepted] /\ UNCHANGED <<task, event>>
    BY DEF StopPosts, work
  <2>2. ASSUME NEW w \in Accepted
        PROVE  IF w[1] = "task" THEN task[w[2]] # "new" ELSE event[w[2]] # "new"
    BY DEF Accepted
  <2>3. ASSUME NEW s \in Threads, NEW w \in owed'[s]
        PROVE  IF w[1] = "task" THEN task[w[2]] # "new" ELSE event[w[2]] # "new"
    <3>1. CASE s = t
      BY <2>1, <2>2, <3>1 DEF TypeOK
    <3>2. CASE s # t
      BY <2>1, <3>2 DEF TypeOK, OwedPosted
    <3>3. QED
      BY <3>1, <3>2
  <2>4. QED
    BY <2>1, <2>3 DEF OwedPosted
<1>4. CASE \E t \in Threads : StopPool(t) \/ StopReturnsNow(t)
  <2>1. \A t \in Threads : owed'[t] \subseteq owed[t]
    BY <1>4 DEF StopPool, StopReturnsNow, Returned, TypeOK
  <2>2. QED
    BY <1>2, <2>1
<1>5. CASE AppCalls \/ CallbackCalls \/ RunPosted \/ UNCHANGED vars
  <2>1. UNCHANGED owed
    BY <1>5 DEF AppCalls, CallbackCalls, PostTask, PostEvent, PostEventInside, Notify, StartTimer,
                StopTimer, StopInside, RunPosted, RunTask, RunEvent, RunStart, RunStopTimer, RunStopTimers,
                StopTimers, RunStopTasks, RunStop, history, vars
  <2>2. QED
    BY <1>2, <2>1
<1>6. CASE \/ Returns \/ RunReturns
           \/ \E k \in Tasks : RunQueuedTask(k) \/ TaskExpires(k)
           \/ \E e \in Events : RunQueuedEvent(e)
           \/ \E o \in Objects : RunTick(o) \/ TimerExpires(o)
           \/ \E t \in Threads : StartPool(t) \/ StopTests(t) \/ ResetGuard(t)
  <2>1. UNCHANGED owed
    BY <1>6 DEF Returns, RunReturns, TaskReturns, EventReturns, TickReturns, RunQueuedTask, TaskExpires,
                RunQueuedEvent, RunTick, TimerExpires, StartPool, StopTests, ResetGuard, history
  <2>2. QED
    BY <1>2, <2>1
<1>7. QED
  BY <1>3, <1>4, <1>5, <1>6 DEF Next, Stops

\* The context stops only when nothing is left.
LEMMA DrainedKept ==
  ASSUME TypeOK, PoolInv, DrainInv, [Next]_vars
  PROVE  DrainedBeforeReturn'
<1>1. ASSUME NEW t \in Threads, caller'[t] = "waiting", run' = "stopped", NEW w \in owed'[t]
      PROVE  Finished(w)'
  <2>1. caller[t] \in {"stopping", "waiting"} /\ owed'[t] = owed[t] /\ (caller[t] = "stopping" => run' = run)
    <3>1. CASE \E s \in Threads : StopTests(s) \/ StopPosts(s) \/ StopPool(s) \/ ResetGuard(s) \/ StopReturnsNow(s)
      BY <1>1, <3>1 DEF StopTests, StopPosts, StopPool, ResetGuard, StopReturnsNow, Returned, TypeOK, history, pool
    <3>2. CASE RunReturns
      BY <1>1, <3>2 DEF RunReturns, history, Held, DrainInv
    <3>3. CASE \E s \in Threads : StartPool(s)
      BY <1>1, <3>3 DEF StartPool
    <3>4. CASE AppCalls \/ CallbackCalls \/ RunPosted \/ UNCHANGED vars
      BY <1>1, <3>4 DEF AppCalls, CallbackCalls, PostTask, PostEvent, PostEventInside, Notify, StartTimer,
                StopTimer, StopInside, RunPosted, RunTask, RunEvent, RunStart, RunStopTimer, RunStopTimers,
                StopTimers, RunStopTasks, RunStop, history, vars, pool
    <3>5. CASE \/ Returns
               \/ \E k \in Tasks : RunQueuedTask(k) \/ TaskExpires(k)
               \/ \E e \in Events : RunQueuedEvent(e)
               \/ \E o \in Objects : RunTick(o) \/ TimerExpires(o)
      BY <1>1, <3>5 DEF Returns, TaskReturns, EventReturns, TickReturns, RunQueuedTask, TaskExpires,
                RunQueuedEvent, RunTick, TimerExpires, pool, history
    <3>6. QED
      BY <3>1, <3>2, <3>3, <3>4, <3>5 DEF Next, Stops
  \* The guard is held until the thread waits, and so the context runs.
  <2>2. caller[t] = "waiting"
    BY <1>1, <2>1 DEF DrainInv, Held
  <2>3. w \in owed[t] /\ owed[t] \subseteq Everything
    BY <1>1, <2>1 DEF TypeOK, Everything
  <2>4. (w[1] = "task" => w[2] \in Tasks) /\ (w[1] # "task" => w[2] \in Events)
    <3>1. w \in {"task"} \X Tasks \/ w \in {"event"} \X Events
      BY <2>3 DEF Everything
    <3>2. QED
      BY <3>1
  <2>5. CASE run = "stopped"
    <3>1. Finished(w)
      BY <2>2, <2>3, <2>5 DEF DrainInv, DrainedBeforeReturn
    <3>2. run # "running"
      BY <2>5
    <3>3. /\ \A k \in Tasks : task[k] = "done" => task'[k] = "done"
          /\ \A e \in Events : event[e] = "done" => event'[e] = "done"
      BY <3>2, Progress
    <3>4. QED
      BY <2>4, <3>1, <3>3 DEF Finished
  <2>6. CASE run # "stopped"
    <3>1. RunReturns
      BY <1>1, <2>6 DEF Next, AppCalls, CallbackCalls, PostTask, PostEvent, PostEventInside, Notify, StartTimer,
                StopTimer, StopInside, RunPosted, RunTask, RunEvent, RunStart, RunStopTimer, RunStopTimers,
                StopTimers, RunStopTasks, RunStop, vars, pool, Returns, TaskReturns, EventReturns, TickReturns,
                RunQueuedTask, TaskExpires, RunQueuedEvent, RunTick, TimerExpires, StartPool, StopTests, Stops,
                StopPosts, StopPool, ResetGuard, StopReturnsNow
    <3>2. NothingLeft /\ UNCHANGED <<task, event>>
      BY <3>1 DEF RunReturns, work
    <3>3. \A h : ~In(posted, h)
      BY <3>2 DEF NothingLeft, In
    <3>4. \A k \in Tasks : task[k] \in {"new", "done"}
      <4>1. \A k \in Tasks : task[k] \notin {"posted", "armed", "queued", "running"}
        BY <3>2, <3>3 DEF NothingLeft, DrainInv, Queued, CallbackRuns, InCallback, Frame, NoFrame
      <4>2. QED
        BY <4>1 DEF TypeOK
    <3>5. \A e \in Events : event[e] \in {"new", "done"}
      <4>1. \A e \in Events : event[e] \notin {"posted", "waiting", "queued", "running"}
        BY <3>2, <3>3 DEF NothingLeft, DrainInv, Queued, CallbackRuns, InCallback, Frame, NoFrame
      <4>2. QED
        BY <4>1 DEF TypeOK
    <3>6. IF w[1] = "task" THEN task[w[2]] # "new" ELSE event[w[2]] # "new"
      BY <2>3 DEF DrainInv, OwedPosted
    <3>7. QED
      BY <2>4, <3>2, <3>4, <3>5, <3>6 DEF Finished
  <2>7. QED
    BY <2>5, <2>6
<1>2. QED
  BY <1>1 DEF DrainedBeforeReturn

\* When the context has stopped for a stop that waits, all that had been
\* accepted before the stop was posted has been run (iopool::stop).
THEOREM DrainedHolds == Spec => []DrainedBeforeReturn
<1>1. Init => PoolInv /\ DrainInv
  BY DEF Init, PoolInv, HeldWhileStarted, OneStopper, DrainInv, Queued, Held, CallbackRuns, OwedPosted,
     DrainedBeforeReturn
<1>2. TypeOK /\ PoolInv /\ DrainInv /\ [Next]_vars => PoolInv' /\ DrainInv'
  <2> SUFFICES ASSUME TypeOK, PoolInv, DrainInv, [Next]_vars PROVE PoolInv' /\ DrainInv'
    OBVIOUS
  <2>1. Queued(posted, task, event, timer) /\ Held /\ CallbackRuns /\ OwedPosted
    BY DEF DrainInv
  <2>2. PoolInv' /\ Held' /\ CallbackRuns' /\ OwedPosted' /\ DrainedBeforeReturn'
    BY <2>1, PoolInvKept, HeldKept, CallbackRunsKept, OwedPostedKept, DrainedKept
  <2>3. Queued(posted, task, event, timer)'
    BY <2>1, QueuedKept
  <2>4. QED
    BY <2>2, <2>3 DEF DrainInv
<1>3. DrainInv => DrainedBeforeReturn
  BY DEF DrainInv
<1>4. QED
  BY <1>1, <1>2, <1>3, TypeCorrect, PTL DEF Spec

-----------------------------------------------------------------------------
(* What a stop leaves behind ends by itself.                               *)

AbortedExited == \A o \in Objects : timer[o] = "aborted" => o \in exited

\* An event is enqueued once, while it is posted.
EventsOnce(q, ev) ==
  \A n \in DOMAIN q : q[n].h = "event" =>
    /\ ev[q[n].x] = "posted"
    /\ \A m \in DOMAIN q : q[m] = q[n] => m = n

LEMMA EventsOnceTail ==
  ASSUME NEW q \in Seq(Handlers), q # <<>>, NEW ev, EventsOnce(q, ev)
  PROVE  /\ EventsOnce(Tail(q), ev)
         /\ \A n \in DOMAIN Tail(q) : Tail(q)[n].h = "event" => Tail(q)[n] # Head(q)
<1>1. /\ Len(q) \in Nat \ {0} /\ DOMAIN q = 1 .. Len(q)
      /\ DOMAIN Tail(q) = 1 .. Len(q) - 1
      /\ \A n \in 1 .. Len(q) - 1 : Tail(q)[n] = q[n + 1]
      /\ Head(q) = q[1]
  BY HeadTailProperties, LenProperties, EmptySeq
<1>2. QED
  BY <1>1 DEF EventsOnce

LEMMA EventsOnceAppend ==
  ASSUME NEW q \in Seq(Handlers), NEW h \in Handlers, NEW ev, EventsOnce(q, ev),
         h.h = "event" => ev[h.x] = "posted" /\ \A n \in DOMAIN q : q[n] # h
  PROVE  EventsOnce(Append(q, h), ev)
<1>1. /\ Len(q) \in Nat /\ DOMAIN q = 1 .. Len(q)
      /\ DOMAIN Append(q, h) = 1 .. Len(q) + 1
      /\ \A n \in 1 .. Len(q) : Append(q, h)[n] = q[n]
      /\ Append(q, h)[Len(q) + 1] = h
  BY AppendProperties, LenProperties
<1>2. QED
  BY <1>1 DEF EventsOnce

\* The states of the events change, those that are enqueued stay posted.
LEMMA EventsOnceState ==
  ASSUME NEW q \in Seq(Handlers), NEW ev, EventsOnce(q, ev), NEW ev2,
         \A e \in Events : ev[e] = "posted" => ev2[e] = "posted"
  PROVE  EventsOnce(q, ev2)
<1>1. \A n \in DOMAIN q : q[n] \in Handlers
  BY LenProperties, ElementOfSeq
<1>2. \A n \in DOMAIN q : q[n].h = "event" => q[n].x \in Events
  BY <1>1 DEF Handlers
<1>3. QED
  BY <1>2 DEF EventsOnce

LEMMA EventsOnceBaseStop ==
  ASSUME NEW rest \in Seq(Handlers), EventsOnce(rest, event), BaseStop(rest),
         event \in [Events -> {"new", "posted", "waiting", "queued", "running", "done"}]
  PROVE  EventsOnce(posted', event')
<1>1. PICK a, b \in Handlers : /\ a.h = "stopTimers" /\ b.h = "stopTasks" /\ Append(rest, a) \in Seq(Handlers)
                               /\ posted' = Append(Append(rest, a), b)
  BY BaseStopPosts
<1>2. \A e \in Events : event[e] = "posted" => event'[e] = "posted"
  BY DEF BaseStop
<1>3. EventsOnce(rest, event')
  BY <1>2, EventsOnceState
<1>4. EventsOnce(Append(rest, a), event')
  BY <1>1, <1>3, EventsOnceAppend
<1>5. QED
  BY <1>1, <1>4, EventsOnceAppend

\* The event whose callback is called is running.
EventCalled == frame.k = "event" => frame.x \in Events /\ event[frame.x] = "running"

LEMMA EventCalledKept ==
  ASSUME TypeOK, EventCalled, [Next]_vars
  PROVE  EventCalled'
<1>0. event \in [Events -> {"new", "posted", "waiting", "queued", "running", "done"}]
  BY DEF TypeOK
<1>1. \A k, x : Frame(k, x).k = k /\ Frame(k, x).x = x
  BY DEF Frame
<1>2. NoFrame.k # "event"
  BY DEF NoFrame
<1>3. CASE \E k \in Tasks : RunQueuedTask(k)
  BY <1>1, <1>3 DEF RunQueuedTask, Calls, EventCalled
<1>4. CASE \E o \in Objects : RunTick(o)
  BY <1>1, <1>4 DEF RunTick, Calls, EventCalled
<1>5. CASE \E e \in Events : RunQueuedEvent(e)
  BY <1>0, <1>1, <1>5 DEF RunQueuedEvent, Calls, EventCalled
<1>6. CASE Returns
  BY <1>2, <1>6 DEF Returns, TaskReturns, EventReturns, TickReturns, EventCalled
<1>7. CASE \/ \E e \in Events : PostEvent(e) \/ PostEventInside(e) \/ RunEvent(e) \/ Notify(e)
           \/ StopInside \/ RunStop
  <2>1. frame' = frame
    BY <1>7 DEF PostEvent, PostEventInside, RunEvent, Notify, StopInside, RunStop
  \* Takes says that nothing is called, and the event of a call on the strand was new.
  <2>2. \A e \in Events : frame.k = "event" /\ event[e] = "running" => event'[e] = "running"
    BY <1>0, <1>2, <1>7 DEF PostEvent, PostEventInside, RunEvent, Notify, StopInside, RunStop, BaseStop, Takes, InCallback
  <2>3. QED
    BY <2>1, <2>2 DEF EventCalled
<1>8. CASE \/ \E k \in Tasks : PostTask(k) \/ RunTask(k) \/ TaskExpires(k)
           \/ \E i \in TimerIds : StopTimer(i) \/ RunStopTimer(i) \/ \E o \in Objects : StartTimer(o, i)
           \/ \E o \in Objects : RunStart(o) \/ TimerExpires(o)
           \/ RunStopTimers \/ RunStopTasks \/ RunReturns \/ UNCHANGED vars
           \/ \E t \in Threads : StartPool(t) \/ StopTests(t) \/ StopPosts(t) \/ StopPool(t) \/ ResetGuard(t)
                                   \/ StopReturnsNow(t)
  <2>1. UNCHANGED <<frame, event>>
    BY <1>8 DEF PostTask, RunTask, TaskExpires, StopTimer, RunStopTimer, StopTimers, StartTimer, RunStart,
       TimerExpires, RunStopTimers, RunStopTasks, RunReturns, vars, StartPool, StopTests, StopPosts, StopPool,
       ResetGuard, StopReturnsNow, work
  <2>2. QED
    BY <2>1 DEF EventCalled
<1>9. QED
  BY <1>3, <1>4, <1>5, <1>6, <1>7, <1>8 DEF Next, AppCalls, CallbackCalls, RunPosted, Returns, Stops

LEMMA EventsOnceKept ==
  ASSUME TypeOK, EventCalled, EventsOnce(posted, event), [Next]_vars
  PROVE  EventsOnce(posted, event)'
<1>0. /\ posted \in Seq(Handlers)
      /\ event \in [Events -> {"new", "posted", "waiting", "queued", "running", "done"}]
  BY DEF TypeOK
<1>1. ASSUME NEW h \in Handlers, h.h # "event", posted' = Append(posted, h), event' = event
      PROVE  EventsOnce(posted', event')
  BY <1>0, <1>1, EventsOnceAppend
<1>2. ASSUME NEW h, NEW x, Takes(h, x), posted' = Tail(posted), event' = event
      PROVE  EventsOnce(posted', event')
  BY <1>0, <1>2, EventsOnceTail DEF Takes
<1>3. ASSUME posted' = posted, \A e \in Events : event[e] = "posted" => event'[e] = "posted"
      PROVE  EventsOnce(posted', event')
  BY <1>0, <1>3, EventsOnceState
<1>4. CASE \E k \in Tasks : PostTask(k)
  BY <1>1, <1>4, HandlerTypes, SameHandler DEF PostTask, Post
<1>5. CASE \E i \in TimerIds, o \in Objects : StartTimer(o, i)
  BY <1>1, <1>5, HandlerTypes, SameHandler DEF StartTimer, Post, work
<1>6. CASE \E i \in TimerIds : StopTimer(i)
  BY <1>1, <1>6, HandlerTypes, SameHandler DEF StopTimer, Post, work
<1>7. CASE \E t \in Threads : StopPosts(t)
  BY <1>1, <1>7, HandlerTypes, SameHandler DEF StopPosts, Post, work
<1>8. CASE \E e \in Events : PostEvent(e)
  <2> PICK e \in Events : PostEvent(e)
    BY <1>8
  <2> DEFINE h == Handler("event", e)
  <2>1. h \in Handlers /\ h.h = "event" /\ h.x = e
    BY HandlerTypes DEF Handler
  <2>2. event[e] = "new" /\ posted' = Append(posted, h) /\ event' = [event EXCEPT ![e] = "posted"]
    BY DEF PostEvent, Post
  <2> HIDE DEF h
  <2>3. EventsOnce(posted, event')
    BY <1>0, <2>2, EventsOnceState
  <2>4. event'[e] = "posted"
    BY <1>0, <2>2
  <2>5. \A n \in DOMAIN posted : posted[n] # h
    BY <2>1, <2>2 DEF EventsOnce
  <2>6. EventsOnce(Append(posted, h), event')
    BY <1>0, <2>1, <2>3, <2>4, <2>5, EventsOnceAppend
  <2>7. QED
    BY <2>2, <2>6
<1>9. CASE \E e \in Events : RunEvent(e)
  <2> PICK e \in Events : RunEvent(e)
    BY <1>9
  <2>1. /\ posted # <<>> /\ Head(posted) = Handler("event", e) /\ posted' = Tail(posted)
        /\ event' = [event EXCEPT ![e] = "waiting"]
    BY DEF RunEvent, Takes
  <2>2. /\ EventsOnce(Tail(posted), event)
        /\ \A n \in DOMAIN Tail(posted) : Tail(posted)[n].h = "event" => Tail(posted)[n] # Handler("event", e)
        /\ Tail(posted) \in Seq(Handlers)
    BY <1>0, <2>1, EventsOnceTail, HeadTailProperties
  <2> DEFINE r == Tail(posted)
  <2> HIDE DEF r
  <2>3. \A n \in DOMAIN r : r[n] \in Handlers
    BY <2>2, LenProperties, ElementOfSeq DEF r
  <2>4. \A n \in DOMAIN r : r[n].h = "event" => r[n].x \in Events /\ r[n] = Handler("event", r[n].x)
    BY <2>3 DEF Handlers, Handler
  <2>5. \A n \in DOMAIN r : r[n].h = "event" => r[n].x # e
    BY <2>2, <2>4 DEF r
  <2>6. \A f \in Events : f # e => event'[f] = event[f]
    BY <1>0, <2>1
  <2>7. EventsOnce(r, event')
    BY <2>2, <2>4, <2>5, <2>6 DEF EventsOnce, r
  <2>8. QED
    BY <2>1, <2>7 DEF r
<1>10. CASE StopInside
  BY <1>0, <1>10, EventsOnceBaseStop DEF StopInside
<1>11. CASE RunStop
  <2>1. Takes("stop", 0) /\ BaseStop(Tail(posted)) /\ posted # <<>>
    BY <1>11 DEF RunStop, Takes
  <2>2. Tail(posted) \in Seq(Handlers) /\ EventsOnce(Tail(posted), event)
    BY <1>0, <2>1, HeadTailProperties, EventsOnceTail
  <2>3. QED
    BY <1>0, <2>1, <2>2, EventsOnceBaseStop
<1>12. CASE \/ \E k \in Tasks : RunTask(k)
            \/ \E o \in Objects : RunStart(o)
            \/ \E i \in TimerIds : RunStopTimer(i)
            \/ RunStopTimers \/ RunStopTasks
  BY <1>2, <1>12 DEF RunTask, RunStart, RunStopTimer, RunStopTimers, StopTimers, RunStopTasks, work
<1>13. CASE \/ \E e \in Events : PostEventInside(e) \/ Notify(e) \/ RunQueuedEvent(e)
  BY <1>0, <1>3, <1>13 DEF PostEventInside, Notify, RunQueuedEvent
<1>14. CASE EventReturns
  \* The event that returns is running.
  <2>1. \A e \in Events : event[e] = "posted" => event'[e] = "posted"
    BY <1>0, <1>14 DEF EventReturns, EventCalled
  <2>2. QED
    BY <1>3, <1>14, <2>1 DEF EventReturns
<1>15. CASE \/ \E k \in Tasks : RunQueuedTask(k) \/ TaskExpires(k)
            \/ \E o \in Objects : RunTick(o) \/ TimerExpires(o)
            \/ TaskReturns \/ TickReturns \/ RunReturns \/ UNCHANGED vars
            \/ \E t \in Threads : StartPool(t) \/ StopTests(t) \/ StopPool(t) \/ ResetGuard(t)
                                    \/ StopReturnsNow(t)
  BY <1>3, <1>15 DEF RunQueuedTask, TaskExpires, RunTick, TimerExpires, TaskReturns, TickReturns, RunReturns,
     vars, StartPool, StopTests, StopPool, ResetGuard, StopReturnsNow, work
<1>16. QED
  BY <1>4, <1>5, <1>6, <1>7, <1>8, <1>9, <1>10, <1>11, <1>12, <1>13, <1>14, <1>15
     DEF Next, AppCalls, CallbackCalls, RunPosted, Returns, Stops

AllWillEnd == EventsWillEnd(posted, event) /\ TimersWillEnd(posted, timer, exited)

EndInv == AbortedExited /\ (Stopping /\ ~late => AllWillEnd)

\* Only the handlers of timers abort them.
LEMMA AbortedExitedKept ==
  ASSUME TypeOK, TimerInv, AbortedExited, [Next]_vars
  PROVE  AbortedExited'
<1>0. timer \in [Objects -> {"new", "posted", "armed", "ok", "aborted", "running", "idle"}]
  BY DEF TypeOK
<1>1. CASE \E o \in Objects : RunStart(o)
  BY <1>0, <1>1 DEF RunStart, AbortedExited
<1>2. CASE (\E i \in TimerIds : RunStopTimer(i)) \/ RunStopTimers
  BY <1>0, <1>2 DEF RunStopTimer, RunStopTimers, StopTimers, Exit, AbortedExited
<1>3. CASE \E o \in Objects : RunTick(o) \/ TimerExpires(o)
  BY <1>0, <1>3 DEF RunTick, TimerExpires, AbortedExited
<1>4. CASE TickReturns
  BY <1>0, <1>4 DEF TickReturns, AbortedExited
<1>5. CASE \E i \in TimerIds, o \in Objects : StartTimer(o, i)
  BY <1>0, <1>5 DEF StartTimer, AbortedExited
<1>6. CASE \/ \E k \in Tasks : PostTask(k) \/ RunTask(k) \/ TaskExpires(k) \/ RunQueuedTask(k)
           \/ \E e \in Events : PostEvent(e) \/ PostEventInside(e) \/ RunEvent(e) \/ Notify(e) \/ RunQueuedEvent(e)
           \/ StopInside \/ RunStop \/ RunStopTasks \/ TaskReturns \/ EventReturns
           \/ \E i \in TimerIds : StopTimer(i)
           \/ RunReturns \/ UNCHANGED vars
           \/ \E t \in Threads : StartPool(t) \/ StopTests(t) \/ StopPosts(t) \/ StopPool(t) \/ ResetGuard(t)
                                   \/ StopReturnsNow(t)
  <2>1. UNCHANGED tmrs
    BY <1>6 DEF PostTask, RunTask, TaskExpires, RunQueuedTask, PostEvent, PostEventInside, RunEvent, Notify,
       RunQueuedEvent, StopInside, RunStop, RunStopTasks, TaskReturns, EventReturns, StopTimer, RunReturns, vars,
       StartPool, StopTests, StopPosts, StopPool, ResetGuard, StopReturnsNow
  <2>2. QED
    BY <2>1 DEF AbortedExited, tmrs
<1>7. QED
  BY <1>1, <1>2, <1>3, <1>4, <1>5, <1>6 DEF Next, AppCalls, CallbackCalls, RunPosted, Returns, Stops

\* A step that leaves the queue alone.
LEMMA EndsSame ==
  ASSUME AllWillEnd, UNCHANGED posted,
         \A e \in Events : event'[e] \in {"posted", "waiting"} => event'[e] = event[e],
         \A o \in Objects : timer'[o] = "posted" => timer[o] = "posted",
         \A o \in Objects : GoesOn(timer'[o]) /\ o \notin exited' => GoesOn(timer[o]) /\ o \notin exited
  PROVE  AllWillEnd'
BY DEF AllWillEnd, EventsWillEnd, TimersWillEnd

\* The base class's stop, whatever is left of the queue: the events that wait
\* are notified, and the timers are stopped behind all that is queued.
LEMMA EndsBaseStop ==
  ASSUME NEW rest \in Seq(Handlers), BaseStop(rest), UNCHANGED <<timer, exited>>,
         event \in [Events -> {"new", "posted", "waiting", "queued", "running", "done"}],
         Queued(rest, task, event, timer),
         \A e \in Events : event[e] = "posted" => Behind(rest, Handler("event", e), {"stop"})
  PROVE  AllWillEnd'
<1>1. PICK a, b \in Handlers : /\ a.h = "stopTimers" /\ Append(rest, a) \in Seq(Handlers)
                               /\ posted' = Append(Append(rest, a), b)
  BY BaseStopPosts
<1>2. EventsWillEnd(rest, event')
  BY DEF BaseStop, EventsWillEnd
<1>3. EventsWillEnd(posted', event')
  BY <1>1, <1>2, EndsAppend
<1>4. TimersWillEnd(Append(rest, a), timer, exited)
  BY <1>1, EndsStop
<1>5. TimersWillEnd(posted', timer, exited)
  BY <1>1, <1>4, EndsAppend
<1>6. QED
  BY <1>3, <1>5 DEF AllWillEnd

LEMMA EndKept ==
  ASSUME TypeOK, TimerInv, Queued(posted, task, event, timer), EventsOnce(posted, event), EndInv, [Next]_vars
  PROVE  Stopping' /\ ~late' => AllWillEnd'
<1> SUFFICES ASSUME Stopping', ~late' PROVE AllWillEnd'
  OBVIOUS
<1>0. /\ posted \in Seq(Handlers)
      /\ event \in [Events -> {"new", "posted", "waiting", "queued", "running", "done"}]
      /\ timer \in [Objects -> {"new", "posted", "armed", "ok", "aborted", "running", "idle"}]
      /\ caller \in [Threads -> {"free", "tested", "posted", "stopping", "waiting"}]
  BY DEF TypeOK
<1>1. ASSUME UNCHANGED <<caller, late>> PROVE AllWillEnd
  BY <1>1 DEF EndInv, Stopping
<1>2. ASSUME UNCHANGED caller, NotesLate PROVE FALSE
  BY <1>2 DEF NotesLate, Stopping
<1>3. CASE \E e \in Events : PostEvent(e) \/ PostEventInside(e)
  BY <1>2, <1>3 DEF PostEvent, PostEventInside
<1>4. CASE \E i \in TimerIds, o \in Objects : StartTimer(o, i)
  BY <1>2, <1>4 DEF StartTimer
<1>5. CASE \E t \in Threads : StartPool(t)
  BY <1>5 DEF StartPool, Stopping
<1>6. CASE \E t \in Threads : StopTests(t) \/ StopPool(t) \/ ResetGuard(t) \/ StopReturnsNow(t)
  <2>1. Stopping /\ ~late
    BY <1>0, <1>6 DEF StopTests, StopPool, ResetGuard, StopReturnsNow, Returned, Stopping, history
  <2>2. UNCHANGED <<posted, event, timer, exited>>
    BY <1>6 DEF StopTests, StopPool, ResetGuard, StopReturnsNow, work, tmrs
  <2>3. QED
    BY <2>1, <2>2, EndsSame DEF EndInv
<1>7. CASE \E t \in Threads : StopPosts(t)
  <2> DEFINE h == Handler("stop", 0)
  <2>1. h \in Handlers /\ h.h = "stop"
    BY HandlerTypes DEF Handler
  <2>2. posted' = Append(posted, h) /\ UNCHANGED <<event, timer, exited>>
    BY <1>7 DEF StopPosts, Post, work, tmrs
  <2> HIDE DEF h
  <2>3. QED
    BY <1>0, <2>1, <2>2, EndsStop DEF AllWillEnd
<1>8. CASE \E k \in Tasks : PostTask(k)
  <2> PICK k \in Tasks : PostTask(k)
    BY <1>8
  <2> DEFINE h == Handler("task", k)
  <2>1. h \in Handlers
    BY HandlerTypes
  <2>2. posted' = Append(posted, h) /\ UNCHANGED <<event, timer, exited, caller, late>>
    BY DEF PostTask, Post, tmrs, history
  <2> HIDE DEF h
  <2>3. QED
    BY <1>0, <1>1, <2>1, <2>2, EndsAppend DEF AllWillEnd
<1>9. CASE \E i \in TimerIds : StopTimer(i)
  <2> PICK i \in TimerIds : StopTimer(i)
    BY <1>9
  <2> DEFINE h == Handler("stopTimer", i)
  <2>1. h \in Handlers
    BY HandlerTypes
  <2>2. posted' = Append(posted, h) /\ UNCHANGED <<event, timer, exited, caller, late>>
    BY DEF StopTimer, Post, work, tmrs, history
  <2> HIDE DEF h
  <2>3. QED
    BY <1>0, <1>1, <2>1, <2>2, EndsAppend DEF AllWillEnd
<1>10. CASE StopInside
  <2>1. BaseStop(posted) /\ UNCHANGED <<timer, exited, caller, late>>
    BY <1>10 DEF StopInside, tmrs, history
  <2>2. \A e \in Events : event[e] = "posted" => Behind(posted, Handler("event", e), {"stop"})
    BY <1>1, <2>1 DEF AllWillEnd, EventsWillEnd
  <2>3. QED
    BY <1>0, <2>1, <2>2, EndsBaseStop
\* A handler is taken from the queue.
<1>11. ASSUME NEW h, NEW x, Takes(h, x), posted' = Tail(posted), UNCHANGED <<caller, late>>,
              \A e \in Events : event'[e] = "posted" => event[e] = "posted" /\ Handler(h, x) # Handler("event", e),
              \A e \in Events : event'[e] = "waiting" =>
                event[e] = "posted" \/ (event[e] = "waiting" /\ h # "stop"),
              \A o \in Objects : timer'[o] = "posted" => timer[o] = "posted" /\ Handler(h, x) # Handler("start", o),
              \A o \in Objects : GoesOn(timer'[o]) /\ o \notin exited' =>
                \/ timer[o] = "posted"
                \/ GoesOn(timer[o]) /\ o \notin exited /\ h \notin {"stop", "stopTimers"}
       PROVE  AllWillEnd'
  <2>1. posted # <<>> /\ Head(posted) = Handler(h, x) /\ Head(posted).h = h
    BY <1>11, SameHandler DEF Takes
  <2>2. EventsWillEnd(Tail(posted), event')
    BY <1>0, <1>1, <1>11, <2>1, EventsTail DEF AllWillEnd
  <2>3. TimersWillEnd(Tail(posted), timer', exited')
    BY <1>0, <1>1, <1>11, <2>1, TimersTail DEF AllWillEnd
  <2>4. QED
    BY <1>11, <2>2, <2>3 DEF AllWillEnd
<1>12. CASE \E k \in Tasks : RunTask(k)
  <2> PICK k \in Tasks : RunTask(k)
    BY <1>12
  <2>1. Takes("task", k) /\ posted' = Tail(posted) /\ UNCHANGED <<event, timer, exited, caller, late>>
    BY DEF RunTask, tmrs, history
  <2>2. QED
    BY <1>11, <2>1, SameHandler
<1>13. CASE \E e \in Events : RunEvent(e)
  <2> PICK e \in Events : RunEvent(e)
    BY <1>13
  <2>1. Takes("event", e) /\ posted' = Tail(posted) /\ UNCHANGED <<timer, exited, caller, late>>
    BY DEF RunEvent, tmrs, history
  \* The event is the one that was posted.
  <2>2. event[e] = "posted"
    <3>1. 1 \in DOMAIN posted /\ posted[1] = Handler("event", e)
      BY <1>0, <2>1, HeadTailProperties, LenProperties, EmptySeq DEF Takes
    <3>2. posted[1].h = "event" /\ posted[1].x = e
      BY <3>1 DEF Handler
    <3>3. QED
      BY <3>1, <3>2 DEF EventsOnce
  <2>3. event'[e] = "waiting" /\ \A f \in Events : f # e => event'[f] = event[f]
    BY <1>0 DEF RunEvent
  <2>4. QED
    BY <1>11, <2>1, <2>2, <2>3, SameHandler
<1>14. CASE \E o \in Objects : RunStart(o)
  <2> PICK o \in Objects : RunStart(o)
    BY <1>14
  <2>1. Takes("start", o) /\ posted' = Tail(posted) /\ UNCHANGED <<event, caller, late>>
    BY DEF RunStart, work, history
  <2>2. \A p \in Objects : p # o => timer'[p] = timer[p] \/ timer'[p] = "aborted"
    BY DEF RunStart
  <2>3. timer'[o] = "armed" /\ exited \subseteq exited'
    BY DEF RunStart
  \* The timer is the one that was posted.
  <2>4. timer[o] = "posted"
    <3>1. 1 \in DOMAIN posted /\ posted[1] = Handler("start", o)
      BY <1>0, <2>1, HeadTailProperties, LenProperties, EmptySeq DEF Takes
    <3>2. posted[1].h = "start" /\ posted[1].x = o
      BY <3>1 DEF Handler
    <3>3. QED
      BY <3>1, <3>2 DEF TimerInv, StartsOnce
  <2>5. \A p \in Objects : timer'[p] = "posted" => timer[p] = "posted" /\ p # o
    BY <2>2, <2>3
  <2>6. \A p \in Objects : GoesOn(timer'[p]) /\ p \notin exited' =>
          timer[p] = "posted" \/ (GoesOn(timer[p]) /\ p \notin exited)
    BY <2>2, <2>3, <2>4 DEF GoesOn
  <2>7. QED
    BY <1>11, <2>1, <2>5, <2>6, SameHandler
<1>15. CASE \E i \in TimerIds : RunStopTimer(i)
  <2> PICK i \in TimerIds : RunStopTimer(i)
    BY <1>15
  <2>1. Takes("stopTimer", i) /\ posted' = Tail(posted) /\ UNCHANGED <<event, caller, late>>
    BY DEF RunStopTimer, StopTimers, work, history
  <2>2. \A o \in Objects : timer'[o] = timer[o] \/ timer'[o] = "aborted"
    BY DEF RunStopTimer, StopTimers, Exit
  <2>3. exited \subseteq exited'
    BY DEF RunStopTimer, StopTimers, Exit
  <2>4. \A o \in Objects : timer'[o] = "posted" => timer[o] = "posted"
    BY <2>2
  <2>5. \A o \in Objects : GoesOn(timer'[o]) /\ o \notin exited' => GoesOn(timer[o]) /\ o \notin exited
    BY <2>2, <2>3 DEF GoesOn
  <2>6. QED
    BY <1>11, <2>1, <2>4, <2>5, SameHandler
<1>16. CASE RunStopTimers
  <2>1. Takes("stopTimers", 0) /\ posted' = Tail(posted) /\ UNCHANGED <<event, caller, late>>
    BY <1>16 DEF RunStopTimers, StopTimers, work, history
  <2>2. \A o \in Objects : timer'[o] = timer[o] \/ timer'[o] = "aborted"
    BY <1>16 DEF RunStopTimers, StopTimers, Exit
  <2>3. exited' = exited \cup Mapped(TimerIds)
    BY <1>16 DEF RunStopTimers, StopTimers, Exit
  \* Every timer that is not exited is in user_timers_.
  <2>4. \A o \in Objects : Made(o) => o \in exited'
    <3>1. ASSUME NEW o \in Objects, Made(o), o \notin exited PROVE o \in Mapped(TimerIds)
      <4>1. timers[id[o]] = o /\ id[o] \in TimerIds
        BY <3>1 DEF TimerInv, TimersInv, ExitedWhenUnmapped, TypeOK
      <4>2. o # 0
        BY DEF Objects
      <4>3. QED
        BY <4>1, <4>2 DEF Mapped
    <3>2. QED
      BY <2>3, <3>1
  <2>5. \A o \in Objects : timer'[o] = "posted" => timer[o] = "posted"
    BY <2>2
  <2>6. \A o \in Objects : GoesOn(timer'[o]) => o \in exited'
    BY <2>2, <2>4 DEF GoesOn, Made
  <2>7. QED
    BY <1>11, <2>1, <2>5, <2>6, SameHandler
<1>17. CASE RunStopTasks
  <2>1. Takes("stopTasks", 0) /\ posted' = Tail(posted) /\ UNCHANGED <<event, timer, exited, caller, late>>
    BY <1>17 DEF RunStopTasks, tmrs, history
  <2>2. QED
    BY <1>11, <2>1, SameHandler
<1>18. CASE RunStop
  <2>1. /\ BaseStop(Tail(posted)) /\ UNCHANGED <<task, timer, exited, caller, late>>
        /\ posted # <<>> /\ Head(posted) = Handler("stop", 0)
    BY <1>18 DEF RunStop, Takes, tmrs, history
  <2>2. Tail(posted) \in Seq(Handlers)
    BY <1>0, <2>1, HeadTailProperties
  <2>3. Queued(Tail(posted), task, event, timer)
    BY <1>0, <2>1, QueuedTail, SameHandler
  <2>4. \A e \in Events : event[e] = "posted" => Behind(Tail(posted), Handler("event", e), {"stop"})
    BY <1>0, <1>1, <2>1, QueueTail, SameHandler DEF AllWillEnd, EventsWillEnd
  <2>5. QED
    BY <1>0, <2>1, <2>2, <2>3, <2>4, EndsBaseStop
\* The rest leaves the queue alone.
<1>19. CASE \E o \in Objects : RunTick(o) \/ TimerExpires(o)
  <2>1. UNCHANGED <<posted, event, exited, caller, late>>
    BY <1>19 DEF RunTick, TimerExpires, work, history
  <2>2. \A o \in Objects : timer'[o] = timer[o] \/ (timer'[o] \in {"running", "ok"} /\ timer[o] \in {"armed", "ok", "aborted"})
    BY <1>0, <1>19 DEF RunTick, TimerExpires
  <2>3. \A o \in Objects : GoesOn(timer'[o]) /\ o \notin exited' => GoesOn(timer[o]) /\ o \notin exited
    BY <2>1, <2>2 DEF EndInv, AbortedExited, GoesOn
  <2>4. \A o \in Objects : timer'[o] = "posted" => timer[o] = "posted"
    BY <2>2
  <2>5. QED
    BY <1>1, <2>1, <2>3, <2>4, EndsSame
<1>20. CASE TickReturns
  <2>1. UNCHANGED <<posted, event, exited, caller, late>>
    BY <1>20 DEF TickReturns, work, history
  <2>2. timer[frame.x] = "running" /\ frame.x \in Objects
    BY <1>20 DEF TickReturns, TimerInv, FrameRuns
  <2>3. \A o \in Objects : timer'[o] = timer[o] \/ (o = frame.x /\ timer'[o] \in {"armed", "idle"})
    BY <1>0, <1>20 DEF TickReturns
  <2>4. \A o \in Objects : GoesOn(timer'[o]) /\ o \notin exited' => GoesOn(timer[o]) /\ o \notin exited
    BY <2>1, <2>2, <2>3 DEF GoesOn
  <2>5. \A o \in Objects : timer'[o] = "posted" => timer[o] = "posted"
    BY <2>3
  <2>6. QED
    BY <1>1, <2>1, <2>4, <2>5, EndsSame
<1>21. CASE \/ \E e \in Events : Notify(e) \/ RunQueuedEvent(e)
            \/ \E k \in Tasks : RunQueuedTask(k) \/ TaskExpires(k)
            \/ TaskReturns \/ EventReturns \/ RunReturns \/ UNCHANGED vars
  <2>1. UNCHANGED <<posted, timer, exited, caller, late>>
    BY <1>21 DEF Notify, RunQueuedEvent, RunQueuedTask, TaskExpires, TaskReturns, EventReturns, RunReturns, vars,
       tmrs, history
  <2>2. \A e \in Events : event'[e] \in {"posted", "waiting"} => event'[e] = event[e]
    BY <1>0, <1>21 DEF Notify, RunQueuedEvent, RunQueuedTask, TaskExpires, TaskReturns, EventReturns, RunReturns, vars,
       work
  <2>3. QED
    BY <1>1, <2>1, <2>2, EndsSame
<1>22. QED
  BY <1>3, <1>4, <1>5, <1>6, <1>7, <1>8, <1>9, <1>10, <1>12, <1>13, <1>14, <1>15, <1>16, <1>17, <1>18, <1>19,
     <1>20, <1>21 DEF Next, AppCalls, CallbackCalls, RunPosted, Returns, Stops

\* When the handlers of a stop have run, only what ends by itself holds the
\* context, whatever was posted, started and stopped before; unless a timer was
\* started or an event posted while the stop went on (client.hpp, server.hpp:
\* stop; "note : need test", async_event_cp.hpp:124).
THEOREM StopEndsHolds == Spec => []StopEnds
<1> DEFINE Inv == /\ TimerInv /\ Queued(posted, task, event, timer) /\ EventCalled
                  /\ EventsOnce(posted, event) /\ EndInv
<1>1. Init => Inv
  BY EmptySeq DEF Init, TimerInv, TimersInv, MappedById, ExitedWhenUnmapped, ExitedNotArmed, OverIsExited,
         ExtraCounted, FrameRuns, StartsOnce, Made, NoFrame, Queued, EventCalled, EventsOnce, EndInv, AbortedExited,
         Stopping
<1>2. TypeOK /\ Inv /\ [Next]_vars => Inv'
  <2> SUFFICES ASSUME TypeOK, Inv, [Next]_vars PROVE Inv'
    OBVIOUS
  <2>1. TimerInv' /\ EventCalled' /\ EventsOnce(posted, event)'
    BY TimerInvKept, EventCalledKept, EventsOnceKept
  <2>2. Queued(posted, task, event, timer)'
    BY QueuedKept
  <2>3. AbortedExited'
    BY AbortedExitedKept DEF EndInv
  <2>4. EndInv'
    BY <2>3, EndKept DEF EndInv
  <2>5. QED
    BY <2>1, <2>2, <2>4
<1>3. Inv => StopEnds
  <2> SUFFICES ASSUME Inv, NEW t \in Threads, caller[t] = "waiting", ~StopQueued, ~late
               PROVE  /\ \A e \in Events : event[e] \notin {"posted", "waiting"}
                      /\ \A o \in Objects : timer[o] \in {"armed", "ok", "running"} => o \in exited
    BY DEF StopEnds
  <2>1. AllWillEnd
    BY DEF EndInv, Stopping
  <2>2. ~Covered(posted, {"stop"}) /\ ~Covered(posted, {"stop", "stopTimers"})
    BY DEF StopQueued, Covered
  <2>3. \A g : ~Behind(posted, g, {"stop"})
    BY DEF StopQueued, Behind
  <2>4. QED
    BY <2>1, <2>2, <2>3 DEF AllWillEnd, EventsWillEnd, TimersWillEnd, GoesOn
<1>4. QED
  BY <1>1, <1>2, <1>3, TypeCorrect, PTL DEF Spec
=============================================================================
