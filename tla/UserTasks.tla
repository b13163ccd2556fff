----------------------------- MODULE UserTasks -----------------------------
(***************************************************************************)
(* What an application runs on the strand of a client, server or session:  *)
(* delayed tasks (post_cp.hpp), timers with an id (user_timer_cp.hpp) and  *)
(* events that wait for a notification (async_event_cp.hpp); the stop that *)
(* ends them (client.hpp, server.hpp: stop); and the pool with the         *)
(* io_context that runs the strand (iopool.hpp), started and stopped by    *)
(* several threads.                                                        *)
(*                                                                         *)
(* The pool has one context, that of the strand.  The way a stop takes     *)
(* through the event queue to the base class is TcpClient's and            *)
(* TcpServer's; here it is one handler.                                    *)
(***************************************************************************)
EXTENDS Naturals, Sequences, FiniteSets

CONSTANTS
  Threads,      \* threads that start and stop the object
  Tasks,        \* bound: delayed tasks, each posted once
  Events,       \* bound: events, each posted once
  TimerIds,     \* the ids the application gives its timers
  MaxTimers,    \* bound: calls of start_timer
  MaxStarts,    \* bound: starts of the pool
  MaxPosted     \* bound: handlers waiting in the strand when a call adds one

ASSUME BoundsAssumption == {MaxTimers, MaxStarts, MaxPosted} \subseteq Nat

VARIABLES
  \* the pool
  stopped,   \* stopped_
  guard,     \* the context's guards_ and threads_: "none", "held", "reset"
  run,       \* the context: "running", or "stopped" as ioc->stopped() says
  starts,    \* how often it was started
  \* its callers: "free", "tested" (the pool runs, so stop goes on), "posted"
  \* (the stop is on its way to the strand), "stopping" (stopped_ is set),
  \* "waiting" (the guard is reset)
  caller,
  \* the strand
  posted,    \* handlers, in order
  frame,     \* the callback of the application that is running, or NoFrame
  \* the application's work
  task,      \* each delayed task: "new", "posted", "armed", "queued" (its
             \* handler is), "running", "done"
  event,     \* each event: "new", "posted", "waiting", "queued", "running", "done"
  timer,     \* each user_timer_obj: "new", "posted", "armed", "ok" or "aborted"
             \* (its handler is queued), "running", "idle"
  id,        \* the id of each
  exited,    \* the objects that are exited
  timers,    \* user_timers_: the object of each id, 0 if none
  \* history
  over,      \* objects whose id was stopped, or started again, after them
  extra,     \* calls of an object's task since then, counted to 2
  owed,      \* what was accepted before each thread's stop was posted
  late       \* a timer was started or an event posted while a stop was going on

pool    == <<stopped, guard, run, starts>>
work    == <<task, event>>
tmrs    == <<timer, id, exited, timers, over, extra>>
history == <<owed, late>>
vars    == <<pool, caller, posted, frame, work, tmrs, history>>

Objects == 1 .. MaxTimers
NoFrame == [k |-> "none", x |-> 0]
Frame(k, x) == [k |-> k, x |-> x]
Handler(h, x) == [h |-> h, x |-> x]

Post(h) == posted' = Append(posted, h)
Room == Len(posted) < MaxPosted
InCallback == frame # NoFrame

Stopping == \E t \in Threads : caller[t] \in {"posted", "stopping", "waiting"}
NotesLate == late' = (late \/ Stopping)

-----------------------------------------------------------------------------
(* The calls of the application, in a thread of its own or in a callback.  *)

\* post(f, delay).
PostTask(k) ==
  /\ task[k] = "new" /\ Room
  /\ task' = [task EXCEPT ![k] = "posted"]
  /\ Post(Handler("task", k))
  /\ UNCHANGED <<pool, caller, frame, event, tmrs, history>>

\* post_event dispatches: on the strand the event waits at once.
PostEvent(e) ==
  /\ event[e] = "new" /\ Room
  /\ event' = [event EXCEPT ![e] = "posted"]
  /\ Post(Handler("event", e))
  /\ NotesLate
  /\ UNCHANGED <<pool, caller, frame, task, tmrs, owed>>

PostEventInside(e) ==
  /\ event[e] = "new"
  /\ event' = [event EXCEPT ![e] = "waiting"]
  /\ NotesLate
  /\ UNCHANGED <<pool, caller, posted, frame, task, tmrs, owed>>

\* notify cancels the wait; it does nothing for an event that does not wait,
\* not even when it will.
Notify(e) ==
  /\ event[e] = "waiting"
  /\ event' = [event EXCEPT ![e] = "queued"]
  /\ UNCHANGED <<pool, caller, posted, frame, task, tmrs, history>>

StartTimer(o, i) ==
  /\ Room /\ timer[o] = "new" /\ \A p \in 1 .. o - 1 : timer[p] # "new"
  /\ timer' = [timer EXCEPT ![o] = "posted"]
  /\ id' = [id EXCEPT ![o] = i]
  /\ Post(Handler("start", o))
  /\ NotesLate
  /\ UNCHANGED <<pool, caller, frame, work, exited, timers, over, extra, owed>>

\* Of an id that no timer has it would do nothing.
StopTimer(i) ==
  /\ timers[i] # 0 \/ \E o \in Objects : timer[o] = "posted" /\ id[o] = i
  /\ Room /\ Post(Handler("stopTimer", i))
  /\ UNCHANGED <<pool, caller, frame, work, tmrs, history>>

-----------------------------------------------------------------------------
(* The strand.                                                             *)

\* What ends with the object's id: its older timers.
Ends(S) ==
  /\ over' = over \cup S
  /\ UNCHANGED extra

\* exited = true and cancel, for the objects in S.
Exit(S) ==
  /\ exited' = exited \cup S
  /\ timer' = [o \in Objects |-> IF o \in S /\ timer[o] = "armed" THEN "aborted" ELSE timer[o]]

Known(S) == {o \in Objects : timer[o] \notin {"new", "posted"} /\ id[o] \in S}
Mapped(S) == {timers[i] : i \in S} \ {0}

Takes(h, x) ==
  /\ run = "running" /\ ~InCallback
  /\ posted # <<>> /\ Head(posted) = Handler(h, x)

\* post(f, delay) on the strand: the timer is armed and in timed_tasks_.
RunTask(k) ==
  /\ Takes("task", k) /\ posted' = Tail(posted)
  /\ task' = [task EXCEPT ![k] = "armed"]
  /\ UNCHANGED <<pool, caller, frame, event, tmrs, history>>

\* post_event on the strand: the event is in async_events_ and waits.
RunEvent(e) ==
  /\ Takes("event", e) /\ posted' = Tail(posted)
  /\ event' = [event EXCEPT ![e] = "waiting"]
  /\ UNCHANGED <<pool, caller, frame, task, tmrs, history>>

\* start_timer on the strand: it replaces the timer of that id.
RunStart(o) ==
  /\ Takes("start", o) /\ posted' = Tail(posted)
  /\ LET old == Mapped({id[o]})
     IN /\ exited' = exited \cup old
        /\ timer' = [p \in Objects |-> IF p = o THEN "armed"
                                       ELSE IF p \in old /\ timer[p] = "armed" THEN "aborted"
                                       ELSE timer[p]]
  /\ timers' = [timers EXCEPT ![id[o]] = o]
  /\ Ends(Known({id[o]}))
  /\ UNCHANGED <<pool, caller, frame, work, id, history>>

\* stop_timer and stop_all_timers on the strand.
StopTimers(S) ==
  /\ Exit(Mapped(S))
  /\ timers' = [i \in TimerIds |-> IF i \in S THEN 0 ELSE timers[i]]
  /\ Ends(Known(S))
  /\ UNCHANGED <<pool, caller, frame, work, id, history>>

RunStopTimer(i) == Takes("stopTimer", i) /\ posted' = Tail(posted) /\ StopTimers({i})

RunStopTimers == Takes("stopTimers", 0) /\ posted' = Tail(posted) /\ StopTimers(TimerIds)

\* stop_all_timed_tasks on the strand: every timer of timed_tasks_ is cancelled.
RunStopTasks ==
  /\ Takes("stopTasks", 0) /\ posted' = Tail(posted)
  /\ task' = [k \in Tasks |-> IF task[k] = "armed" THEN "queued" ELSE task[k]]
  /\ UNCHANGED <<pool, caller, frame, event, tmrs, history>>

\* Mutant of BaseStop: the events are not notified.
BaseStopForgetsEvents(rest) ==
  /\ posted' = rest \o <<Handler("stopTimers", 0), Handler("stopTasks", 0)>>
  /\ UNCHANGED event

\* The base class's stop: two posts, and every waiting event is notified.
BaseStop(rest) ==
  /\ posted' = rest \o <<Handler("stopTimers", 0), Handler("stopTasks", 0)>>
  /\ event' = [e \in Events |-> IF event[e] = "waiting" THEN "queued" ELSE event[e]]

RunStop ==
  /\ Takes("stop", 0)
  /\ BaseStop(Tail(posted))
  /\ UNCHANGED <<pool, caller, frame, task, tmrs, history>>

\* The handlers of the timers call the application.
Calls(k, x) == run = "running" /\ ~InCallback /\ frame' = Frame(k, x)

RunQueuedTask(k) ==
  /\ task[k] = "queued" /\ Calls("task", k)
  /\ task' = [task EXCEPT ![k] = "running"]
  /\ UNCHANGED <<pool, caller, posted, event, tmrs, history>>

RunQueuedEvent(e) ==
  /\ event[e] = "queued" /\ Calls("event", e)
  /\ event' = [event EXCEPT ![e] = "running"]
  /\ UNCHANGED <<pool, caller, posted, task, tmrs, history>>

\* _handle_user_timers: the task is called, whatever the result.
RunTick(o) ==
  /\ timer[o] \in {"ok", "aborted"} /\ Calls(timer[o], o)
  /\ timer' = [timer EXCEPT ![o] = "running"]
  /\ extra' = [extra EXCEPT ![o] = IF o \in over /\ @ < 2 THEN @ + 1 ELSE @]
  /\ UNCHANGED <<pool, caller, posted, work, id, exited, timers, over, history>>

TaskReturns ==
  /\ frame.k = "task" /\ frame' = NoFrame
  /\ task' = [task EXCEPT ![frame.x] = "done"]
  /\ UNCHANGED <<pool, caller, posted, event, tmrs, history>>

EventReturns ==
  /\ frame.k = "event" /\ frame' = NoFrame
  /\ event' = [event EXCEPT ![frame.x] = "done"]
  /\ UNCHANGED <<pool, caller, posted, task, tmrs, history>>

\* Mutant of TickReturns: exited is not asked.
TickReturnsUnasked ==
  /\ frame.k \in {"ok", "aborted"} /\ frame' = NoFrame
  /\ timer' = [timer EXCEPT ![frame.x] = IF frame.k = "ok" THEN "armed" ELSE "idle"]
  /\ UNCHANGED <<pool, caller, posted, work, id, exited, timers, over, extra, history>>

\* The rest of _handle_user_timers, and _post_user_timers.
TickReturns ==
  /\ frame.k \in {"ok", "aborted"} /\ frame' = NoFrame
  /\ timer' = [timer EXCEPT ![frame.x] =
                 IF frame.k = "ok" /\ frame.x \notin exited THEN "armed" ELSE "idle"]
  /\ UNCHANGED <<pool, caller, posted, work, id, exited, timers, over, extra, history>>

\* The clock.
TaskExpires(k) ==
  /\ task[k] = "armed" /\ task' = [task EXCEPT ![k] = "queued"]
  /\ UNCHANGED <<pool, caller, posted, frame, event, tmrs, history>>

TimerExpires(o) ==
  /\ timer[o] = "armed" /\ timer' = [timer EXCEPT ![o] = "ok"]
  /\ UNCHANGED <<pool, caller, posted, frame, work, id, exited, timers, over, extra, history>>

-----------------------------------------------------------------------------
(* The pool.                                                               *)

NothingLeft ==
  /\ posted = <<>> /\ ~InCallback
  /\ \A k \in Tasks : task[k] \notin {"armed", "queued"}
  /\ \A e \in Events : event[e] \notin {"waiting", "queued"}
  /\ \A o \in Objects : timer[o] \notin {"armed", "ok", "aborted"}

\* io_context::run returns when nothing holds it any more.
RunReturns ==
  /\ run = "running" /\ guard = "reset" /\ NothingLeft
  /\ run' = "stopped"
  /\ UNCHANGED <<stopped, guard, starts, caller, posted, frame, work, tmrs, history>>

\* Mutants of StartPool: the context is not restarted, or a pool that is being
\* stopped is started.
StartPoolNoRestart(t) ==
  /\ caller[t] = "free" /\ starts < MaxStarts
  /\ stopped /\ guard = "none"
  /\ stopped' = FALSE /\ guard' = "held"
  /\ run' = IF starts = 0 THEN "running" ELSE run
  /\ starts' = starts + 1
  /\ late' = Stopping
  /\ UNCHANGED <<caller, posted, frame, work, tmrs, owed>>

StartPoolStopping(t) ==
  /\ caller[t] = "free" /\ starts < MaxStarts
  /\ stopped
  /\ stopped' = FALSE /\ guard' = "held" /\ run' = "running"
  /\ starts' = starts + 1
  /\ late' = Stopping
  /\ UNCHANGED <<caller, posted, frame, work, tmrs, owed>>

\* iopool::start; of a pool that is started, or being stopped, it changes
\* nothing and returns true.
StartPool(t) ==
  /\ caller[t] = "free" /\ starts < MaxStarts
  /\ stopped /\ guard = "none"
  /\ stopped' = FALSE /\ guard' = "held" /\ run' = "running"
  /\ starts' = starts + 1
  /\ late' = Stopping
  /\ UNCHANGED <<caller, posted, frame, work, tmrs, owed>>

Accepted ==
  {<<"task", k>> : k \in {j \in Tasks : task[j] # "new"}}
    \cup {<<"event", e>> : e \in {j \in Events : event[j] # "new"}}

\* stop of the object: is its pool stopped?
StopTests(t) ==
  /\ caller[t] = "free" /\ ~stopped
  /\ caller' = [caller EXCEPT ![t] = "tested"]
  /\ UNCHANGED <<pool, posted, frame, work, tmrs, history>>

Returned(t) ==
  /\ caller' = [caller EXCEPT ![t] = "free"]
  /\ owed' = [owed EXCEPT ![t] = {}]

\* It goes to the strand.
StopPosts(t) ==
  /\ caller[t] = "tested"
  /\ caller' = [caller EXCEPT ![t] = "posted"]
  /\ Post(Handler("stop", 0))
  /\ owed' = [owed EXCEPT ![t] = Accepted]
  /\ UNCHANGED <<pool, frame, work, tmrs, late>>

\* iopool::stop up to the wait: one thread gets past it.
StopPool(t) ==
  /\ caller[t] = "posted"
  /\ \/ stopped /\ Returned(t) /\ UNCHANGED stopped
     \/ /\ ~stopped /\ stopped' = TRUE
        /\ caller' = [caller EXCEPT ![t] = "stopping"] /\ UNCHANGED owed
  /\ UNCHANGED <<guard, run, starts, posted, frame, work, tmrs, late>>

\* wait_for_io_context_stopped resets the guard and sleeps until the context
\* has stopped.
ResetGuard(t) ==
  /\ caller[t] = "stopping"
  /\ caller' = [caller EXCEPT ![t] = "waiting"] /\ guard' = "reset"
  /\ UNCHANGED <<stopped, run, starts, posted, frame, work, tmrs, history>>

\* The thread is joined; guards_ and threads_ are cleared.
StopReturnsNow(t) ==
  /\ caller[t] = "waiting" /\ run = "stopped"
  /\ Returned(t) /\ guard' = "none"
  /\ UNCHANGED <<stopped, run, starts, posted, frame, work, tmrs, late>>

\* stop inside a callback: the pool does not stop in its own thread.
StopInside ==
  /\ ~stopped /\ Room
  /\ BaseStop(posted)
  /\ UNCHANGED <<pool, caller, frame, task, tmrs, history>>

-----------------------------------------------------------------------------
Init ==
  /\ stopped = TRUE /\ guard = "none" /\ run = "stopped" /\ starts = 0
  /\ caller = [t \in Threads |-> "free"] /\ posted = <<>> /\ frame = NoFrame
  /\ task = [k \in Tasks |-> "new"] /\ event = [e \in Events |-> "new"]
  /\ timer = [o \in Objects |-> "new"] /\ id \in [Objects -> TimerIds] /\ exited = {}
  /\ timers = [i \in TimerIds |-> 0]
  /\ over = {} /\ extra = [o \in Objects |-> 0]
  /\ owed = [t \in Threads |-> {}] /\ late = FALSE

AppCalls ==
  \/ \E k \in Tasks : PostTask(k)
  \/ \E e \in Events : PostEvent(e) \/ Notify(e)
  \/ \E i \in TimerIds : StopTimer(i) \/ \E o \in Objects : StartTimer(o, i)

CallbackCalls ==
  /\ InCallback
  /\ StopInside \/ \E e \in Events : PostEventInside(e)

RunPosted ==
  \/ \E k \in Tasks : RunTask(k)
  \/ \E e \in Events : RunEvent(e)
  \/ \E o \in Objects : RunStart(o)
  \/ \E i \in TimerIds : RunStopTimer(i)
  \/ RunStopTimers \/ RunStopTasks \/ RunStop

Returns == TaskReturns \/ EventReturns \/ TickReturns

Stops(t) == StopPosts(t) \/ StopPool(t) \/ ResetGuard(t) \/ StopReturnsNow(t)

Next ==
  \/ AppCalls \/ CallbackCalls \/ RunPosted \/ Returns \/ RunReturns
  \/ \E k \in Tasks : RunQueuedTask(k) \/ TaskExpires(k)
  \/ \E e \in Events : RunQueuedEvent(e)
  \/ \E o \in Objects : RunTick(o) \/ TimerExpires(o)
  \/ \E t \in Threads : StartPool(t) \/ StopTests(t) \/ Stops(t)

Spec == Init /\ [][Next]_vars

-----------------------------------------------------------------------------
(* Properties.                                                             *)

Handlers ==
  [h : {"task"}, x : Tasks] \cup [h : {"event"}, x : Events] \cup [h : {"start"}, x : Objects]
    \cup [h : {"stopTimer"}, x : TimerIds]
    \cup [h : {"stop", "stopTimers", "stopTasks"}, x : {0}]

TypeOK ==
  /\ stopped \in BOOLEAN /\ guard \in {"none", "held", "reset"}
  /\ run \in {"running", "stopped"} /\ starts \in 0 .. MaxStarts
  /\ caller \in [Threads -> {"free", "tested", "posted", "stopping", "waiting"}]
  /\ posted \in Seq(Handlers)
  /\ frame = NoFrame \/ frame.x \in Tasks \cup Events \cup Objects
  /\ task \in [Tasks -> {"new", "posted", "armed", "queued", "running", "done"}]
  /\ event \in [Events -> {"new", "posted", "waiting", "queued", "running", "done"}]
  /\ timer \in [Objects -> {"new", "posted", "armed", "ok", "aborted", "running", "idle"}]
  /\ id \in [Objects -> TimerIds] /\ exited \subseteq Objects
  /\ timers \in [TimerIds -> Objects \cup {0}]
  /\ over \subseteq Objects /\ extra \in [Objects -> 0 .. 2]
  /\ owed \in [Threads -> SUBSET (({"task"} \X Tasks) \cup ({"event"} \X Events))]
  /\ late \in BOOLEAN

\* One thread at a time resets the guard, waits and joins the pool's thread,
\* whatever starts and stops the others call meanwhile: a second join of a
\* thread would throw (iopool.hpp:212).
OneStopper ==
  \A s, t \in Threads :
    /\ caller[s] \in {"stopping", "waiting"} => stopped /\ guard # "none"
    /\ {caller[s], caller[t]} \subseteq {"stopping", "waiting"} => s = t

\* A timer whose id was stopped, or started again, calls the application at
\* most once more, wherever its handler was at that moment; "there was a flag
\* exit to ensure this" (user_timer_cp.hpp:231).
StoppedTimerEnds == \A o \in Objects : extra[o] <= 1

\* When the context has stopped for a stop that waits, all that had been posted
\* before it has been run ("blocking until all posted event has completed
\* already", iopool.hpp:166).
Finished(w) == IF w[1] = "task" THEN task[w[2]] = "done" ELSE event[w[2]] = "done"

DrainedBeforeReturn ==
  \A t \in Threads : caller[t] = "waiting" /\ run = "stopped" =>
    \A w \in owed[t] : Finished(w)

\* When the handlers of a stop have run, only what ends by itself holds the
\* context: no event waits for a notification and every timer that goes on is
\* exited, so that stop returns; unless a timer was started or an event posted
\* while the stop went on, or the stop itself met a pool started again
\* meanwhile: then nothing may ever end them (async_event_cp.hpp:124,
\* "note : need test").
StopQueued == \E n \in DOMAIN posted : posted[n].h \in {"stop", "stopTimers", "stopTasks"}

StopEnds ==
  (\E t \in Threads : caller[t] = "waiting") /\ ~StopQueued /\ ~late =>
    /\ \A e \in Events : event[e] \notin {"posted", "waiting"}
    /\ \A o \in Objects : timer[o] \in {"armed", "ok", "running"} => o \in exited
=============================================================================
