------------------------------ MODULE TcpServer ------------------------------
(***************************************************************************)
(* A tcp server and its sessions (asio2/tcp/tcp_server.hpp,                *)
(* tcp_session.hpp, base/session_mgr.hpp, the session part of              *)
(* disconnect_cp.hpp) on an iopool of its own.                             *)
(*                                                                         *)
(* Every io_context has one thread and one strand.  Strand 0 is the        *)
(* server's: start, accept, the session map and stop run there.  A session *)
(* lives on the strand Home gives it, which may be strand 0, and reads,    *)
(* writes and closes there.  The two meet in the session map (sessions_)   *)
(* and in a reference count: the server and every session that was started *)
(* hold counter_ptr_, and who drops it last makes the server stop.         *)
(*                                                                         *)
(* A task is a handler waiting in a strand (posted) or a piece of a        *)
(* handler being executed (stack, innermost last): its kind, its session,  *)
(* and an argument.                                                        *)
(***************************************************************************)
EXTENDS Naturals, Sequences, FiniteSets, SequencesExt

CONSTANTS
  Sessions,       \* the session objects, each used once
  MaxSessions,    \* bound: how many of them are used
  NoSession,
  Home,           \* the io_context of each session; 0 is the server's
  CallbackCalls,  \* what callbacks may call: "stopServer", "stopSession", "keep"
  MaxStarts,      \* bound: calls of start
  MaxStops,       \* bound: calls of stop
  MaxSends        \* bound: calls of async_send of the server

Ios == {0} \cup {Home[s] : s \in Sessions}

Server == "server"   \* the server's own reference of counter_ptr_

ASSUME HomeAssumption == IsFiniteSet(Sessions) /\ Home \in [Sessions -> Nat]
ASSUME NamesAssumption == NoSession \notin Sessions /\ Server \notin Sessions
ASSUME CallsAssumption == CallbackCalls \subseteq {"stopServer", "stopSession", "keep"}
ASSUME BoundsAssumption ==
  MaxSessions \in Nat /\ MaxStarts \in Nat /\ MaxStops \in Nat /\ MaxSends \in Nat

VARIABLES
  state,     \* state_ of the server
  acceptor,  \* whether the acceptor is open
  accepting, \* the session async_accept is to fill, or NoSession
  ctimer,    \* counter_timer_ is waiting, which keeps io_context 0 at work
  holders,   \* who holds a reference of counter_ptr_
  sessions,  \* the session map
  sstate,    \* state_ of each session; "new" before it is made
  sopen,     \* the sessions whose socket is open
  sops,      \* the asynchronous operations of each session
  queue,     \* the event queue of each session
  posted,    \* tasks waiting in each strand
  stack,     \* tasks being executed on each strand
  told,      \* history: what the application was told of each session
  held,      \* the sessions some thread of the application has a pointer to
  app,       \* what the thread that starts and stops the server is doing
  ioStopped, \* the io_contexts that are not running
  starts, stops, sends \* calls made so far (for the bounds)

serverVars  == <<state, acceptor, accepting, ctimer, holders>>
sessionVars == <<sstate, sopen, sops, queue>>
strands     == <<posted, stack>>
bounds      == <<starts, stops, sends>>
user        == <<told, held, app, ioStopped, bounds>>
vars == <<serverVars, sessions, sessionVars, strands, told, held, app, ioStopped, bounds>>

States == {"stopped", "starting", "started", "stopping"}

-----------------------------------------------------------------------------
(* Tasks and events.                                                       *)

Task(k, s, x) == [k |-> k, s |-> s, x |-> x]
User(s)       == Task("user", s, "-")     \* code of the application
PushTask(s, ev) == Task("push", s, ev)
Disconnect    == {"starting", "started"}  \* a disconnect event is named by
                                          \* the state its session was in
Events        == Disconnect \cup {"write"}

Idle(i)  == stack[i] = <<>>
Top(i)   == Last(stack[i])
Below(i) == [stack EXCEPT ![i] = Front(@)]
At(i, k) == ~Idle(i) /\ Top(i).k = k

Post(P, i, t) == [P EXCEPT ![i] = Append(@, t)]
Call(S, i, t) == [S EXCEPT ![i] = Append(@, t)]

\* The values of T in some order, and the tasks T of some sessions behind those
\* of the strands F.
InOrder(T) == LET o == SetToSeq(DOMAIN T) IN [j \in DOMAIN o |-> T[o[j]]]
AddAll(F, T) == [i \in Ios |-> F[i] \o InOrder(Restrict(T, {s \in DOMAIN T : Home[s] = i}))]

\* What keeps io_context i from running out of work, handlers aside.
Works(i) ==
  \/ i = 0 /\ (accepting # NoSession \/ ctimer)
  \/ \E s \in Sessions : Home[s] = i /\ sops[s] # {}

\* Whether a shared pointer to session s is left anywhere.
Referenced(s) ==
  \/ s \in sessions \cup held \/ accepting = s
  \/ sops[s] # {} \/ queue[s] # <<>>
  \/ \E i \in Ios : \E t \in ToSet(posted[i]) \cup ToSet(stack[i]) : t.s = s

-----------------------------------------------------------------------------
(* Pieces of tasks.  here: whether they run on the strand of the session;  *)
(* P and S are the strands they leave behind.                              *)

\* push_event of a session.
PushEvent(s, ev, here, P, S) ==
  IF here
    THEN /\ queue' = [queue EXCEPT ![s] = Append(@, ev)]
         /\ stack' = IF queue[s] = <<>> THEN Call(S, Home[s], Task("body", s, "-")) ELSE S
         /\ posted' = P
    ELSE posted' = Post(P, Home[s], PushTask(s, ev)) /\ stack' = S /\ UNCHANGED queue

\* The guard of the front event of s is destroyed, with Q in the queue.
Release(s, Q, S) ==
  /\ queue' = [queue EXCEPT ![s] = Tail(Q)]
  /\ stack' = IF Tail(Q) = <<>> THEN S ELSE Call(S, Home[s], Task("body", s, "-"))

\* Mutants of DoDisconnect: the state is not tested, or not remembered.
DoDisconnectUntested(s, here, P, S) ==
  sstate' = [sstate EXCEPT ![s] = "stopping"] /\ PushEvent(s, sstate[s], here, P, S)

DoDisconnectOldLost(s, here, P, S) ==
  IF sstate[s] \in Disconnect
    THEN sstate' = [sstate EXCEPT ![s] = "stopping"] /\ PushEvent(s, "starting", here, P, S)
    ELSE posted' = P /\ stack' = S /\ UNCHANGED <<sstate, queue>>

\* _do_disconnect of a session: whoever moves the state pushes the event.
DoDisconnect(s, here, P, S) ==
  IF sstate[s] \in Disconnect
    THEN sstate' = [sstate EXCEPT ![s] = "stopping"] /\ PushEvent(s, sstate[s], here, P, S)
    ELSE posted' = P /\ stack' = S /\ UNCHANGED <<sstate, queue>>

\* A reference of the counter is dropped, with P in the strands: the last one
\* posts _exec_stop.
Drop(h, P) ==
  /\ holders' = holders \ {h}
  /\ posted' = IF holders' = {} /\ h \in holders
                 THEN Post(P, 0, Task("exec", NoSession, "-")) ELSE P

\* Mutant of DoStop: the counter timer is not armed.
DoStopNoTimer(S) ==
  IF state \in {"starting", "started"}
    THEN LET stopped == {s \in sessions : sstate[s] \in Disconnect}
             here == {s \in stopped : Home[s] = 0}
             idle == {s \in here : queue[s] = <<>>}
         IN /\ state' = "stopping"
            /\ UNCHANGED ctimer
            /\ sstate' = [s \in Sessions |-> IF s \in stopped THEN "stopping" ELSE sstate[s]]
            /\ queue' = [s \in Sessions |-> IF s \in here THEN Append(queue[s], sstate[s])
                                                          ELSE queue[s]]
            /\ stack' = AddAll(S, [s \in idle |-> Task("body", s, "-")])
            /\ Drop(Server, AddAll(posted, [s \in stopped \ here |-> PushTask(s, sstate[s])]))
    ELSE stack' = S /\ UNCHANGED <<state, ctimer, holders, sstate, queue, posted>>

\* _do_stop and _post_stop: arm the counter timer, stop every session of the
\* map, drop the server's reference.
DoStop(S) ==
  IF state \in {"starting", "started"}
    THEN LET stopped == {s \in sessions : sstate[s] \in Disconnect}
             here == {s \in stopped : Home[s] = 0}
             idle == {s \in here : queue[s] = <<>>}
         IN /\ state' = "stopping"
            /\ ctimer' = TRUE
            /\ sstate' = [s \in Sessions |-> IF s \in stopped THEN "stopping" ELSE sstate[s]]
            /\ queue' = [s \in Sessions |-> IF s \in here THEN Append(queue[s], sstate[s])
                                                          ELSE queue[s]]
            /\ stack' = AddAll(S, [s \in idle |-> Task("body", s, "-")])
            /\ Drop(Server, AddAll(posted, [s \in stopped \ here |-> PushTask(s, sstate[s])]))
    ELSE stack' = S /\ UNCHANGED <<state, ctimer, holders, sstate, queue, posted>>

\* _post_accept: a new session for the next connection, on some io_context.
\* (Bound: none when MaxSessions are used up.)
PostAccept ==
  LET fresh == {s \in Sessions : sstate[s] = "new"}
  IN IF state = "started" /\ acceptor /\ Cardinality(Sessions \ fresh) < MaxSessions
       THEN \E s \in fresh : accepting' = s /\ sstate' = [sstate EXCEPT ![s] = "stopped"]
       ELSE UNCHANGED <<accepting, sstate>>

\* _tcp_post_recv of a session.
Reads(s) == IF sstate[s] = "started" /\ s \in sopen THEN {"recv"} ELSE {}

-----------------------------------------------------------------------------
(* The server's strand: start.                                             *)

\* The handler _do_start posts, up to _fire_init.
Start ==
  /\ At(0, "start")
  /\ IF state = "stopped"
       THEN /\ state' = "starting" /\ acceptor' = TRUE
            /\ holders' = {Server}
            /\ stack' = Call(Call(Below(0), 0, Task("start2", NoSession, "-")), 0, User(NoSession))
            /\ UNCHANGED app
       ELSE stack' = Below(0) /\ app' = "free" /\ UNCHANGED <<state, acceptor, holders>>
  /\ UNCHANGED <<accepting, ctimer, sessions, sessionVars, posted, told, held, ioStopped, bounds>>

\* bind and listen, which may fail; _handle_start up to _fire_start.
Start2 ==
  /\ At(0, "start2")
  /\ \E bound \in BOOLEAN :
       LET ok == bound /\ state = "starting"
       IN /\ state' = IF ok THEN "started" ELSE state
          /\ stack' = Call(Call(Below(0), 0, Task("start3", NoSession, IF ok THEN "ok" ELSE "err")),
                           0, User(NoSession))
  /\ UNCHANGED <<acceptor, accepting, ctimer, holders, sessions, sessionVars, posted, user>>

\* _handle_start after _fire_start; the promise of start is set.
Start3 ==
  /\ At(0, "start3")
  /\ app' = "free"
  /\ IF Top(0).x = "ok" /\ state = "started"
       THEN PostAccept /\ stack' = Below(0) /\ UNCHANGED <<state, ctimer, holders, queue, posted>>
       ELSE DoStop(Below(0)) /\ UNCHANGED accepting
  /\ UNCHANGED <<acceptor, sessions, sopen, sops, told, held, ioStopped, bounds>>

-----------------------------------------------------------------------------
(* The server's strand: accept, and the start of a session.                *)

\* Mutant of HandleAccept: the session does not hold the counter.
HandleAcceptUncounted ==
  /\ At(0, "accept")
  /\ LET s == Top(0).s
         again == Call(Below(0), 0, Task("again", s, "-"))
     IN IF Top(0).x = "ok" /\ state = "started" /\ acceptor
          THEN /\ UNCHANGED holders
               /\ sstate' = [sstate EXCEPT ![s] = "starting"]
               /\ stack' = Call(Call(again, 0, Task("session2", s, "-")), 0, User(s))
               /\ UNCHANGED sopen
          ELSE /\ stack' = IF Top(0).x = "aborted" THEN Below(0) ELSE again
               /\ sopen' = sopen \ {s}
               /\ UNCHANGED <<holders, sstate>>
  /\ UNCHANGED <<state, acceptor, accepting, ctimer, sessions, sops, queue, posted, user>>

\* _handle_accept up to the session's _fire_accept.  A session that is not
\* started is destroyed, which closes its socket.
HandleAccept ==
  /\ At(0, "accept")
  /\ LET s == Top(0).s
         again == Call(Below(0), 0, Task("again", s, "-"))
     IN IF Top(0).x = "ok" /\ state = "started" /\ acceptor
          THEN /\ holders' = holders \cup {s}
               /\ sstate' = [sstate EXCEPT ![s] = "starting"]
               /\ stack' = Call(Call(again, 0, Task("session2", s, "-")), 0, User(s))
               /\ UNCHANGED sopen
          ELSE /\ stack' = IF Top(0).x = "aborted" THEN Below(0) ELSE again
               /\ sopen' = sopen \ {s}
               /\ UNCHANGED <<holders, sstate>>
  /\ UNCHANGED <<state, acceptor, accepting, ctimer, sessions, sops, queue, posted, user>>

\* _handle_accept after the session's start.
AcceptAgain ==
  /\ At(0, "again")
  /\ PostAccept
  /\ stack' = Below(0)
  /\ UNCHANGED <<state, acceptor, ctimer, holders, sessions, sopen, sops, queue, posted, user>>

\* tcp_session::start after _fire_accept, and _done_connect, which sets the
\* state; if the state has changed, whoever changed it ends the session.
Session2 ==
  /\ At(0, "session2")
  /\ LET s == Top(0).s
     IN IF sstate[s] = "starting"
          THEN /\ sstate' = [sstate EXCEPT ![s] = "started"]
               /\ stack' = Call(Below(0), 0, Task("session3", s, "-"))
          ELSE stack' = Below(0) /\ UNCHANGED sstate
  /\ UNCHANGED <<serverVars, sessions, sopen, sops, queue, posted, user>>

\* _done_connect up to _fire_connect.
Session3 ==
  /\ At(0, "session3")
  /\ LET s == Top(0).s
     IN IF sstate[s] = "started"
          THEN /\ told' = [told EXCEPT ![s] = "connected"]
               /\ stack' = Call(Call(Below(0), 0, Task("join", s, "-")), 0, User(s))
          ELSE stack' = Below(0) /\ UNCHANGED told
  /\ UNCHANGED <<serverVars, sessions, sessionVars, posted, held, app, ioStopped, bounds>>

\* Mutant of JoinSession: emplace does not ask whether the server is started.
JoinSessionUnchecked ==
  /\ At(0, "join")
  /\ LET s == Top(0).s
         begin == Task("recv1", s, "-")
     IN IF sstate[s] = "started"
          THEN /\ sessions' = sessions \cup {s}
               /\ IF Home[s] = 0
                    THEN stack' = Call(Below(0), 0, begin) /\ UNCHANGED posted
                    ELSE stack' = Below(0) /\ posted' = Post(posted, Home[s], begin)
          ELSE stack' = Below(0) /\ UNCHANGED <<sessions, posted>>
  /\ UNCHANGED <<serverVars, sessionVars, user>>

\* _done_connect after _fire_connect: session_mgr::emplace inserts the session
\* if the server is started; _start_recv goes to the session's strand.
JoinSession ==
  /\ At(0, "join")
  /\ LET s == Top(0).s
         begin == Task("recv1", s, "-")
     IN \/ /\ sstate[s] = "started" /\ state = "started"
           /\ sessions' = sessions \cup {s}
           /\ IF Home[s] = 0
                THEN stack' = Call(Below(0), 0, begin) /\ UNCHANGED posted
                ELSE stack' = Below(0) /\ posted' = Post(posted, Home[s], begin)
           /\ UNCHANGED <<sstate, queue>>
        \/ /\ sstate[s] = "started" /\ state # "started"
           /\ DoDisconnect(s, Home[s] = 0, posted, Below(0))
           /\ UNCHANGED sessions
        \/ /\ sstate[s] # "started"
           /\ stack' = Below(0)
           /\ UNCHANGED <<sessions, sstate, queue, posted>>
  /\ UNCHANGED <<serverVars, sopen, sops, user>>

-----------------------------------------------------------------------------
(* The server's strand: stop.                                              *)

\* The lambda tcp_server::stop dispatches.
RunStop ==
  /\ At(0, "stop")
  /\ DoStop(Below(0))
  /\ UNCHANGED <<acceptor, accepting, sessions, sopen, sops, user>>

\* The task _exec_stop posts: _handle_stop up to _fire_stop.
ExecStop ==
  /\ At(0, "exec")
  /\ stack' = IF state = "stopping"
                THEN Call(Call(Below(0), 0, Task("exec2", NoSession, "-")), 0, User(NoSession))
                ELSE Below(0)
  /\ UNCHANGED <<serverVars, sessions, sessionVars, posted, user>>

\* _handle_stop after _fire_stop: cancel the timer, close the acceptor.
HandleStop ==
  /\ At(0, "exec2")
  /\ ctimer' = FALSE /\ acceptor' = FALSE /\ accepting' = NoSession
  /\ posted' = IF accepting = NoSession THEN posted
                 ELSE Post(posted, 0, Task("accept", accepting, "aborted"))
  /\ state' = IF state = "stopping" THEN "stopped" ELSE state
  /\ stack' = Below(0)
  /\ UNCHANGED <<holders, sessions, sessionVars, user>>

\* The destructor of a session that had been started: its reference of the
\* counter goes.  It runs in the step that drops the last pointer (see Next).
Destroy(s) ==
  /\ s \in holders /\ ~Referenced(s)
  /\ Drop(s, posted)
  /\ sopen' = sopen \ {s}
  /\ UNCHANGED <<state, acceptor, accepting, ctimer, sessions, sstate, sops, queue, stack, user>>

-----------------------------------------------------------------------------
(* The strand of a session, and strand 0 where _post_disconnect erases.    *)

RunPush(i) ==
  /\ At(i, "push")
  /\ PushEvent(Top(i).s, Top(i).x, TRUE, posted, Below(i))
  /\ UNCHANGED <<serverVars, sessions, sstate, sopen, sops, user>>

\* Mutant of EventBody: the guard does not go with the task that disconnects.
EventBodyReleases(i) ==
  /\ At(i, "body")
  /\ LET s == Top(i).s
         ev == Head(queue[s])
     IN IF ev = "write"
          THEN /\ sops' = [sops EXCEPT ![s] = @ \cup {"write"}]
               /\ stack' = Below(i)
               /\ UNCHANGED <<posted, queue>>
          ELSE /\ posted' = Post(posted, i, Task("disc", s, ev))
               /\ Release(s, queue[s], Below(i))
               /\ UNCHANGED sops
  /\ UNCHANGED <<serverVars, sessions, sstate, sopen, user>>

\* The body of the front event.  A write takes the guard with it (on a closed
\* socket it fails at once); a disconnect posts a task that takes it.
EventBody(i) ==
  /\ At(i, "body")
  /\ LET s == Top(i).s
         ev == Head(queue[s])
     IN IF ev = "write" /\ s \in sopen
          THEN sops' = [sops EXCEPT ![s] = @ \cup {"write"}] /\ UNCHANGED posted
          ELSE /\ posted' = Post(posted, i, IF ev = "write" THEN Task("write", s, "err")
                                                            ELSE Task("disc", s, ev))
               /\ UNCHANGED sops
  /\ stack' = Below(i)
  /\ UNCHANGED <<serverVars, sessions, sstate, sopen, queue, user>>

\* The task _post_disconnect posts calls session_mgr::erase.
Disc(i) ==
  /\ At(i, "disc")
  /\ LET erase == Task("erase", Top(i).s, Top(i).x)
     IN IF i = 0 THEN stack' = Call(Below(i), 0, erase) /\ UNCHANGED posted
                 ELSE stack' = Below(i) /\ posted' = Post(posted, 0, erase)
  /\ UNCHANGED <<serverVars, sessions, sessionVars, user>>

\* session_mgr::erase up to _fire_disconnect, for which the session must have
\* been started and been in the map.
Erase ==
  /\ At(0, "erase")
  /\ LET s == Top(0).s
         tell == sstate[s] = "stopping" /\ Top(0).x = "started" /\ s \in sessions
         close == Call(Below(0), 0, Task("erase2", s, "-"))
     IN /\ sessions' = sessions \ {s}
        /\ told' = IF tell THEN [told EXCEPT ![s] = "disconnected"] ELSE told
        /\ stack' = IF tell THEN Call(close, 0, User(s)) ELSE close
  /\ UNCHANGED <<serverVars, sessionVars, posted, held, app, ioStopped, bounds>>

\* After _fire_disconnect the rest goes to the session's strand.
Erase2 ==
  /\ At(0, "erase2")
  /\ LET close == Task("close", Top(0).s, "-")
     IN IF Home[close.s] = 0
          THEN stack' = Call(Below(0), 0, close) /\ UNCHANGED posted
          ELSE stack' = Below(0) /\ posted' = Post(posted, Home[close.s], close)
  /\ UNCHANGED <<serverVars, sessions, sessionVars, user>>

\* _handle_disconnect: close the socket, cancel the timer, stopped; the guard
\* is destroyed.
HandleDisconnect(i) ==
  /\ At(i, "close")
  /\ LET s == Top(i).s
         ended == [o \in sops[s] |-> Task(o, s, "aborted")]
     IN /\ sopen' = sopen \ {s}
        /\ posted' = [posted EXCEPT ![i] = @ \o InOrder(ended)]
        /\ sops' = [sops EXCEPT ![s] = {}]
        /\ sstate' = [sstate EXCEPT ![s] = IF @ = "stopping" THEN "stopped" ELSE @]
        /\ Release(s, queue[s], Below(i))
  /\ UNCHANGED <<serverVars, sessions, user>>

\* _start_recv: the silence timer and the first receive.
StartRecv(i) ==
  /\ At(i, "recv1")
  /\ sops' = [sops EXCEPT ![Top(i).s] = @ \cup {"silence"} \cup Reads(Top(i).s)]
  /\ stack' = Below(i)
  /\ UNCHANGED <<serverVars, sessions, sstate, sopen, queue, posted, user>>

\* _tcp_handle_recv up to _fire_recv.
HandleRecv(i) ==
  /\ At(i, "recv")
  /\ LET s == Top(i).s
     IN IF Top(i).x = "ok"
          THEN /\ stack' = Call(Call(Below(i), i, Task("recv2", s, "-")), i, User(s))
               /\ UNCHANGED <<sstate, queue, posted>>
          ELSE DoDisconnect(s, TRUE, posted, Below(i))
  /\ UNCHANGED <<serverVars, sessions, sopen, sops, user>>

\* _tcp_handle_recv after _fire_recv.
HandleRecv2(i) ==
  /\ At(i, "recv2")
  /\ sops' = [sops EXCEPT ![Top(i).s] = @ \cup Reads(Top(i).s)]
  /\ stack' = Below(i)
  /\ UNCHANGED <<serverVars, sessions, sstate, sopen, queue, posted, user>>

\* The handler of async_write: a failure disconnects; the guard is destroyed.
HandleSend(i) ==
  /\ At(i, "write")
  /\ LET s == Top(i).s
         ends == Top(i).x # "ok" /\ sstate[s] \in Disconnect
     IN /\ sstate' = IF ends THEN [sstate EXCEPT ![s] = "stopping"] ELSE sstate
        /\ Release(s, IF ends THEN Append(queue[s], sstate[s]) ELSE queue[s], Below(i))
  /\ UNCHANGED <<serverVars, sessions, sopen, sops, posted, user>>

\* _handle_silence_timer: cancelled (the session is stopped), or there was
\* traffic and it waits again, or the session is disconnected.
HandleSilence(i) ==
  /\ At(i, "silence")
  /\ LET s == Top(i).s
     IN \/ /\ Top(i).x = "aborted" \/ sstate[s] = "stopped"
           /\ stack' = Below(i)
           /\ UNCHANGED <<sstate, sops, queue, posted>>
        \/ /\ Top(i).x = "ok" /\ sstate[s] # "stopped"
           /\ \/ /\ sops' = [sops EXCEPT ![s] = @ \cup {"silence"}]
                 /\ stack' = Below(i)
                 /\ UNCHANGED <<sstate, queue, posted>>
              \/ DoDisconnect(s, TRUE, posted, Below(i)) /\ UNCHANGED sops
  /\ UNCHANGED <<serverVars, sessions, sopen, user>>

-----------------------------------------------------------------------------
(* The application in callbacks.                                           *)

CallbackReturns(i) ==
  /\ At(i, "user")
  /\ stack' = Below(i)
  /\ UNCHANGED <<serverVars, sessions, sessionVars, posted, user>>

InCallback(i, call) == At(i, "user") /\ call \in CallbackCalls

\* server.stop: its iopool::stop does nothing on a thread of the pool.
CallbackStopsServer(i) ==
  /\ InCallback(i, "stopServer") /\ stops < MaxStops
  /\ stops' = stops + 1
  /\ IF i = 0
       THEN DoStop(stack)
       ELSE /\ posted' = Post(posted, 0, Task("stop", NoSession, "-"))
            /\ UNCHANGED <<state, ctimer, holders, sstate, queue, stack>>
  /\ UNCHANGED <<acceptor, accepting, sessions, sopen, sops, told, held, app, ioStopped, starts, sends>>

\* session.stop.
CallbackStopsSession(i) ==
  /\ InCallback(i, "stopSession") /\ Top(i).s # NoSession
  /\ sstate[Top(i).s] \in Disconnect
  /\ DoDisconnect(Top(i).s, i = Home[Top(i).s], posted, stack)
  /\ UNCHANGED <<serverVars, sessions, sopen, sops, user>>

\* The callback gives the session's pointer to another thread.
CallbackKeeps(i) ==
  /\ InCallback(i, "keep") /\ Top(i).s \in Sessions \ held
  /\ held' = held \cup {Top(i).s}
  /\ UNCHANGED <<serverVars, sessions, sessionVars, strands, told, app, ioStopped, bounds>>

-----------------------------------------------------------------------------
(* The threads of the application.                                         *)

\* start: the iopool runs, a handler is posted, the promise is waited for.
AppStarts ==
  /\ app = "free" /\ starts < MaxStarts
  /\ starts' = starts + 1
  /\ app' = "waiting"
  /\ ioStopped' = {}
  /\ posted' = Post(posted, 0, Task("start", NoSession, "-"))
  /\ UNCHANGED <<serverVars, sessions, sessionVars, stack, told, held, stops, sends>>

\* stop: post _do_stop, then iopool::stop.
AppStops ==
  /\ app = "free" /\ ioStopped = {} /\ stops < MaxStops
  /\ stops' = stops + 1
  /\ app' = "draining"
  /\ posted' = Post(posted, 0, Task("stop", NoSession, "-"))
  /\ UNCHANGED <<serverVars, sessions, sessionVars, stack, told, held, ioStopped, starts, sends>>

\* wait_for_io_context_stopped: io_context 0 first, then the others, each
\* when it has nothing left to do.
IoStops(i) ==
  /\ app = "draining" /\ i \notin ioStopped
  /\ i # 0 => 0 \in ioStopped
  /\ Idle(i) /\ posted[i] = <<>> /\ ~Works(i)
  /\ ioStopped' = ioStopped \cup {i}
  /\ UNCHANGED <<serverVars, sessions, sessionVars, strands, told, held, app, bounds>>

\* iopool::stop returns, and with it stop.
AppStopped ==
  /\ app = "draining" /\ ioStopped = Ios
  /\ app' = "free"
  /\ UNCHANGED <<serverVars, sessions, sessionVars, strands, told, held, ioStopped, bounds>>

\* async_send of the server: a message for every session of the map.
AppSends ==
  /\ app = "free" /\ sends < MaxSends
  /\ sends' = sends + 1
  /\ LET to == {s \in sessions : sstate[s] = "started" /\ s \in sopen}
     IN to # {} /\ posted' = AddAll(posted, [s \in to |-> PushTask(s, "write")])
  /\ UNCHANGED <<serverVars, sessions, sessionVars, stack, told, held, app, ioStopped, starts, stops>>

\* A thread that keeps a session stops it, or lets it go.
HolderStops(s) ==
  /\ s \in held /\ sstate[s] \in Disconnect
  /\ DoDisconnect(s, FALSE, posted, stack)
  /\ UNCHANGED <<serverVars, sessions, sopen, sops, user>>

HolderDrops(s) ==
  /\ s \in held
  /\ held' = held \ {s}
  /\ UNCHANGED <<serverVars, sessions, sessionVars, strands, told, app, ioStopped, bounds>>

-----------------------------------------------------------------------------
(* The network and the clock.                                              *)

AcceptEnds ==
  /\ accepting # NoSession
  /\ \E ec \in {"ok", "err"} :
       /\ posted' = Post(posted, 0, Task("accept", accepting, ec))
       /\ sopen' = IF ec = "ok" THEN sopen \cup {accepting} ELSE sopen
  /\ accepting' = NoSession
  /\ UNCHANGED <<state, acceptor, ctimer, holders, sessions, sstate, sops, queue, stack, user>>

Ends(s, o, ec) ==
  /\ o \in sops[s]
  /\ sops' = [sops EXCEPT ![s] = @ \ {o}]
  /\ posted' = Post(posted, Home[s], Task(o, s, ec))
  /\ UNCHANGED <<serverVars, sessions, sstate, sopen, queue, stack, user>>

RecvEnds(s)    == \E ec \in {"ok", "err"} : Ends(s, "recv", ec)
WriteEnds(s)   == \E ec \in {"ok", "err"} : Ends(s, "write", ec)
SilenceEnds(s) == Ends(s, "silence", "ok")

-----------------------------------------------------------------------------
\* The next handler of a strand.
RunNext(i) ==
  /\ Idle(i) /\ posted[i] # <<>>
  /\ stack' = Call(stack, i, Head(posted[i]))
  /\ posted' = [posted EXCEPT ![i] = Tail(@)]
  /\ UNCHANGED <<serverVars, sessions, sessionVars, user>>

ServerTask ==
  \/ Start \/ Start2 \/ Start3 \/ HandleAccept \/ AcceptAgain
  \/ Session2 \/ Session3 \/ JoinSession \/ RunStop \/ ExecStop \/ HandleStop
  \/ Erase \/ Erase2

SessionTask(i) ==
  \/ RunPush(i) \/ EventBody(i) \/ Disc(i) \/ HandleDisconnect(i) \/ StartRecv(i)
  \/ HandleRecv(i) \/ HandleRecv2(i) \/ HandleSend(i) \/ HandleSilence(i)

StrandStep(i) ==
  /\ i \notin ioStopped
  /\ RunNext(i) \/ SessionTask(i) \/ CallbackReturns(i) \/ (i = 0 /\ ServerTask)

Calls ==
  \/ \E i \in Ios : CallbackStopsServer(i) \/ CallbackStopsSession(i) \/ CallbackKeeps(i)
  \/ AppStarts \/ AppStops \/ AppSends
  \/ \E s \in Sessions : HolderStops(s)

Pool == (\E i \in Ios : IoStops(i)) \/ AppStopped

World == AcceptEnds \/ \E s \in Sessions : RecvEnds(s) \/ WriteEnds(s) \/ SilenceEnds(s)

Forgotten == {s \in holders \ {Server} : ~Referenced(s)}

Init ==
  /\ state = "stopped" /\ acceptor = FALSE /\ accepting = NoSession
  /\ ctimer = FALSE /\ holders = {}
  /\ sessions = {}
  /\ sstate = [s \in Sessions |-> "new"] /\ sopen = {}
  /\ sops = [s \in Sessions |-> {}] /\ queue = [s \in Sessions |-> <<>>]
  /\ posted = [i \in Ios |-> <<>>] /\ stack = [i \in Ios |-> <<>>]
  /\ told = [s \in Sessions |-> "none"] /\ held = {}
  /\ app = "free" /\ ioStopped = Ios
  /\ starts = 0 /\ stops = 0 /\ sends = 0

\* A session nobody points to any more is destroyed before anything else
\* happens: the destructor runs where the last pointer went.
Next ==
  IF Forgotten # {}
    THEN \E s \in Forgotten : Destroy(s)
    ELSE \/ \E i \in Ios : StrandStep(i)
         \/ Calls \/ Pool \/ World
         \/ \E s \in Sessions : HolderDrops(s)

Spec == Init /\ [][Next]_vars

\* The strands run, callbacks return, the io_contexts stop when they may, a
\* thread that keeps a session lets it go, and writes end.  Nothing obliges a
\* peer to connect, to send or to leave, or the application to call.
FairSpec ==
  /\ Spec
  /\ \A i \in Ios : WF_vars(StrandStep(i))
  /\ WF_vars(Pool)
  /\ \A s \in Sessions :
       WF_vars(Destroy(s)) /\ WF_vars(HolderDrops(s)) /\ WF_vars(WriteEnds(s))

-----------------------------------------------------------------------------
(* Properties.                                                             *)

SessionTasks == {"push", "disc", "close", "recv1", "recv", "write", "silence"}
Tasks == [k : {"user", "start", "stop", "exec", "accept", "erase", "start2", "start3", "exec2", "again",
               "session2", "session3", "join", "erase2", "body", "recv2"} \cup SessionTasks,
          s : Sessions \cup {NoSession},
          x : Events \cup {"-", "ok", "err", "aborted"}]

TypeOK ==
  /\ state \in States /\ acceptor \in BOOLEAN /\ ctimer \in BOOLEAN
  /\ accepting \in Sessions \cup {NoSession}
  /\ holders \subseteq Sessions \cup {Server}
  /\ sessions \subseteq Sessions /\ sopen \subseteq Sessions /\ held \subseteq Sessions
  /\ sstate \in [Sessions -> States \cup {"new"}]
  /\ sops \in [Sessions -> SUBSET {"recv", "write", "silence"}]
  /\ queue \in [Sessions -> Seq(Events)]
  /\ posted \in [Ios -> Seq(Tasks)] /\ stack \in [Ios -> Seq(Tasks)]
  /\ told \in [Sessions -> {"none", "connected", "disconnected"}]
  /\ app \in {"free", "waiting", "draining"}
  /\ ioStopped \subseteq Ios
  /\ starts \in 0 .. MaxStarts /\ stops \in 0 .. MaxStops /\ sends \in 0 .. MaxSends

\* When the server is stopped all its sessions are: none is in the map or
\* alive ("ensure this server's _handle_stop is called must be after all
\* sessions _handle_stop has been called already", tcp_server.hpp:508).
SessionsStopFirst ==
  state = "stopped" =>
    /\ sessions = {} /\ holders = {}
    /\ \A s \in Sessions : sstate[s] \in {"new", "stopped"}

\* How many tasks there are of the set G in the strands F, and anywhere.
Places(F, G)  == UNION {{i} \X {j \in DOMAIN F[i] : F[i][j] \in G} : i \in Ios}
HowMany(F, G) == Cardinality(Places(F, G))
Count(P, S, G) == HowMany(P, G) + HowMany(S, G)

\* The tasks of session s, or of the server, of a kind in K.
Of(s, K) == [k : K, s : {s}, x : Events \cup {"-", "ok", "err", "aborted"}]

\* A session that is stopping has exactly one disconnect event, queued or on
\* its way to the queue, and no other session has any; and somebody, on some
\* strand or in the kernel, holds the guard of a queue that is not empty, and
\* nobody else does.  So the session will be closed, and once
\* (disconnect_cp.hpp:191-229).
OneDisconnection ==
  \A s \in Sessions :
    LET coming == Count(posted, stack, [k : {"push"}, s : {s}, x : Disconnect])
        queued == {j \in DOMAIN queue[s] : queue[s][j] \in Disconnect}
        guards == Count(posted, stack, Of(s, {"body", "disc", "erase", "erase2", "close", "write"}))
    IN /\ coming + Cardinality(queued) = (IF sstate[s] = "stopping" THEN 1 ELSE 0)
       /\ guards + Cardinality(sops[s] \cap {"write"}) = (IF queue[s] = <<>> THEN 0 ELSE 1)

\* The drain of the iopool, io_context 0 first (iopool.hpp:293): once it has
\* stopped nothing is left that would post to it, and when stop returns the
\* server is stopped (the assertion at tcp_server.hpp:149).
DrainedForGood ==
  app = "draining" /\ 0 \in ioStopped =>
    state = "stopped" /\ posted[0] = <<>> /\ holders = {}

\* Whoever was told that a session connected has been told that it is lost
\* by the time it is closed ("This notification is invoked before the
\* connection is disconnected", tcp_server.hpp:224).
DisconnectTold ==
  \A s \in Sessions : told[s] = "connected" => s \in sopen

\* A server that was stopped, be it in a callback, gets there, and stop returns
\* to the application's thread.
ServerStops ==
  /\ state = "stopping" ~> state = "stopped"
  /\ app = "draining" ~> app = "free"

\* What the server promises to its user, see ServerLife.
Life == INSTANCE ServerLife
LifeSpec == Life!Spec
=============================================================================
