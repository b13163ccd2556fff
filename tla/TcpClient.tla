------------------------------ MODULE TcpClient ------------------------------
(***************************************************************************)
(* The life of a tcp client (asio2/tcp/tcp_client.hpp and the components   *)
(* it inherits): start, connect with its timeout, receive, send,           *)
(* disconnect, automatic reconnection and stop.                            *)
(*                                                                         *)
(* All of it runs on the client's strand, as handlers ("posted") executed  *)
(* one at a time; connect, disconnect, stop and send are events of the     *)
(* event queue (module EventQueue), whose bodies may run inline inside the *)
(* handler that pushes them, below ("stack") user callbacks that call the  *)
(* client again.  "ops" are the asynchronous operations the client has     *)
(* outstanding (resolver, socket, timers); their completions come back as  *)
(* posted handlers.  One application thread ("app") calls the client from  *)
(* outside the strand.                                                     *)
(***************************************************************************)
EXTENDS Naturals, Sequences, FiniteSets, SequencesExt

CONSTANTS
  Data,           \* the messages that may be sent, each at most once
  Pool,           \* "default": the client's own iopool; "user": a shared one
  CallbackCalls,  \* what user callbacks may call: "stop", "start", "send", and
                  \* "startInStop" for start while another thread's stop waits
  BindFails,      \* whether opening or binding the socket may fail
  MaxStarts,      \* bound: calls of start and async_start
  MaxStops,       \* bound: calls of stop
  Endpoints       \* bound: endpoints a host name resolves to

ASSUME PoolAssumption == Pool \in {"default", "user"}
ASSUME CallsAssumption == CallbackCalls \subseteq {"stop", "start", "startInStop", "send"}
ASSUME BindAssumption == BindFails \in BOOLEAN
ASSUME BoundsAssumption == MaxStarts \in Nat /\ MaxStops \in Nat /\ Endpoints \in Nat \ {0}

VARIABLES
  state,     \* state_
  sock,      \* the socket: "closed", "open" or "connected"
  rRunning,  \* reconnect_is_running_
  rCanceled, \* reconnect_timer_canceled_
  cFlag,     \* connect_timeout_flag_
  cErr,      \* connect_error_code_
  ops,       \* asynchronous operations in flight
  posted,    \* handlers waiting in the strand
  stack,     \* frames being executed on the strand, innermost last
  events,    \* events_, the event queue
  note,      \* history: the last connect or disconnect notification
  send,      \* history: what became of each message
  promise,   \* the promise a blocking start waits for
  app,       \* what the application thread is doing
  poolStopped, \* stopped_ of the iopool
  starts, stops \* calls made so far (for the bounds)

timers == <<rRunning, rCanceled, cFlag, cErr>>
strand == <<ops, posted, stack, events>>
caller == <<promise, app, poolStopped, starts, stops>>
vars == <<state, sock, timers, strand, note, send, caller>>

States == {"stopped", "starting", "started", "stopping"}
Codes  == {"ok", "err", "aborted", "timed_out"}

-----------------------------------------------------------------------------
(* Operations, handlers, events and frames.                                *)

\* n: endpoints left to try (connect); x: who waits (ctimer), how long
\* (rtimer), which message (write); old: started before the current attempt.
Op(k, n, x) == [k |-> k, n |-> n, x |-> x, old |-> FALSE]
SocketOps == {o \in ops : o.k \in {"recv", "write", "connect"}}
AttemptOps == {"resolve", "connect", "recv", "write", "ctimer"}

NoEvent == [k |-> "none", p |-> "-", q |-> "-"]
ConnectEvent(sync)          == [k |-> "connect", p |-> sync, q |-> "-"]
ReconnectEvent              == [k |-> "reconnect", p |-> "async", q |-> "-"]
DisconnectEvent(old, chain) == [k |-> "disconnect", p |-> old, q |-> chain]
WakeEvent                   == [k |-> "wake", p |-> "-", q |-> "-"]
StopEvent                   == [k |-> "stop", p |-> "-", q |-> "-"]
SendEvent(d)                == [k |-> "send", p |-> d, q |-> "-"]

Completion(o, ec) == [k |-> o.k, op |-> o, ec |-> ec, ev |-> NoEvent]
Handler(k, ev)    == [k |-> k, op |-> Op("none", 0, "-"), ec |-> "ok", ev |-> ev]

Frame(k, x) == [k |-> k, x |-> x]
User    == Frame("user", "-")    \* code of the application, in a callback
Body    == Frame("event", "-")   \* the body of the front event, with the guard
Release == Frame("release", "-") \* about to destroy the guard

Top   == Last(stack)
Below == Front(stack)
Idle  == stack = <<>>

\* Operations that end with operation_aborted, in the order the reactor
\* posts them: reads before writes and connects.
Aborted(S) ==
  LET Posts(k) == LET s == SetToSeq({o \in S : o.k = k})
                  IN [i \in DOMAIN s |-> Completion(s[i], "aborted")]
  IN Posts("recv") \o Posts("write") \o Posts("connect") \o Posts("ctimer") \o Posts("rtimer")

\* The timers' waits, as sets.
ConnectWait   == {o \in ops : o.k = "ctimer"}
ReconnectWait == {o \in ops : o.k = "rtimer"}

\* With P waiting in the strand, end the operations of C, start those of N.
Outstanding(P, C, N) ==
  /\ ops' = (ops \ C) \cup N
  /\ posted' = P \o Aborted(C)

-----------------------------------------------------------------------------
(* Pieces of handlers.  st is the stack they return to.                    *)

\* push_event on the strand.
Emplace(ev, st) ==
  /\ events' = Append(events, ev)
  /\ stack' = IF events = <<>> THEN Append(st, Body) ELSE st

\* Mutants of DoDisconnect: the state is not tested, not changed, or the chain
\* of a disconnect that has nothing to do is dropped.
DoDisconnectUntested(chain, st) ==
  state' = "stopping" /\ Emplace(DisconnectEvent(state, chain), st)

DoDisconnectStateKept(chain, st) ==
  /\ UNCHANGED state
  /\ IF state \in {"started", "starting"}
       THEN Emplace(DisconnectEvent(state, chain), st)
       ELSE stack' = st /\ UNCHANGED events

DoDisconnectChainLost(chain, st) ==
  IF state \in {"started", "starting"}
    THEN state' = "stopping" /\ Emplace(DisconnectEvent(state, chain), st)
    ELSE stack' = st /\ UNCHANGED <<state, events>>

\* _do_disconnect: chain "stop" is the one tcp_client::stop passes, "wake"
\* the one _check_reconnect makes when it is given none.
DoDisconnect(chain, st) ==
  IF state \in {"started", "starting"}
    THEN state' = "stopping" /\ Emplace(DisconnectEvent(state, chain), st)
    ELSE /\ UNCHANGED state
         /\ IF chain = "stop" THEN Emplace(StopEvent, st)
                              ELSE stack' = st /\ UNCHANGED events

\* The lambda tcp_client::stop dispatches; P is what waits in the strand.
StopOnStrand(P, st) ==
  /\ rCanceled' = TRUE
  /\ Outstanding(P, ReconnectWait, {})
  /\ DoDisconnect("stop", st)
  /\ UNCHANGED <<sock, rRunning, cFlag, cErr, note, send>>

IsStarted == state = "started" /\ sock # "closed"

\* Mutant of DoneConnect: the timeout timer keeps running.
DoneConnectTimerKept(ec, P, st) ==
  LET ok == ec = "ok" /\ ~cFlag /\ state = "starting"
  IN /\ cErr' = (IF cFlag THEN "timed_out" ELSE ec)
     /\ Outstanding(P, {}, {})
     /\ state' = IF ok THEN "started" ELSE state
     /\ stack' = st \o <<Frame("done2", IF ok THEN "ok" ELSE "err"), User>>
     /\ note' = IF ok THEN "connected" ELSE "failed"
     /\ UNCHANGED <<rRunning, rCanceled, cFlag, events>>

\* _done_connect up to the user's callback.
DoneConnect(ec, P, st) ==
  LET ec1 == IF cFlag THEN "timed_out" ELSE ec
      ec2 == IF ec1 = "ok" /\ state # "starting" THEN "aborted" ELSE ec1
  IN /\ cErr' = ec1
     /\ Outstanding(P, ConnectWait, {})
     /\ state' = IF ec2 = "ok" THEN "started" ELSE state
     /\ IF state = "stopped"
          THEN stack' = st /\ UNCHANGED note
          ELSE /\ stack' = st \o <<Frame("done2", ec2), User>>
               /\ note' = IF ec2 = "ok" THEN "connected" ELSE "failed"
     /\ UNCHANGED <<rRunning, rCanceled, cFlag, events>>

\* _post_connect with n endpoints left.  async_connect opens a socket that
\* is closed, and fails at once on one that is connecting or connected.
PostConnect(n, P) ==
  IF n = 0
    THEN DoneConnect("err", P, <<>>) /\ UNCHANGED sock
    ELSE LET busy == sock = "connected" \/ \E o \in ops : o.k = "connect"
             o == Op("connect", n - 1, "-")
         IN /\ sock' = IF sock = "closed" THEN "open" ELSE sock
            /\ IF busy THEN posted' = Append(P, Completion(o, "err")) /\ UNCHANGED ops
                       ELSE Outstanding(P, {}, {o})
            /\ UNCHANGED <<state, timers, stack, events, note>>

\* _tcp_post_recv.
PostRecv(P) == Outstanding(P, {}, IF IsStarted THEN {Op("recv", 0, "-")} ELSE {})

\* The head of _start_connect up to _fire_init, after C was done to the
\* operations: close and reopen the socket, start a new attempt.
StartConnect(sync, st, N) ==
  LET Old(o) == [o EXCEPT !.old = o.k \in AttemptOps]
      all == posted \o Aborted(SocketOps)
  IN /\ ops' = {Old(o) : o \in ops \ SocketOps} \cup N
     /\ posted' = [i \in DOMAIN all |-> [all[i] EXCEPT !.op = Old(@)]]
     /\ sock' = "open"
     /\ state' = "starting"
     /\ stack' = st \o <<Frame("release", sync), Frame("start2", sync), User>>

-----------------------------------------------------------------------------
(* Bodies of events.                                                       *)

RunsEvent(k) == ~Idle /\ Top.k = "event" /\ Head(events).k = k

\* _do_connect: refused unless stopped; _load_reconnect_timer arms the
\* reconnect timer unless it believes it is armed; _start_connect.
ConnectBody ==
  /\ RunsEvent("connect")
  /\ IF state = "stopped"
       THEN /\ StartConnect(Head(events).p, Below,
                            IF rRunning THEN {} ELSE {Op("rtimer", 0, "forever")})
            /\ rRunning' = TRUE
            /\ rCanceled' = (rRunning /\ rCanceled)
       ELSE /\ stack' = Append(Below, Frame("release", Head(events).p))
            /\ UNCHANGED <<state, sock, rRunning, rCanceled, ops, posted>>
  /\ UNCHANGED <<cFlag, cErr, events, note, send, caller>>

\* The event the reconnect timer pushes.
ReconnectBody ==
  /\ RunsEvent("reconnect")
  /\ IF ~rCanceled /\ state = "stopping"
       THEN StartConnect("async", Below, {})
       ELSE /\ stack' = Append(Below, Release)
            /\ UNCHANGED <<state, sock, ops, posted>>
  /\ UNCHANGED <<timers, events, note, send, caller>>

\* Mutant of DisconnectBody: the user is told only of a failed attempt.
DisconnectBodySilent ==
  /\ RunsEvent("disconnect")
  /\ stack' = Below \o <<Release, Frame("disc2", "-")>>
  /\ UNCHANGED <<state, sock, timers, ops, posted, events, note, send, caller>>

\* _post_disconnect: the user is told if the client had been started.
DisconnectBody ==
  /\ RunsEvent("disconnect")
  /\ LET tell == state = "stopping" /\ Head(events).p = "started"
     IN /\ stack' = Below \o <<Release, Frame("disc2", "-")>>
                          \o (IF tell THEN <<User>> ELSE <<>>)
        /\ note' = IF tell THEN "disconnected" ELSE note
  /\ UNCHANGED <<state, sock, timers, ops, posted, events, send, caller>>

\* Mutant of HandleDisconnect: the operations of the socket are left alone.
HandleDisconnectNoCancel ==
  /\ ~Idle /\ Top.k = "disc2"
  /\ sock' = "closed"
  /\ stack' = Below
  /\ UNCHANGED <<state, timers, ops, posted, events, note, send, caller>>

\* tcp_client::_handle_disconnect: shutdown and close.
HandleDisconnect ==
  /\ ~Idle /\ Top.k = "disc2"
  /\ sock' = "closed"
  /\ Outstanding(posted, SocketOps, {})
  /\ stack' = Below
  /\ UNCHANGED <<state, timers, events, note, send, caller>>

\* Mutant of WakeBody: the timer is not woken.
WakeBodyAsleep ==
  /\ RunsEvent("wake")
  /\ stack' = Append(Below, Release)
  /\ UNCHANGED <<state, sock, timers, ops, posted, events, note, send, caller>>

\* _wake_reconnect_timer.
WakeBody ==
  /\ RunsEvent("wake")
  /\ Outstanding(posted, ReconnectWait, {})
  /\ stack' = Append(Below, Release)
  /\ UNCHANGED <<state, sock, timers, events, note, send, caller>>

\* _post_stop: client_impl_t::stop cancels the timers, then _handle_stop.
StopBody ==
  /\ RunsEvent("stop")
  /\ rCanceled' = TRUE
  /\ cErr' = "aborted"
  /\ Outstanding(posted, ReconnectWait \cup ConnectWait, {})
  /\ state' = IF state = "stopping" THEN "stopped" ELSE state
  /\ stack' = Append(Below, Release)
  /\ UNCHANGED <<sock, rRunning, cFlag, events, note, send, caller>>

\* Mutant of SendBody: the guard is not moved into the write.
SendBodyKeepsGuard ==
  /\ RunsEvent("send")
  /\ Outstanding(posted, {}, {Op("write", 0, Head(events).p)})
  /\ stack' = Append(Below, Release)
  /\ UNCHANGED <<state, sock, timers, events, note, send, caller>>

\* _do_send: the guard moves into the write; on a socket that is not
\* connected the write fails at once.
SendBody ==
  /\ RunsEvent("send")
  /\ LET o == Op("write", 0, Head(events).p)
     IN IF sock = "connected"
          THEN Outstanding(posted, {}, {o})
          ELSE posted' = Append(posted, Completion(o, "err")) /\ UNCHANGED ops
  /\ stack' = Below
  /\ UNCHANGED <<state, sock, timers, events, note, send, caller>>

\* The guard is destroyed: next_event.  Destroying a disconnect event runs
\* its chain, which pushes the wake or the stop event; destroying a connect
\* event that kept its promise sets it.
ReleaseGuard ==
  /\ ~Idle /\ Top.k = "release"
  /\ LET chain == IF Head(events).k # "disconnect" THEN <<>>
                  ELSE IF Head(events).q = "stop" THEN <<StopEvent>> ELSE <<WakeEvent>>
         rest == Tail(events \o chain)
     IN /\ events' = rest
        /\ stack' = IF rest = <<>> THEN Below ELSE Append(Below, Body)
  /\ promise' = IF Top.x = "sync" THEN "err" ELSE promise
  /\ UNCHANGED <<state, sock, timers, ops, posted, note, send, app, poolStopped, starts, stops>>

-----------------------------------------------------------------------------
(* What is left of a handler after the callback in it returned.            *)

\* _start_connect after _fire_init: bind may fail; otherwise the timeout
\* timer is started (the promise moves into its handler) and the resolver.
StartConnect2 ==
  /\ ~Idle /\ Top.k = "start2"
  /\ \/ /\ BindFails
        /\ DoneConnect("err", posted, Below)
        /\ UNCHANGED sock
     \/ /\ cErr' = "ok" /\ cFlag' = FALSE
        /\ Outstanding(posted, ConnectWait,
                       {Op("ctimer", 0, Top.x), Op("resolve", 0, "-")})
        /\ stack' = Append(Front(Below), Release)
        /\ UNCHANGED <<state, sock, rRunning, rCanceled, events, note>>
  /\ UNCHANGED <<send, caller>>

\* _done_connect after _fire_connect.
DoneConnect2 ==
  /\ ~Idle /\ Top.k = "done2"
  /\ IF Top.x = "ok" /\ state = "started"
       THEN PostRecv(posted) /\ stack' = Below /\ UNCHANGED <<state, events>>
       ELSE DoDisconnect("wake", Below) /\ UNCHANGED <<ops, posted>>
  /\ UNCHANGED <<sock, timers, note, send, caller>>

\* _tcp_handle_recv after _fire_recv.
HandleRecv2 ==
  /\ ~Idle /\ Top.k = "recv2"
  /\ PostRecv(posted)
  /\ stack' = Below
  /\ UNCHANGED <<state, sock, timers, events, note, send, caller>>

\* The completion of a write after the callback of the message.
HandleSend2 ==
  /\ ~Idle /\ Top.k = "sent2"
  /\ IF Top.x # "ok" THEN DoDisconnect("wake", Below)
                     ELSE stack' = Below /\ UNCHANGED <<state, events>>
  /\ UNCHANGED <<sock, timers, ops, posted, note, send, caller>>

\* Mutant of ReconnectTimer2: the timer is not armed again.
ReconnectTimer2Once ==
  /\ ~Idle /\ Top.k = "rtimer2"
  /\ stack' = Below
  /\ UNCHANGED <<state, sock, timers, ops, posted, events, note, send, caller>>

\* _handle_reconnect_timer after f: wait for ever again.
ReconnectTimer2 ==
  /\ ~Idle /\ Top.k = "rtimer2"
  /\ Outstanding(posted, ReconnectWait, {Op("rtimer", 0, "forever")})
  /\ stack' = Below
  /\ UNCHANGED <<state, sock, timers, events, note, send, caller>>

\* tcp_client::stop on the strand, after the dispatched part: iopool::stop
\* does nothing on its own threads, user_iopool::stop sets the flag.
Stop2 ==
  /\ ~Idle /\ Top.k = "stop2"
  /\ stack' = Below
  /\ poolStopped' = (poolStopped \/ Pool = "user")
  /\ UNCHANGED <<state, sock, timers, ops, posted, events, note, send, promise, app, starts, stops>>

-----------------------------------------------------------------------------
(* Handlers of the strand.                                                 *)

Runs(k) == Idle /\ posted # <<>> /\ Head(posted).k = k
Done == Head(posted)
Rest == Tail(posted)

RunPush ==
  /\ Runs("push")
  /\ Emplace(Done.ev, <<>>)
  /\ posted' = Rest
  /\ UNCHANGED <<state, sock, timers, ops, note, send, caller>>

RunStop ==
  /\ Runs("stop")
  /\ StopOnStrand(Rest, <<>>)
  /\ UNCHANGED caller

\* The handler of async_resolve.
HandleResolve ==
  /\ Runs("resolve")
  /\ IF Done.ec = "ok"
       THEN \E n \in 1..Endpoints : PostConnect(n, Rest)
       ELSE DoneConnect("err", Rest, <<>>) /\ UNCHANGED sock
  /\ UNCHANGED <<send, caller>>

\* The handler of async_connect.
HandleConnect ==
  /\ Runs("connect")
  /\ IF Done.ec = "err"
       THEN PostConnect(Done.op.n, Rest)
       ELSE DoneConnect(Done.ec, Rest, <<>>) /\ UNCHANGED sock
  /\ UNCHANGED <<send, caller>>

\* Mutant of HandleRecv: a receive that fails does not end the connection.
HandleRecvIgnoresError ==
  /\ Runs("recv")
  /\ posted' = Rest
  /\ stack' = <<User>>
  /\ UNCHANGED <<state, sock, timers, ops, events, note, send, caller>>

\* _tcp_handle_recv.
HandleRecv ==
  /\ Runs("recv")
  /\ posted' = Rest
  /\ IF Done.ec = "ok"
       THEN stack' = <<Frame("recv2", "-"), User>> /\ UNCHANGED <<state, events>>
       ELSE DoDisconnect("wake", <<>>)
  /\ UNCHANGED <<sock, timers, ops, note, send, caller>>

\* Mutant of HandleSend: the callback is not called when the write fails.
HandleSendSilent ==
  /\ Runs("write")
  /\ posted' = Rest
  /\ stack' = <<Release, Frame("sent2", Done.ec), User>>
  /\ send' = IF Done.ec = "ok" THEN [send EXCEPT ![Done.op.x] = "ok"] ELSE send
  /\ UNCHANGED <<state, sock, timers, ops, events, note, caller>>

\* The handler of async_write, which owns the guard.
HandleSend ==
  /\ Runs("write")
  /\ posted' = Rest
  /\ stack' = <<Release, Frame("sent2", Done.ec), User>>
  /\ send' = [send EXCEPT ![Done.op.x] = IF Done.ec = "ok" THEN "ok" ELSE "err"]
  /\ UNCHANGED <<state, sock, timers, ops, events, note, caller>>

\* The callback of a message that was refused.
HandleRefused ==
  /\ Runs("refused")
  /\ posted' = Rest
  /\ stack' = <<User>>
  /\ send' = [send EXCEPT ![Done.ev.p] = "err"]
  /\ UNCHANGED <<state, sock, timers, ops, events, note, caller>>

\* The handler of the connect timeout timer: if it expired, close the socket
\* so that async_connect ends; the promise of start is in this handler.
HandleConnectTimer ==
  /\ Runs("ctimer")
  /\ IF Done.ec = "ok"
       THEN cFlag' = TRUE /\ sock' = "closed" /\ Outstanding(Rest, SocketOps, {})
       ELSE posted' = Rest /\ UNCHANGED <<cFlag, sock, ops>>
  /\ promise' = IF Done.op.x = "sync" THEN (IF cErr = "ok" THEN "ok" ELSE "err") ELSE promise
  /\ UNCHANGED <<state, rRunning, rCanceled, cErr, stack, events, note, send,
                 app, poolStopped, starts, stops>>

\* _handle_reconnect_timer: cancelled for good, woken, or expired.
HandleReconnectTimer ==
  /\ Runs("rtimer")
  /\ \/ /\ rCanceled
        /\ rRunning' = FALSE
        /\ posted' = Rest
        /\ UNCHANGED <<ops, stack, events>>
     \/ /\ ~rCanceled /\ Done.ec = "aborted"
        /\ Outstanding(Rest, ReconnectWait, {Op("rtimer", 0, "delay")})
        /\ UNCHANGED <<rRunning, stack, events>>
     \/ /\ ~rCanceled /\ Done.ec # "aborted"
        /\ posted' = Rest
        /\ Emplace(ReconnectEvent, <<Frame("rtimer2", "-")>>)
        /\ UNCHANGED <<rRunning, ops>>
  /\ UNCHANGED <<state, sock, rCanceled, cFlag, cErr, note, send, caller>>

-----------------------------------------------------------------------------
(* The application, in callbacks and on its own thread.                    *)

InCallback(call) == ~Idle /\ Top = User /\ call \in CallbackCalls

CallbackReturns ==
  /\ ~Idle /\ Top = User
  /\ stack' = Below
  /\ UNCHANGED <<state, sock, timers, ops, posted, events, note, send, caller>>

CallbackStops ==
  /\ InCallback("stop") /\ ~poolStopped /\ stops < MaxStops
  /\ stops' = stops + 1
  /\ StopOnStrand(posted, Append(stack, Frame("stop2", "-")))
  /\ UNCHANGED <<promise, app, poolStopped, starts>>

\* The default pool refuses to start while another thread stops it.
CallbackStarts ==
  /\ InCallback("start") /\ starts < MaxStarts
  /\ app \in {"stopping", "joining"} => "startInStop" \in CallbackCalls
  /\ Pool = "default" => ~poolStopped
  /\ starts' = starts + 1
  /\ poolStopped' = FALSE
  /\ Emplace(ConnectEvent("async"), stack)
  /\ UNCHANGED <<state, sock, timers, ops, posted, note, send, promise, app, stops>>

\* async_send on the strand; the dispatched callback of a refusal runs inline.
CallbackSends(d) ==
  /\ InCallback("send") /\ send[d] = "new"
  /\ IF IsStarted
       THEN Emplace(SendEvent(d), stack) /\ send' = [send EXCEPT ![d] = "queued"]
       ELSE /\ stack' = Append(stack, User) /\ UNCHANGED events
            /\ send' = [send EXCEPT ![d] = "err"]
  /\ UNCHANGED <<state, sock, timers, ops, posted, note, caller>>

\* start ("sync") and async_start, off the strand.
AppStarts(sync) ==
  /\ app = "free" /\ starts < MaxStarts
  /\ starts' = starts + 1
  /\ poolStopped' = FALSE
  /\ posted' = Append(posted, Handler("push", ConnectEvent(sync)))
  /\ IF sync = "sync" THEN app' = "waiting" /\ promise' = "pending"
                      ELSE UNCHANGED <<app, promise>>
  /\ UNCHANGED <<state, sock, timers, ops, stack, events, note, send, stops>>

\* The future of start is ready.
AppStarted ==
  /\ app = "waiting" /\ promise # "pending"
  /\ app' = "free"
  /\ UNCHANGED <<state, sock, timers, strand, note, send, promise, poolStopped, starts, stops>>

\* async_send off the strand.
AppSends(d) ==
  /\ app = "free" /\ send[d] = "new"
  /\ send' = [send EXCEPT ![d] = "queued"]
  /\ posted' = Append(posted, Handler(IF IsStarted THEN "push" ELSE "refused", SendEvent(d)))
  /\ UNCHANGED <<state, sock, timers, ops, stack, events, note, caller>>

\* stop off the strand: dispatch, which posts; then stop the pool.
AppStops ==
  /\ app = "free" /\ ~poolStopped /\ stops < MaxStops
  /\ stops' = stops + 1
  /\ posted' = Append(posted, Handler("stop", NoEvent))
  /\ app' = "stopping"
  /\ UNCHANGED <<state, sock, timers, ops, stack, events, note, send, promise, poolStopped, starts>>

AppStopsPool ==
  /\ app = "stopping"
  /\ poolStopped' = TRUE
  /\ app' = IF Pool = "default" THEN "joining" ELSE "free"
  /\ UNCHANGED <<state, sock, timers, strand, note, send, promise, starts, stops>>

\* iopool::stop returns when the io_context has run out of work.
AppStopped ==
  /\ app = "joining" /\ Idle /\ posted = <<>> /\ ops = {}
  /\ app' = "free"
  /\ UNCHANGED <<state, sock, timers, strand, note, send, promise, poolStopped, starts, stops>>

-----------------------------------------------------------------------------
(* The network and the clock.                                              *)

Ends(o, ec) ==
  /\ ops' = ops \ {o}
  /\ posted' = Append(posted, Completion(o, ec))
  /\ UNCHANGED <<state, timers, stack, events, note, send, caller>>

ResolveEnds ==
  /\ UNCHANGED sock
  /\ \E o \in ops, ec \in {"ok", "err"} : o.k = "resolve" /\ Ends(o, ec)

ConnectEnds ==
  \E o \in ops, ec \in {"ok", "err"} :
    /\ o.k = "connect"
    /\ sock' = IF ec = "ok" THEN "connected" ELSE sock
    /\ Ends(o, ec)

\* Data arrives, or the peer or the network ends the connection.
RecvEnds ==
  /\ UNCHANGED sock
  /\ \E o \in ops, ec \in {"ok", "err"} : o.k = "recv" /\ Ends(o, ec)

WriteEnds ==
  /\ UNCHANGED sock
  /\ \E o \in ops, ec \in {"ok", "err"} : o.k = "write" /\ Ends(o, ec)

ConnectTimerExpires ==
  /\ UNCHANGED sock
  /\ \E o \in ConnectWait : Ends(o, "ok")

ReconnectTimerExpires ==
  /\ UNCHANGED sock
  /\ \E o \in ReconnectWait : o.x = "delay" /\ Ends(o, "ok")

-----------------------------------------------------------------------------
\* The threads of the default pool run between its start and the end of its
\* stop; a shared io_context always runs.
PoolRuns == Pool = "user" \/ ~poolStopped \/ app = "joining"

StrandWork ==
  \/ ConnectBody \/ ReconnectBody \/ DisconnectBody \/ HandleDisconnect
  \/ WakeBody \/ StopBody \/ SendBody \/ ReleaseGuard
  \/ StartConnect2 \/ DoneConnect2 \/ HandleRecv2 \/ HandleSend2
  \/ ReconnectTimer2 \/ Stop2
  \/ RunPush \/ RunStop \/ HandleResolve \/ HandleConnect \/ HandleRecv
  \/ HandleSend \/ HandleRefused \/ HandleConnectTimer \/ HandleReconnectTimer
  \/ CallbackReturns

StrandStep == PoolRuns /\ StrandWork

Calls ==
  \/ CallbackStops \/ CallbackStarts \/ \E d \in Data : CallbackSends(d)
  \/ \E sync \in {"sync", "async"} : AppStarts(sync)
  \/ \E d \in Data : AppSends(d)
  \/ AppStops

AppReturns == AppStarted \/ AppStopsPool \/ AppStopped

World == \/ ResolveEnds \/ ConnectEnds \/ RecvEnds \/ WriteEnds
         \/ ConnectTimerExpires \/ ReconnectTimerExpires

Init ==
  /\ state = "stopped" /\ sock = "closed"
  /\ rRunning = FALSE /\ rCanceled = FALSE /\ cFlag = FALSE /\ cErr = "ok"
  /\ ops = {} /\ posted = <<>> /\ stack = <<>> /\ events = <<>>
  /\ note = "none" /\ send = [d \in Data |-> "new"]
  /\ promise = "none" /\ app = "free" /\ poolStopped = TRUE
  /\ starts = 0 /\ stops = 0

Next == StrandStep \/ Calls \/ AppReturns \/ World

Spec == Init /\ [][Next]_vars

\* The strand runs, callbacks return, the resolver, the kernel and the clock
\* answer, the application's blocking calls return when they may; and the peer
\* reads, or the connection breaks, so that writes end.  Nothing obliges a peer
\* to send or the application to call.
FairSpec ==
  /\ Spec
  /\ WF_vars(StrandStep) /\ WF_vars(AppReturns)
  /\ WF_vars(ResolveEnds) /\ WF_vars(ConnectEnds) /\ WF_vars(WriteEnds)
  /\ WF_vars(ConnectTimerExpires) /\ WF_vars(ReconnectTimerExpires)

-----------------------------------------------------------------------------
(* Properties.                                                             *)

OpType == [k : AttemptOps \cup {"rtimer", "none"}, n : 0 .. Endpoints,
           x : Data \cup {"-", "sync", "async", "forever", "delay"}, old : BOOLEAN]

EventType ==
  {NoEvent, ReconnectEvent, WakeEvent, StopEvent}
    \cup {ConnectEvent(s) : s \in {"sync", "async"}}
    \cup {SendEvent(d) : d \in Data}
    \cup {DisconnectEvent(o, c) : o \in {"starting", "started"}, c \in {"stop", "wake"}}

TypeOK ==
  /\ state \in States /\ sock \in {"closed", "open", "connected"}
  /\ rRunning \in BOOLEAN /\ rCanceled \in BOOLEAN /\ cFlag \in BOOLEAN
  /\ cErr \in Codes
  /\ ops \subseteq OpType
  /\ posted \in Seq([k : AttemptOps \cup {"rtimer", "push", "stop", "refused"},
                     op : OpType, ec : Codes, ev : EventType])
  /\ stack \in Seq([k : {"user", "event", "release", "start2", "done2", "disc2",
                         "recv2", "sent2", "rtimer2", "stop2"},
                    x : Codes \cup {"-", "sync", "async"}])
  /\ events \in Seq(EventType \ {NoEvent})
  /\ note \in {"none", "connected", "failed", "disconnected"}
  /\ send \in [Data -> {"new", "queued", "ok", "err"}]
  /\ promise \in {"none", "pending", "ok", "err"}
  /\ app \in {"free", "waiting", "stopping", "joining"}
  /\ poolStopped \in BOOLEAN
  /\ starts \in 0 .. MaxStarts /\ stops \in 0 .. MaxStops

Frames(k) == {i \in DOMAIN stack : stack[i].k = k}
PostedOps(k) == {i \in DOMAIN posted : posted[i].k = k}
InFlight(k) == {o \in ops : o.k = k}

\* At most one write is in flight, it is the write of the event at the front
\* of the queue (whose lambda owns the bytes), and the queue never stands
\* still: somebody holds its guard exactly while it is not empty
\* (send_cp.hpp:83, "only one operation to send data at the same time").
OneWriter ==
  /\ Cardinality(Frames("event")) + Cardinality(Frames("release"))
       + Cardinality(InFlight("write")) + Cardinality(PostedOps("write"))
         = IF events = <<>> THEN 0 ELSE 1
  /\ \A o \in InFlight("write") : Head(events) = SendEvent(o.x)
  /\ \A i \in PostedOps("write") : Head(events) = SendEvent(posted[i].op.x)

\* A started connection has exactly one receive under way - in flight,
\* completed and waiting, or in its handler - and never two on the same
\* buffer (tcp_recv_op.hpp:45-87).
OneReader ==
  LET readers == Cardinality(InFlight("recv")) + Cardinality(PostedOps("recv"))
                 + Cardinality(Frames("recv2"))
                 + Cardinality({i \in Frames("done2") : stack[i].x = "ok"})
  IN readers <= 1 /\ (IsStarted => readers = 1)

\* No completion of an earlier attempt is still to come once a new attempt
\* has begun, so that none can end the new attempt (tcp_recv_op.hpp:153 and
\* connect_cp.hpp:411 call _do_disconnect without asking whose completion it is).
NoStaleCompletion ==
  /\ \A o \in ops : ~o.old
  /\ \A i \in DOMAIN posted : ~posted[i].op.old

\* A disconnect event always finds the client stopping (the assertion at
\* disconnect_cp.hpp:149).
DisconnectExpected == RunsEvent("disconnect") => state = "stopping"

\* While the client connects or is connected its reconnect timer is armed:
\* a loss of the connection will be followed by a new attempt
\* (reconnect_timer_cp.hpp:150-155).
ReconnectArmed ==
  state \in {"starting", "started"} =>
    /\ ~rCanceled
    /\ ReconnectWait # {} \/ PostedOps("rtimer") # {} \/ Frames("rtimer2") # {}

\* The assertion at tcp_client.hpp:210, on the application's thread: when
\* iopool::stop may return the client is stopped.
StoppedAfterJoin ==
  app = "joining" /\ Idle /\ posted = <<>> /\ ops = {} => state = "stopped"

\* A client that is stopped and has nothing left to do has closed its socket,
\* which is what is_stopped asks (client.hpp:208).
StoppedIsClosed ==
  state = "stopped" /\ Idle /\ posted = <<>> /\ ops = {} => sock = "closed"

\* A client that lost its connection, or whose attempt failed, tries again or
\* is stopped: it does not stay between two attempts.
LeavesStopping == state = "stopping" ~> state # "stopping"

\* start and stop return to the application's thread, whatever happens to the
\* connection and whatever callbacks call meanwhile.
CallsReturn ==
  /\ app = "waiting" ~> app = "free"
  /\ app \in {"stopping", "joining"} ~> app = "free"

\* The callback of every message given to async_send while the pool runs is
\* called: no message is lost in a queue that stop or a reconnection emptied.
EveryMessageAnswered ==
  \A d \in Data : send[d] = "queued" /\ PoolRuns ~> send[d] \in {"ok", "err"}

\* What the client promises to its user, see ClientLife.
Life == INSTANCE ClientLife
LifeSpec == Life!Spec
=============================================================================
