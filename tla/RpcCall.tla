------------------------------ MODULE RpcCall ------------------------------
(***************************************************************************)
(* Remote calls of an rpc client: rpc_call_cp.hpp makes the requests and   *)
(* keeps the table reqs_ of those without an answer, rpc_recv_op.hpp takes *)
(* the responses and serves the requests, rpc_client.hpp fails what is     *)
(* left when the connection ends, rpc_invoker.hpp lets a function answer   *)
(* later.  One strand runs the client's side; other threads make calls and *)
(* wait.  The connection below is the one of TcpClient, seen through what  *)
(* the calls depend on: is_started, the event queue that carries writes    *)
(* and the disconnect, and the close of the socket.                        *)
(***************************************************************************)
EXTENDS Naturals, Sequences, FiniteSets

CONSTANTS
  MaxCalls,       \* bound: requests made
  MaxConnects,    \* bound: connections after the first one
  CallbackStops   \* TRUE: a callback may stop the client even where it Reenters

ASSUME BoundsAssumption == MaxCalls \in Nat /\ MaxConnects \in Nat
ASSUME StopsAssumption == CallbackStops \in BOOLEAN

VARIABLES
  kind,      \* who made request c: "-" nobody yet, a thread that waits ("sync"),
             \* call on the strand ("strand"), async_call ("async"), or one
             \* without callback ("oneway")
  thread,    \* what call returned to its caller; "waiting" until then
  answers,   \* what each request's entry of reqs_ was called with, in order
  reqs,      \* the ids in reqs_
  timer,     \* the timeout timer of an asynchronous call
  posted,    \* handlers posted to the strand
  events,    \* the event queue: a write per request, and the disconnect
  write,     \* the write at the front: "busy", or ended as "sent" or "failed"
  stack,     \* what the strand is in the middle of, innermost first
  state,     \* "started", "stopping" (is_started is false), "closed"
  requests,  \* requests on their way to the peer
  deferred,  \* requests whose function holds a promise it has not let go
  responses, \* responses on their way back
  ran,       \* how often the function of each request was run
  connects   \* connections made after the first one

caller == <<kind, thread>>
table  == <<answers, reqs, timer>>
strand == <<posted, events, write, stack>>
peer   == <<requests, deferred, responses, ran>>
link   == <<state, connects>>
vars   == <<caller, table, strand, peer, link>>

Ids == 1 .. MaxCalls
Outcomes == {"ok", "remote", "timed_out", "aborted", "not_connected", "failed"}

Task(t, c)  == [t |-> t, c |-> c]
Send(c)     == [e |-> "send", c |-> c]
Disconnect  == [e |-> "disconnect", c |-> 0]
Callback(c) == [f |-> "callback", c |-> c]
Drain       == [f |-> "drain", c |-> 0]
Sent        == [f |-> "sent", c |-> 0]

Idle == stack = <<>>
InFrame(f) == ~Idle /\ Head(stack).f = f
IsStarted == state = "started"

\* id_maker::mkid: the next id; 64 bits do not come round.
Fresh(c) == kind[c] = "-" /\ \A d \in 1 .. c - 1 : kind[d] # "-"

-----------------------------------------------------------------------------
(* The callers.                                                            *)

Makes(c, k) == Fresh(c) /\ kind' = [kind EXCEPT ![c] = k]
Returns(c, r) == thread' = [thread EXCEPT ![c] = r]
Posts(tasks) == posted' = posted \o tasks /\ UNCHANGED <<events, write, stack>>

\* call from a thread that is not the strand's.
CallSync(c) ==
  /\ Makes(c, "sync")
  /\ \/ IsStarted /\ Returns(c, "waiting") /\ Posts(<<Task("send", c)>>)
     \/ ~IsStarted /\ Returns(c, "not_connected") /\ UNCHANGED strand
  /\ UNCHANGED <<table, peer, link>>

\* call inside a callback: it cannot wait, and takes its request out again.
CallOnStrand(c) ==
  /\ InFrame("callback")
  /\ Makes(c, "strand")
  /\ \/ IsStarted /\ Returns(c, "in_progress")
           /\ Posts(<<Task("send", c), Task("erase", c)>>)
     \/ ~IsStarted /\ Returns(c, "not_connected") /\ UNCHANGED strand
  /\ UNCHANGED <<table, peer, link>>

\* async_call with a callback, from anywhere.
CallAsync(c) ==
  /\ Makes(c, "async")
  /\ Posts(<<Task(IF IsStarted THEN "send" ELSE "fail", c)>>)
  /\ UNCHANGED <<thread, table, peer, link>>

\* async_call without a callback: id 0, nothing is registered.
CallOneway(c) ==
  /\ Makes(c, "oneway")
  /\ \/ IsStarted /\ Posts(<<Task("send", c)>>)
     \/ ~IsStarted /\ UNCHANGED strand
  /\ UNCHANGED <<thread, table, peer, link>>

\* Mutant of WaitTimesOut: the request is left in the table.
WaitTimesOutLeaves(c) ==
  /\ thread[c] = "waiting" /\ answers[c] = <<>>
  /\ Returns(c, "timed_out")
  /\ UNCHANGED <<kind, table, strand, peer, link>>

\* future.wait_for gives up.
WaitTimesOut(c) ==
  /\ thread[c] = "waiting" /\ answers[c] = <<>>
  /\ Returns(c, "timed_out")
  /\ Posts(<<Task("erase", c)>>)
  /\ UNCHANGED <<kind, table, peer, link>>

\* future.get: the promise was set.
WaitEnds(c) ==
  /\ thread[c] = "waiting" /\ answers[c] # <<>>
  /\ Returns(c, answers[c][1])
  /\ UNCHANGED <<kind, table, strand, peer, link>>

-----------------------------------------------------------------------------
(* The strand of the client.                                               *)

\* ex, the function kept in reqs_: for a call that waits it sets the promise
\* and takes itself out, for an asynchronous one it cancels the timer, calls
\* the user and takes itself out when the user's callback has returned.
Complete(c, outcome, below) ==
  /\ answers' = [answers EXCEPT ![c] = Append(@, outcome)]
  /\ stack' = (IF kind[c] = "async" THEN <<Callback(c)>> ELSE <<>>) \o below

\* timer->cancel: a handler that is already on its way still runs.
Cancelled(c) == [timer EXCEPT ![c] = IF @ = "armed" THEN "idle" ELSE @]

\* The entries of S that remain while ex(c) runs.
Left(S, c) == IF kind[c] = "async" THEN S ELSE S \ {c}

CallbackReturns ==
  /\ InFrame("callback")
  /\ reqs' = reqs \ {Head(stack).c}
  /\ stack' = Tail(stack)
  /\ UNCHANGED <<caller, answers, timer, posted, events, write, peer, link>>

Runs(t, c) == Idle /\ posted # <<>> /\ Head(posted) = Task(t, c) /\ posted' = Tail(posted)

\* Mutant of RunSend: a request without callback is registered, under id 0.
RunSendRegistersZero(c) ==
  /\ Runs("send", c)
  /\ reqs' = reqs \cup {IF kind[c] = "oneway" THEN 0 ELSE c}
  /\ events' = Append(events, Send(c))
  /\ timer' = IF kind[c] = "async" THEN [timer EXCEPT ![c] = "armed"] ELSE timer
  /\ UNCHANGED <<caller, answers, write, stack, peer, link>>

\* The posted part of a call: register, start the timer, send.  async_send
\* of a client that is no longer started calls its callback at once, which
\* fails the request.
RunSend(c) ==
  /\ Runs("send", c)
  /\ LET all == IF kind[c] = "oneway" THEN reqs ELSE reqs \cup {c}
     IN \/ /\ IsStarted
           /\ events' = Append(events, Send(c))
           /\ reqs' = all
           /\ timer' = IF kind[c] = "async" THEN [timer EXCEPT ![c] = "armed"] ELSE timer
           /\ UNCHANGED <<answers, stack>>
        \/ /\ ~IsStarted /\ kind[c] # "oneway"
           /\ Complete(c, "not_connected", <<>>)
           /\ reqs' = Left(all, c)
           /\ UNCHANGED <<timer, events>>
        \/ /\ ~IsStarted /\ kind[c] = "oneway"
           /\ UNCHANGED <<table, events, stack>>
  /\ UNCHANGED <<caller, write, peer, link>>

\* The erase of a call that gave up.
RunErase(c) ==
  /\ Runs("erase", c)
  /\ reqs' = reqs \ {c}
  /\ UNCHANGED <<caller, answers, timer, events, write, stack, peer, link>>

\* async_call of a client that was not started: the callback, on the strand.
RunFail(c) ==
  /\ Runs("fail", c)
  /\ Complete(c, "not_connected", <<>>)
  /\ UNCHANGED <<caller, reqs, timer, events, write, peer, link>>

\* Mutant of HandleTimer: the table is not asked.
HandleTimerUnasked(c) ==
  /\ Idle /\ timer[c] = "expired"
  /\ timer' = [timer EXCEPT ![c] = "idle"]
  /\ Complete(c, "timed_out", <<>>)
  /\ UNCHANGED <<caller, reqs, posted, events, write, peer, link>>

\* The handler of a timer that was not cancelled in time.
HandleTimer(c) ==
  /\ Idle /\ timer[c] = "expired"
  /\ timer' = [timer EXCEPT ![c] = "idle"]
  /\ IF c \in reqs THEN Complete(c, "timed_out", <<>>)
                   ELSE UNCHANGED <<answers, stack>>
  /\ UNCHANGED <<caller, reqs, posted, events, write, peer, link>>

\* _rpc_handle_recv of a response: by its id, or not at all.
HandleResponse ==
  /\ Idle /\ state # "closed"
  /\ \E r \in responses :
       /\ responses' = responses \ {r}
       /\ IF r.c \in reqs
            THEN /\ Complete(r.c, r.outcome, <<>>)
                 /\ timer' = Cancelled(r.c)
                 /\ reqs' = Left(reqs, r.c)
            ELSE UNCHANGED <<table, stack>>
  /\ UNCHANGED <<caller, posted, events, write, requests, deferred, ran, link>>

-----------------------------------------------------------------------------
(* The event queue and the connection.                                     *)

FrontWrites(c) == events # <<>> /\ Head(events) = Send(c)

\* push_event of the disconnect, by a strand in the middle of frames: in an
\* empty queue it runs at once, up to the loop over reqs_.
PushDisconnect(frames) ==
  /\ events' = Append(events, Disconnect)
  /\ stack' = IF events = <<>> THEN <<Drain>> \o frames ELSE frames

\* The guard of the event at the front is destroyed: the next event runs.
NextEvent(queue, frames) ==
  /\ events' = Tail(queue)
  /\ stack' = IF Len(queue) > 1 /\ queue[2] = Disconnect THEN <<Drain>> \o frames ELSE frames

\* _do_disconnect outside of a callback: the read fails, a timer of the
\* application or another thread stops the client.
LoseConnection ==
  /\ Idle /\ IsStarted
  /\ state' = "stopping"
  /\ PushDisconnect(<<>>)
  /\ UNCHANGED <<caller, table, posted, write, peer, connects>>

\* A stop in this callback would run the loop over reqs_ at once, on top of
\* the callback, while the callback's own entry is still in the table.
Reenters == events = <<>> /\ Head(stack).c \in reqs

\* stop inside the callback of a call.
CallbackCallsStop ==
  /\ InFrame("callback") /\ IsStarted /\ (Reenters => CallbackStops)
  /\ state' = "stopping"
  /\ PushDisconnect(stack)
  /\ UNCHANGED <<caller, table, posted, write, peer, connects>>

\* The kernel takes the last byte of the write at the front.
Transmit(c) ==
  /\ FrontWrites(c) /\ write = "busy" /\ state # "closed"
  /\ write' = "sent"
  /\ requests' = requests \cup {c}
  /\ UNCHANGED <<caller, table, posted, events, stack, deferred, responses, ran, link>>

\* Mutant of HandleSent: the callback does not ask get_last_error.
HandleSentFails(c) ==
  /\ Idle /\ FrontWrites(c)
  /\ IF c \in reqs THEN Complete(c, "failed", <<Sent>>) /\ reqs' = Left(reqs, c)
                   ELSE stack' = <<Sent>> /\ UNCHANGED <<answers, reqs>>
  /\ timer' = Cancelled(c)
  /\ write' = "failed"
  /\ UNCHANGED <<caller, posted, events, peer, link>>

\* The handler of async_write: on failure async_send's callback fails the
\* request if it is still registered (the answer may have been faster).
HandleSent(c) ==
  /\ Idle /\ FrontWrites(c)
  /\ \/ write = "sent" /\ write' = "busy" /\ NextEvent(events, <<>>) /\ UNCHANGED table
     \/ /\ write = "busy" /\ write' = "failed" /\ c \in reqs
        /\ Complete(c, "failed", <<Sent>>)
        /\ reqs' = Left(reqs, c)
        /\ timer' = Cancelled(c)
        /\ UNCHANGED events
     \/ /\ write = "busy" /\ write' = "failed" /\ c \notin reqs
        /\ stack' = <<Sent>>
        /\ UNCHANGED <<table, events>>
  /\ UNCHANGED <<caller, posted, peer, link>>

\* After a failed write: _do_disconnect, then the guard goes.
SentReturns ==
  /\ InFrame("sent")
  /\ NextEvent(IF IsStarted THEN Append(events, Disconnect) ELSE events, Tail(stack))
  /\ write' = "busy"
  /\ state' = IF IsStarted THEN "stopping" ELSE state
  /\ UNCHANGED <<caller, table, posted, peer, connects>>

\* Mutant of DrainNext: the loop only empties the table.
DrainNextSilent ==
  /\ InFrame("drain") /\ reqs # {}
  /\ reqs' = {}
  /\ timer' = [c \in Ids |-> IF timer[c] = "armed" THEN "idle" ELSE timer[c]]
  /\ UNCHANGED <<caller, answers, strand, peer, link>>

\* rpc_client's _handle_disconnect: the first entry is called, again and
\* again until reqs_ is empty.
DrainNext ==
  /\ InFrame("drain")
  /\ \E c \in reqs :
       /\ \A d \in reqs : c <= d
       /\ Complete(c, "aborted", stack)
       /\ timer' = Cancelled(c)
       /\ reqs' = Left(reqs, c)
  /\ UNCHANGED <<caller, posted, events, write, peer, link>>

\* _handle_disconnect of the client below: the socket is closed.
Close ==
  /\ InFrame("drain") /\ reqs = {}
  /\ state' = "closed"
  /\ NextEvent(events, Tail(stack))
  /\ requests' = {} /\ deferred' = {} /\ responses' = {}
  /\ UNCHANGED <<caller, table, posted, write, ran, connects>>

\* The reconnection succeeds; its event waited for all the others.
Reconnect ==
  /\ Idle /\ state = "closed" /\ events = <<>>
  /\ connects < MaxConnects
  /\ connects' = connects + 1 /\ state' = "started"
  /\ UNCHANGED <<caller, table, strand, peer>>

-----------------------------------------------------------------------------
(* The peer's session.                                                     *)

Response(c, outcome) == [c |-> c, outcome |-> outcome]
Once(c) == ran' = [ran EXCEPT ![c] = @ + 1]

\* _rpc_handle_recv of a request.
Serve(c) ==
  /\ c \in requests
  /\ requests' = requests \ {c}
  /\ \* the function returned a value, or threw
     \/ /\ Once(c) /\ UNCHANGED deferred
        /\ \E o \in {"ok", "remote"} :
             responses' = responses \cup (IF kind[c] = "oneway" THEN {} ELSE {Response(c, o)})
     \* no such function, or other parameters
     \/ /\ UNCHANGED <<deferred, ran>>
        /\ responses' = responses \cup (IF kind[c] = "oneway" THEN {} ELSE {Response(c, "remote")})
     \* the function returned a future
     \/ /\ Once(c) /\ deferred' = deferred \cup {c} /\ UNCHANGED responses
     \* the function let go of the promise of d: the response of d is put
     \* together in the serializer that already held the header of c, and
     \* what is sent for c is d's response with c's value behind it
     \/ /\ Once(c)
        /\ \E d \in deferred : kind[d] # "oneway" /\ kind[c] # "oneway"
             /\ responses' = responses \cup {Response(d, "ok")}
             /\ deferred' = deferred \ {d}
  /\ UNCHANGED <<caller, table, strand, link>>

\* The last copy of the promise goes: response_defer's destructor answers,
\* with no_data when no value was set.
Finish(d) ==
  /\ d \in deferred
  /\ deferred' = deferred \ {d}
  /\ \E o \in {"ok", "remote"} :
       responses' = responses \cup (IF kind[d] = "oneway" THEN {} ELSE {Response(d, o)})
  /\ UNCHANGED <<caller, table, strand, requests, ran, link>>

\* A clock, for a timer that is armed.
TimerExpires(c) ==
  /\ timer[c] = "armed"
  /\ timer' = [timer EXCEPT ![c] = "expired"]
  /\ UNCHANGED <<caller, answers, reqs, strand, peer, link>>

-----------------------------------------------------------------------------
Init ==
  /\ kind = [c \in Ids |-> "-"] /\ thread = [c \in Ids |-> "-"]
  /\ answers = [c \in Ids |-> <<>>] /\ reqs = {} /\ timer = [c \in Ids |-> "idle"]
  /\ posted = <<>> /\ events = <<>> /\ write = "busy" /\ stack = <<>>
  /\ state = "started" /\ connects = 0
  /\ requests = {} /\ deferred = {} /\ responses = {} /\ ran = [c \in Ids |-> 0]

Calls(c) == CallSync(c) \/ CallOnStrand(c) \/ CallAsync(c) \/ CallOneway(c)

Waits(c) == WaitTimesOut(c) \/ WaitEnds(c)

StrandStep ==
  \/ \E c \in Ids : RunSend(c) \/ RunErase(c) \/ RunFail(c) \/ HandleTimer(c) \/ HandleSent(c)
  \/ HandleResponse \/ CallbackReturns \/ SentReturns \/ DrainNext \/ Close

Peer == \E c \in Ids : Serve(c) \/ Finish(c)

Next ==
  \/ \E c \in Ids : Calls(c) \/ Waits(c) \/ Transmit(c) \/ TimerExpires(c)
  \/ StrandStep \/ Peer
  \/ LoseConnection \/ CallbackCallsStop \/ Reconnect

Spec == Init /\ [][Next]_vars

\* Waits end, timers expire, callbacks return and the strand runs what it has,
\* posted handlers and timers each in their turn.  Nothing obliges the peer to
\* answer, a write to end or the connection to come back.
FairSpec ==
  /\ Spec
  /\ WF_vars(CallbackReturns \/ SentReturns \/ DrainNext \/ Close)
  /\ WF_vars(\E c \in Ids : RunSend(c) \/ RunErase(c) \/ RunFail(c))
  /\ \A c \in Ids : /\ WF_vars(Waits(c)) /\ WF_vars(TimerExpires(c))
                    /\ SF_vars(HandleTimer(c))

-----------------------------------------------------------------------------
(* Properties.                                                             *)

TypeOK ==
  /\ kind \in [Ids -> {"-", "sync", "strand", "async", "oneway"}]
  /\ thread \in [Ids -> {"-", "waiting", "in_progress"} \cup Outcomes]
  /\ answers \in [Ids -> Seq(Outcomes)]
  /\ reqs \subseteq Ids
  /\ timer \in [Ids -> {"idle", "armed", "expired"}]
  /\ posted \in Seq([t : {"send", "erase", "fail"}, c : Ids])
  /\ events \in Seq([e : {"send", "disconnect"}, c : Ids \cup {0}])
  /\ write \in {"busy", "sent", "failed"}
  /\ stack \in Seq([f : {"callback", "drain", "sent"}, c : Ids \cup {0}])
  /\ state \in {"started", "stopping", "closed"}
  /\ requests \subseteq Ids /\ deferred \subseteq Ids
  /\ responses \subseteq [c : Ids, outcome : {"ok", "remote"}]
  /\ ran \in [Ids -> Nat]
  /\ connects \in 0 .. MaxConnects

\* Whatever races - the response, the timeout, the failed write, the end of
\* the connection - the callback of a call is called once, and the promise of
\* a call that waits is set once: a second set_value would throw on the strand
\* (rpc_call_cp.hpp:137).
AnsweredOnce == \A c \in Ids : Len(answers[c]) <= 1

\* Every entry of reqs_ has somebody who takes it out: its timer, the callback
\* that is running, the caller who still waits, or the erase that is posted
\* (rpc_call_cp.hpp:402, "must start a timeout timer, othwise if not recved
\* response, it will cause the request id in the map forever").
EntryHasOwner ==
  \A c \in reqs :
    \/ kind[c] = "async" /\ timer[c] # "idle"
    \/ \E i \in DOMAIN stack : stack[i] = Callback(c)
    \/ thread[c] = "waiting"
    \/ \E i \in DOMAIN posted : posted[i] = Task("erase", c)

\* The calls as their callers see them.
Status(c) ==
  IF kind[c] = "oneway" THEN "pending"
  ELSE IF kind[c] = "async" THEN IF answers[c] = <<>> THEN "pending" ELSE answers[c][1]
  ELSE CASE thread[c] = "-"       -> "none"
         [] thread[c] = "waiting" -> "pending"
         [] OTHER                 -> thread[c]

Life == INSTANCE CallLife WITH status <- [c \in Ids |-> Status(c)]

\* Every call has one outcome, a result only if the function was run, and is
\* reported as not sent only if the function neither was nor will be run.
LifeSpec == Life!Spec

\* Every call that can be answered is: the caller gets a result, the peer's
\* error, or the timeout.
EveryCallAnswered ==
  \A c \in Ids : Status(c) = "pending" /\ kind[c] # "oneway" ~> Status(c) # "pending"
=============================================================================
