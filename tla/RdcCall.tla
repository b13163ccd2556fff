------------------------------ MODULE RdcCall ------------------------------
(***************************************************************************)
(* Remote data calls (rdc_call_cp.hpp, rdc_invoker.hpp): a request is any  *)
(* message, a response is recognised by an id the application's parser     *)
(* finds in it.  A call goes through the event queue into pending_datas_,  *)
(* a waiting async_event on the strand takes it out and sends it, and the  *)
(* table of requests is a multimap from id to timer and callback.  When    *)
(* the client disconnects, a stop event ends the waiting and fails what is *)
(* in the table; a new connection starts the waiting again.                *)
(***************************************************************************)
EXTENDS Naturals, Sequences, FiniteSets, SequencesExt

CONSTANTS
  Keys,          \* the ids the parser finds
  MaxCalls,      \* bound: calls made
  MaxConnects    \* bound: connections after the first one

ASSUME BoundsAssumption == MaxCalls \in Nat /\ MaxConnects \in Nat

VARIABLES
  call,      \* per call: "new", "tested" (is_started said yes, nothing pushed
             \* yet), "made", or "waiting" and then what call returned
  key,       \* the id of each call's message
  answers,   \* what each callback was called with, in order
  posted,    \* handlers posted to the strand: events pushed by other threads,
             \* and the handler of an async_event that was notified
  events,    \* the event queue
  write,     \* the write of the event at the front: "none", "busy", "sent"
  pending,   \* pending_datas_
  waiter,    \* the async_event: "none" waits, one is "waiting", or "woken"
  stopFlag,  \* stop_flag_
  reqs,      \* the multimap, in order of insertion
  timer,     \* the timer of each call
  state,     \* "started", "stopping", "closed"
  toPeer, fromPeer,  \* requests and responses on their way
  connects

caller  == <<call, key>>
queue   == <<posted, events, write>>
sending == <<pending, waiter, stopFlag>>
table   == <<answers, reqs, timer>>
link    == <<state, toPeer, fromPeer, connects>>
vars    == <<caller, queue, sending, table, link>>

Ids == 1 .. MaxCalls
NoKey == "-"
Event(e, c) == [e |-> e, c |-> c]
Answer(o, from) == [o |-> o, from |-> from]

IsStarted == state = "started"

\* The strand is not in the middle of a chain of events: an event that ends
\* at once runs the next one before anything else.
Calm == events = <<>> \/ write # "none"

\* multimap::find: the first entry of that id.
Entries(k) == {i \in DOMAIN reqs : key[reqs[i]] = k}
Found(k) == CHOOSE i \in Entries(k) : \A j \in Entries(k) : i <= j

\* Cancelled or destroyed: a handler that is already on its way still runs.
Cancel(timers, c) == [timers EXCEPT ![c] = IF @ = "armed" THEN "idle" ELSE @]

\* Call back the entry that find gives for id k, and erase it with its timer.
Complete(k, answer, timers) ==
  LET i == Found(k)
      c == reqs[i]
  IN /\ answers' = [answers EXCEPT ![c] = Append(@, answer)]
     /\ reqs' = RemoveAt(reqs, i)
     /\ timer' = Cancel(timers, c)

\* send_event_->notify: who waits is woken, by a handler behind what is posted.
Wake == Event("wake", 0)
Notify ==
  /\ waiter' = IF waiter = "waiting" THEN "woken" ELSE waiter
  /\ posted' = IF waiter = "waiting" THEN Append(posted, Wake) ELSE posted

-----------------------------------------------------------------------------
(* The callers.                                                            *)

\* is_started in the thread of the caller; what it says may be old when the
\* event is pushed.
CallTests(c) ==
  /\ call[c] = "new" /\ \A d \in 1 .. c - 1 : call[d] # "new"
  /\ \E k \in Keys : key' = [key EXCEPT ![c] = k]
  /\ \/ IsStarted /\ call' = [call EXCEPT ![c] = "tested"] /\ UNCHANGED posted
     \* async_call: the callback gets the error, through the event queue
     \/ /\ ~IsStarted /\ call' = [call EXCEPT ![c] = "made"]
        /\ posted' = Append(posted, Event("fail", c))
     \* call: returns the error
     \/ ~IsStarted /\ call' = [call EXCEPT ![c] = "not_connected"] /\ UNCHANGED posted
  /\ UNCHANGED <<events, write, sending, table, link>>

\* async_call, or a call that cannot wait, inside a callback: the event runs
\* at once when nothing is queued.
CallOnStrand(c) ==
  /\ Calm /\ IsStarted
  /\ call[c] = "new" /\ \A d \in 1 .. c - 1 : call[d] # "new"
  /\ \E k \in Keys : key' = [key EXCEPT ![c] = k]
  /\ \E w \in {"made", "in_progress"} : call' = [call EXCEPT ![c] = w]
  /\ events' = Append(events, Event("queue", c))
  /\ UNCHANGED <<posted, write, sending, table, link>>

\* push_event, by async_call or by a call that then waits.
CallPushes(c) ==
  /\ call[c] = "tested"
  /\ \E w \in {"made", "waiting"} : call' = [call EXCEPT ![c] = w]
  /\ posted' = Append(posted, Event("queue", c))
  /\ UNCHANGED <<key, events, write, sending, table, link>>

\* future.wait_for.
WaitEnds(c) ==
  /\ call[c] = "waiting"
  /\ call' = [call EXCEPT ![c] = IF answers[c] = <<>> THEN "timed_out" ELSE answers[c][1].o]
  /\ UNCHANGED <<key, queue, sending, table, link>>

-----------------------------------------------------------------------------
(* The event queue.                                                        *)

\* A pushed event reaches the strand.
Arrives ==
  /\ Calm /\ posted # <<>> /\ Head(posted) # Wake
  /\ posted' = Tail(posted)
  /\ events' = Append(events, Head(posted))
  /\ UNCHANGED <<caller, write, sending, table, link>>

Runs(e) == ~Calm /\ Head(events).e = e
FrontCall == Head(events).c

\* A refused call's callback.
RunFail ==
  /\ Runs("fail") /\ events' = Tail(events)
  /\ answers' = [answers EXCEPT ![FrontCall] = Append(@, Answer("not_connected", 0))]
  /\ UNCHANGED <<caller, posted, write, sending, reqs, timer, link>>

\* The event of a call: queue the data and notify the sender.
RunQueue ==
  /\ Runs("queue") /\ events' = Tail(events)
  /\ pending' = Append(pending, FrontCall)
  /\ Notify
  /\ UNCHANGED <<caller, write, stopFlag, table, link>>

\* Mutant of RunSend: the entry is made under an id that was moved from.
RunSendMoved ==
  /\ Runs("send")
  /\ reqs' = Append(reqs, 0)
  /\ timer' = [timer EXCEPT ![FrontCall] = "armed"]
  /\ write' = "busy"
  /\ UNCHANGED <<caller, posted, events, sending, answers, link>>

\* The event of _rdc_post_send: register, start the timer, write.
RunSend ==
  /\ Runs("send")
  /\ reqs' = Append(reqs, FrontCall)
  /\ timer' = [timer EXCEPT ![FrontCall] = "armed"]
  /\ write' = "busy"
  /\ UNCHANGED <<caller, posted, events, sending, answers, link>>

\* The disconnect event: _handle_disconnect pushes the event of _rdc_stop
\* behind what is queued, and closes the socket.
RunDisconnect ==
  /\ Runs("disconnect")
  /\ events' = Append(Tail(events), Event("stop", 0))
  /\ state' = "closed" /\ toPeer' = <<>> /\ fromPeer' = <<>>
  /\ UNCHANGED <<caller, posted, write, sending, table, connects>>

\* The event of _rdc_stop.
RunStop ==
  /\ Runs("stop") /\ events' = Tail(events)
  /\ stopFlag' = TRUE
  /\ Notify
  /\ UNCHANGED <<caller, write, pending, table, link>>

\* The kernel takes the last byte of the write.
Transmit ==
  /\ write = "busy" /\ state # "closed"
  /\ write' = "sent"
  /\ toPeer' = Append(toPeer, FrontCall)
  /\ UNCHANGED <<caller, posted, events, sending, table, state, fromPeer, connects>>


\* The handler of the write; a failure tells the first call of that id that it
\* timed out, and disconnects.
HandleSent ==
  /\ write # "none" /\ write' = "none"
  /\ \/ write = "sent" /\ events' = Tail(events) /\ UNCHANGED <<table, state>>
     \/ /\ write = "busy"
        /\ IF Entries(key[FrontCall]) # {}
             THEN Complete(key[FrontCall], Answer("timed_out", 0), timer) ELSE UNCHANGED table
        /\ state' = IF IsStarted THEN "stopping" ELSE state
        /\ events' = Tail(events) \o (IF IsStarted THEN <<Event("disconnect", 0)>> ELSE <<>>)
  /\ UNCHANGED <<caller, posted, sending, toPeer, fromPeer, connects>>

-----------------------------------------------------------------------------
(* The sender, the timers, the responses.                                  *)

\* The entries of S are called with operation_aborted.
Aborted(S) == [c \in Ids |-> IF Contains(S, c) THEN Append(answers[c], Answer("aborted", 0))
                                               ELSE answers[c]]

\* The handler of the async_event: every pending call becomes a send event,
\* of which the first runs at once when the queue is empty; then it waits
\* again or, told to stop, fails what is in the table.
HandleWake ==
  /\ Calm /\ posted # <<>> /\ Head(posted) = Wake
  /\ posted' = Tail(posted)
  /\ LET sends  == [i \in DOMAIN pending |-> Event("send", pending[i])]
         direct == IF events = <<>> /\ pending # <<>> THEN <<pending[1]>> ELSE <<>>
         all    == reqs \o direct
     IN /\ events' = events \o sends
        /\ write' = IF direct = <<>> THEN write ELSE "busy"
        /\ IF stopFlag
             THEN /\ waiter' = "none"
                  /\ answers' = Aborted(all)
                  /\ reqs' = <<>>
                  /\ timer' = [c \in Ids |->
                       IF Contains(reqs, c) /\ timer[c] = "armed" THEN "idle" ELSE timer[c]]
             ELSE /\ waiter' = "waiting"
                  /\ reqs' = all
                  /\ timer' = [c \in Ids |-> IF Contains(direct, c) THEN "armed" ELSE timer[c]]
                  /\ UNCHANGED answers
  /\ pending' = <<>>
  /\ UNCHANGED <<caller, stopFlag, link>>

\* Mutant of HandleTimer: the callback is called and the entry stays.
HandleTimerKeeps(c) ==
  /\ Calm /\ timer[c] = "expired"
  /\ timer' = [timer EXCEPT ![c] = "idle"]
  /\ answers' = IF Entries(key[c]) = {} THEN answers
                ELSE [answers EXCEPT ![reqs[Found(key[c])]] = Append(@, Answer("timed_out", 0))]
  /\ UNCHANGED <<caller, queue, sending, reqs, link>>

\* The handler of call c's timer: it looks for the id, not for the call.
HandleTimer(c) ==
  /\ Calm /\ timer[c] = "expired"
  /\ LET others == [timer EXCEPT ![c] = "idle"]
     IN IF Entries(key[c]) # {}
          THEN Complete(key[c], Answer("timed_out", 0), others)
          ELSE timer' = others /\ UNCHANGED <<answers, reqs>>
  /\ UNCHANGED <<caller, queue, sending, link>>

\* Mutant of HandleRecv: the answer goes to the last call that was sent.
HandleRecvLast ==
  /\ Calm /\ fromPeer # <<>> /\ reqs # <<>>
  /\ fromPeer' = Tail(fromPeer)
  /\ LET c == Last(reqs)
     IN /\ answers' = [answers EXCEPT ![c] = Append(@, Answer("ok", Head(fromPeer)))]
        /\ reqs' = Front(reqs)
        /\ timer' = Cancel(timer, c)
  /\ UNCHANGED <<caller, queue, sending, state, toPeer, connects>>

\* _rdc_handle_recv.
HandleRecv ==
  /\ Calm /\ fromPeer # <<>>
  /\ fromPeer' = Tail(fromPeer)
  /\ LET k == key[Head(fromPeer)]
     IN IF Entries(k) # {} THEN Complete(k, Answer("ok", Head(fromPeer)), timer)
                           ELSE UNCHANGED table
  /\ UNCHANGED <<caller, queue, sending, state, toPeer, connects>>

TimerExpires(c) ==
  /\ timer[c] = "armed"
  /\ timer' = [timer EXCEPT ![c] = "expired"]
  /\ UNCHANGED <<caller, queue, sending, answers, reqs, link>>

-----------------------------------------------------------------------------
(* The connection and the peer.                                            *)

\* _do_disconnect: the read fails, or the application stops the client.
LoseConnection ==
  /\ Calm /\ IsStarted
  /\ state' = "stopping"
  /\ events' = Append(events, Event("disconnect", 0))
  /\ UNCHANGED <<caller, posted, write, sending, table, toPeer, fromPeer, connects>>

\* The reconnection succeeds and _rdc_start waits again.  The handler of the
\* async_event was posted before the connect began.
Reconnect ==
  /\ state = "closed" /\ events = <<>> /\ waiter # "woken"
  /\ connects < MaxConnects
  /\ connects' = connects + 1 /\ state' = "started"
  /\ stopFlag' = FALSE /\ waiter' = "waiting"
  /\ UNCHANGED <<caller, queue, pending, table, toPeer, fromPeer>>

\* The peer answers, or never does; requests of one id it answers in order.
Respond ==
  /\ \E i \in DOMAIN toPeer :
       /\ \A j \in 1 .. i - 1 : key[toPeer[j]] # key[toPeer[i]]
       /\ toPeer' = RemoveAt(toPeer, i)
       /\ fromPeer' = Append(fromPeer, toPeer[i])
  /\ UNCHANGED <<caller, queue, sending, table, state, connects>>

-----------------------------------------------------------------------------
Init ==
  /\ call = [c \in Ids |-> "new"] /\ key = [c \in Ids |-> NoKey]
  /\ answers = [c \in Ids |-> <<>>] /\ reqs = <<>> /\ timer = [c \in Ids |-> "idle"]
  /\ posted = <<>> /\ events = <<>> /\ write = "none"
  /\ pending = <<>> /\ waiter = "waiting" /\ stopFlag = FALSE
  /\ state = "started" /\ toPeer = <<>> /\ fromPeer = <<>> /\ connects = 0

RunEvent == RunFail \/ RunQueue \/ RunSend \/ RunDisconnect \/ RunStop

Next ==
  \/ \E c \in Ids : CallTests(c) \/ CallPushes(c) \/ CallOnStrand(c) \/ WaitEnds(c)
                    \/ HandleTimer(c) \/ TimerExpires(c)
  \/ Arrives \/ RunEvent \/ HandleWake \/ HandleSent \/ HandleRecv
  \/ Transmit \/ LoseConnection \/ Reconnect \/ Respond

Spec == Init /\ [][Next]_vars

\* The strand runs what it has, each handler in its turn; timers expire, waits
\* end, a call that has been begun goes on, and a write on a closed socket ends.
\* Nothing obliges the kernel, the peer or the network.
FairSpec ==
  /\ Spec
  /\ WF_vars(RunEvent) /\ SF_vars(Arrives \/ HandleWake)
  /\ WF_vars(HandleSent)
  /\ \A c \in Ids : /\ WF_vars(CallPushes(c)) /\ WF_vars(WaitEnds(c))
                    /\ WF_vars(TimerExpires(c)) /\ SF_vars(HandleTimer(c))

-----------------------------------------------------------------------------
(* Properties.                                                             *)

Outcomes == {"ok", "timed_out", "aborted", "not_connected"}

TypeOK ==
  /\ call \in [Ids -> {"new", "tested", "made", "waiting", "in_progress"} \cup Outcomes]
  /\ key \in [Ids -> Keys \cup {NoKey}]
  /\ answers \in [Ids -> Seq([o : Outcomes, from : Ids \cup {0}])]
  /\ posted \in Seq([e : {"fail", "queue", "wake"}, c : Ids \cup {0}])
  /\ events \in Seq([e : {"fail", "queue", "send", "disconnect", "stop"}, c : Ids \cup {0}])
  /\ write \in {"none", "busy", "sent"}
  /\ pending \in Seq(Ids)
  /\ waiter \in {"none", "waiting", "woken"}
  /\ stopFlag \in BOOLEAN
  /\ reqs \in Seq(Ids) /\ timer \in [Ids -> {"idle", "armed", "expired"}]
  /\ state \in {"started", "stopping", "closed"}
  /\ toPeer \in Seq(Ids) /\ fromPeer \in Seq(Ids)
  /\ connects \in 0 .. MaxConnects

\* Whatever races - response, timeout, failed write, end of the connection -
\* a callback is called once; a second set_value on the promise of a call that
\* waits would throw on the strand.
AnsweredOnce == \A c \in Ids : Len(answers[c]) <= 1

Shares(c) == \E d \in Ids \ {c} : key[d] = key[c]

\* Where calls share an id the first one of the table gets the response.  It
\* is a response to another call only when one of that id was told before that
\* it timed out and was answered nevertheless.
OwnResponse ==
  \A c \in Ids : \A i \in DOMAIN answers[c] :
    LET d == answers[c][i].from
    IN answers[c][i].o = "ok" /\ d # c =>
         /\ key[d] = key[c]
         /\ \E b \in Ids \ {c} : /\ key[b] = key[c]
                                 /\ answers[b] # <<>> /\ answers[b][1].o = "timed_out"

=============================================================================
