----------------------------- MODULE EventQueue -----------------------------
(***************************************************************************)
(* The event queue every client and session owns                           *)
(* (asio2/base/component/event_queue_cp.hpp): connect, disconnect, stop    *)
(* and send are pushed to it as events, and an event stays at the front    *)
(* of the queue until its guard (event_queue_guard) is destroyed.  The     *)
(* guard is created when an event enters an empty queue, handed from an    *)
(* event to the next one, may be moved into an asynchronous operation (a   *)
(* write in flight) and is destroyed on the strand or on another thread.   *)
(*                                                                         *)
(* The strand runs one handler at a time, in the order of asio::post.      *)
(* "stack" is the call stack of the thread that runs it: a handler calls   *)
(* push_event, which calls the event's body inline when the queue is       *)
(* empty, so a body may run on top of an unfinished handler.               *)
(***************************************************************************)
EXTENDS Naturals, Sequences, FiniteSets

CONSTANTS Events,   \* the events that can be pushed, each at most once
          Threads,  \* threads that push without being on the strand
          Strand,   \* the pusher "code running on the strand"
          NoEvent,  \* the event of a handler that has none
          MaxUser   \* bound: how many other handlers the strand runs

ASSUME ThreadsAssumption == Strand \notin Threads
ASSUME NoEventAssumption == NoEvent \notin Events
ASSUME MaxUserAssumption == MaxUser \in Nat

VARIABLES
  posted,  \* handlers waiting in the strand, oldest first
  stack,   \* handlers and event bodies being executed, innermost last
  events,  \* events_
  op,      \* events whose guard is inside an operation in flight
  fresh,   \* events not pushed yet
  pushed,  \* history: what each pusher pushed, in order
  ran,     \* history: the events whose body was entered, in order
  users    \* number of other handlers posted so far (for MaxUser)

vars == <<posted, stack, events, op, fresh, pushed, ran, users>>

Pushers == Threads \cup {Strand}

\* A handler given to the strand: enqueue an event, go on to the next event
\* (the handler holds the guard), completion of an operation (the handler
\* holds the guard), or any other handler (a receive, a timer).
Handlers ==      [k : {"push", "complete"}, e : Events]
            \cup [k : {"next", "user"}, e : {NoEvent}]

\* A frame of the stack; g says that the frame owns the valid guard.
Frames ==      [k : {"body", "complete"}, e : Events, g : BOOLEAN]
          \cup [k : {"user"}, e : {NoEvent}, g : {FALSE}]

Init == /\ posted = <<>> /\ stack = <<>> /\ events = <<>>
        /\ op = {} /\ fresh = Events
        /\ pushed = [p \in Pushers |-> <<>>]
        /\ ran = <<>> /\ users = 0

Idle == stack = <<>>
Top == stack[Len(stack)]
Below == SubSeq(stack, 1, Len(stack) - 1)

-----------------------------------------------------------------------------
(* The two halves of event_queue_cp, as they run on the strand.            *)

\* Mutant of Emplace: the event overtakes those that wait behind the front.
EmplaceSecond(e, st) ==
  IF events = <<>>
    THEN events' = <<e>> /\ stack' = Append(st, [k |-> "body", e |-> e, g |-> TRUE]) /\ ran' = Append(ran, e)
    ELSE events' = <<Head(events), e>> \o Tail(events) /\ stack' = st /\ UNCHANGED ran

\* Mutant of Emplace: the event is run although another one is active.
EmplaceAndRun(e, st) ==
  /\ events' = Append(events, e)
  /\ stack' = Append(st, [k |-> "body", e |-> e, g |-> TRUE])
  /\ ran' = Append(ran, e)

\* events_.emplace, and the front is called with a fresh guard when the
\* queue was empty; st is the stack the body is called from.
Emplace(e, st) ==
  /\ events' = Append(events, e)
  /\ IF events = <<>>
       THEN /\ stack' = Append(st, [k |-> "body", e |-> e, g |-> TRUE])
            /\ ran' = Append(ran, e)
       ELSE stack' = st /\ UNCHANGED ran

\* What the captures of the front event push while events_.pop destroys it:
\* nothing, or one event (the function of a defer_event that was not moved).
\* The queue is not empty at that moment, so push_event only appends.
ChainPushes == {<<>>} \cup (IF events = <<>> THEN {} ELSE {<<e>> : e \in fresh})

\* Mutant of NextEvent: whether there is a next event is decided before the
\* front is destroyed, so what its destruction pushes is not seen.
NextEventDecidedEarly(st, chain) ==
  LET rest == IF events = <<>> THEN <<>> ELSE Tail(events \o chain)
  IN /\ events' = rest
     /\ fresh' = fresh \ {chain[i] : i \in DOMAIN chain}
     /\ pushed' = [pushed EXCEPT ![Strand] = @ \o chain]
     /\ IF Len(events) > 1
          THEN /\ stack' = Append(st, [k |-> "body", e |-> Head(rest), g |-> TRUE])
               /\ ran' = Append(ran, Head(rest))
          ELSE stack' = st /\ UNCHANGED ran

\* The destructor of a valid guard, on the strand: pop the front, if any; the
\* next event is called with the same guard, or the guard disappears.
NextEvent(st, chain) ==
  LET rest == IF events = <<>> THEN <<>> ELSE Tail(events \o chain)
  IN /\ events' = rest
     /\ fresh' = fresh \ {chain[i] : i \in DOMAIN chain}
     /\ pushed' = [pushed EXCEPT ![Strand] = @ \o chain]
     /\ IF rest # <<>>
          THEN /\ stack' = Append(st, [k |-> "body", e |-> Head(rest), g |-> TRUE])
               /\ ran' = Append(ran, Head(rest))
          ELSE stack' = st /\ UNCHANGED ran

-----------------------------------------------------------------------------
(* Threads that are not on the strand.                                     *)

\* push_event off the strand: asio::post.
PostPush(t, e) ==
  /\ e \in fresh
  /\ posted' = Append(posted, [k |-> "push", e |-> e])
  /\ fresh' = fresh \ {e}
  /\ pushed' = [pushed EXCEPT ![t] = Append(@, e)]
  /\ UNCHANGED <<stack, events, op, ran, users>>

\* Any other handler becomes ready.
PostUser ==
  /\ users < MaxUser
  /\ users' = users + 1
  /\ posted' = Append(posted, [k |-> "user", e |-> NoEvent])
  /\ UNCHANGED <<stack, events, op, fresh, pushed, ran>>

\* An operation ends and its completion handler, which owns the guard,
\* becomes ready on the strand.
OperationEnds(e) ==
  /\ e \in op
  /\ op' = op \ {e}
  /\ posted' = Append(posted, [k |-> "complete", e |-> e])
  /\ UNCHANGED <<stack, events, fresh, pushed, ran, users>>

\* Mutant of GuardDroppedOffStrand: it posts the event, not the next one.
GuardDroppedAsPush(e) ==
  /\ e \in op
  /\ op' = op \ {e}
  /\ posted' = Append(posted, [k |-> "next", e |-> e])
  /\ UNCHANGED <<stack, events, fresh, pushed, ran, users>>

\* The guard of an operation is destroyed on another thread: next_event posts.
GuardDroppedOffStrand(e) ==
  /\ e \in op
  /\ op' = op \ {e}
  /\ posted' = Append(posted, [k |-> "next", e |-> NoEvent])
  /\ UNCHANGED <<stack, events, fresh, pushed, ran, users>>

-----------------------------------------------------------------------------
(* The strand.                                                             *)

RunPosted(kind) == Idle /\ posted # <<>> /\ Head(posted).k = kind /\ posted' = Tail(posted)

RunPush ==
  /\ RunPosted("push")
  /\ Emplace(Head(posted).e, <<>>)
  /\ UNCHANGED <<op, fresh, pushed, users>>

RunNext ==
  /\ RunPosted("next")
  /\ \E chain \in ChainPushes : NextEvent(<<>>, chain)
  /\ UNCHANGED <<op, users>>

\* A completion handler: the callback runs (it may push) before the handler
\* and the guard in it are destroyed.
RunComplete ==
  /\ RunPosted("complete")
  /\ stack' = <<[k |-> "complete", e |-> Head(posted).e, g |-> TRUE]>>
  /\ UNCHANGED <<events, op, fresh, pushed, ran, users>>

RunUser ==
  /\ RunPosted("user")
  /\ stack' = <<[k |-> "user", e |-> NoEvent, g |-> FALSE]>>
  /\ UNCHANGED <<events, op, fresh, pushed, ran, users>>

\* push_event called from the code that runs on the strand.
PushOnStrand(e) ==
  /\ ~Idle
  /\ e \in fresh
  /\ Emplace(e, stack)
  /\ fresh' = fresh \ {e}
  /\ pushed' = [pushed EXCEPT ![Strand] = Append(@, e)]
  /\ UNCHANGED <<posted, op, users>>

\* Mutant of StartOperation: the guard is copied, not moved.
StartOperationCopies ==
  /\ ~Idle /\ Top.k = "body" /\ Top.g
  /\ op' = op \cup {Top.e}
  /\ UNCHANGED <<posted, stack, events, fresh, pushed, ran, users>>

\* The body moves its guard into an asynchronous operation it starts.
StartOperation ==
  /\ ~Idle /\ Top.k = "body" /\ Top.g
  /\ op' = op \cup {Top.e}
  /\ stack' = Append(Below, [Top EXCEPT !.g = FALSE])
  /\ UNCHANGED <<posted, events, fresh, pushed, ran, users>>

\* The innermost frame returns; a guard it still owns is destroyed.
Return ==
  /\ ~Idle
  /\ IF Top.g
       THEN \E chain \in ChainPushes : NextEvent(Below, chain)
       ELSE stack' = Below /\ UNCHANGED <<events, fresh, pushed, ran>>
  /\ UNCHANGED <<posted, op, users>>

-----------------------------------------------------------------------------
StrandStep == RunPush \/ RunNext \/ RunComplete \/ RunUser \/ Return

Next == \/ \E t \in Threads, e \in Events : PostPush(t, e)
        \/ PostUser
        \/ \E e \in Events : OperationEnds(e) \/ GuardDroppedOffStrand(e)
        \/ \E e \in Events : PushOnStrand(e)
        \/ StartOperation
        \/ StrandStep

Spec == Init /\ [][Next]_vars

\* The strand keeps running what it was given, bodies return, and operations
\* end.  Nothing obliges anybody to push.
FairSpec == Spec /\ WF_vars(StrandStep)
                 /\ \A e \in Events : WF_vars(OperationEnds(e) \/ GuardDroppedOffStrand(e))

-----------------------------------------------------------------------------
(* Properties.                                                             *)

TypeOK == /\ posted \in Seq(Handlers)
          /\ stack \in Seq(Frames)
          /\ events \in Seq(Events)
          /\ op \subseteq Events
          /\ fresh \subseteq Events
          /\ pushed \in [Pushers -> Seq(Events)]
          /\ ran \in Seq(Events)
          /\ users \in Nat

\* Everything that owns the valid guard right now.
Owners ==      {<<"stack", i>> : i \in {j \in DOMAIN stack : stack[j].g}}
          \cup {<<"posted", i>> : i \in {j \in DOMAIN posted : posted[j].k \in {"next", "complete"}}}
          \cup {<<"op", e>> : e \in op}

\* There is exactly one valid guard while the queue is not empty, and none
\* while it is empty: without it the queue would stop for ever (no guard) or
\* run two events at once (two guards).
GuardInv == /\ events = <<>> => Owners = {}
            /\ events # <<>> => \E o \in Owners : Owners = {o}

\* Whatever works for an event - its body, its operation in flight, its
\* completion handler - works for the event at the front: the lambda, which
\* owns the data being sent, is not destroyed under it, and two events never
\* work at the same time (two writes in flight, a write and a close).
FrontOnly ==
  LET Front(e) == events # <<>> /\ e = Head(events)
  IN /\ \A i \in DOMAIN stack : stack[i].k # "user" => Front(stack[i].e)
     /\ \A e \in op : Front(e)
     /\ \A i \in DOMAIN posted : posted[i].k = "complete" => Front(posted[i].e)

\* What one pusher pushed is run in the order it was pushed, and nothing is
\* run twice: when a push has been run, so have all earlier pushes of the same
\* pusher, before it.  The pushers are the threads off the strand, and all code
\* on the strand.  (Between pushers there is no promise: see the comment at
\* event_queue_cp.hpp:169.)
FifoPerPusher ==
  /\ \A x, y \in DOMAIN ran : ran[x] = ran[y] => x = y
  /\ \A p \in Pushers : \A i, j \in DOMAIN pushed[p] : i < j =>
       \A y \in DOMAIN ran : ran[y] = pushed[p][j] => \E x \in 1 .. y - 1 : ran[x] = pushed[p][i]

\* The promise of the queue, see SerialExecutor: the events in the order
\* they entered the queue are the ones finished, then the ones in the queue.
Finished == SubSeq(ran, 1, Len(ran) - (IF events = <<>> THEN 0 ELSE 1))

Entered == Finished \o events

Abstract == INSTANCE SerialExecutor WITH
              accepted <- Entered,
              done     <- Len(Finished)

AbstractSpec == Abstract!FairSpec
=============================================================================
