----------------------------- MODULE MqttBroker -----------------------------
(***************************************************************************)
(* The broker of mqtt_server: mqtt_handler.hpp takes the messages of a     *)
(* session, mqtt_session.hpp keeps the map of client ids, and each session *)
(* has packet ids, offline messages and the ids of QoS 2 messages it took. *)
(* One client publishes, its session stays; another client subscribes to   *)
(* the topic, and comes back again and again under the same client id.     *)
(*                                                                         *)
(* The maps of the broker have no lock, so what the code does is defined   *)
(* when all sessions share one io_context: one strand, on which a handler  *)
(* is one step and an event of an empty queue runs inside the handler that *)
(* pushes it.  The subscriptions and the keys of the maps point into the   *)
(* sessions and are not removed with them: what a handler does with such a *)
(* pointer is left open (adrift).  The key of a retained message points to *)
(* the string _multicast_publish had it under, which is gone: whether a    *)
(* lookup finds the entry is left open too.                                *)
(***************************************************************************)
EXTENDS Naturals, Sequences, FiniteSets

CONSTANTS
  MaxPubs,       \* bound: messages published
  Kinds,         \* bound: what each may be, as pairs of a QoS and what it does to
                 \* the retained message
  MaxResends,    \* bound: messages of QoS 2 sent again before their PUBREC
  MaxConnects,   \* bound: connections of the subscriber
  MaxBusy,       \* bound: packets and events the publisher's session has left
                 \* when a request of the subscriber is read
  MaxPacketId,   \* the largest packet identifier, 65535 in the code
  ReuseIds       \* TRUE: the publisher uses an identifier again when its
                 \* exchange is over, as the protocol allows

ASSUME BoundsAssumption ==
  /\ MaxPubs \in Nat /\ MaxResends \in Nat /\ MaxConnects \in Nat /\ MaxBusy \in Nat
  /\ MaxPacketId \in Nat
ASSUME KindsAssumption ==
  Kinds \in [1 .. MaxPubs -> SUBSET ((0 .. 2) \X {"no", "store", "erase"})]
ASSUME ReuseAssumption == ReuseIds \in BOOLEAN

VARIABLES
  \* the publisher
  qos, keep, id,  \* of each message: its QoS, what it does to the retained
                  \* message ("no", "store", "erase") and its identifier
  flow,           \* "new", "sent", "released" (PUBREL was sent), "done"
  resends,
  toBroker,       \* packets on their way
  \* the session of the publisher
  processed,  \* qos2_publish_processed_
  pubEvents,  \* its event queue
  cast,       \* the messages that went through _multicast_publish, in order
  retained,   \* retained_messages_: the positions in cast of its entries
  \* the sessions of the subscriber
  state,      \* "none", "started", "stopping", "closed", "destroyed"
  events,     \* the event queue of each
  link,       \* the connection: "up", "down"
  offline,    \* offline_messages_
  used,       \* the identifiers of packet_id_mgr
  got,        \* what reached the client
  since,      \* the first message after the session subscribed, 0 before
  \* the broker
  mqttid,     \* mqttid_sessions_: entries [at: session, key: the session whose
              \* memory holds the client id]
  subs,       \* subs_map_: entries of the same form
  adrift      \* a pointer to a destroyed session was used

publisher == <<qos, keep, id, flow, resends, toBroker>>
pubSide   == <<processed, pubEvents>>
sessions  == <<state, link, events, offline, used, got>>
maps      == <<mqttid, subs>>
vars == <<publisher, pubSide, cast, retained, sessions, since, maps, adrift>>

Pubs == 1 .. MaxPubs
Conns == 1 .. MaxConnects
PacketIds == 1 .. MaxPacketId

Packet(p, m) == [p |-> p, m |-> m]
Event(e, n, i) == [e |-> e, n |-> n, i |-> i]
Queued(n, i) == Event("publish", n, i)  \* cast[n], with packet id i

-----------------------------------------------------------------------------
(* packet_id_mgr                                                           *)

\* Mutant of AcquireId: it does not wrap.
AcquireIdAfter(ids) ==
  IF ids = {} THEN 1 ELSE 1 + CHOOSE i \in ids : \A j \in ids : j <= i

\* acquire_id: one after the largest, or from 1 the first that is free; 0 when
\* all are used.
AcquireId(ids) ==
  IF PacketIds \ ids = {} THEN 0
  ELSE LET above == {i \in PacketIds \ ids : \A j \in ids : j < i}
           free  == IF above # {} THEN above ELSE PacketIds \ ids
       IN CHOOSE i \in free : \A j \in free : i <= j

-----------------------------------------------------------------------------
(* The publisher.                                                          *)

Taken == {id[m] : m \in {n \in Pubs : flow[n] \notin {"new"}
                                    /\ (ReuseIds => flow[n] # "done")}}

Publish(m) ==
  /\ ~adrift /\ flow[m] = "new" /\ \A n \in 1 .. m - 1 : flow[n] # "new"
  /\ \E kind \in Kinds[m], i \in (1 .. MaxPubs) \ Taken :
       /\ \A j \in 1 .. i - 1 : j \in Taken
       /\ qos' = [qos EXCEPT ![m] = kind[1]]
       /\ keep' = [keep EXCEPT ![m] = kind[2]]
       /\ id' = [id EXCEPT ![m] = IF kind[1] = 0 THEN 0 ELSE i]
       /\ flow' = [flow EXCEPT ![m] = IF kind[1] = 0 THEN "done" ELSE "sent"]
  /\ toBroker' = Append(toBroker, Packet("publish", m))
  /\ UNCHANGED <<resends, pubSide, cast, retained, sessions, since, maps, adrift>>

\* Without an answer the message is sent again (one of QoS 2: a bound).
Resend(m) ==
  /\ ~adrift /\ flow[m] = "sent" /\ qos[m] = 2 /\ resends < MaxResends
  /\ resends' = resends + 1
  /\ toBroker' = Append(toBroker, Packet("publish", m))
  /\ UNCHANGED <<qos, keep, id, flow, pubSide, cast, retained, sessions, since,
                 maps, adrift>>

-----------------------------------------------------------------------------
(* Delivery to a session of the subscriber.                                *)

IsStarted(s) == state[s] = "started"
IsWrite(e) == e.e \in {"publish", "answer"}

\* No event is in the middle of running the next one: a disconnect has been
\* posted behind its event, all others at the front of a queue are writes.
Calm ==
  /\ ~adrift
  /\ pubEvents # <<>> => Head(pubEvents).p # "cast"
  /\ \A s \in Conns : events[s] # <<>> => Head(events[s]).e # "retained"

\* What _prepare_send_publish leaves of a session: what is pushed behind its
\* events, its offline messages and its ids.
Outbox(push, off, ids) == [push |-> push, offline |-> off, used |-> ids]

\* Mutant of Prepare: without an identifier the message is dropped.
PrepareDrops(s, n) ==
  LET m == cast'[n]
      i == AcquireId(used[s])
  IN IF ~IsStarted(s) THEN Outbox(<<>>, Append(offline[s], n), used[s])
     ELSE IF qos[m] = 0 THEN Outbox(<<Queued(n, 0)>>, <<>>, used[s])
     ELSE IF i = 0 THEN Outbox(<<>>, <<>>, used[s])
     ELSE Outbox(<<Queued(n, i)>>, <<>>, used[s] \cup {i})

\* Mutant of Prepare: the offline messages are sent after the new one.
PrepareFirst(s, n) ==
  LET m == cast'[n]
      i == AcquireId(used[s])
      waiting == [k \in DOMAIN offline[s] |-> Queued(offline[s][k], 0)]
  IN IF ~IsStarted(s) THEN Outbox(<<>>, Append(offline[s], n), used[s])
     ELSE IF offline[s] # <<>> THEN Outbox(<<Queued(n, 0)>> \o waiting, <<>>, used[s])
     ELSE IF qos[m] = 0 THEN Outbox(<<Queued(n, 0)>>, <<>>, used[s])
     ELSE IF i = 0 THEN Outbox(<<>>, <<n>>, used[s])
     ELSE Outbox(<<Queued(n, i)>>, <<>>, used[s] \cup {i})

\* A message with QoS takes an identifier, or becomes offline when there is
\* none; behind offline messages a message is sent after them all, and none of
\* these has an identifier.
Prepare(s, n) ==
  LET m == cast'[n]
      i == AcquireId(used[s])
      waiting == [k \in DOMAIN offline[s] |-> Queued(offline[s][k], 0)]
  IN IF ~IsStarted(s) THEN Outbox(<<>>, Append(offline[s], n), used[s])
     ELSE IF offline[s] # <<>> THEN Outbox(Append(waiting, Queued(n, 0)), <<>>, used[s])
     ELSE IF qos[m] = 0 THEN Outbox(<<Queued(n, 0)>>, <<>>, used[s])
     ELSE IF i = 0 THEN Outbox(<<>>, <<n>>, used[s])
     ELSE Outbox(<<Queued(n, i)>>, <<>>, used[s] \cup {i})

\* The sessions of S get message n.
Deliver(S, n) ==
  /\ events' = [s \in Conns |-> IF s \in S THEN events[s] \o Prepare(s, n).push ELSE events[s]]
  /\ offline' = [s \in Conns |-> IF s \in S THEN Prepare(s, n).offline ELSE offline[s]]
  /\ used' = [s \in Conns |-> IF s \in S THEN Prepare(s, n).used ELSE used[s]]
  /\ UNCHANGED <<state, link, got>>

\* What a lookup of the topic in retained_messages_ finds, as a set of at most
\* one entry: the name it compares with lies in memory that was released.
FindsRetained == {{}} \cup {{n} : n \in retained}

\* _multicast_publish: to every subscription, then the retained message.
Multicast(m) ==
  /\ cast' = Append(cast, m)
  /\ \/ keep[m] = "no" /\ UNCHANGED retained
     \/ keep[m] = "store" /\ \E hit \in FindsRetained : retained' = (retained \ hit) \cup {Len(cast')}
     \/ keep[m] = "erase" /\ \E hit \in FindsRetained : retained' = retained \ hit
  /\ LET S == {e.at : e \in subs}
     IN IF \E s \in S : state[s] = "destroyed"
          THEN adrift' = TRUE /\ UNCHANGED sessions
          ELSE UNCHANGED adrift /\ Deliver(S, Len(cast'))

-----------------------------------------------------------------------------
(* The session of the publisher.                                           *)

Cast(m) == Packet("cast", m)
Answer(p, m) == Packet(p, m)

\* push_event of the events es: a multicast in an empty queue runs at once, and
\* what is left is the answer.
PushPublished(m, answer) ==
  IF pubEvents = <<>>
    THEN pubEvents' = answer /\ Multicast(m)
    ELSE pubEvents' = Append(pubEvents, Cast(m)) \o answer
         /\ UNCHANGED <<cast, retained, sessions, adrift>>

\* Mutant of HandlePublish: a QoS 2 message is not remembered.
HandlePublishForgets ==
  /\ Calm /\ toBroker # <<>> /\ Head(toBroker).p = "publish"
  /\ toBroker' = Tail(toBroker)
  /\ LET m == Head(toBroker).m
     IN PushPublished(m, CASE qos[m] = 0 -> <<>>
                           [] qos[m] = 1 -> <<Answer("puback", m)>>
                           [] qos[m] = 2 -> <<Answer("pubrec", m)>>)
  /\ UNCHANGED <<qos, keep, id, flow, resends, processed, since, maps>>

\* _before_publish_callback, and the answer.
HandlePublish ==
  /\ Calm /\ toBroker # <<>> /\ Head(toBroker).p = "publish"
  /\ toBroker' = Tail(toBroker)
  /\ LET m == Head(toBroker).m
     IN \/ qos[m] = 0 /\ PushPublished(m, <<>>) /\ UNCHANGED processed
        \/ qos[m] = 1 /\ PushPublished(m, <<Answer("puback", m)>>) /\ UNCHANGED processed
        \/ /\ qos[m] = 2 /\ id[m] \notin processed
           /\ processed' = processed \cup {id[m]}
           /\ PushPublished(m, <<Answer("pubrec", m)>>)
        \/ /\ qos[m] = 2 /\ id[m] \in processed
           /\ pubEvents' = Append(pubEvents, Answer("pubrec", m))
           /\ UNCHANGED <<processed, cast, retained, sessions, adrift>>
  /\ UNCHANGED <<qos, keep, id, flow, resends, since, maps>>

\* The default handler of PUBREL: an answer, and nothing else.
HandlePubrel ==
  /\ Calm /\ toBroker # <<>> /\ Head(toBroker).p = "pubrel"
  /\ toBroker' = Tail(toBroker)
  /\ pubEvents' = Append(pubEvents, Answer("pubcomp", Head(toBroker).m))
  /\ UNCHANGED <<qos, keep, id, flow, resends, processed, cast, retained,
                 sessions, since, maps, adrift>>

\* The write of an answer ends, and the publisher reads it: PUBACK and PUBCOMP
\* end the exchange, PUBREC asks for a PUBREL.  The publisher's connection is not
\* lost.
AnswerSent ==
  /\ Calm /\ pubEvents # <<>> /\ pubEvents' = Tail(pubEvents)
  /\ LET m == Head(pubEvents).m
         p == Head(pubEvents).p
     IN /\ flow' = [flow EXCEPT ![m] = IF p # "pubrec" THEN "done"
                                       ELSE IF @ = "sent" THEN "released" ELSE @]
        /\ toBroker' = IF p = "pubrec" THEN Append(toBroker, Packet("pubrel", m)) ELSE toBroker
  /\ UNCHANGED <<qos, keep, id, resends, processed, cast, retained, sessions, since, maps, adrift>>

\* A multicast whose turn has come.
RunCast ==
  /\ ~adrift /\ pubEvents # <<>> /\ Head(pubEvents).p = "cast"
  /\ pubEvents' = Tail(pubEvents)
  /\ Multicast(Head(pubEvents).m)
  /\ UNCHANGED <<publisher, processed, since, maps>>

-----------------------------------------------------------------------------
(* The sessions of the subscriber.                                         *)

Reply == Event("answer", 0, 0)
SendRetained == Event("retained", 0, 0)
Disconnect == Event("disconnect", 0, 0)

\* What a lookup of the client id in a map finds, as a set of at most one entry:
\* an entry whose key lies in a destroyed session is found or not.
Finds(map) ==
  {hit \in SUBSET map : /\ Cardinality(hit) <= 1
                        /\ hit = {} => \A e \in map : state[e.key] = "destroyed"}

\* insert_or_assign: the key of an entry that is found stays.
Put(map, hit, s) ==
  (map \ hit) \cup IF hit = {} THEN {[at |-> s, key |-> s]} ELSE {[e EXCEPT !.at = s] : e \in hit}

\* The CONNECT of the next connection: the session of the client id is stopped,
\* which sends DISCONNECT, and replaced; CONNACK is queued and the
\* session is started.
Connect(s) ==
  /\ Calm /\ state[s] = "none" /\ \A r \in 1 .. s - 1 : state[r] # "none"
  /\ \E hit \in Finds(mqttid) :
       LET old == {e.at : e \in hit}
       IN /\ mqttid' = Put(mqttid, hit, s)
          /\ state' = [r \in Conns |-> IF r = s THEN "started"
                                       ELSE IF r \in old /\ IsStarted(r) THEN "stopping" ELSE state[r]]
          /\ events' = [r \in Conns |-> IF r = s THEN <<Reply>>
                                        ELSE IF r \in old /\ IsStarted(r)
                                             THEN events[r] \o <<Reply, Disconnect>> ELSE events[r]]
  /\ link' = [link EXCEPT ![s] = "up"]
  /\ UNCHANGED <<publisher, pubSide, cast, retained, offline, used, got, since, subs,
                 adrift>>

\* The retained message that was found is sent, in front of the events rest.
DeliverRetained(s, hit, rest) ==
  LET out == IF hit = {} THEN Outbox(<<>>, offline[s], used[s])
             ELSE Prepare(s, CHOOSE n \in hit : TRUE)
      waiting == IF events[s] = <<>> THEN <<>> ELSE Tail(events[s])
  IN /\ events' = [events EXCEPT ![s] = waiting \o out.push \o rest]
     /\ offline' = [offline EXCEPT ![s] = out.offline]
     /\ used' = [used EXCEPT ![s] = out.used]

\* What a session reads it handles, also while it is stopping.
Reads(s) ==
  /\ Calm /\ state[s] \in {"started", "stopping"} /\ link[s] = "up"
  /\ Len(toBroker) + Len(pubEvents) <= MaxBusy

\* Each session subscribes once (a bound).
\* The retained message is sent by an event in front of SUBACK, which runs at
\* once in an empty queue.
Subscribe(s) ==
  /\ Reads(s) /\ since[s] = 0
  /\ \E hit \in Finds(subs) : subs' = Put(subs, hit, s)
  /\ since' = [since EXCEPT ![s] = Len(cast) + 1]
  /\ UNCHANGED cast
  /\ IF events[s] # <<>>
       THEN /\ events' = [events EXCEPT ![s] = @ \o <<SendRetained, Reply>>]
            /\ UNCHANGED <<offline, used>>
       ELSE \E hit \in FindsRetained : DeliverRetained(s, hit, <<Reply>>)
  /\ UNCHANGED <<publisher, pubSide, retained, state, link, got, mqttid, adrift>>

\* The event of _send_retained_messages when its turn has come.
RunRetained(s) ==
  /\ ~adrift /\ events[s] # <<>> /\ Head(events[s]).e = "retained"
  /\ UNCHANGED cast
  /\ \E hit \in FindsRetained : DeliverRetained(s, hit, <<>>)
  /\ UNCHANGED <<publisher, pubSide, retained, state, link, got, since, maps, adrift>>

\* Read when no more waits to be written than the DISCONNECT of a session that is
\* stopping (a bound).
Unsubscribe(s) ==
  /\ Reads(s) /\ \E e \in subs : e.at = s
  /\ events[s] \in {<<>>, <<Reply, Disconnect>>}
  /\ \E hit \in Finds(subs) : subs' = subs \ hit
  /\ events' = [events EXCEPT ![s] = Append(@, Reply)]
  /\ UNCHANGED <<publisher, pubSide, cast, retained, state, link, offline, used, got,
                 since, mqttid, adrift>>

\* A write ends and its event is over.
WriteEnds(s) ==
  /\ Calm /\ link[s] = "up" /\ events[s] # <<>> /\ IsWrite(Head(events[s]))
  /\ got' = [got EXCEPT ![s] = IF Head(events[s]).e = "publish"
                                  THEN Append(@, Head(events[s]).n) ELSE @]
  /\ events' = [events EXCEPT ![s] = Tail(@)]
  /\ UNCHANGED <<publisher, pubSide, cast, retained, state, link, offline, used, since,
                 maps, adrift>>

\* A write that fails makes its message an offline one, and stops the session.
WriteFails(s) ==
  /\ Calm /\ events[s] # <<>> /\ IsWrite(Head(events[s]))
  /\ link' = [link EXCEPT ![s] = "down"]
  /\ offline' = [offline EXCEPT ![s] = IF Head(events[s]).e = "publish"
                                          THEN Append(@, Head(events[s]).n) ELSE @]
  /\ state' = [state EXCEPT ![s] = IF IsStarted(s) THEN "stopping" ELSE @]
  /\ events' = [events EXCEPT ![s] = Tail(@) \o IF IsStarted(s) THEN <<Reply, Disconnect>>
                                                 ELSE <<>>]
  /\ UNCHANGED <<publisher, pubSide, cast, retained, used, got, since, maps, adrift>>

\* The read of a session fails.
ReadFails(s) ==
  /\ Calm /\ IsStarted(s)
  /\ link' = [link EXCEPT ![s] = "down"]
  /\ state' = [state EXCEPT ![s] = "stopping"]
  /\ events' = [events EXCEPT ![s] = @ \o <<Reply, Disconnect>>]
  /\ UNCHANGED <<publisher, pubSide, cast, retained, offline, used, got, since, maps, adrift>>

\* The disconnect, posted by its event: the session leaves mqttid_sessions_ if
\* its client id leads to itself, and its socket is closed.
Close(s) ==
  /\ Calm /\ events[s] # <<>> /\ Head(events[s]) = Disconnect
  /\ \E hit \in Finds(mqttid) : mqttid' = mqttid \ {e \in hit : e.at = s}
  /\ state' = [state EXCEPT ![s] = "closed"]
  /\ link' = [link EXCEPT ![s] = "down"]
  /\ events' = [events EXCEPT ![s] = Tail(@)]
  /\ UNCHANGED <<publisher, pubSide, cast, retained, offline, used, got, since, subs,
                 adrift>>

\* The last shared pointer to a session is gone, and its memory with it.
Destroy(s) ==
  /\ Calm /\ state[s] = "closed" /\ events[s] = <<>> /\ \A e \in mqttid : e.at # s
  /\ state' = [state EXCEPT ![s] = "destroyed"]
  /\ offline' = [offline EXCEPT ![s] = <<>>] /\ used' = [used EXCEPT ![s] = {}]
  /\ got' = [got EXCEPT ![s] = <<>>] /\ since' = [since EXCEPT ![s] = 0]
  /\ UNCHANGED <<publisher, pubSide, cast, retained, link, events, maps, adrift>>

-----------------------------------------------------------------------------
Init ==
  /\ qos = [m \in Pubs |-> 0] /\ keep = [m \in Pubs |-> "no"] /\ id = [m \in Pubs |-> 0]
  /\ flow = [m \in Pubs |-> "new"] /\ resends = 0
  /\ toBroker = <<>>
  /\ processed = {} /\ pubEvents = <<>> /\ cast = <<>> /\ retained = {}
  /\ state = [s \in Conns |-> "none"] /\ link = [s \in Conns |-> "down"]
  /\ events = [s \in Conns |-> <<>>] /\ offline = [s \in Conns |-> <<>>]
  /\ used = [s \in Conns |-> {}] /\ got = [s \in Conns |-> <<>>]
  /\ since = [s \in Conns |-> 0]
  /\ mqttid = {} /\ subs = {} /\ adrift = FALSE

Publishes == \E m \in Pubs : Publish(m) \/ Resend(m)
PublisherSession == HandlePublish \/ HandlePubrel \/ AnswerSent \/ RunCast
Requests(s) == Connect(s) \/ Subscribe(s) \/ Unsubscribe(s)
SubscriberSession(s) ==
  RunRetained(s) \/ WriteEnds(s) \/ WriteFails(s) \/ ReadFails(s) \/ Close(s) \/ Destroy(s)

Next == \/ Publishes \/ PublisherSession
        \/ \E s \in Conns : Requests(s) \/ SubscriberSession(s)

Spec == Init /\ [][Next]_vars

-----------------------------------------------------------------------------
PacketsOf(kinds) == [p : kinds, m : Pubs]
Positions == DOMAIN cast
EventsOf == [e : {"publish"}, n : Positions, i : 0 .. MaxPacketId]
            \cup [e : {"answer", "retained", "disconnect"}, n : {0}, i : {0}]

\* Every variable has its type, and the identifiers in use are packet ids.
TypeOK ==
  /\ qos \in [Pubs -> 0 .. 2] /\ keep \in [Pubs -> {"no", "store", "erase"}]
  /\ id \in [Pubs -> 0 .. MaxPubs]
  /\ flow \in [Pubs -> {"new", "sent", "released", "done"}] /\ resends \in 0 .. MaxResends
  /\ toBroker \in Seq(PacketsOf({"publish", "pubrel"}))
  /\ processed \subseteq 1 .. MaxPubs
  /\ pubEvents \in Seq(PacketsOf({"cast", "puback", "pubrec", "pubcomp"}))
  /\ cast \in Seq(Pubs) /\ retained \subseteq Positions
  /\ state \in [Conns -> {"none", "started", "stopping", "closed", "destroyed"}]
  /\ link \in [Conns -> {"up", "down"}]
  /\ events \in [Conns -> Seq(EventsOf)]
  /\ offline \in [Conns -> Seq(Positions)] /\ got \in [Conns -> Seq(Positions)]
  /\ used \in [Conns -> SUBSET PacketIds] /\ since \in [Conns -> Nat]
  /\ mqttid \subseteq [at : Conns, key : Conns] /\ subs \subseteq [at : Conns, key : Conns]
  /\ adrift \in BOOLEAN

\* How often message m was multicast, or is to be.
Times(m) == Cardinality({n \in Positions : cast[n] = m})
            + Cardinality({n \in DOMAIN pubEvents : pubEvents[n] = Cast(m)})

\* A message of QoS 2 is multicast at most once, however often it is sent again
\* and whatever else the publisher's session has queued.
CastOnce == \A m \in Pubs : qos[m] = 2 => Times(m) <= 1

\* A message of QoS 1 or 2 that the broker has acknowledged was multicast, or is
\* an event of the session ("the client or session sent publish with qos 2 but
\* don't recvd pubrec, and it sent publish a later again", mqtt_handler.hpp).
AckedIsCast ==
  \A m \in Pubs : qos[m] > 0 /\ flow[m] \in {"released", "done"} => Times(m) >= 1

\* A client gets the messages published after its subscription in the order of
\* their multicast; a message may come again, as the retained one.
InOrder ==
  \A s \in Conns : \A i, j \in DOMAIN got[s] :
    i < j /\ since[s] <= got[s][j] /\ got[s][j] < got[s][i]
      => \E k \in 1 .. i : got[s][k] = got[s][j]

\* Nothing that was published since a started session subscribed is lost: it
\* reached the client, is queued, or is offline.
NothingLost ==
  \A e \in subs : IsStarted(e.at) =>
    \A n \in Positions : n >= since[e.at] =>
      \/ \E k \in DOMAIN got[e.at] : got[e.at][k] = n
      \/ \E k \in DOMAIN offline[e.at] : offline[e.at][k] = n
      \/ \E k \in DOMAIN events[e.at] : events[e.at][k].e = "publish" /\ events[e.at][k].n = n
      \/ adrift
=============================================================================
