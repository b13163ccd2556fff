-------------------------- MODULE MqttBroker_proofs --------------------------
(***************************************************************************)
(* Proofs about MqttBroker, for every number of messages, connections and  *)
(* packet ids, and whatever the messages do: its type invariant; that a    *)
(* message of QoS 2 is multicast once; that a started session loses        *)
(* nothing; and that a client gets what is published in order.             *)
(***************************************************************************)
EXTENDS MqttBroker, SequenceTheorems, FiniteSetTheorems, WellFoundedInduction, TLAPS

-----------------------------------------------------------------------------
(* packet_id_mgr                                                           *)

LEMMA LeastOf ==
  ASSUME NEW S \in SUBSET Nat, S # {}
  PROVE  \E i \in S : \A j \in S : i <= j
<1>1. PICK i \in S : \A j \in S : ~(<<j, i>> \in OpToRel(<, Nat))
  BY NatLessThanWellFounded, WFMin
<1>2. \A j \in S : ~(j < i)
  BY <1>1 DEF OpToRel
<1>3. QED
  BY <1>2

\* An identifier is free, and there is one unless all are in use.
LEMMA AcquireIdIsFree ==
  ASSUME NEW ids \in SUBSET PacketIds
  PROVE  /\ AcquireId(ids) \in (PacketIds \ ids) \cup {0}
         /\ AcquireId(ids) = 0 <=> ids = PacketIds
<1>1. CASE PacketIds \ ids = {}
  BY <1>1 DEF AcquireId
<1>2. CASE PacketIds \ ids # {}
  <2> DEFINE above == {i \in PacketIds \ ids : \A j \in ids : j < i}
             free  == IF above # {} THEN above ELSE PacketIds \ ids
  <2>1. free \in SUBSET Nat /\ free # {} /\ free \subseteq PacketIds \ ids
    BY <1>2 DEF PacketIds
  <2>2. \E i \in free : \A j \in free : i <= j
    BY <2>1, LeastOf
  <2>3. AcquireId(ids) \in free
    BY <1>2, <2>2 DEF AcquireId
  <2>4. 0 \notin PacketIds
    BY BoundsAssumption DEF PacketIds
  <2>5. QED
    BY <1>2, <2>1, <2>3, <2>4
<1>3. QED
  BY <1>1, <1>2

-----------------------------------------------------------------------------
(* Type correctness.                                                       *)

LEMMA EventTypes ==
  /\ Reply \in EventsOf /\ SendRetained \in EventsOf /\ Disconnect \in EventsOf
  /\ \A n \in Positions : \A i \in 0 .. MaxPacketId : Queued(n, i) \in EventsOf
  /\ \A e \in EventsOf : e.e = "publish" => e.n \in Positions
  /\ \A e \in EventsOf : e.n \in Positions \cup {0} /\ (e.e # "publish" => e.n = 0)
BY DEF EventsOf, Reply, SendRetained, Disconnect, Queued, Event

LEMMA EventsGrow ==
  ASSUME Positions \subseteq Positions'
  PROVE  /\ \A q \in Seq(EventsOf) : q \in Seq(EventsOf')
         /\ \A q \in Seq(Positions) : q \in Seq(Positions')
<1>1. EventsOf \subseteq EventsOf'
  BY DEF EventsOf
<1>2. QED
  BY <1>1, SeqMonotonic

\* The offline messages as events without an identifier.
LEMMA WaitingType ==
  ASSUME TypeOK, NEW s \in Conns
  PROVE  LET waiting == [k \in DOMAIN offline[s] |-> Queued(offline[s][k], 0)]
         IN /\ waiting \in Seq(EventsOf) /\ Len(waiting) = Len(offline[s])
            /\ \A k \in 1 .. Len(offline[s]) : waiting[k] = Queued(offline[s][k], 0)
<1> DEFINE off == offline[s]
           waiting == [k \in DOMAIN off |-> Queued(off[k], 0)]
<1>1. off \in Seq(Positions)
  BY DEF TypeOK
<1>2. Len(off) \in Nat /\ DOMAIN off = 1 .. Len(off) /\ \A k \in 1 .. Len(off) : off[k] \in Positions
  BY <1>1, LenProperties, ElementOfSeq
<1>3. \A k \in 1 .. Len(off) : Queued(off[k], 0) \in EventsOf
  BY <1>2, EventTypes, BoundsAssumption
<1>4. waiting \in [1 .. Len(off) -> EventsOf]
  BY <1>2, <1>3
<1>5. waiting \in Seq(EventsOf)
  BY <1>2, <1>4
<1>6. DOMAIN waiting = 1 .. Len(waiting) /\ Len(waiting) \in Nat
  BY <1>5, LenProperties
<1>7. Len(waiting) = Len(off)
  BY <1>2, <1>6
<1>8. QED
  BY <1>2, <1>5, <1>7

LEMMA PrepareType ==
  ASSUME TypeOK, NEW s \in Conns, NEW n \in Positions', Positions \subseteq Positions', cast' \in Seq(Pubs)
  PROVE  /\ Prepare(s, n).push \in Seq(EventsOf')
         /\ Prepare(s, n).offline \in Seq(Positions')
         /\ Prepare(s, n).used \in SUBSET PacketIds
<1> DEFINE waiting == [k \in DOMAIN offline[s] |-> Queued(offline[s][k], 0)]
           i == AcquireId(used[s])
<1>1. waiting \in Seq(EventsOf') /\ offline[s] \in Seq(Positions') /\ used[s] \in SUBSET PacketIds
  BY WaitingType, EventsGrow DEF TypeOK
<1>2. \A j \in 0 .. MaxPacketId : Queued(n, j) \in EventsOf'
  BY DEF Queued, Event, EventsOf
<1>3. i \in PacketIds \cup {0} /\ i \in 0 .. MaxPacketId /\ 0 \in 0 .. MaxPacketId
  BY <1>1, AcquireIdIsFree, BoundsAssumption DEF PacketIds
<1>4. Append(offline[s], n) \in Seq(Positions') /\ <<n>> \in Seq(Positions') /\ <<>> \in Seq(Positions')
  BY <1>1, AppendProperties
<1>5. /\ Append(waiting, Queued(n, 0)) \in Seq(EventsOf') /\ <<Queued(n, 0)>> \in Seq(EventsOf')
      /\ <<Queued(n, i)>> \in Seq(EventsOf') /\ <<>> \in Seq(EventsOf')
  BY <1>1, <1>2, <1>3, AppendProperties
<1> HIDE DEF waiting, i
<1>6. i # 0 => used[s] \cup {i} \in SUBSET PacketIds
  BY <1>1, <1>3
<1>7. Prepare(s, n) =
        IF ~IsStarted(s) THEN Outbox(<<>>, Append(offline[s], n), used[s])
        ELSE IF offline[s] # <<>> THEN Outbox(Append(waiting, Queued(n, 0)), <<>>, used[s])
        ELSE IF qos[cast'[n]] = 0 THEN Outbox(<<Queued(n, 0)>>, <<>>, used[s])
        ELSE IF i = 0 THEN Outbox(<<>>, <<n>>, used[s])
        ELSE Outbox(<<Queued(n, i)>>, <<>>, used[s] \cup {i})
  BY DEF Prepare, waiting, i
<1>8. QED
  BY <1>1, <1>4, <1>5, <1>6, <1>7 DEF Outbox

\* The types of the sessions of the subscriber.
SessionTypes ==
  /\ state \in [Conns -> {"none", "started", "stopping", "closed", "destroyed"}]
  /\ link \in [Conns -> {"up", "down"}]
  /\ events \in [Conns -> Seq(EventsOf)]
  /\ offline \in [Conns -> Seq(Positions)] /\ got \in [Conns -> Seq(Positions)]
  /\ used \in [Conns -> SUBSET PacketIds]

LEMMA DeliverType ==
  ASSUME TypeOK, NEW S, NEW n \in Positions', Positions \subseteq Positions', cast' \in Seq(Pubs),
         Deliver(S, n)
  PROVE  SessionTypes'
<1>1. \A s \in Conns : events'[s] \in Seq(EventsOf')
  <2> SUFFICES ASSUME NEW s \in Conns PROVE events'[s] \in Seq(EventsOf')
    OBVIOUS
  <2>1. events[s] \in Seq(EventsOf')
    BY EventsGrow DEF TypeOK
  <2>2. events[s] \o Prepare(s, n).push \in Seq(EventsOf')
    BY <2>1, PrepareType, ConcatProperties
  <2>3. QED
    BY <2>1, <2>2 DEF Deliver
<1>2. \A s \in Conns : offline'[s] \in Seq(Positions')
  BY PrepareType, EventsGrow DEF Deliver, TypeOK
<1>3. \A s \in Conns : used'[s] \in SUBSET PacketIds
  BY PrepareType DEF Deliver, TypeOK
<1>4. \A s \in Conns : got'[s] \in Seq(Positions')
  BY EventsGrow DEF Deliver, TypeOK
<1>5. events' \in [Conns -> Seq(EventsOf')] /\ used' \in [Conns -> SUBSET PacketIds]
  BY <1>1, <1>3 DEF Deliver
<1>6. state' \in [Conns -> {"none", "started", "stopping", "closed", "destroyed"}]
      /\ link' \in [Conns -> {"up", "down"}]
  BY DEF Deliver, TypeOK
<1>7. offline' \in [Conns -> Seq(Positions')] /\ got' \in [Conns -> Seq(Positions')]
  BY <1>2, <1>4 DEF Deliver, TypeOK
<1>8. QED
  BY <1>5, <1>6, <1>7 DEF SessionTypes

\* A message that is multicast has the next position.
LEMMA CastGrows ==
  ASSUME TypeOK, NEW m \in Pubs, cast' = Append(cast, m)
  PROVE  /\ cast' \in Seq(Pubs) /\ Len(cast') = Len(cast) + 1 /\ Len(cast) \in Nat
         /\ Positions = 1 .. Len(cast) /\ Positions' = 1 .. Len(cast')
         /\ Positions \subseteq Positions' /\ Len(cast') \in Positions'
         /\ cast'[Len(cast')] = m /\ \A n \in Positions : cast'[n] = cast[n]
<1>1. cast \in Seq(Pubs)
  BY DEF TypeOK
<1>2. cast' \in Seq(Pubs) /\ Len(cast') = Len(cast) + 1 /\ cast'[Len(cast) + 1] = m
      /\ \A n \in 1 .. Len(cast) : cast'[n] = cast[n]
  BY <1>1, AppendProperties
<1>3. /\ DOMAIN cast = 1 .. Len(cast) /\ Len(cast) \in Nat
      /\ DOMAIN cast' = 1 .. Len(cast')
  BY <1>1, <1>2, LenProperties
<1>4. QED
  BY <1>1, <1>2, <1>3 DEF Positions

LEMMA SessionsKeepType ==
  ASSUME TypeOK, Positions \subseteq Positions', UNCHANGED sessions
  PROVE  SessionTypes'
BY EventsGrow DEF TypeOK, SessionTypes, sessions

LEMMA MulticastType ==
  ASSUME TypeOK, NEW m \in Pubs, Multicast(m)
  PROVE  /\ cast' \in Seq(Pubs) /\ Positions \subseteq Positions'
         /\ retained' \in SUBSET Positions' /\ SessionTypes' /\ adrift' \in BOOLEAN
<1>1. cast' \in Seq(Pubs) /\ Positions \subseteq Positions' /\ Len(cast') \in Positions'
  BY CastGrows DEF Multicast
<1>2. retained' \in SUBSET Positions'
  BY <1>1 DEF Multicast, TypeOK
<1>3. adrift' \in BOOLEAN
  BY DEF Multicast, TypeOK
<1>4. UNCHANGED sessions \/ Deliver({e.at : e \in subs}, Len(cast'))
  BY DEF Multicast
<1>5. SessionTypes'
  BY <1>1, <1>4, SessionsKeepType, DeliverType
<1>6. QED
  BY <1>1, <1>2, <1>3, <1>5

\* A message with a QoS has an identifier.
Identified == \A m \in Pubs : qos[m] > 0 => id[m] # 0

Answers == PacketsOf({"cast", "puback", "pubrec", "pubcomp"})

\* The variables of the publisher and of its session have their types.
PublisherTypes ==
  /\ qos \in [Pubs -> 0 .. 2] /\ keep \in [Pubs -> {"no", "store", "erase"}]
  /\ id \in [Pubs -> 0 .. MaxPubs]
  /\ flow \in [Pubs -> {"new", "sent", "released", "done"}] /\ resends \in 0 .. MaxResends
  /\ toBroker \in Seq(PacketsOf({"publish", "pubrel"}))
PubSideTypes ==
  /\ processed \subseteq 1 .. MaxPubs /\ pubEvents \in Seq(Answers)
  /\ cast \in Seq(Pubs) /\ retained \subseteq Positions /\ adrift \in BOOLEAN
MapTypes ==
  /\ mqttid \subseteq [at : Conns, key : Conns] /\ subs \subseteq [at : Conns, key : Conns]
  /\ since \in [Conns -> Nat]

LEMMA TypeParts == TypeOK <=> PublisherTypes /\ PubSideTypes /\ MapTypes /\ SessionTypes
BY DEF TypeOK, PublisherTypes, PubSideTypes, MapTypes, SessionTypes, Answers

LEMMA PutType ==
  ASSUME NEW map \in SUBSET [at : Conns, key : Conns], NEW hit \in SUBSET map, NEW s \in Conns
  PROVE  Put(map, hit, s) \in SUBSET [at : Conns, key : Conns]
BY DEF Put

LEMMA FindsSubset == \A map : \A hit \in Finds(map) : hit \in SUBSET map
BY DEF Finds

LEMMA PublishType ==
  ASSUME TypeOK, NEW m \in Pubs, Publish(m)
  PROVE  PublisherTypes'
<1>1. PICK kind \in Kinds[m], i \in (1 .. MaxPubs) \ Taken :
        /\ qos' = [qos EXCEPT ![m] = kind[1]] /\ keep' = [keep EXCEPT ![m] = kind[2]]
        /\ id' = [id EXCEPT ![m] = IF kind[1] = 0 THEN 0 ELSE i]
        /\ flow' = [flow EXCEPT ![m] = IF kind[1] = 0 THEN "done" ELSE "sent"]
  BY DEF Publish
<1>2. kind[1] \in 0 .. 2 /\ kind[2] \in {"no", "store", "erase"}
  BY <1>1, KindsAssumption DEF Pubs
<1>3. Packet("publish", m) \in PacketsOf({"publish", "pubrel"})
  BY DEF Packet, PacketsOf
<1>4. toBroker' \in Seq(PacketsOf({"publish", "pubrel"}))
  BY <1>3, AppendProperties DEF Publish, TypeOK
<1>5. QED
  BY <1>1, <1>2, <1>4, BoundsAssumption DEF PublisherTypes, TypeOK, Publish

LEMMA PushPublishedType ==
  ASSUME TypeOK, NEW m \in Pubs, NEW answer \in Seq(Answers), PushPublished(m, answer)
  PROVE  /\ pubEvents' \in Seq(Answers) /\ cast' \in Seq(Pubs) /\ retained' \in SUBSET Positions'
         /\ adrift' \in BOOLEAN /\ SessionTypes' /\ Positions \subseteq Positions'
<1>1. pubEvents \in Seq(Answers)
  BY DEF TypeOK, Answers
<1>2. Cast(m) \in Answers
  BY DEF Cast, Packet, Answers, PacketsOf
<1>3. CASE pubEvents = <<>>
  BY <1>3, MulticastType DEF PushPublished
<1>4. CASE pubEvents # <<>>
  <2>1. Append(pubEvents, Cast(m)) \o answer \in Seq(Answers)
    BY <1>1, <1>2, AppendProperties, ConcatProperties
  <2>2. Positions' = Positions /\ UNCHANGED sessions
    BY <1>4 DEF PushPublished, Positions
  <2>3. SessionTypes'
    BY <2>2, SessionsKeepType
  <2>4. QED
    BY <1>4, <2>1, <2>2, <2>3 DEF PushPublished, TypeOK
<1>5. QED
  BY <1>3, <1>4

\* The first packet on its way to the broker, and the first event of the session.
LEMMA HeadTypes ==
  ASSUME TypeOK
  PROVE  /\ toBroker # <<>> => /\ Head(toBroker).m \in Pubs
                               /\ Tail(toBroker) \in Seq(PacketsOf({"publish", "pubrel"}))
         /\ pubEvents # <<>> => Head(pubEvents) \in Answers /\ Tail(pubEvents) \in Seq(Answers)
         /\ \A e \in Answers : e.m \in Pubs
<1>1. toBroker \in Seq(PacketsOf({"publish", "pubrel"})) /\ pubEvents \in Seq(Answers)
  BY DEF TypeOK, Answers
<1>2. toBroker # <<>> => /\ Head(toBroker) \in PacketsOf({"publish", "pubrel"})
                         /\ Tail(toBroker) \in Seq(PacketsOf({"publish", "pubrel"}))
  BY <1>1, HeadTailProperties
<1>3. pubEvents # <<>> => Head(pubEvents) \in Answers /\ Tail(pubEvents) \in Seq(Answers)
  BY <1>1, HeadTailProperties
<1>4. QED
  BY <1>2, <1>3 DEF PacketsOf, Answers

LEMMA AnswerTypes ==
  ASSUME NEW m \in Pubs
  PROVE  /\ \A p \in {"puback", "pubrec", "pubcomp"} : <<Answer(p, m)>> \in Seq(Answers)
         /\ \A p \in {"puback", "pubrec", "pubcomp"} : \A q \in Seq(Answers) :
              Append(q, Answer(p, m)) \in Seq(Answers)
         /\ Packet("pubrel", m) \in PacketsOf({"publish", "pubrel"})
         /\ <<>> \in Seq(Answers)
<1>1. \A p \in {"puback", "pubrec", "pubcomp"} : Answer(p, m) \in Answers
  BY DEF Answer, Packet, Answers, PacketsOf
<1>2. Packet("pubrel", m) \in PacketsOf({"publish", "pubrel"})
  BY DEF Packet, PacketsOf
<1>3. QED
  BY <1>1, <1>2, AppendProperties

LEMMA HandlePublishType ==
  ASSUME TypeOK, Identified, HandlePublish
  PROVE  PubSideTypes' /\ SessionTypes'
<1> DEFINE m == Head(toBroker).m
<1>1. m \in Pubs /\ pubEvents \in Seq(Answers)
  BY HeadTypes DEF HandlePublish, TypeOK, Answers
<1>2. processed' \subseteq 1 .. MaxPubs
  <2>1. processed' = processed \/ (qos[m] = 2 /\ processed' = processed \cup {id[m]})
    BY DEF HandlePublish
  <2>2. qos[m] = 2 => id[m] \in 1 .. MaxPubs
    BY <1>1, BoundsAssumption DEF Identified, TypeOK
  <2>3. QED
    BY <2>1, <2>2 DEF TypeOK
<1>3. CASE qos[m] = 0 /\ PushPublished(m, <<>>)
  BY <1>1, <1>2, <1>3, AnswerTypes, PushPublishedType DEF PubSideTypes
<1>4. CASE qos[m] = 1 /\ PushPublished(m, <<Answer("puback", m)>>)
  BY <1>1, <1>2, <1>4, AnswerTypes, PushPublishedType DEF PubSideTypes
<1>5. CASE qos[m] = 2 /\ PushPublished(m, <<Answer("pubrec", m)>>)
  BY <1>1, <1>2, <1>5, AnswerTypes, PushPublishedType DEF PubSideTypes
<1>6. CASE pubEvents' = Append(pubEvents, Answer("pubrec", m))
           /\ UNCHANGED <<processed, cast, retained, sessions, adrift>>
  <2>1. pubEvents' \in Seq(Answers)
    BY <1>1, <1>6, AnswerTypes
  <2>2. Positions' = Positions
    BY <1>6 DEF Positions
  <2>3. SessionTypes'
    BY <1>6, <2>2, SessionsKeepType
  <2>4. QED
    BY <1>2, <1>6, <2>1, <2>2, <2>3 DEF PubSideTypes, TypeOK
<1>7. QED
  BY <1>3, <1>4, <1>5, <1>6 DEF HandlePublish

LEMMA CastStays ==
  ASSUME UNCHANGED cast
  PROVE  Positions' = Positions /\ EventsOf' = EventsOf
BY DEF Positions, EventsOf

LEMMA SequencesOfEvents ==
  /\ <<>> \in Seq(EventsOf) /\ <<Reply>> \in Seq(EventsOf) /\ <<Reply, Disconnect>> \in Seq(EventsOf)
  /\ <<SendRetained, Reply>> \in Seq(EventsOf)
  /\ \A q, r \in Seq(EventsOf) : q \o r \in Seq(EventsOf)
  /\ \A q \in Seq(EventsOf) : q # <<>> => Head(q) \in EventsOf /\ Tail(q) \in Seq(EventsOf)
BY EventTypes, ConcatProperties, HeadTailProperties

LEMMA DeliverRetainedType ==
  ASSUME TypeOK, NEW s \in Conns, NEW hit \in FindsRetained, NEW rest \in Seq(EventsOf),
         UNCHANGED <<cast, state, link, got>>, DeliverRetained(s, hit, rest)
  PROVE  SessionTypes'
<1> DEFINE out == IF hit = {} THEN Outbox(<<>>, offline[s], used[s])
                  ELSE Prepare(s, CHOOSE n \in hit : TRUE)
           waiting == IF events[s] = <<>> THEN <<>> ELSE Tail(events[s])
<1>1. Positions' = Positions /\ EventsOf' = EventsOf
  BY CastStays
<1>2. hit # {} => (CHOOSE n \in hit : TRUE) \in Positions'
  BY <1>1 DEF FindsRetained, TypeOK
<1>3. cast' \in Seq(Pubs)
  BY DEF TypeOK
<1>4. out.push \in Seq(EventsOf) /\ out.offline \in Seq(Positions) /\ out.used \in SUBSET PacketIds
  <2>1. CASE hit = {}
    BY <2>1 DEF Outbox, TypeOK
  <2>2. CASE hit # {}
    BY <1>1, <1>2, <1>3, <2>2, PrepareType
  <2>3. QED
    BY <2>1, <2>2
<1>5. waiting \in Seq(EventsOf)
  BY SequencesOfEvents DEF TypeOK
<1> HIDE DEF waiting, out
<1>6. waiting \o out.push \o rest \in Seq(EventsOf)
  BY <1>4, <1>5, SequencesOfEvents
<1>7. /\ events' = [events EXCEPT ![s] = waiting \o out.push \o rest]
      /\ offline' = [offline EXCEPT ![s] = out.offline] /\ used' = [used EXCEPT ![s] = out.used]
  BY DEF DeliverRetained, out, waiting
<1>8. events' \in [Conns -> Seq(EventsOf')] /\ used' \in [Conns -> SUBSET PacketIds]
  BY <1>1, <1>4, <1>6, <1>7 DEF TypeOK
<1>9. offline' \in [Conns -> Seq(Positions')] /\ got' \in [Conns -> Seq(Positions')]
  BY <1>1, <1>4, <1>7 DEF TypeOK
<1>10. QED
  BY <1>8, <1>9 DEF SessionTypes, TypeOK

LEMMA ConnectType ==
  ASSUME TypeOK, NEW s \in Conns, Connect(s)
  PROVE  SessionTypes' /\ MapTypes'
<1>1. Positions' = Positions /\ EventsOf' = EventsOf
  BY CastStays DEF Connect
<1>2. PICK hit \in Finds(mqttid) :
        LET old == {e.at : e \in hit}
        IN /\ mqttid' = Put(mqttid, hit, s)
           /\ state' = [r \in Conns |-> IF r = s THEN "started"
                                        ELSE IF r \in old /\ IsStarted(r) THEN "stopping" ELSE state[r]]
           /\ events' = [r \in Conns |-> IF r = s THEN <<Reply>>
                                         ELSE IF r \in old /\ IsStarted(r)
                                              THEN events[r] \o <<Reply, Disconnect>> ELSE events[r]]
  BY DEF Connect
<1>3. \A r \in Conns : events[r] \in Seq(EventsOf) /\ events'[r] \in Seq(EventsOf)
  BY <1>2, SequencesOfEvents DEF TypeOK
<1>4. events' \in [Conns -> Seq(EventsOf')]
  BY <1>1, <1>2, <1>3
<1>5. state' \in [Conns -> {"none", "started", "stopping", "closed", "destroyed"}]
      /\ link' \in [Conns -> {"up", "down"}]
  BY <1>2 DEF Connect, TypeOK
<1>6. SessionTypes'
  BY <1>1, <1>4, <1>5 DEF SessionTypes, TypeOK, Connect
<1>7. mqttid' \in SUBSET [at : Conns, key : Conns]
  BY <1>2, PutType, FindsSubset DEF TypeOK
<1>8. QED
  BY <1>6, <1>7 DEF MapTypes, TypeOK, Connect

LEMMA SubscribeType ==
  ASSUME TypeOK, NEW s \in Conns, Subscribe(s)
  PROVE  SessionTypes' /\ MapTypes'
<1>1. Positions' = Positions /\ EventsOf' = EventsOf /\ Len(cast) \in Nat
  BY CastStays, LenProperties DEF Subscribe, Reads, TypeOK
<1>2. subs' \in SUBSET [at : Conns, key : Conns]
  BY PutType, FindsSubset DEF TypeOK, Subscribe, Reads
<1>3. MapTypes'
  BY <1>1, <1>2 DEF MapTypes, TypeOK, Subscribe, Reads
<1>4. CASE events[s] # <<>>
  <2>1. events' \in [Conns -> Seq(EventsOf')]
    <3>1. events' = [events EXCEPT ![s] = @ \o <<SendRetained, Reply>>]
      BY <1>4 DEF Subscribe, Reads
    <3>2. events[s] \o <<SendRetained, Reply>> \in Seq(EventsOf)
      BY SequencesOfEvents DEF TypeOK
    <3>3. QED
      BY <1>1, <3>1, <3>2 DEF TypeOK
  <2>2. SessionTypes'
    BY <1>1, <1>4, <2>1 DEF SessionTypes, TypeOK, Subscribe, Reads
  <2>3. QED
    BY <1>3, <2>2
<1>5. CASE events[s] = <<>>
  BY <1>3, <1>5, SequencesOfEvents, DeliverRetainedType DEF Subscribe, Reads
<1>6. QED
  BY <1>4, <1>5

LEMMA SubscriberType ==
  ASSUME TypeOK, NEW s \in Conns, Unsubscribe(s) \/ SubscriberSession(s)
  PROVE  SessionTypes' /\ MapTypes'
<1>1. Positions' = Positions /\ EventsOf' = EventsOf
  BY CastStays DEF Unsubscribe, Reads, SubscriberSession, RunRetained, WriteEnds, WriteFails, ReadFails, Close, Destroy
<1>2. events[s] \in Seq(EventsOf) /\ offline[s] \in Seq(Positions) /\ got[s] \in Seq(Positions)
  BY DEF TypeOK
<1>3. events[s] # <<>> => /\ Head(events[s]) \in EventsOf /\ Tail(events[s]) \in Seq(EventsOf)
                          /\ Head(events[s]).e = "publish" => Head(events[s]).n \in Positions
  BY <1>2, SequencesOfEvents, EventTypes
<1>4. CASE Unsubscribe(s)
  <2>1. events' \in [Conns -> Seq(EventsOf')]
    BY <1>1, <1>4, SequencesOfEvents DEF TypeOK, Unsubscribe, Reads
  <2>2. subs' \in SUBSET [at : Conns, key : Conns]
    BY <1>4 DEF TypeOK, Unsubscribe, Reads
  <2>3. QED
    BY <1>1, <1>4, <2>1, <2>2 DEF SessionTypes, MapTypes, TypeOK, Unsubscribe, Reads
<1>5. CASE RunRetained(s)
  BY <1>5, SequencesOfEvents, DeliverRetainedType DEF RunRetained, MapTypes, TypeOK, maps
<1>6. CASE WriteEnds(s)
  <2>1. events' \in [Conns -> Seq(EventsOf')]
    BY <1>1, <1>3, <1>6 DEF TypeOK, WriteEnds
  <2>2. \A r \in Conns : got'[r] \in Seq(Positions')
    BY <1>1, <1>2, <1>3, <1>6, AppendProperties DEF TypeOK, WriteEnds
  <2>3. QED
    BY <1>1, <1>6, <2>1, <2>2 DEF SessionTypes, MapTypes, TypeOK, WriteEnds, maps
<1>7. CASE WriteFails(s)
  <2>1. Tail(events[s]) \o (IF IsStarted(s) THEN <<Reply, Disconnect>> ELSE <<>>) \in Seq(EventsOf)
    BY <1>3, <1>7, SequencesOfEvents DEF WriteFails
  <2>2. events' \in [Conns -> Seq(EventsOf')]
    BY <1>1, <1>7, <2>1 DEF TypeOK, WriteFails
  <2>3. \A r \in Conns : offline'[r] \in Seq(Positions')
    BY <1>1, <1>2, <1>3, <1>7, AppendProperties DEF TypeOK, WriteFails
  <2>4. state' \in [Conns -> {"none", "started", "stopping", "closed", "destroyed"}]
        /\ link' \in [Conns -> {"up", "down"}]
    BY <1>7 DEF WriteFails, TypeOK
  <2>5. QED
    BY <1>1, <1>7, <2>2, <2>3, <2>4 DEF SessionTypes, MapTypes, TypeOK, WriteFails, maps
<1>8. CASE ReadFails(s)
  <2>1. events' \in [Conns -> Seq(EventsOf')]
    BY <1>1, <1>8, SequencesOfEvents DEF TypeOK, ReadFails
  <2>2. QED
    BY <1>1, <1>8, <2>1 DEF SessionTypes, MapTypes, TypeOK, ReadFails, maps
<1>9. CASE Close(s)
  <2>1. events' \in [Conns -> Seq(EventsOf')]
    BY <1>1, <1>3, <1>9 DEF TypeOK, Close
  <2>2. mqttid' \in SUBSET [at : Conns, key : Conns]
    BY <1>9 DEF TypeOK, Close
  <2>3. QED
    BY <1>1, <1>9, <2>1, <2>2 DEF SessionTypes, MapTypes, TypeOK, Close
<1>10. CASE Destroy(s)
  <2>1. \A r \in Conns : offline'[r] \in Seq(Positions') /\ got'[r] \in Seq(Positions')
    BY <1>1, <1>10 DEF TypeOK, Destroy
  <2>2. used' \in [Conns -> SUBSET PacketIds] /\ since' \in [Conns -> Nat]
    BY <1>10 DEF TypeOK, Destroy
  <2>3. QED
    BY <1>1, <1>10, <2>1, <2>2 DEF SessionTypes, MapTypes, TypeOK, Destroy, maps
<1>11. QED
  BY <1>4, <1>5, <1>6, <1>7, <1>8, <1>9, <1>10 DEF SubscriberSession

LEMMA AnswerSentType ==
  ASSUME TypeOK, AnswerSent
  PROVE  PublisherTypes' /\ PubSideTypes'
<1> DEFINE m == Head(pubEvents).m
<1>1. m \in Pubs /\ pubEvents' \in Seq(Answers)
  BY HeadTypes DEF AnswerSent
<1>2. Append(toBroker, Packet("pubrel", m)) \in Seq(PacketsOf({"publish", "pubrel"}))
  BY <1>1, AnswerTypes, AppendProperties DEF TypeOK
<1>3. toBroker' \in Seq(PacketsOf({"publish", "pubrel"}))
  BY <1>2 DEF AnswerSent, TypeOK
<1>4. flow' \in [Pubs -> {"new", "sent", "released", "done"}]
  BY <1>1 DEF AnswerSent, TypeOK
<1>5. Positions' = Positions
  BY CastStays DEF AnswerSent
<1>6. QED
  BY <1>1, <1>3, <1>4, <1>5 DEF PublisherTypes, PubSideTypes, TypeOK, AnswerSent

LEMMA TypeStep == TypeOK /\ Identified /\ [Next]_vars => TypeOK'
<1> SUFFICES ASSUME TypeOK, Identified, [Next]_vars PROVE TypeOK'
  OBVIOUS
<1>parts. PublisherTypes /\ PubSideTypes /\ MapTypes /\ SessionTypes
  BY TypeParts
<1>goal. PublisherTypes' /\ PubSideTypes' /\ MapTypes' /\ SessionTypes' => TypeOK'
  BY TypeParts DEF TypeOK, PublisherTypes, PubSideTypes, MapTypes, SessionTypes, Answers
<1>stay1. UNCHANGED publisher => PublisherTypes'
  BY <1>parts DEF PublisherTypes, publisher
<1>stay2. UNCHANGED <<pubSide, cast, retained, adrift>> => PubSideTypes'
  BY <1>parts, CastStays DEF PubSideTypes, pubSide
<1>stay3. UNCHANGED <<maps, since>> => MapTypes'
  BY <1>parts DEF MapTypes, maps
<1>stay4. UNCHANGED <<cast, sessions>> => SessionTypes'
  BY SessionsKeepType, CastStays
<1>1. CASE UNCHANGED vars
  BY <1>1, <1>goal, <1>stay1, <1>stay2, <1>stay3, <1>stay4 DEF vars
<1>2. CASE Publishes
  <2>1. PICK m \in Pubs : Publish(m) \/ Resend(m)
    BY <1>2 DEF Publishes
  <2>2. UNCHANGED <<pubSide, cast, retained, sessions, since, maps, adrift>>
    BY <2>1 DEF Publish, Resend
  <2>3. Resend(m) => PublisherTypes'
    <3>1. Packet("publish", m) \in PacketsOf({"publish", "pubrel"})
      BY DEF Packet, PacketsOf
    <3>2. Append(toBroker, Packet("publish", m)) \in Seq(PacketsOf({"publish", "pubrel"}))
      BY <3>1, AppendProperties DEF TypeOK
    <3>3. QED
      BY <3>2, BoundsAssumption DEF Resend, PublisherTypes, TypeOK
  <2>4. QED
    BY <1>goal, <1>stay2, <1>stay3, <1>stay4, <2>1, <2>2, <2>3, PublishType
<1>3. CASE HandlePublish
  <2>1. PublisherTypes'
    BY <1>3, HeadTypes DEF HandlePublish, PublisherTypes, TypeOK
  <2>2. MapTypes'
    BY <1>3, <1>stay3 DEF HandlePublish
  <2>3. QED
    BY <1>3, <1>goal, <2>1, <2>2, HandlePublishType
<1>4. CASE HandlePubrel
  <2>1. PublisherTypes'
    BY <1>4, HeadTypes DEF HandlePubrel, PublisherTypes, TypeOK
  <2>2. pubEvents' \in Seq(Answers)
    BY <1>4, HeadTypes, AnswerTypes DEF HandlePubrel, TypeOK, Answers
  <2>3. PubSideTypes'
    BY <1>4, <2>2, CastStays DEF HandlePubrel, PubSideTypes, TypeOK
  <2>4. QED
    BY <1>4, <1>goal, <1>stay3, <1>stay4, <2>1, <2>3 DEF HandlePubrel
<1>5. CASE AnswerSent
  BY <1>5, <1>goal, <1>stay3, <1>stay4, AnswerSentType DEF AnswerSent
<1>6. CASE RunCast
  <2>1. Head(pubEvents).m \in Pubs /\ pubEvents' \in Seq(Answers)
    BY <1>6, HeadTypes DEF RunCast
  <2>2. PubSideTypes' /\ SessionTypes'
    BY <1>6, <2>1, MulticastType DEF RunCast, PubSideTypes, TypeOK
  <2>3. QED
    BY <1>6, <1>goal, <1>stay1, <1>stay3, <2>2 DEF RunCast
<1>7. CASE \E s \in Conns : Requests(s) \/ SubscriberSession(s)
  <2>1. PICK s \in Conns : Requests(s) \/ SubscriberSession(s)
    BY <1>7
  <2>2. SessionTypes' /\ MapTypes'
    BY <2>1, ConnectType, SubscribeType, SubscriberType DEF Requests
  <2>3. UNCHANGED <<publisher, pubSide, cast, retained, adrift>>
    BY <2>1 DEF Requests, SubscriberSession, Connect, Subscribe, Reads, Unsubscribe, RunRetained, WriteEnds,
                WriteFails, ReadFails, Close, Destroy
  <2>4. QED
    BY <1>goal, <1>stay1, <1>stay2, <2>2, <2>3
<1>8. QED
  BY <1>1, <1>2, <1>3, <1>4, <1>5, <1>6, <1>7 DEF Next, PublisherSession

-----------------------------------------------------------------------------
(* A message of QoS 2 is multicast once.  It has at most one place: among  *)
(* those that were multicast, or among the events of its session; and once *)
(* it has one, its identifier is among those that were processed.          *)

IsCast(m) == \E n \in Positions : cast[n] = m
IsQueued(m) == \E k \in DOMAIN pubEvents : pubEvents[k] = Cast(m)
CastTwice(m) == \E i, j \in Positions : i # j /\ cast[i] = m /\ cast[j] = m
QueuedTwice(m) ==
  \E i, j \in DOMAIN pubEvents : i # j /\ pubEvents[i] = Cast(m) /\ pubEvents[j] = Cast(m)

\* A message that was not published is nowhere.
Unseen(m) ==
  /\ qos[m] = 0 /\ ~IsCast(m)
  /\ \A k \in DOMAIN toBroker : toBroker[k].m # m
  /\ \A k \in DOMAIN pubEvents : pubEvents[k].m # m

Once(m) == ~CastTwice(m) /\ ~QueuedTwice(m) /\ ~(IsCast(m) /\ IsQueued(m))

Exchange ==
  \A m \in Pubs :
    /\ flow[m] = "new" => Unseen(m)
    /\ qos[m] = 2 => Once(m) /\ (IsCast(m) \/ IsQueued(m) => id[m] \in processed)

LEMMA AtMostOneElement ==
  ASSUME NEW n \in Nat, NEW S \in SUBSET (1 .. n), \A i, j \in S : i = j
  PROVE  Cardinality(S) = IF S = {} THEN 0 ELSE 1
<1>1. IsFiniteSet(S)
  <2>1. IsFiniteSet(1 .. n)
    BY FS_Interval
  <2>2. QED
    BY <2>1, FS_Subset
<1>2. CASE S = {}
  BY <1>2, FS_EmptySet
<1>3. CASE S # {}
  <2>1. PICK i \in S : S = {i}
    BY <1>3
  <2>2. QED
    BY <1>3, <2>1, FS_Singleton
<1>4. QED
  BY <1>2, <1>3

LEMMA ExchangeImpliesCastOnce == TypeOK /\ Exchange => CastOnce
<1> SUFFICES ASSUME TypeOK, Exchange, NEW m \in Pubs, qos[m] = 2 PROVE Times(m) <= 1
  BY DEF CastOnce
<1> DEFINE P == {n \in Positions : cast[n] = m}
           Q == {n \in DOMAIN pubEvents : pubEvents[n] = Cast(m)}
<1>1. /\ Positions = 1 .. Len(cast) /\ Len(cast) \in Nat
      /\ DOMAIN pubEvents = 1 .. Len(pubEvents) /\ Len(pubEvents) \in Nat
  BY LenProperties DEF TypeOK, Positions
<1>2. Once(m)
  BY DEF Exchange
<1>3. (\A i, j \in P : i = j) /\ (\A i, j \in Q : i = j) /\ (P = {} \/ Q = {})
  BY <1>2 DEF Once, IsCast, IsQueued, CastTwice, QueuedTwice
<1>4. Cardinality(P) = (IF P = {} THEN 0 ELSE 1) /\ Cardinality(Q) = IF Q = {} THEN 0 ELSE 1
  BY <1>1, <1>3, AtMostOneElement
<1>5. QED
  BY <1>3, <1>4 DEF Times

\* What a message more among those that were multicast changes.
LEMMA OneMoreCast ==
  ASSUME TypeOK, NEW m \in Pubs, cast' = Append(cast, m), NEW x \in Pubs
  PROVE  /\ IsCast(x)' <=> IsCast(x) \/ x = m
         /\ CastTwice(x)' => CastTwice(x) \/ (x = m /\ IsCast(x))
<1>1. /\ Positions = 1 .. Len(cast) /\ Positions' = 1 .. Len(cast) + 1 /\ Len(cast) \in Nat
      /\ cast'[Len(cast) + 1] = m /\ \A n \in Positions : cast'[n] = cast[n]
  BY CastGrows
<1>2. QED
  BY <1>1 DEF IsCast, CastTwice

\* What answers behind the events of the session change: nothing.
LEMMA MoreAnswers ==
  ASSUME NEW q \in Seq(Answers), NEW answer \in Seq(Answers),
         \A k \in DOMAIN answer : answer[k].p # "cast",
         NEW x \in Pubs
  PROVE  /\ DOMAIN (q \o answer) = 1 .. Len(q) + Len(answer) /\ DOMAIN q = 1 .. Len(q)
         /\ Len(q) \in Nat /\ Len(answer) \in Nat
         /\ \A k \in 1 .. Len(q) : (q \o answer)[k] = q[k]
         /\ \A k \in Len(q) + 1 .. Len(q) + Len(answer) :
              (q \o answer)[k] = answer[k - Len(q)] /\ (q \o answer)[k] # Cast(x)
<1>1. /\ DOMAIN q = 1 .. Len(q) /\ Len(q) \in Nat
      /\ DOMAIN answer = 1 .. Len(answer) /\ Len(answer) \in Nat
      /\ DOMAIN (q \o answer) = 1 .. Len(q \o answer)
  BY LenProperties, ConcatProperties
<1>2. /\ Len(q \o answer) = Len(q) + Len(answer)
      /\ \A k \in 1 .. Len(q) : (q \o answer)[k] = q[k]
      /\ \A k \in Len(q) + 1 .. Len(q) + Len(answer) : (q \o answer)[k] = answer[k - Len(q)]
  BY <1>1, ConcatProperties
<1>3. \A k \in DOMAIN answer : answer[k] # Cast(x)
  BY DEF Cast, Packet
<1>4. QED
  BY <1>1, <1>2, <1>3

\* The answers to a message.
AnswersTo(answer, m) ==
  answer \in Seq(Answers) /\ \A k \in DOMAIN answer : answer[k].p # "cast" /\ answer[k].m = m

\* What a multicast behind the events of the session changes, or the answers alone.
LEMMA QueuesMore ==
  ASSUME TypeOK, NEW m \in Pubs, NEW answer, AnswersTo(answer, m), NEW x \in Pubs
  PROVE  /\ pubEvents' = pubEvents \o answer
              => (IsQueued(x)' <=> IsQueued(x)) /\ (QueuedTwice(x)' => QueuedTwice(x))
         /\ pubEvents' = Append(pubEvents, Cast(m)) \o answer
              => /\ IsQueued(x)' <=> IsQueued(x) \/ x = m
                 /\ QueuedTwice(x)' => QueuedTwice(x) \/ (x = m /\ IsQueued(x))
         /\ pubEvents' \in {pubEvents \o answer, Append(pubEvents, Cast(m)) \o answer} =>
              \A k \in DOMAIN pubEvents' : pubEvents'[k].m = m \/ \E j \in DOMAIN pubEvents : pubEvents[j] = pubEvents'[k]
<1> DEFINE q == pubEvents
           r == Append(pubEvents, Cast(m))
<1>0. answer \in Seq(Answers) /\ \A k \in DOMAIN answer : answer[k].p # "cast" /\ answer[k].m = m
  BY DEF AnswersTo
<1>1. q \in Seq(Answers) /\ Cast(m) \in Answers /\ Cast(m).m = m /\ (Cast(x) = Cast(m) <=> x = m)
  BY DEF TypeOK, Answers, Cast, Packet, PacketsOf
<1>2. /\ r \in Seq(Answers) /\ Len(r) = Len(q) + 1 /\ r[Len(q) + 1] = Cast(m)
      /\ \A k \in 1 .. Len(q) : r[k] = q[k]
  BY <1>1, AppendProperties
<1>3. DOMAIN answer = 1 .. Len(answer)
  BY <1>0, LenProperties
<1>4. CASE pubEvents' = q \o answer
  <2>0. /\ DOMAIN pubEvents' = 1 .. Len(q) + Len(answer) /\ DOMAIN q = 1 .. Len(q)
        /\ Len(q) \in Nat /\ Len(answer) \in Nat
        /\ \A k \in 1 .. Len(q) : pubEvents'[k] = q[k]
        /\ \A k \in Len(q) + 1 .. Len(q) + Len(answer) : pubEvents'[k] # Cast(x)
    BY <1>0, <1>1, <1>4, MoreAnswers, SMTT(20), ZenonT(20)
  <2>1. (IsQueued(x)' <=> IsQueued(x)) /\ (QueuedTwice(x)' => QueuedTwice(x))
    BY <2>0 DEF IsQueued, QueuedTwice
  <2>2. \A k \in DOMAIN pubEvents' : pubEvents'[k].m = m \/ \E j \in DOMAIN pubEvents : pubEvents[j] = pubEvents'[k]
    BY <1>0, <1>1, <1>3, <1>4, MoreAnswers
  <2>3. pubEvents' # r \o answer
    <3>1. Len(q \o answer) = Len(q) + Len(answer) /\ Len(r \o answer) = Len(r) + Len(answer)
          /\ Len(answer) \in Nat /\ Len(q) \in Nat
      BY <1>0, <1>1, <1>2, ConcatProperties, LenProperties
    <3>2. QED
      BY <1>2, <1>4, <3>1
  <2>4. QED
    BY <1>4, <2>1, <2>2, <2>3
<1>5. CASE pubEvents' = r \o answer
  <2>1. /\ DOMAIN pubEvents' = 1 .. Len(q) + 1 + Len(answer) /\ DOMAIN q = 1 .. Len(q)
        /\ Len(q) \in Nat /\ Len(answer) \in Nat
        /\ \A k \in 1 .. Len(q) : pubEvents'[k] = q[k]
        /\ pubEvents'[Len(q) + 1] = Cast(m)
        /\ \A k \in Len(q) + 2 .. Len(q) + 1 + Len(answer) :
             pubEvents'[k] # Cast(x) /\ pubEvents'[k].m = m
    <3>1. DOMAIN q = 1 .. Len(q) /\ Len(q) \in Nat
      BY <1>1, LenProperties
    <3>2. /\ DOMAIN (r \o answer) = 1 .. Len(r) + Len(answer) /\ Len(answer) \in Nat
          /\ \A k \in 1 .. Len(r) : (r \o answer)[k] = r[k]
          /\ \A k \in Len(r) + 1 .. Len(r) + Len(answer) :
               (r \o answer)[k] = answer[k - Len(r)] /\ (r \o answer)[k] # Cast(x)
      BY <1>0, <1>2, MoreAnswers
    <3>3. \A k \in Len(q) + 2 .. Len(q) + 1 + Len(answer) : k - Len(r) \in DOMAIN answer
      BY <1>2, <1>3, <3>1, <3>2
    <3>4. \A k \in 1 .. Len(q) : (r \o answer)[k] = q[k]
      BY <1>2, <3>1, <3>2
    <3>5. (r \o answer)[Len(q) + 1] = Cast(m)
      BY <1>2, <3>1, <3>2
    <3>6. \A k \in Len(q) + 2 .. Len(q) + 1 + Len(answer) :
            (r \o answer)[k] # Cast(x) /\ (r \o answer)[k].m = m
      BY <1>0, <1>2, <3>1, <3>2, <3>3
    <3>7. QED
      BY <1>2, <1>5, <3>1, <3>2, <3>4, <3>5, <3>6
  <2>2. IsQueued(x)' <=> IsQueued(x) \/ x = m
    BY <1>1, <2>1 DEF IsQueued
  <2>3. QueuedTwice(x)' => QueuedTwice(x) \/ (x = m /\ IsQueued(x))
    BY <1>1, <2>1 DEF IsQueued, QueuedTwice
  <2>4. \A k \in DOMAIN pubEvents' : pubEvents'[k].m = m \/ \E j \in DOMAIN pubEvents : pubEvents[j] = pubEvents'[k]
    BY <1>1, <2>1
  <2>5. pubEvents' # q \o answer
    <3>1. Len(q \o answer) = Len(q) + Len(answer) /\ Len(r \o answer) = Len(r) + Len(answer)
          /\ Len(answer) \in Nat /\ Len(q) \in Nat
      BY <1>0, <1>1, <1>2, ConcatProperties, LenProperties
    <3>2. QED
      BY <1>2, <1>5, <3>1
  <2>6. QED
    BY <1>5, <2>2, <2>3, <2>4, <2>5
<1>6. QED
  BY <1>4, <1>5

\* What the end of the first event of the session changes.
LEMMA QueueMoves ==
  ASSUME TypeOK, pubEvents # <<>>, pubEvents' = Tail(pubEvents), NEW x \in Pubs
  PROVE  /\ IsQueued(x)' => IsQueued(x) /\ (Head(pubEvents) = Cast(x) => QueuedTwice(x))
         /\ QueuedTwice(x)' => QueuedTwice(x)
         /\ \A k \in DOMAIN pubEvents' : \E j \in DOMAIN pubEvents : pubEvents[j] = pubEvents'[k]
         /\ 1 \in DOMAIN pubEvents /\ pubEvents[1] = Head(pubEvents)
<1>1. pubEvents \in Seq(Answers)
  BY DEF TypeOK, Answers
<1>2. /\ DOMAIN pubEvents = 1 .. Len(pubEvents) /\ DOMAIN pubEvents' = 1 .. Len(pubEvents) - 1
      /\ Len(pubEvents) \in Nat \ {0} /\ \A k \in 1 .. Len(pubEvents) - 1 : pubEvents'[k] = pubEvents[k + 1]
      /\ pubEvents[1] = Head(pubEvents)
  BY <1>1, HeadTailProperties, LenProperties, EmptySeq
<1>3. QED
  BY <1>2 DEF IsQueued, QueuedTwice

\* A packet that arrives leaves the others.
LEMMA PacketArrives ==
  ASSUME TypeOK, Exchange, toBroker # <<>>, toBroker' = Tail(toBroker)
  PROVE  /\ \A k \in DOMAIN toBroker' : \E j \in DOMAIN toBroker : toBroker[j] = toBroker'[k]
         /\ Head(toBroker).m \in Pubs /\ flow[Head(toBroker).m] # "new"
<1>1. toBroker \in Seq(PacketsOf({"publish", "pubrel"}))
  BY DEF TypeOK
<1>2. /\ DOMAIN toBroker = 1 .. Len(toBroker) /\ DOMAIN toBroker' = 1 .. Len(toBroker) - 1
      /\ Len(toBroker) \in Nat \ {0} /\ \A k \in 1 .. Len(toBroker) - 1 : toBroker'[k] = toBroker[k + 1]
      /\ toBroker[1] = Head(toBroker)
  BY <1>1, HeadTailProperties, LenProperties, EmptySeq
<1>3. Head(toBroker).m \in Pubs
  BY HeadTypes
<1>4. flow[toBroker[1].m] # "new"
  BY <1>2, <1>3 DEF Exchange, Unseen
<1>5. QED
  BY <1>2, <1>3, <1>4

\* The exchange of message x is right after the step.
Right(x) ==
  /\ flow[x] = "new" => Unseen(x)
  /\ qos[x] = 2 => Once(x) /\ (IsCast(x) \/ IsQueued(x) => id[x] \in processed)

LEMMA RightIsExchange == (Exchange <=> \A x \in Pubs : Right(x)) /\ (Exchange' <=> \A x \in Pubs : Right(x)')
BY DEF Exchange, Right

\* A message whose multicast is pushed, and was not before if its QoS is 2.
LEMMA ExchangePushed ==
  ASSUME TypeOK, Exchange, NEW m \in Pubs, flow[m] # "new", UNCHANGED <<qos, id, flow>>,
         processed \subseteq processed', qos[m] = 2 => id[m] \notin processed /\ id[m] \in processed',
         NEW answer, AnswersTo(answer, m), PushPublished(m, answer),
         \A k \in DOMAIN toBroker' : \E j \in DOMAIN toBroker : toBroker[j] = toBroker'[k]
  PROVE  Exchange'
<1> SUFFICES ASSUME NEW x \in Pubs PROVE Right(x)'
  BY RightIsExchange
<1>0. qos[m] = 2 => ~IsCast(m) /\ ~IsQueued(m)
  BY DEF Exchange
<1>1. CASE pubEvents = <<>>
  <2>1. cast' = Append(cast, m) /\ pubEvents' = answer
    BY <1>1 DEF PushPublished, Multicast
  <2>2. pubEvents' = pubEvents \o answer
    BY <1>1, <2>1, ConcatEmptySeq DEF AnswersTo
  <2>3. /\ IsCast(x)' <=> IsCast(x) \/ x = m
        /\ CastTwice(x)' => CastTwice(x) \/ (x = m /\ IsCast(x))
    BY <2>1, OneMoreCast
  <2>4. /\ IsQueued(x)' <=> IsQueued(x)
        /\ QueuedTwice(x)' => QueuedTwice(x)
        /\ \A k \in DOMAIN pubEvents' : pubEvents'[k].m = m \/ \E j \in DOMAIN pubEvents : pubEvents[j] = pubEvents'[k]
    BY <2>2, QueuesMore
  <2>5. qos'[x] = 2 => Once(x)' /\ (IsCast(x)' \/ IsQueued(x)' => id'[x] \in processed')
    BY <1>0, <2>3, <2>4 DEF Exchange, Once
  <2>6. flow'[x] = "new" => Unseen(x)'
    BY <2>3, <2>4 DEF Exchange, Unseen
  <2>7. QED
    BY <2>5, <2>6 DEF Right
<1>2. CASE pubEvents # <<>>
  <2>1. UNCHANGED cast /\ pubEvents' = Append(pubEvents, Cast(m)) \o answer
    BY <1>2 DEF PushPublished
  <2>3. (IsCast(x)' <=> IsCast(x)) /\ (CastTwice(x)' <=> CastTwice(x))
    BY <2>1 DEF IsCast, CastTwice, Positions
  <2>4. /\ IsQueued(x)' <=> IsQueued(x) \/ x = m
        /\ QueuedTwice(x)' => QueuedTwice(x) \/ (x = m /\ IsQueued(x))
        /\ \A k \in DOMAIN pubEvents' : pubEvents'[k].m = m \/ \E j \in DOMAIN pubEvents : pubEvents[j] = pubEvents'[k]
    BY <2>1, QueuesMore
  <2>5. qos'[x] = 2 => Once(x)' /\ (IsCast(x)' \/ IsQueued(x)' => id'[x] \in processed')
    BY <1>0, <2>3, <2>4 DEF Exchange, Once
  <2>6. flow'[x] = "new" => Unseen(x)'
    BY <2>3, <2>4 DEF Exchange, Unseen
  <2>7. QED
    BY <2>5, <2>6 DEF Right
<1>3. QED
  BY <1>1, <1>2

LEMMA OneAnswer ==
  ASSUME NEW m \in Pubs
  PROVE  /\ \A p \in {"puback", "pubrec", "pubcomp"} : AnswersTo(<<Answer(p, m)>>, m)
         /\ AnswersTo(<<>>, m)
<1>1. ASSUME NEW p \in {"puback", "pubrec", "pubcomp"} PROVE AnswersTo(<<Answer(p, m)>>, m)
  <2>1. <<Answer(p, m)>> \in Seq(Answers)
    BY AnswerTypes
  <2>2. DOMAIN <<Answer(p, m)>> = {1} /\ <<Answer(p, m)>>[1] = Answer(p, m)
    OBVIOUS
  <2>3. Answer(p, m).p # "cast" /\ Answer(p, m).m = m
    BY DEF Answer, Packet
  <2>4. QED
    BY <2>1, <2>2, <2>3 DEF AnswersTo
<1>2. AnswersTo(<<>>, m)
  BY DEF AnswersTo
<1>3. QED
  BY <1>1, <1>2

\* A message that is answered again.
LEMMA ExchangeAnswered ==
  ASSUME TypeOK, Exchange, NEW m \in Pubs, flow[m] # "new",
         UNCHANGED <<qos, id, flow, cast, processed>>, NEW p \in {"pubrec", "pubcomp"},
         pubEvents' = Append(pubEvents, Answer(p, m)),
         \A k \in DOMAIN toBroker' : \E j \in DOMAIN toBroker : toBroker[j] = toBroker'[k]
  PROVE  Exchange'
<1> SUFFICES ASSUME NEW x \in Pubs PROVE Right(x)'
  BY RightIsExchange
<1> DEFINE answer == <<Answer(p, m)>>
<1>1. AnswersTo(answer, m)
  BY OneAnswer
<1>2. pubEvents' = pubEvents \o answer
  <2>1. pubEvents \in Seq(Answers) /\ Answer(p, m) \in Answers
    BY DEF TypeOK, Answers, Answer, Packet, PacketsOf
  <2>2. QED
    BY <2>1, AppendIsConcat
<1>3. (IsCast(x)' <=> IsCast(x)) /\ (CastTwice(x)' <=> CastTwice(x))
  BY DEF IsCast, CastTwice, Positions
<1> HIDE DEF answer
<1>4. /\ IsQueued(x)' <=> IsQueued(x)
      /\ QueuedTwice(x)' => QueuedTwice(x)
      /\ \A k \in DOMAIN pubEvents' : pubEvents'[k].m = m \/ \E j \in DOMAIN pubEvents : pubEvents[j] = pubEvents'[k]
  BY <1>1, <1>2, QueuesMore
<1>5. qos'[x] = 2 => Once(x)' /\ (IsCast(x)' \/ IsQueued(x)' => id'[x] \in processed')
  BY <1>3, <1>4 DEF Exchange, Once
<1>6. flow'[x] = "new" => Unseen(x)'
  BY <1>3, <1>4 DEF Exchange, Unseen
<1>7. QED
  BY <1>5, <1>6 DEF Right

LEMMA ExchangeStep == TypeOK /\ Exchange /\ [Next]_vars => Exchange'
<1> SUFFICES ASSUME TypeOK, Exchange, [Next]_vars PROVE Exchange'
  OBVIOUS
<1>stay. UNCHANGED <<qos, id, flow, toBroker, pubSide, cast>> => Exchange'
  BY DEF Exchange, pubSide, Unseen, Once, IsCast, IsQueued, CastTwice, QueuedTwice, Positions
<1>1. CASE UNCHANGED vars
  BY <1>1, <1>stay DEF vars, publisher
<1>2. ASSUME NEW m \in Pubs, Publish(m) \/ Resend(m) PROVE Exchange'
  <2>1. UNCHANGED <<pubSide, cast>> /\ toBroker' = Append(toBroker, Packet("publish", m))
    BY <1>2 DEF Publish, Resend
  <2>2. flow'[m] # "new" /\ \A x \in Pubs : x # m => flow'[x] = flow[x] /\ qos'[x] = qos[x] /\ id'[x] = id[x]
    BY <1>2 DEF Publish, Resend, TypeOK
  <2>3. \A k \in DOMAIN toBroker' : toBroker'[k].m = m \/ \E j \in DOMAIN toBroker : toBroker[j] = toBroker'[k]
    <3>1. toBroker \in Seq(PacketsOf({"publish", "pubrel"})) /\ Packet("publish", m) \in PacketsOf({"publish", "pubrel"})
      BY DEF TypeOK, Packet, PacketsOf
    <3>2. /\ DOMAIN toBroker' = 1 .. Len(toBroker) + 1 /\ DOMAIN toBroker = 1 .. Len(toBroker)
          /\ Len(toBroker) \in Nat /\ toBroker'[Len(toBroker) + 1] = Packet("publish", m)
          /\ \A k \in 1 .. Len(toBroker) : toBroker'[k] = toBroker[k]
      BY <2>1, <3>1, AppendProperties, LenProperties
    <3>3. QED
      BY <3>2 DEF Packet
  <2>4. ASSUME NEW x \in Pubs PROVE Right(x)'
    <3>1. (IsCast(x)' <=> IsCast(x)) /\ (CastTwice(x)' <=> CastTwice(x))
      BY <2>1 DEF IsCast, CastTwice, Positions
    <3>2. (IsQueued(x)' <=> IsQueued(x)) /\ (QueuedTwice(x)' <=> QueuedTwice(x))
      BY <2>1 DEF IsQueued, QueuedTwice, pubSide
    <3>3. flow'[x] = "new" => Unseen(x)'
      BY <2>1, <2>2, <2>3, <3>1 DEF Exchange, Unseen, pubSide
    <3>4. CASE x # m
      BY <2>1, <2>2, <3>1, <3>2, <3>3, <3>4 DEF Exchange, Right, Once, pubSide
    <3>5. CASE x = m /\ Publish(m)
      <4>1. ~IsCast(m) /\ ~IsQueued(m) /\ ~CastTwice(m) /\ ~QueuedTwice(m)
        BY <3>5 DEF Publish, Exchange, Unseen, IsCast, IsQueued, CastTwice, QueuedTwice, Cast, Packet
      <4>2. QED
        BY <3>1, <3>2, <3>3, <3>5, <4>1 DEF Right, Once
    <3>6. CASE x = m /\ Resend(m)
      <4>1. UNCHANGED <<qos, id, processed>>
        BY <3>6 DEF Resend, pubSide
      <4>2. QED
        BY <3>1, <3>2, <3>3, <3>6, <4>1 DEF Exchange, Right, Once
    <3>7. QED
      BY <1>2, <3>4, <3>5, <3>6
  <2>5. QED
    BY <2>4, RightIsExchange
<1>3. CASE HandlePublish
  <2> DEFINE m == Head(toBroker).m
  <2>1. /\ \A k \in DOMAIN toBroker' : \E j \in DOMAIN toBroker : toBroker[j] = toBroker'[k]
        /\ m \in Pubs /\ flow[m] # "new" /\ UNCHANGED <<qos, id, flow>>
    BY <1>3, PacketArrives DEF HandlePublish
  <2>2. AnswersTo(<<Answer("puback", m)>>, m) /\ AnswersTo(<<Answer("pubrec", m)>>, m)
    BY <2>1, OneAnswer
  <2>3. AnswersTo(<<>>, m)
    BY <2>1, OneAnswer
  <2>4. CASE qos[m] = 0 /\ PushPublished(m, <<>>) /\ UNCHANGED processed
    <3>1. processed \subseteq processed' /\ (qos[m] = 2 => id[m] \notin processed /\ id[m] \in processed')
      BY <2>4
    <3>2. QED
      BY <2>1, <2>3, <2>4, <3>1, ExchangePushed
  <2>5. CASE qos[m] = 1 /\ PushPublished(m, <<Answer("puback", m)>>) /\ UNCHANGED processed
    <3>1. processed \subseteq processed' /\ (qos[m] = 2 => id[m] \notin processed /\ id[m] \in processed')
      BY <2>5
    <3>2. QED
      BY <2>1, <2>2, <2>5, <3>1, ExchangePushed
  <2>6. CASE /\ qos[m] = 2 /\ id[m] \notin processed
             /\ processed' = processed \cup {id[m]}
             /\ PushPublished(m, <<Answer("pubrec", m)>>)
    BY <2>1, <2>2, <2>6, ExchangePushed
  <2>7. CASE pubEvents' = Append(pubEvents, Answer("pubrec", m)) /\ UNCHANGED <<processed, cast>>
    BY <2>1, <2>7, ExchangeAnswered
  <2>8. QED
    BY <1>3, <2>4, <2>5, <2>6, <2>7 DEF HandlePublish
<1>4. CASE HandlePubrel
  BY <1>4, PacketArrives, ExchangeAnswered DEF HandlePubrel
<1>5. CASE AnswerSent
  <2> DEFINE m == Head(pubEvents).m
  <2>1. \A x \in Pubs : /\ IsQueued(x)' => IsQueued(x)
                        /\ QueuedTwice(x)' => QueuedTwice(x)
    BY <1>5, QueueMoves DEF AnswerSent
  <2>2. /\ \A k \in DOMAIN pubEvents' : \E j \in DOMAIN pubEvents : pubEvents[j] = pubEvents'[k]
        /\ m \in Pubs /\ flow[m] # "new"
    <3>1. m \in Pubs
      BY <1>5, HeadTypes DEF AnswerSent
    <3>2. 1 \in DOMAIN pubEvents /\ pubEvents[1] = Head(pubEvents)
          /\ \A k \in DOMAIN pubEvents' : \E j \in DOMAIN pubEvents : pubEvents[j] = pubEvents'[k]
      BY <1>5, <3>1, QueueMoves DEF AnswerSent
    <3>3. QED
      BY <3>1, <3>2 DEF Exchange, Unseen
  <2>3. \A k \in DOMAIN toBroker' : toBroker'[k].m = m \/ \E j \in DOMAIN toBroker : toBroker[j] = toBroker'[k]
    <3>1. toBroker \in Seq(PacketsOf({"publish", "pubrel"})) /\ Packet("pubrel", m) \in PacketsOf({"publish", "pubrel"})
      BY <2>2 DEF TypeOK, Packet, PacketsOf
    <3>2. toBroker' = toBroker \/ toBroker' = Append(toBroker, Packet("pubrel", m))
      BY <1>5 DEF AnswerSent
    <3>3. LET q == Append(toBroker, Packet("pubrel", m))
          IN /\ DOMAIN q = 1 .. Len(toBroker) + 1 /\ DOMAIN toBroker = 1 .. Len(toBroker)
             /\ Len(toBroker) \in Nat /\ q[Len(toBroker) + 1] = Packet("pubrel", m)
             /\ \A k \in 1 .. Len(toBroker) : q[k] = toBroker[k]
      BY <3>1, AppendProperties, LenProperties
    <3>4. QED
      BY <3>2, <3>3 DEF Packet
  <2>4. flow'[m] # "new" /\ \A x \in Pubs : flow'[x] = "new" => flow[x] = "new"
    BY <1>5, <2>2 DEF AnswerSent, TypeOK
  <2>5. ASSUME NEW x \in Pubs PROVE Right(x)'
    <3>1. (IsCast(x)' <=> IsCast(x)) /\ (CastTwice(x)' <=> CastTwice(x)) /\ UNCHANGED <<qos, id, processed>>
      BY <1>5 DEF IsCast, CastTwice, Positions, AnswerSent
    <3>2. flow'[x] = "new" => Unseen(x)'
      BY <2>2, <2>3, <2>4, <3>1 DEF Exchange, Unseen
    <3>3. QED
      BY <2>1, <3>1, <3>2 DEF Exchange, Right, Once
  <2>6. QED
    BY <2>5, RightIsExchange
<1>6. CASE RunCast
  <2> DEFINE m == Head(pubEvents).m
  <2>1. m \in Pubs /\ cast' = Append(cast, m) /\ UNCHANGED <<qos, id, flow, toBroker, processed>>
        /\ pubEvents # <<>> /\ pubEvents' = Tail(pubEvents)
    BY <1>6, HeadTypes DEF RunCast, Multicast, publisher
  <2>2. Head(pubEvents) = Cast(m)
    BY <1>6, HeadTypes DEF RunCast, Cast, Packet, Answers, PacketsOf
  <2>3. ASSUME NEW x \in Pubs PROVE Right(x)'
    <3>1. /\ IsCast(x)' <=> IsCast(x) \/ x = m
          /\ CastTwice(x)' => CastTwice(x) \/ (x = m /\ IsCast(x))
      BY <2>1, OneMoreCast
    <3>2. /\ IsQueued(x)' => IsQueued(x) /\ (x = m => QueuedTwice(x))
          /\ QueuedTwice(x)' => QueuedTwice(x)
          /\ \A k \in DOMAIN pubEvents' : \E j \in DOMAIN pubEvents : pubEvents[j] = pubEvents'[k]
          /\ 1 \in DOMAIN pubEvents /\ pubEvents[1] = Cast(m)
      BY <2>1, <2>2, QueueMoves
    <3>3. IsQueued(m)
      BY <3>2 DEF IsQueued
    <3>4. flow[m] # "new"
      BY <2>1, <3>2 DEF Exchange, Unseen, Cast, Packet
    <3>5. flow'[x] = "new" => Unseen(x)'
      BY <2>1, <3>1, <3>2, <3>4 DEF Exchange, Unseen
    <3>6. QED
      BY <2>1, <3>1, <3>2, <3>3, <3>5 DEF Exchange, Right, Once
  <2>4. QED
    BY <2>3, RightIsExchange
<1>7. CASE \E s \in Conns : Requests(s) \/ SubscriberSession(s)
  BY <1>7, <1>stay DEF Requests, SubscriberSession, Connect, Subscribe, Reads, Unsubscribe, RunRetained, WriteEnds,
                WriteFails, ReadFails, Close, Destroy, publisher
<1>8. QED
  BY <1>1, <1>2, <1>3, <1>4, <1>5, <1>6, <1>7 DEF Next, PublisherSession, Publishes

-----------------------------------------------------------------------------
(* Sequences of positions, in which 0 stands for what is no message.       *)

Has(q, n) == \E k \in DOMAIN q : q[k] = n

\* What comes after a larger one, from the position from on, comes again.
Ordered(from, q) ==
  \A i, j \in DOMAIN q : i < j /\ from <= q[j] /\ q[j] < q[i] => \E k \in 1 .. i : q[k] = q[j]

\* Nothing from the position from on is missing below the largest.
Closed(from, q) == \A i \in DOMAIN q : \A n \in Nat : from <= n /\ n <= q[i] => Has(q, n)

LEMMA HasConcat ==
  ASSUME NEW q \in Seq(Nat), NEW r \in Seq(Nat), NEW n
  PROVE  Has(q \o r, n) <=> Has(q, n) \/ Has(r, n)
<1>1. /\ DOMAIN q = 1 .. Len(q) /\ DOMAIN r = 1 .. Len(r) /\ Len(q) \in Nat /\ Len(r) \in Nat
      /\ DOMAIN (q \o r) = 1 .. Len(q) + Len(r)
      /\ \A i \in 1 .. Len(q) + Len(r) : (q \o r)[i] = IF i <= Len(q) THEN q[i] ELSE r[i - Len(q)]
  BY ConcatProperties, LenProperties
<1>2. \A i \in 1 .. Len(q) : i \in 1 .. Len(q) + Len(r) /\ (q \o r)[i] = q[i]
  BY <1>1
<1>3. \A i \in 1 .. Len(r) : i + Len(q) \in 1 .. Len(q) + Len(r) /\ (q \o r)[i + Len(q)] = r[i]
  BY <1>1
<1>4. ASSUME Has(q, n) \/ Has(r, n) PROVE Has(q \o r, n)
  BY <1>1, <1>2, <1>3, <1>4 DEF Has
<1>5. ASSUME Has(q \o r, n) PROVE Has(q, n) \/ Has(r, n)
  <2>1. PICK k \in 1 .. Len(q) + Len(r) : (q \o r)[k] = n
    BY <1>1, <1>5 DEF Has
  <2>2. k <= Len(q) => k \in DOMAIN q /\ q[k] = n
    BY <1>1, <2>1
  <2>3. ~(k <= Len(q)) => k - Len(q) \in DOMAIN r /\ r[k - Len(q)] = n
    BY <1>1, <2>1
  <2>4. QED
    BY <2>2, <2>3 DEF Has
<1>6. QED
  BY <1>4, <1>5

LEMMA Associative ==
  ASSUME NEW q \in Seq(Nat), NEW r \in Seq(Nat), NEW t \in Seq(Nat)
  PROVE  (q \o r) \o t = q \o (r \o t)
<1> DEFINE x == (q \o r) \o t
           y == q \o (r \o t)
<1>1. /\ q \o r \in Seq(Nat) /\ Len(q \o r) = Len(q) + Len(r)
      /\ \A i \in 1 .. Len(q) + Len(r) : (q \o r)[i] = IF i <= Len(q) THEN q[i] ELSE r[i - Len(q)]
  BY ConcatProperties
<1>2. /\ r \o t \in Seq(Nat) /\ Len(r \o t) = Len(r) + Len(t)
      /\ \A i \in 1 .. Len(r) + Len(t) : (r \o t)[i] = IF i <= Len(r) THEN r[i] ELSE t[i - Len(r)]
  BY ConcatProperties
<1>3. /\ x \in Seq(Nat) /\ Len(x) = Len(q \o r) + Len(t)
      /\ \A i \in 1 .. Len(q \o r) + Len(t) :
           x[i] = IF i <= Len(q \o r) THEN (q \o r)[i] ELSE t[i - Len(q \o r)]
  BY <1>1, ConcatProperties
<1>4. /\ y \in Seq(Nat) /\ Len(y) = Len(q) + Len(r \o t)
      /\ \A i \in 1 .. Len(q) + Len(r \o t) : y[i] = IF i <= Len(q) THEN q[i] ELSE (r \o t)[i - Len(q)]
  BY <1>2, ConcatProperties
<1>5. Len(q) \in Nat /\ Len(r) \in Nat /\ Len(t) \in Nat
  BY LenProperties
<1> DEFINE a == q \o r
           b == r \o t
<1> HIDE DEF x, y
<1>6. Len(x) = Len(y) /\ \A i \in 1 .. Len(x) : x[i] = y[i]
  <2>1. Len(x) = Len(q) + Len(r) + Len(t) /\ Len(y) = Len(q) + Len(r) + Len(t)
        /\ Len(a) = Len(q) + Len(r) /\ Len(b) = Len(r) + Len(t)
    BY <1>1, <1>2, <1>3, <1>4, <1>5
  <2>2. \A i \in 1 .. Len(a) : a[i] = IF i <= Len(q) THEN q[i] ELSE r[i - Len(q)]
    BY <1>1
  <2>3. \A i \in 1 .. Len(b) : b[i] = IF i <= Len(r) THEN r[i] ELSE t[i - Len(r)]
    BY <1>2
  <2>4. \A i \in 1 .. Len(x) : x[i] = IF i <= Len(a) THEN a[i] ELSE t[i - Len(a)]
    BY <1>3
  <2>5. \A i \in 1 .. Len(y) : y[i] = IF i <= Len(q) THEN q[i] ELSE b[i - Len(q)]
    BY <1>4
  <2> HIDE DEF a, b
  <2>6. ASSUME NEW i \in 1 .. Len(x) PROVE x[i] = y[i]
    <3>1. CASE i <= Len(q)
      <4>1. i \in 1 .. Len(a) /\ i \in 1 .. Len(y) /\ i <= Len(a)
        BY <3>1, <2>1, <1>5
      <4>2. x[i] = a[i] /\ a[i] = q[i] /\ y[i] = q[i]
        BY <3>1, <4>1, <2>2, <2>4, <2>5
      <4>3. QED
        BY <4>2
    <3>2. CASE ~(i <= Len(q)) /\ i <= Len(a)
      <4>1. x[i] = r[i - Len(q)]
        BY <3>2, <2>1, <2>2, <2>4, <1>5
      <4>2. i - Len(q) \in 1 .. Len(b) /\ i - Len(q) <= Len(r)
        BY <3>2, <2>1, <1>5
      <4>3. QED
        BY <3>2, <4>1, <4>2, <2>1, <2>3, <2>5, <1>5
    <3>3. CASE ~(i <= Len(a))
      <4>1. x[i] = t[i - Len(a)]
        BY <3>3, <2>4
      <4>2. i - Len(q) \in 1 .. Len(b) /\ ~(i - Len(q) <= Len(r)) /\ (i - Len(q)) - Len(r) = i - Len(a)
            /\ ~(i <= Len(q)) /\ i \in 1 .. Len(y)
        BY <3>3, <2>1, <1>5
      <4>3. y[i] = b[i - Len(q)] /\ b[i - Len(q)] = t[(i - Len(q)) - Len(r)]
        BY <4>2, <2>3, <2>5
      <4>4. QED
        BY <4>1, <4>2, <4>3
    <3>4. QED
      BY <3>1, <3>2, <3>3
  <2>7. QED
    BY <2>1, <2>6
<1>7. x = y
  BY <1>3, <1>4, <1>6, SeqEqual
<1>8. QED
  BY <1>7 DEF x, y

\* A message behind the three parts of a flow.
LEMMA BehindFlow ==
  ASSUME NEW g \in Seq(Nat), NEW q \in Seq(Nat), NEW o \in Seq(Nat), NEW n \in Nat
  PROVE  (g \o (q \o o)) \o <<n>> = g \o (q \o (o \o <<n>>))
<1> DEFINE t == <<n>>
<1>1. t \in Seq(Nat) /\ q \o o \in Seq(Nat)
  BY ConcatProperties
<1> HIDE DEF t
<1>2. (g \o (q \o o)) \o t = g \o ((q \o o) \o t)
  BY <1>1, Associative, ZenonT(30)
<1>3. (q \o o) \o t = q \o (o \o t)
  BY <1>1, Associative, ZenonT(30)
<1>4. QED
  BY <1>2, <1>3 DEF t

LEMMA HasOne == \A x, n : Has(<<x>>, n) <=> x = n
BY DEF Has

LEMMA HasNone == \A n : ~Has(<<>>, n)
BY DEF Has

LEMMA OrderedPrefix ==
  ASSUME NEW from \in Nat, NEW q \in Seq(Nat), NEW r \in Seq(Nat), Ordered(from, q \o r)
  PROVE  Ordered(from, q)
<1>1. /\ DOMAIN q = 1 .. Len(q) /\ Len(q) \in Nat /\ Len(r) \in Nat
      /\ DOMAIN (q \o r) = 1 .. Len(q) + Len(r)
      /\ \A i \in 1 .. Len(q) : (q \o r)[i] = q[i]
  BY ConcatProperties, LenProperties
<1>2. SUFFICES ASSUME NEW i \in DOMAIN q, NEW j \in DOMAIN q, i < j, from <= q[j], q[j] < q[i]
               PROVE  \E k \in 1 .. i : q[k] = q[j]
  BY DEF Ordered
<1>3. \E k \in 1 .. i : (q \o r)[k] = q[j]
  <2>1. /\ i \in DOMAIN (q \o r) /\ j \in DOMAIN (q \o r)
        /\ (q \o r)[i] = q[i] /\ (q \o r)[j] = q[j]
    BY <1>1
  <2> DEFINE a == q \o r
  <2>2. Ordered(from, a) /\ i \in DOMAIN a /\ j \in DOMAIN a /\ a[i] = q[i] /\ a[j] = q[j]
    BY <2>1
  <2> HIDE DEF a
  <2>3. \E k \in 1 .. i : a[k] = a[j]
    BY <1>2, <2>2 DEF Ordered
  <2>4. QED
    BY <2>2, <2>3 DEF a
<1>4. QED
  BY <1>1, <1>3

LEMMA OrderedAppend ==
  ASSUME NEW from \in Nat, NEW q \in Seq(Nat), NEW n \in Nat, Ordered(from, q),
         n < from \/ Has(q, n) \/ \A i \in DOMAIN q : q[i] <= n \/ q[i] < from
  PROVE  Ordered(from, q \o <<n>>)
<1> DEFINE r == q \o <<n>>
<1>1. /\ DOMAIN q = 1 .. Len(q) /\ Len(q) \in Nat /\ DOMAIN r = 1 .. Len(q) + 1
      /\ r[Len(q) + 1] = n /\ \A i \in 1 .. Len(q) : r[i] = q[i]
      /\ \A i \in 1 .. Len(q) : q[i] \in Nat
  BY ConcatProperties, LenProperties, ElementOfSeq
<1> HIDE DEF r
<1>2. SUFFICES ASSUME NEW i \in DOMAIN r, NEW j \in DOMAIN r, i < j, from <= r[j], r[j] < r[i]
               PROVE  \E k \in 1 .. i : r[k] = r[j]
  BY DEF Ordered, r
<1>3. i \in 1 .. Len(q) /\ r[i] = q[i] /\ \A k \in 1 .. i : r[k] = q[k] /\ k \in DOMAIN q
  BY <1>1, <1>2
<1>4. CASE j <= Len(q)
  BY <1>1, <1>2, <1>3, <1>4 DEF Ordered
<1>5. CASE j = Len(q) + 1
  <2>1. r[j] = n /\ from <= n /\ n < q[i]
    BY <1>1, <1>2, <1>3, <1>5
  <2>2. PICK k \in DOMAIN q : q[k] = n
    BY <1>1, <1>3, <2>1 DEF Has
  <2>3. CASE k <= i
    BY <1>1, <1>3, <2>1, <2>2, <2>3
  <2>4. CASE i < k
    <3>1. \E l \in 1 .. i : q[l] = q[k]
      BY <1>1, <1>3, <2>1, <2>2, <2>4 DEF Ordered
    <3>2. QED
      BY <1>3, <2>1, <2>2, <3>1
  <2>5. QED
    BY <1>1, <1>3, <2>2, <2>3, <2>4
<1>6. QED
  BY <1>1, <1>2, <1>4, <1>5

\* A 0 more or less changes nothing.
LEMMA OneZero ==
  ASSUME NEW from \in Nat \ {0}, NEW q \in Seq(Nat), NEW r \in Seq(Nat)
  PROVE  /\ Ordered(from, q \o (<<0>> \o r)) <=> Ordered(from, q \o r)
         /\ Closed(from, q \o (<<0>> \o r)) <=> Closed(from, q \o r)
         /\ \A n \in Nat \ {0} : Has(q \o (<<0>> \o r), n) <=> Has(q \o r, n)
<1> DEFINE a == q \o (<<0>> \o r)
           b == q \o r
<1>0. <<0>> \in Seq(Nat) /\ <<0>> \o r \in Seq(Nat) /\ a \in Seq(Nat) /\ b \in Seq(Nat)
  BY ConcatProperties
<1>1. /\ Len(q) \in Nat /\ Len(r) \in Nat /\ Len(<<0>> \o r) = Len(r) + 1
      /\ (<<0>> \o r)[1] = 0 /\ \A i \in 2 .. Len(r) + 1 : (<<0>> \o r)[i] = r[i - 1]
  BY ConcatProperties, LenProperties
<1>2. /\ DOMAIN a = 1 .. Len(q) + Len(r) + 1 /\ DOMAIN b = 1 .. Len(q) + Len(r)
      /\ \A i \in DOMAIN a : a[i] \in Nat
      /\ \A i \in DOMAIN b : b[i] \in Nat
  <2>1. Len(a) = Len(q) + Len(r) + 1 /\ Len(b) = Len(q) + Len(r)
    BY <1>0, <1>1, ConcatProperties
  <2>2. DOMAIN a = 1 .. Len(a) /\ DOMAIN b = 1 .. Len(b)
    BY <1>0, LenProperties
  <2>3. (\A i \in 1 .. Len(a) : a[i] \in Nat) /\ (\A i \in 1 .. Len(b) : b[i] \in Nat)
    BY <1>0, ElementOfSeq
  <2>4. QED
    BY <2>1, <2>2, <2>3
<1>3. /\ \A i \in 1 .. Len(q) + Len(r) + 1 :
           a[i] = IF i <= Len(q) THEN q[i] ELSE (<<0>> \o r)[i - Len(q)]
      /\ \A i \in 1 .. Len(q) + Len(r) : b[i] = IF i <= Len(q) THEN q[i] ELSE r[i - Len(q)]
  BY <1>0, <1>1, ConcatProperties
<1>4. /\ a[Len(q) + 1] = 0
      /\ \A i \in 1 .. Len(q) : a[i] = b[i]
      /\ \A i \in Len(q) + 1 .. Len(q) + Len(r) : a[i + 1] = b[i]
  BY <1>1, <1>3
<1> HIDE DEF a, b
<1> DEFINE up == [i \in DOMAIN b |-> IF i <= Len(q) THEN i ELSE i + 1]
           down == [i \in DOMAIN a |-> IF i <= Len(q) THEN i ELSE i - 1]
<1>5. \A i \in DOMAIN b : up[i] \in DOMAIN a /\ a[up[i]] = b[i]
  BY <1>1, <1>2, <1>4, SMTT(20), ZenonT(20)
<1>6. \A i \in DOMAIN a : a[i] # 0 => down[i] \in DOMAIN b /\ b[down[i]] = a[i] /\ i # Len(q) + 1
  BY <1>1, <1>2, <1>4
<1>7. \A i, j \in DOMAIN b : i < j <=> up[i] < up[j]
  BY <1>1, <1>2
<1>8. \A i, j \in DOMAIN a : i # Len(q) + 1 /\ j # Len(q) + 1 => (i < j <=> down[i] < down[j])
  BY <1>1, <1>2
<1> HIDE DEF up, down
<1>9. \A n \in Nat \ {0} : Has(a, n) <=> Has(b, n)
  BY <1>5, <1>6 DEF Has
<1>10. Closed(from, a) <=> Closed(from, b)
  <2>1. ASSUME Closed(from, a), NEW i \in DOMAIN b, NEW n \in Nat, from <= n, n <= b[i] PROVE Has(b, n)
    BY <1>5, <1>9, <2>1 DEF Closed
  <2>2. ASSUME Closed(from, b), NEW i \in DOMAIN a, NEW n \in Nat, from <= n, n <= a[i] PROVE Has(a, n)
    <3>1. a[i] # 0 /\ n \in Nat \ {0}
      BY <1>2, <2>2
    <3>2. down[i] \in DOMAIN b /\ n <= b[down[i]]
      BY <1>6, <2>2, <3>1
    <3>3. Has(b, n)
      BY <2>2, <3>2 DEF Closed
    <3>4. QED
      BY <1>9, <3>1, <3>3
  <2>3. QED
    BY <2>1, <2>2 DEF Closed
<1>11. ASSUME Ordered(from, a) PROVE Ordered(from, b)
  <2>1. SUFFICES ASSUME NEW i \in DOMAIN b, NEW j \in DOMAIN b, i < j, from <= b[j], b[j] < b[i]
                 PROVE  \E k \in 1 .. i : b[k] = b[j]
    BY DEF Ordered
  <2>2. PICK k \in 1 .. up[i] : a[k] = b[j]
    BY <1>5, <1>7, <1>11, <2>1, SMTT(20), ZenonT(20)
    DEF Ordered
  <2>3. k \in DOMAIN a /\ a[k] # 0
    BY <1>2, <1>5, <2>1, <2>2
  <2>4. b[down[k]] = b[j] /\ down[k] \in DOMAIN b
    BY <1>6, <2>2, <2>3
  <2>5. down[k] <= i
    BY <1>1, <1>2, <1>6, <2>2, <2>3 DEF up, down
  <2>6. QED
    BY <1>2, <2>4, <2>5
<1>12. ASSUME Ordered(from, b) PROVE Ordered(from, a)
  <2>1. SUFFICES ASSUME NEW i \in DOMAIN a, NEW j \in DOMAIN a, i < j, from <= a[j], a[j] < a[i]
                 PROVE  \E k \in 1 .. i : a[k] = a[j]
    BY DEF Ordered
  <2>2. a[i] # 0 /\ a[j] # 0 /\ i # Len(q) + 1 /\ j # Len(q) + 1
    BY <1>2, <1>6, <2>1
  <2>7. /\ down[i] \in DOMAIN b /\ down[j] \in DOMAIN b /\ down[i] < down[j]
        /\ b[down[i]] = a[i] /\ b[down[j]] = a[j]
    BY <1>6, <1>8, <2>1, <2>2
  <2>3. PICK k \in 1 .. down[i] : b[k] = a[j]
    BY <1>12, <2>1, <2>7 DEF Ordered
  <2>4. k \in DOMAIN b /\ up[k] \in DOMAIN a /\ a[up[k]] = a[j]
    BY <1>1, <1>2, <1>5, <2>3, <2>7
  <2>5. up[k] <= i
    BY <1>1, <1>2, <2>2, <2>3, <2>4 DEF up, down
  <2>6. QED
    BY <1>2, <2>4, <2>5
<1>13. QED
  BY <1>9, <1>10, <1>11, <1>12 DEF a, b

-----------------------------------------------------------------------------
(* What flows to a client: what it got, what the events of its session     *)
(* write, and the offline messages of a session that is started.  The end  *)
(* of a write moves a message along the flow, and Prepare puts the         *)
(* message it is called for at its end.                                    *)

Num(q) == [k \in DOMAIN q |-> q[k].n]
Numbered(S) == \A e \in S : e.n \in Nat

Stored(s) == IF IsStarted(s) THEN offline[s] ELSE <<>>
Flow(s) == got[s] \o (IF link[s] = "up" THEN Num(events[s]) \o Stored(s) ELSE <<>>)

LEMMA NumType ==
  ASSUME NEW S, Numbered(S), NEW q \in Seq(S)
  PROVE  /\ Num(q) \in Seq(Nat) /\ Len(Num(q)) = Len(q) /\ DOMAIN Num(q) = DOMAIN q
         /\ \A k \in DOMAIN q : Num(q)[k] = q[k].n
<1>1. DOMAIN q = 1 .. Len(q) /\ Len(q) \in Nat /\ \A k \in 1 .. Len(q) : q[k] \in S
  BY LenProperties, ElementOfSeq
<1>2. Num(q) \in [1 .. Len(q) -> Nat]
  BY <1>1 DEF Num, Numbered
<1>3. Num(q) \in Seq(Nat)
  BY <1>1, <1>2
<1>4. DOMAIN Num(q) = 1 .. Len(Num(q)) /\ Len(Num(q)) \in Nat
  BY <1>3, LenProperties
<1>5. Len(Num(q)) = Len(q)
  BY <1>1, <1>2, <1>4
<1>6. QED
  BY <1>1, <1>3, <1>5 DEF Num

LEMMA NumConcat ==
  ASSUME NEW S, Numbered(S), NEW q \in Seq(S), NEW r \in Seq(S)
  PROVE  Num(q \o r) = Num(q) \o Num(r)
<1>1. /\ q \o r \in Seq(S) /\ Len(q \o r) = Len(q) + Len(r) /\ Len(q) \in Nat /\ Len(r) \in Nat
      /\ DOMAIN q = 1 .. Len(q) /\ DOMAIN r = 1 .. Len(r) /\ DOMAIN (q \o r) = 1 .. Len(q) + Len(r)
      /\ \A i \in 1 .. Len(q) + Len(r) : (q \o r)[i] = IF i <= Len(q) THEN q[i] ELSE r[i - Len(q)]
  BY ConcatProperties, LenProperties
<1>2. /\ Num(q) \in Seq(Nat) /\ Num(r) \in Seq(Nat) /\ Num(q \o r) \in Seq(Nat)
      /\ Len(Num(q)) = Len(q) /\ Len(Num(r)) = Len(r) /\ Len(Num(q \o r)) = Len(q) + Len(r)
      /\ \A k \in 1 .. Len(q) : Num(q)[k] = q[k].n
      /\ \A k \in 1 .. Len(r) : Num(r)[k] = r[k].n
      /\ \A k \in 1 .. Len(q) + Len(r) : Num(q \o r)[k] = (q \o r)[k].n
  BY <1>1, NumType
<1>3. /\ Num(q) \o Num(r) \in Seq(Nat) /\ Len(Num(q) \o Num(r)) = Len(q) + Len(r)
      /\ \A i \in 1 .. Len(q) + Len(r) :
           (Num(q) \o Num(r))[i] = IF i <= Len(q) THEN Num(q)[i] ELSE Num(r)[i - Len(q)]
  <2>1. /\ Num(q) \o Num(r) \in Seq(Nat) /\ Len(Num(q) \o Num(r)) = Len(Num(q)) + Len(Num(r))
        /\ \A i \in 1 .. Len(Num(q)) + Len(Num(r)) :
             (Num(q) \o Num(r))[i] = IF i <= Len(Num(q)) THEN Num(q)[i] ELSE Num(r)[i - Len(Num(q))]
    BY <1>2, ConcatProperties, SMTT(20), ZenonT(20)
  <2>2. QED
    BY <1>2, <2>1
<1>4. \A i \in 1 .. Len(q) + Len(r) : Num(q \o r)[i] = (Num(q) \o Num(r))[i]
  <2> SUFFICES ASSUME NEW i \in 1 .. Len(q) + Len(r) PROVE Num(q \o r)[i] = (Num(q) \o Num(r))[i]
    OBVIOUS
  <2>1. CASE i <= Len(q)
    <3>1. i \in 1 .. Len(q)
      BY <1>1, <2>1
    <3>2. QED
      BY <1>1, <1>2, <1>3, <2>1, <3>1
  <2>2. CASE ~(i <= Len(q))
    <3>1. i - Len(q) \in 1 .. Len(r)
      BY <1>1, <2>2
    <3>2. QED
      BY <1>1, <1>2, <1>3, <2>2, <3>1
  <2>3. QED
    BY <2>1, <2>2
<1>5. QED
  BY <1>2, <1>3, <1>4, SeqEqual

LEMMA NumOne == (\A e : Num(<<e>>) = <<e.n>>) /\ Num(<<>>) = <<>>
BY DEF Num

LEMMA HeadAndTail ==
  ASSUME NEW S, NEW q \in Seq(S), q # <<>>
  PROVE  q = <<Head(q)>> \o Tail(q)
<1>1. /\ Head(q) \in S /\ Tail(q) \in Seq(S) /\ Len(Tail(q)) = Len(q) - 1
      /\ \A i \in 1 .. Len(q) - 1 : Tail(q)[i] = q[i + 1]
      /\ Len(q) \in Nat \ {0} /\ Head(q) = q[1]
  BY HeadTailProperties, EmptySeq
<1>2. <<Head(q)>> \in Seq(S) /\ Len(<<Head(q)>>) = 1 /\ <<Head(q)>>[1] = q[1]
  BY <1>1
<1>3. /\ <<Head(q)>> \o Tail(q) \in Seq(S) /\ Len(<<Head(q)>> \o Tail(q)) = Len(q)
      /\ \A i \in 1 .. Len(q) : (<<Head(q)>> \o Tail(q))[i] = IF i <= 1 THEN q[1] ELSE Tail(q)[i - 1]
  BY <1>1, <1>2, ConcatProperties
<1>4. \A i \in 1 .. Len(q) : (<<Head(q)>> \o Tail(q))[i] = q[i]
  BY <1>1, <1>3
<1>5. QED
  BY <1>1, <1>3, <1>4, SeqEqual

\* The parts of a flow.
LEMMA FlowType ==
  ASSUME TypeOK, NEW s \in Conns
  PROVE  /\ Numbered(EventsOf) /\ got[s] \in Seq(Nat) /\ events[s] \in Seq(EventsOf)
         /\ Num(events[s]) \in Seq(Nat) /\ Stored(s) \in Seq(Nat) /\ offline[s] \in Seq(Nat)
         /\ Flow(s) \in Seq(Nat) /\ \A k \in DOMAIN Flow(s) : Flow(s)[k] <= Len(cast)
<1>1. Positions = 1 .. Len(cast) /\ Len(cast) \in Nat
  BY LenProperties DEF TypeOK, Positions
<1> DEFINE N == 0 .. Len(cast)
<1>2. Numbered(EventsOf)
  BY <1>1 DEF Numbered, EventsOf
<1>3. got[s] \in Seq(N) /\ offline[s] \in Seq(N) /\ Stored(s) \in Seq(N) /\ events[s] \in Seq(EventsOf)
  <2>1. Positions \subseteq N
    BY <1>1
  <2>2. got[s] \in Seq(N) /\ offline[s] \in Seq(N) /\ events[s] \in Seq(EventsOf)
    BY <2>1, SeqMonotonic DEF TypeOK
  <2>3. <<>> \in Seq(N)
    BY EmptySeq
  <2>4. Stored(s) \in Seq(N)
    BY <2>2, <2>3 DEF Stored
  <2>5. QED
    BY <2>2, <2>4
<1>4. Num(events[s]) \in Seq(N)
  <2>1. Num(events[s]) \in Seq(Nat) /\ DOMAIN Num(events[s]) = 1 .. Len(events[s])
        /\ \A k \in 1 .. Len(events[s]) : Num(events[s])[k] = events[s][k].n
    BY <1>2, <1>3, NumType, LenProperties
  <2>2. \A k \in 1 .. Len(events[s]) : events[s][k].n \in N
    <3>1. \A k \in 1 .. Len(events[s]) : events[s][k] \in EventsOf
      BY <1>3, ElementOfSeq
    <3>2. \A e \in EventsOf : e.n \in N
      BY <1>1, EventTypes
    <3>3. QED
      BY <3>1, <3>2
  <2>3. Num(events[s]) \in [1 .. Len(events[s]) -> N] /\ Len(events[s]) \in Nat
    BY <1>3, <2>1, <2>2, LenProperties DEF Num
  <2>4. QED
    BY <2>3
<1>5. Flow(s) \in Seq(N)
  BY <1>3, <1>4, ConcatProperties, EmptySeq DEF Flow
<1>6. \A k \in DOMAIN Flow(s) : Flow(s)[k] \in N
  BY <1>5, LenProperties, ElementOfSeq
<1>7. N \subseteq Nat
  BY <1>1
<1>8. QED
  BY <1>1, <1>2, <1>3, <1>4, <1>5, <1>6, <1>7, SeqMonotonic

\* What Prepare leaves of a started session flows behind what was stored.
LEMMA PrepareFlow ==
  ASSUME TypeOK, NEW s \in Conns, NEW n \in Positions', Positions \subseteq Positions', cast' \in Seq(Pubs),
         IsStarted(s)
  PROVE  Num(Prepare(s, n).push) \o Prepare(s, n).offline = offline[s] \o <<n>>
<1> DEFINE off == offline[s]
           waiting == [k \in DOMAIN off |-> Queued(off[k], 0)]
           i == AcquireId(used[s])
<1>1. off \in Seq(Nat) /\ n \in Nat /\ <<n>> \in Seq(Nat) /\ Numbered(EventsOf) /\ Numbered(EventsOf')
  <2>1. Positions' = 1 .. Len(cast') /\ Len(cast') \in Nat
    BY LenProperties DEF Positions
  <2>2. Numbered(EventsOf')
    BY <2>1 DEF Numbered, EventsOf
  <2>3. QED
    BY <2>1, <2>2, FlowType
<1>2. waiting \in Seq(EventsOf') /\ Len(waiting) = Len(off) /\ \A k \in 1 .. Len(off) : waiting[k] = Queued(off[k], 0)
  BY WaitingType, EventsGrow
<1>3. Num(waiting) = off
  <2>1. Num(waiting) \in Seq(Nat) /\ Len(Num(waiting)) = Len(off)
        /\ \A k \in 1 .. Len(off) : Num(waiting)[k] = waiting[k].n
    BY <1>1, <1>2, NumType, LenProperties
  <2>2. \A k \in 1 .. Len(off) : Num(waiting)[k] = off[k]
    <3>1. \A x, j : Queued(x, j).n = x
      BY DEF Queued, Event
    <3>2. QED
      BY <1>2, <2>1, <3>1
  <2>3. QED
    BY <1>1, <2>1, <2>2, SeqEqual
<1>4. \A j \in 0 .. MaxPacketId : /\ Queued(n, j) \in EventsOf' /\ <<Queued(n, j)>> \in Seq(EventsOf')
                                  /\ Num(<<Queued(n, j)>>) = <<n>>
  BY NumOne DEF Queued, Event, EventsOf
<1>5. i \in 0 .. MaxPacketId /\ 0 \in 0 .. MaxPacketId
  <2>1. used[s] \in SUBSET PacketIds
    BY DEF TypeOK
  <2>2. QED
    BY <2>1, AcquireIdIsFree, BoundsAssumption DEF PacketIds
<1> HIDE DEF waiting, i
<1>6. Prepare(s, n) =
        IF off # <<>> THEN Outbox(Append(waiting, Queued(n, 0)), <<>>, used[s])
        ELSE IF qos[cast'[n]] = 0 THEN Outbox(<<Queued(n, 0)>>, <<>>, used[s])
        ELSE IF i = 0 THEN Outbox(<<>>, <<n>>, used[s])
        ELSE Outbox(<<Queued(n, i)>>, <<>>, used[s] \cup {i})
  BY DEF Prepare, waiting, i
<1>7. CASE off # <<>>
  <2>1. Append(waiting, Queued(n, 0)) = waiting \o <<Queued(n, 0)>>
    BY <1>2, <1>4, <1>5, AppendIsConcat
  <2>2. Num(Append(waiting, Queued(n, 0))) = off \o <<n>>
    <3>1. Numbered(EventsOf') /\ waiting \in Seq(EventsOf') /\ <<Queued(n, 0)>> \in Seq(EventsOf')
      BY <1>1, <1>2, <1>4, <1>5
    <3>2. Num(waiting \o <<Queued(n, 0)>>) = Num(waiting) \o Num(<<Queued(n, 0)>>)
      BY <3>1, NumConcat
    <3>3. QED
      BY <3>2, <2>1, <1>3, <1>4, <1>5
  <2>3. off \o <<n>> \in Seq(Nat) /\ (off \o <<n>>) \o <<>> = off \o <<n>>
    BY <1>1, ConcatProperties, ConcatEmptySeq
  <2>4. QED
    BY <1>6, <1>7, <2>2, <2>3, SMTT(20), ZenonT(20)
    DEF Outbox
<1>8. CASE off = <<>>
  <2>1. <<>> \o <<n>> = <<n>> /\ <<n>> \o <<>> = <<n>> /\ Num(<<>>) = <<>>
    BY <1>1, ConcatEmptySeq, NumOne
  <2>2. Num(<<Queued(n, 0)>>) = <<n>> /\ Num(<<Queued(n, i)>>) = <<n>>
    BY <1>4, <1>5
  <2>3. \/ Prepare(s, n).push = <<Queued(n, 0)>> /\ Prepare(s, n).offline = <<>>
        \/ Prepare(s, n).push = <<Queued(n, i)>> /\ Prepare(s, n).offline = <<>>
        \/ Prepare(s, n).push = <<>> /\ Prepare(s, n).offline = <<n>>
    <3>1. \A x, y, z : Outbox(x, y, z).push = x /\ Outbox(x, y, z).offline = y
      BY DEF Outbox
    <3>2. QED
      BY <1>6, <1>8, <3>1
  <2>4. QED
    BY <1>8, <2>1, <2>2, <2>3
<1>9. QED
  BY <1>7, <1>8

-----------------------------------------------------------------------------
(* The sessions of the subscriber.                                         *)

Subscribed(s) == \E e \in subs : e.at = s
Sends(q) == \E k \in DOMAIN q : q[k].e = "publish"
AwaitsRetained(q) == \E k \in DOMAIN q : q[k].e = "retained"
RetainedTwice(q) == \E i, j \in DOMAIN q : i # j /\ q[i].e = "retained" /\ q[j].e = "retained"

\* A session that subscribed holds what was multicast since, in order.  While it
\* awaits the retained message nothing is missing in front of what it holds,
\* even if its subscription is another session's by now.
Session(s) ==
  /\ IsStarted(s) => link[s] = "up"
  /\ state[s] = "none" => since[s] = 0
  /\ since[s] = 0 => got[s] = <<>> /\ ~Sends(events[s]) /\ ~AwaitsRetained(events[s])
  /\ Subscribed(s) /\ state[s] # "destroyed" => since[s] # 0
  /\ ~RetainedTwice(events[s])
  /\ state[s] = "destroyed" => events[s] = <<>>
  /\ since[s] # 0 => Ordered(since[s], Flow(s))
  /\ since[s] # 0 /\ IsStarted(s) /\ AwaitsRetained(events[s]) => Closed(since[s], Flow(s))
  /\ ~adrift /\ IsStarted(s) /\ Subscribed(s) =>
       \A n \in Positions : n >= since[s] => Has(Flow(s), n)

Sessions == \A s \in Conns : Session(s)

LEMMA KindsConcat ==
  ASSUME NEW S, NEW q \in Seq(S), NEW r \in Seq(S)
  PROVE  /\ AwaitsRetained(q \o r) <=> AwaitsRetained(q) \/ AwaitsRetained(r)
         /\ Sends(q \o r) <=> Sends(q) \/ Sends(r)
         /\ RetainedTwice(q \o r) => \/ RetainedTwice(q) \/ RetainedTwice(r)
                                     \/ AwaitsRetained(q) /\ AwaitsRetained(r)
<1> DEFINE a == q \o r
<1>1. /\ DOMAIN q = 1 .. Len(q) /\ DOMAIN r = 1 .. Len(r) /\ Len(q) \in Nat /\ Len(r) \in Nat
      /\ DOMAIN a = 1 .. Len(q) + Len(r)
      /\ \A i \in 1 .. Len(q) + Len(r) : a[i] = IF i <= Len(q) THEN q[i] ELSE r[i - Len(q)]
  BY ConcatProperties, LenProperties
<1> HIDE DEF a
<1>2. \A i \in DOMAIN q : i \in DOMAIN a /\ a[i] = q[i]
  BY <1>1
<1>3. \A i \in DOMAIN r : i + Len(q) \in DOMAIN a /\ a[i + Len(q)] = r[i]
  BY <1>1
<1>4. \A i \in DOMAIN a : \/ i \in DOMAIN q /\ a[i] = q[i]
                          \/ i \notin DOMAIN q /\ i - Len(q) \in DOMAIN r /\ a[i] = r[i - Len(q)]
  BY <1>1
<1>5. AwaitsRetained(a) <=> AwaitsRetained(q) \/ AwaitsRetained(r)
  BY <1>2, <1>3, <1>4 DEF AwaitsRetained
<1>6. Sends(a) <=> Sends(q) \/ Sends(r)
  BY <1>2, <1>3, <1>4 DEF Sends
<1>7. ASSUME RetainedTwice(a)
      PROVE  RetainedTwice(q) \/ RetainedTwice(r) \/ (AwaitsRetained(q) /\ AwaitsRetained(r))
  <2>1. PICK i \in DOMAIN a, j \in DOMAIN a : i # j /\ a[i].e = "retained" /\ a[j].e = "retained"
    BY <1>7 DEF RetainedTwice
  <2>2. i \in DOMAIN q /\ j \in DOMAIN q => RetainedTwice(q)
    BY <1>2, <2>1 DEF RetainedTwice
  <2>3. i \notin DOMAIN q /\ j \notin DOMAIN q => RetainedTwice(r)
    <3>1. i - Len(q) # j - Len(q)
      BY <1>1, <2>1
    <3>2. QED
      BY <1>4, <2>1, <3>1 DEF RetainedTwice
  <2>4. (i \in DOMAIN q) # (j \in DOMAIN q) => AwaitsRetained(q) /\ AwaitsRetained(r)
    BY <1>4, <2>1 DEF AwaitsRetained
  <2>5. QED
    BY <2>2, <2>3, <2>4
<1>8. QED
  BY <1>5, <1>6, <1>7 DEF a

LEMMA KindsTail ==
  ASSUME NEW S, NEW q \in Seq(S), q # <<>>
  PROVE  /\ AwaitsRetained(Tail(q)) => AwaitsRetained(q) /\ (Head(q).e = "retained" => RetainedTwice(q))
         /\ Sends(Tail(q)) => Sends(q)
         /\ RetainedTwice(Tail(q)) => RetainedTwice(q)
         /\ Head(q).e = "publish" => Sends(q)
         /\ Head(q).e = "retained" => AwaitsRetained(q)
<1>1. /\ DOMAIN q = 1 .. Len(q) /\ Len(q) \in Nat \ {0} /\ DOMAIN Tail(q) = 1 .. Len(q) - 1
      /\ Head(q) = q[1] /\ \A i \in 1 .. Len(q) - 1 : Tail(q)[i] = q[i + 1]
  BY HeadTailProperties, LenProperties, EmptySeq
<1>2. QED
  BY <1>1 DEF AwaitsRetained, Sends, RetainedTwice

LEMMA KindsOfAnswers ==
  /\ ~AwaitsRetained(<<>>) /\ ~Sends(<<>>) /\ ~RetainedTwice(<<>>)
  /\ ~AwaitsRetained(<<Reply>>) /\ ~Sends(<<Reply>>) /\ ~RetainedTwice(<<Reply>>)
  /\ ~AwaitsRetained(<<Reply, Disconnect>>) /\ ~Sends(<<Reply, Disconnect>>)
  /\ ~RetainedTwice(<<Reply, Disconnect>>) /\ ~RetainedTwice(<<SendRetained, Reply>>)
  /\ Num(<<Reply>>) = <<0>> /\ Num(<<Reply, Disconnect>>) = <<0>> \o <<0>>
BY DEF AwaitsRetained, Sends, RetainedTwice, Reply, Disconnect, SendRetained, Event, Num

LEMMA PushKinds ==
  ASSUME TypeOK, NEW s \in Conns, NEW n
  PROVE  /\ ~AwaitsRetained(Prepare(s, n).push) /\ ~RetainedTwice(Prepare(s, n).push)
         /\ ~IsStarted(s) => Prepare(s, n).push = <<>>
<1> DEFINE off == offline[s]
           waiting == [k \in DOMAIN off |-> Queued(off[k], 0)]
           i == AcquireId(used[s])
<1>1. waiting \in Seq(EventsOf) /\ \A k \in DOMAIN waiting : waiting[k].e = "publish"
  BY WaitingType DEF Queued, Event
<1> HIDE DEF waiting, i
<1>2. \A x, y, z : Outbox(x, y, z).push = x
  BY DEF Outbox
<1>3. Prepare(s, n) =
        IF ~IsStarted(s) THEN Outbox(<<>>, Append(off, n), used[s])
        ELSE IF off # <<>> THEN Outbox(Append(waiting, Queued(n, 0)), <<>>, used[s])
        ELSE IF qos[cast'[n]] = 0 THEN Outbox(<<Queued(n, 0)>>, <<>>, used[s])
        ELSE IF i = 0 THEN Outbox(<<>>, <<n>>, used[s])
        ELSE Outbox(<<Queued(n, i)>>, <<>>, used[s] \cup {i})
  BY DEF Prepare, waiting, i
<1>4. \/ Prepare(s, n).push = Append(waiting, Queued(n, 0)) /\ IsStarted(s)
      \/ Prepare(s, n).push = <<Queued(n, 0)>> /\ IsStarted(s)
      \/ Prepare(s, n).push = <<Queued(n, i)>> /\ IsStarted(s)
      \/ Prepare(s, n).push = <<>>
  BY <1>3 DEF Outbox
<1>5. \A j : ~AwaitsRetained(<<Queued(n, j)>>)
  BY DEF AwaitsRetained, Queued, Event
<1>6. ~AwaitsRetained(Append(waiting, Queued(n, 0)))
  <2>1. /\ DOMAIN waiting = 1 .. Len(waiting) /\ Len(waiting) \in Nat
        /\ Append(waiting, Queued(n, 0)) \in Seq(EventsOf \cup {Queued(n, 0)})
        /\ Len(Append(waiting, Queued(n, 0))) = Len(waiting) + 1
        /\ \A k \in 1 .. Len(waiting) : Append(waiting, Queued(n, 0))[k] = waiting[k]
        /\ Append(waiting, Queued(n, 0))[Len(waiting) + 1] = Queued(n, 0)
    <3>1. waiting \in Seq(EventsOf \cup {Queued(n, 0)})
      BY <1>1, SeqMonotonic
    <3>2. QED
      BY <3>1, AppendProperties, LenProperties
  <2>2. DOMAIN Append(waiting, Queued(n, 0)) = 1 .. Len(waiting) + 1
    BY <2>1, LenProperties
  <2>3. Queued(n, 0).e = "publish"
    BY DEF Queued, Event
  <2>4. QED
    BY <1>1, <2>1, <2>2, <2>3 DEF AwaitsRetained
<1>7. ~AwaitsRetained(Prepare(s, n).push)
  BY <1>4, <1>5, <1>6, KindsOfAnswers
<1>8. QED
  BY <1>4, <1>7 DEF AwaitsRetained, RetainedTwice

\* A session that a step leaves alone.
LEMMA SessionStays ==
  ASSUME NEW s \in Conns, Session(s),
         state'[s] = state[s], link'[s] = link[s], events'[s] = events[s],
         offline'[s] = offline[s], got'[s] = got[s], since'[s] = since[s],
         Subscribed(s)' => Subscribed(s),
         adrift' \/ (~adrift /\ (cast' = cast \/ ~Subscribed(s)))
  PROVE  Session(s)'
<1>1. Flow(s)' = Flow(s) /\ (IsStarted(s)' <=> IsStarted(s))
  BY DEF Flow, Stored, IsStarted
<1>2. cast' = cast => Positions' = Positions
  BY DEF Positions
<1>3. QED
  BY <1>1, <1>2 DEF Session

\* A session whose link goes down keeps what the client got.
LEMMA SessionDown ==
  ASSUME TypeOK, NEW s \in Conns, Session(s), link'[s] = "down", state'[s] \notin {"none", "started"},
         got'[s] = got[s], since'[s] = since[s], UNCHANGED subs,
         state[s] = "destroyed" => state'[s] = "destroyed", state'[s] # "destroyed" \/ events'[s] = <<>>,
         Sends(events'[s]) => Sends(events[s]), AwaitsRetained(events'[s]) => AwaitsRetained(events[s]),
         RetainedTwice(events'[s]) => RetainedTwice(events[s])
  PROVE  Session(s)'
<1>1. got[s] \in Seq(Nat) /\ Num(events[s]) \in Seq(Nat) /\ Stored(s) \in Seq(Nat)
  BY FlowType
<1>2. Flow(s)' = got[s] /\ ~IsStarted(s)'
  <2>1. Flow(s)' = got[s] \o <<>>
    BY DEF Flow
  <2>2. QED
    BY <1>1, <2>1, ConcatEmptySeq DEF IsStarted
<1>3. since[s] # 0 => Ordered(since[s], got[s])
  <2>1. (IF link[s] = "up" THEN Num(events[s]) \o Stored(s) ELSE <<>>) \in Seq(Nat)
    BY <1>1, ConcatProperties, EmptySeq
  <2>2. since[s] \in Nat
    BY DEF TypeOK
  <2>3. QED
    BY <1>1, <2>1, <2>2, OrderedPrefix DEF Session, Flow
<1>4. Subscribed(s)' = Subscribed(s)
  BY DEF Subscribed
<1>5. QED
  BY <1>2, <1>3, <1>4 DEF Session

LEMMA FlowBound ==
  ASSUME NEW N, NEW S, \A e \in S : e.n \in N, NEW g \in Seq(N), NEW q \in Seq(S),
         NEW o \in Seq(N)
  PROVE  g \o (Num(q) \o o) \in Seq(N)
<1>1. DOMAIN q = 1 .. Len(q) /\ Len(q) \in Nat /\ \A k \in 1 .. Len(q) : q[k] \in S
  BY LenProperties, ElementOfSeq
<1>2. Num(q) \in [1 .. Len(q) -> N]
  BY <1>1 DEF Num
<1>3. Num(q) \in Seq(N)
  <2> DEFINE f == Num(q)
             l == Len(q)
  <2>1. l \in Nat /\ f \in [1 .. l -> N]
    BY <1>1, <1>2
  <2> HIDE DEF f, l
  <2>2. f \in Seq(N)
    BY <2>1
  <2>3. QED
    BY <2>2 DEF f
<1>4. QED
  BY <1>3, ConcatProperties

\* A message that is delivered flows behind the others.
LEMMA SessionDelivered ==
  ASSUME TypeOK, NEW s \in Conns, Session(s), NEW m \in Pubs, cast' = Append(cast, m),
         UNCHANGED <<state, link, got, since, subs, adrift>>, ~adrift,
         Subscribed(s), state[s] # "destroyed",
         events'[s] = events[s] \o Prepare(s, Len(cast')).push,
         offline'[s] = Prepare(s, Len(cast')).offline
  PROVE  Session(s)'
<1> DEFINE n == Len(cast')
           out == Prepare(s, n)
<1>1. /\ cast' \in Seq(Pubs) /\ n = Len(cast) + 1 /\ Len(cast) \in Nat /\ Positions = 1 .. Len(cast)
      /\ Positions' = 1 .. n /\ Positions \subseteq Positions' /\ n \in Positions' /\ n \in Nat
  BY CastGrows
<1>2. /\ Numbered(EventsOf) /\ got[s] \in Seq(Nat) /\ events[s] \in Seq(EventsOf)
      /\ Num(events[s]) \in Seq(Nat) /\ Stored(s) \in Seq(Nat) /\ offline[s] \in Seq(Nat)
      /\ Flow(s) \in Seq(Nat) /\ (\A k \in DOMAIN Flow(s) : Flow(s)[k] <= Len(cast))
      /\ since[s] \in Nat /\ since[s] # 0
  BY FlowType DEF TypeOK, Session
<1>3. Numbered(EventsOf') /\ events[s] \in Seq(EventsOf') /\ out.push \in Seq(EventsOf')
      /\ out.offline \in Seq(Positions')
  <2>1. Numbered(EventsOf')
    BY <1>1 DEF Numbered, EventsOf
  <2>2. QED
    BY <1>1, <1>2, <2>1, EventsGrow, PrepareType
<1>4. ~AwaitsRetained(out.push) /\ ~RetainedTwice(out.push) /\ (~IsStarted(s) => out.push = <<>>)
  BY PushKinds
<1> HIDE DEF n, out
<1>5. /\ AwaitsRetained(events'[s]) <=> AwaitsRetained(events[s])
      /\ ~RetainedTwice(events'[s])
  BY <1>3, <1>4, KindsConcat DEF Session, n, out
<1>6. Subscribed(s)' = Subscribed(s) /\ (IsStarted(s)' <=> IsStarted(s))
  BY DEF Subscribed, IsStarted
<1>7. CASE IsStarted(s)
  <2>1. Num(events'[s]) = Num(events[s]) \o Num(out.push)
    BY <1>3, NumConcat DEF n, out
  <2>2. Num(out.push) \o out.offline = offline[s] \o <<n>>
    BY <1>1, <1>7, PrepareFlow DEF n, out
  <2>3. Num(out.push) \in Seq(Nat) /\ out.offline \in Seq(Nat) /\ <<n>> \in Seq(Nat)
    <3>1. out.offline \in Seq(Nat)
      BY <1>1, <1>3, SeqMonotonic
    <3>2. QED
      BY <1>1, <1>3, <3>1, NumType
  <2>4. Flow(s)' = got[s] \o ((Num(events[s]) \o Num(out.push)) \o out.offline)
    BY <1>6, <1>7, <2>1 DEF Flow, Stored, Session, n, out
  <2>5. (Num(events[s]) \o Num(out.push)) \o out.offline = Num(events[s]) \o (offline[s] \o <<n>>)
    <3>1. (Num(events[s]) \o Num(out.push)) \o out.offline = Num(events[s]) \o (Num(out.push) \o out.offline)
      <4> DEFINE a == Num(events[s])
                 b == Num(out.push)
                 c == out.offline
      <4>1. a \in Seq(Nat) /\ b \in Seq(Nat) /\ c \in Seq(Nat)
        BY <1>2, <2>3
      <4> HIDE DEF a, b, c
      <4>2. (a \o b) \o c = a \o (b \o c)
        BY <4>1, Associative
      <4>3. QED
        BY <4>2 DEF a, b, c
    <3>2. QED
      BY <2>2, <3>1
  <2>7. Flow(s) = got[s] \o (Num(events[s]) \o offline[s])
    BY <1>7 DEF Flow, Stored, Session
  <2>8. Flow(s)' = Flow(s) \o <<n>>
    <3>1. (got[s] \o (Num(events[s]) \o offline[s])) \o <<n>> = got[s] \o (Num(events[s]) \o (offline[s] \o <<n>>))
      <4>1. got[s] \in Seq(Nat) /\ Num(events[s]) \in Seq(Nat) /\ offline[s] \in Seq(Nat) /\ n \in Nat
        BY <1>1, <1>2
      <4>2. QED
        BY <4>1, BehindFlow
    <3>2. QED
      BY <2>4, <2>5, <2>7, <3>1
  <2>9. Ordered(since[s], Flow(s))
    BY <1>2 DEF Session
  <2>10. Ordered(since[s], Flow(s) \o <<n>>)
    BY <1>1, <1>2, <2>9, OrderedAppend
  <2>11. \A k \in Nat : Has(Flow(s) \o <<n>>, k) <=> Has(Flow(s), k) \/ k = n
    BY <1>2, <2>3, HasConcat, HasOne
  <2>12. \A k \in Positions : k >= since[s] => Has(Flow(s), k)
    BY <1>7 DEF Session
  <2>13. \A k \in Positions' : k >= since[s] => Has(Flow(s) \o <<n>>, k)
    BY <1>1, <2>11, <2>12
  <2>14. Closed(since[s], Flow(s) \o <<n>>)
    <3> DEFINE q == Flow(s)
               r == Flow(s) \o <<n>>
    <3>1. /\ DOMAIN q = 1 .. Len(q) /\ DOMAIN r = 1 .. Len(q) + 1 /\ Len(q) \in Nat
          /\ r[Len(q) + 1] = n /\ \A i \in 1 .. Len(q) : r[i] = q[i] /\ q[i] \in Nat
      BY <1>2, <2>3, ConcatProperties, LenProperties, ElementOfSeq, SMTT(20), ZenonT(20)
    <3>2. \A i \in DOMAIN q : q[i] <= Len(cast)
      BY <1>2
    <3>3. \A k \in Positions' : k >= since[s] => Has(r, k)
      BY <2>13
    <3> HIDE DEF q, r
    <3>4. \A i \in DOMAIN r : r[i] \in Nat /\ r[i] <= n
      BY <1>1, <3>1, <3>2
    <3>5. \A i \in DOMAIN r : \A k \in Nat : since[s] <= k /\ k <= r[i] => k \in Positions'
      BY <1>1, <1>2, <3>4
    <3>6. Closed(since[s], r)
      BY <1>2, <3>3, <3>5 DEF Closed
    <3>7. QED
      BY <3>6 DEF r
  <2>15. QED
    BY <1>2, <1>5, <1>6, <2>8, <2>10, <2>13, <2>14 DEF Session, IsStarted
<1>8. CASE ~IsStarted(s)
  <2>1. events'[s] = events[s]
    BY <1>2, <1>4, <1>8, ConcatEmptySeq DEF n, out
  <2>2. Flow(s)' = Flow(s)
    BY <1>6, <1>8, <2>1 DEF Flow, Stored
  <2>3. QED
    BY <1>6, <1>8, <2>1, <2>2 DEF Session, IsStarted
<1>9. QED
  BY <1>7, <1>8

LEMMA MulticastSessions ==
  ASSUME TypeOK, Sessions, NEW m \in Pubs, ~adrift, Multicast(m), UNCHANGED <<since, subs>>
  PROVE  Sessions'
<1> SUFFICES ASSUME NEW s \in Conns PROVE Session(s)'
  BY DEF Sessions
<1> DEFINE S == {e.at : e \in subs}
<1>1. Session(s) /\ cast' = Append(cast, m) /\ Subscribed(s)' = Subscribed(s) /\ (s \in S <=> Subscribed(s))
  BY DEF Sessions, Multicast, Subscribed
<1>2. CASE adrift' = TRUE /\ UNCHANGED sessions
  BY <1>1, <1>2, SessionStays DEF sessions
<1>3. CASE UNCHANGED adrift /\ Deliver(S, Len(cast')) /\ ~(\E r \in S : state[r] = "destroyed")
  <2>1. CASE s \in S
    BY <1>1, <1>3, <2>1, SessionDelivered DEF Deliver
  <2>2. CASE s \notin S
    BY <1>1, <1>3, <2>2, SessionStays DEF Deliver
  <2>3. QED
    BY <2>1, <2>2
<1>4. QED
  BY <1>2, <1>3 DEF Multicast

\* The first event of a queue and the others.
LEMMA FirstEvent ==
  ASSUME TypeOK, NEW s \in Conns, events[s] # <<>>
  PROVE  /\ Head(events[s]) \in EventsOf /\ Tail(events[s]) \in Seq(EventsOf)
         /\ Num(Tail(events[s])) \in Seq(Nat) /\ Head(events[s]).n \in Nat
         /\ Num(events[s]) = <<Head(events[s]).n>> \o Num(Tail(events[s]))
         /\ Head(events[s]).e # "publish" => Head(events[s]).n = 0
<1> DEFINE h == Head(events[s])
           t == Tail(events[s])
<1>1. Numbered(EventsOf) /\ events[s] \in Seq(EventsOf)
  BY FlowType
<1>2. h \in EventsOf /\ t \in Seq(EventsOf) /\ events[s] = <<h>> \o t
  BY <1>1, HeadTailProperties, HeadAndTail
<1> HIDE DEF h, t
<1>3. <<h>> \in Seq(EventsOf) /\ Num(<<h>>) = <<h.n>>
  BY <1>2, NumOne
<1>4. Num(events[s]) = <<h.n>> \o Num(t)
  BY <1>1, <1>2, <1>3, NumConcat
<1>5. Num(t) \in Seq(Nat) /\ h.n \in Nat /\ (h.e # "publish" => h.n = 0)
  BY <1>1, <1>2, NumType, EventTypes DEF Numbered
<1>6. QED
  BY <1>2, <1>4, <1>5 DEF h, t

LEMMA WriteEndsSession ==
  ASSUME TypeOK, NEW s \in Conns, Session(s), WriteEnds(s)
  PROVE  Session(s)'
<1> DEFINE h == Head(events[s])
           t == Tail(events[s])
<1>1. /\ events[s] # <<>> /\ link[s] = "up" /\ events'[s] = t
      /\ got'[s] = IF h.e = "publish" THEN Append(got[s], h.n) ELSE got[s]
      /\ state'[s] = state[s] /\ link'[s] = "up" /\ offline'[s] = offline[s]
      /\ since'[s] = since[s] /\ UNCHANGED <<cast, subs, adrift>>
  <2>1. events[s] # <<>> /\ link[s] = "up" /\ UNCHANGED <<cast, subs, adrift, state, link, offline, since>>
    BY DEF WriteEnds, maps
  <2>2. events'[s] = t
    BY DEF WriteEnds, TypeOK
  <2>3. got'[s] = IF h.e = "publish" THEN Append(got[s], h.n) ELSE got[s]
    BY DEF WriteEnds, TypeOK
  <2>4. QED
    BY <2>1, <2>2, <2>3
<1>2. /\ t \in Seq(EventsOf) /\ Num(t) \in Seq(Nat) /\ h.n \in Nat
      /\ Num(events[s]) = <<h.n>> \o Num(t) /\ (h.e # "publish" => h.n = 0)
  BY <1>1, FirstEvent
<1>3. /\ AwaitsRetained(t) => AwaitsRetained(events[s])
      /\ Sends(t) => Sends(events[s])
      /\ RetainedTwice(t) => RetainedTwice(events[s])
      /\ h.e = "publish" => Sends(events[s])
  BY <1>1, KindsTail DEF TypeOK
<1>4. got[s] \in Seq(Nat) /\ Stored(s) \in Seq(Nat) /\ since[s] \in Nat
  BY FlowType DEF TypeOK
<1>5. Num(t) \o Stored(s) \in Seq(Nat)
  BY <1>2, <1>4, ConcatProperties
<1>6. Stored(s)' = Stored(s) /\ (IsStarted(s)' <=> IsStarted(s)) /\ Positions' = Positions
      /\ (Subscribed(s)' <=> Subscribed(s))
  BY <1>1 DEF Stored, IsStarted, Positions, Subscribed
<1> DEFINE rest == Num(t) \o Stored(s)
<1>7. Flow(s)' = got'[s] \o rest
  BY <1>1, <1>6 DEF Flow
<1>8. Flow(s) = got[s] \o (<<h.n>> \o rest)
  <2>1. <<h.n>> \in Seq(Nat)
    BY <1>2
  <2>2. (<<h.n>> \o Num(t)) \o Stored(s) = <<h.n>> \o (Num(t) \o Stored(s))
    BY <1>2, <1>4, <2>1, Associative
  <2>3. QED
    BY <1>1, <1>2, <2>2 DEF Flow
<1> HIDE DEF h, t, rest
<1>9. CASE h.e = "publish"
  <2>1. got'[s] = got[s] \o <<h.n>>
    BY <1>1, <1>2, <1>4, <1>9, AppendIsConcat
  <2>2. Flow(s)' = Flow(s)
    <3>1. <<h.n>> \in Seq(Nat) /\ rest \in Seq(Nat) /\ got[s] \in Seq(Nat)
      BY <1>2, <1>4, <1>5 DEF rest
    <3>2. (got[s] \o <<h.n>>) \o rest = got[s] \o (<<h.n>> \o rest)
      BY <3>1, Associative
    <3>3. QED
      BY <1>7, <1>8, <2>1, <3>2
  <2>3. since[s] # 0
    BY <1>3, <1>9 DEF Session
  <2>4. QED
    BY <1>1, <1>3, <1>6, <2>2, <2>3 DEF Session, IsStarted
<1>10. CASE h.e # "publish"
  <2>1. Flow(s) = got[s] \o (<<0>> \o rest) /\ Flow(s)' = got[s] \o rest /\ got'[s] = got[s]
    BY <1>1, <1>2, <1>7, <1>8, <1>10
  <2>2. ASSUME since[s] # 0
        PROVE  /\ Ordered(since[s], Flow(s)) <=> Ordered(since[s], Flow(s)')
               /\ Closed(since[s], Flow(s)) <=> Closed(since[s], Flow(s)')
               /\ \A n \in Nat \ {0} : Has(Flow(s), n) <=> Has(Flow(s)', n)
    <3>1. since[s] \in Nat \ {0} /\ got[s] \in Seq(Nat) /\ rest \in Seq(Nat)
      BY <1>4, <1>5, <2>2 DEF rest
    <3>2. QED
      BY <2>1, <3>1, OneZero, SMTT(20), ZenonT(20)
  <2>3. \A n \in Positions : n \in Nat \ {0}
    <3>1. DOMAIN cast = 1 .. Len(cast) /\ Len(cast) \in Nat
      BY LenProperties DEF TypeOK
    <3>2. QED
      BY <3>1 DEF Positions
  <2>4. state[s] # "destroyed" /\ Subscribed(s) => since[s] # 0
    BY DEF Session
  <2>5. QED
    BY <1>1, <1>3, <1>6, <2>1, <2>2, <2>3, <2>4 DEF Session, IsStarted
<1>11. QED
  BY <1>9, <1>10

LEMMA WriteFailsSession ==
  ASSUME TypeOK, NEW s \in Conns, Session(s), WriteFails(s)
  PROVE  Session(s)'
<1> DEFINE r == IF IsStarted(s) THEN <<Reply, Disconnect>> ELSE <<>>
<1>1. /\ events[s] # <<>> /\ events[s] \in Seq(EventsOf) /\ Tail(events[s]) \in Seq(EventsOf) /\ r \in Seq(EventsOf)
      /\ events'[s] = Tail(events[s]) \o r
  BY FirstEvent, SequencesOfEvents DEF WriteFails, TypeOK
<1>2. /\ link'[s] = "down" /\ got'[s] = got[s] /\ since'[s] = since[s] /\ UNCHANGED subs
      /\ state'[s] = IF IsStarted(s) THEN "stopping" ELSE state[s]
  BY DEF WriteFails, TypeOK, maps
<1>3. /\ AwaitsRetained(Tail(events[s])) => AwaitsRetained(events[s])
      /\ Sends(Tail(events[s])) => Sends(events[s])
      /\ RetainedTwice(Tail(events[s])) => RetainedTwice(events[s])
  BY <1>1, KindsTail
<1>4. ~AwaitsRetained(r) /\ ~Sends(r) /\ ~RetainedTwice(r)
  BY KindsOfAnswers
<1> HIDE DEF r
<1>5. /\ Sends(events'[s]) => Sends(events[s])
      /\ AwaitsRetained(events'[s]) => AwaitsRetained(events[s])
      /\ RetainedTwice(events'[s]) => RetainedTwice(events[s])
  <2>1. LET q == Tail(events[s]) \o r
        IN /\ AwaitsRetained(q) <=> AwaitsRetained(Tail(events[s])) \/ AwaitsRetained(r)
           /\ Sends(q) <=> Sends(Tail(events[s])) \/ Sends(r)
           /\ RetainedTwice(q) => \/ RetainedTwice(Tail(events[s])) \/ RetainedTwice(r)
                                  \/ AwaitsRetained(Tail(events[s])) /\ AwaitsRetained(r)
    BY <1>1, KindsConcat
  <2>2. QED
    BY <1>1, <1>3, <1>4, <2>1
<1>6. CASE state[s] # "none"
  <2>1. state[s] # "destroyed" /\ state'[s] \notin {"none", "started", "destroyed"}
    BY <1>1, <1>2, <1>6 DEF Session, IsStarted
  <2>2. QED
    BY <1>2, <1>5, <2>1, SessionDown
<1>7. CASE state[s] = "none"
  <2>1. since[s] = 0 /\ ~Subscribed(s)
    BY <1>7 DEF Session
  <2>2. since'[s] = 0 /\ ~Subscribed(s)' /\ state'[s] = "none"
    BY <1>2, <1>7, <2>1 DEF Subscribed, IsStarted
  <2>3. QED
    BY <1>2, <1>5, <2>1, <2>2 DEF Session, IsStarted
<1>8. QED
  BY <1>6, <1>7

LEMMA ReadFailsSession ==
  ASSUME TypeOK, NEW s \in Conns, Session(s), ReadFails(s)
  PROVE  Session(s)'
<1>1. /\ events[s] \in Seq(EventsOf) /\ <<Reply, Disconnect>> \in Seq(EventsOf)
      /\ events'[s] = events[s] \o <<Reply, Disconnect>>
  BY SequencesOfEvents DEF ReadFails, TypeOK
<1>2. /\ link'[s] = "down" /\ got'[s] = got[s] /\ since'[s] = since[s] /\ UNCHANGED subs
      /\ state'[s] = "stopping" /\ state[s] = "started"
  BY DEF ReadFails, TypeOK, IsStarted, maps
<1>3. /\ Sends(events'[s]) => Sends(events[s])
      /\ AwaitsRetained(events'[s]) => AwaitsRetained(events[s])
      /\ RetainedTwice(events'[s]) => RetainedTwice(events[s])
  <2>1. LET q == events[s] \o <<Reply, Disconnect>>
        IN /\ AwaitsRetained(q) <=> AwaitsRetained(events[s]) \/ AwaitsRetained(<<Reply, Disconnect>>)
           /\ Sends(q) <=> Sends(events[s]) \/ Sends(<<Reply, Disconnect>>)
           /\ RetainedTwice(q) => \/ RetainedTwice(events[s]) \/ RetainedTwice(<<Reply, Disconnect>>)
                                  \/ AwaitsRetained(events[s]) /\ AwaitsRetained(<<Reply, Disconnect>>)
    BY <1>1, KindsConcat
  <2>2. QED
    BY <1>1, <2>1, KindsOfAnswers
<1>4. QED
  BY <1>2, <1>3, SessionDown

LEMMA CloseSession ==
  ASSUME TypeOK, NEW s \in Conns, Session(s), Close(s)
  PROVE  Session(s)'
<1>1. events[s] # <<>> /\ events[s] \in Seq(EventsOf) /\ events'[s] = Tail(events[s]) /\ state[s] # "destroyed"
  BY DEF Close, TypeOK, Session
<1>2. /\ link'[s] = "down" /\ got'[s] = got[s] /\ since'[s] = since[s] /\ UNCHANGED subs
      /\ state'[s] = "closed"
  BY DEF Close, TypeOK
<1>3. /\ Sends(events'[s]) => Sends(events[s])
      /\ AwaitsRetained(events'[s]) => AwaitsRetained(events[s])
      /\ RetainedTwice(events'[s]) => RetainedTwice(events[s])
  BY <1>1, KindsTail
<1>4. QED
  BY <1>1, <1>2, <1>3, SessionDown

\* The retained message, when a lookup finds one that goes to a started session,
\* flows behind the others.
LEMMA RetainedFlows ==
  ASSUME TypeOK, NEW s \in Conns, NEW hit \in FindsRetained, NEW rest \in Seq(EventsOf),
         UNCHANGED <<cast, state>>, DeliverRetained(s, hit, rest)
  PROVE  LET t == IF events[s] = <<>> THEN <<>> ELSE Tail(events[s])
         IN \E push \in Seq(EventsOf) :
              /\ events'[s] = (t \o push) \o rest /\ ~AwaitsRetained(push)
              /\ \/ push = <<>> /\ Stored(s)' = Stored(s)
                 \/ /\ IsStarted(s)
                    /\ \E n \in Positions : Num(push) \o offline'[s] = offline[s] \o <<n>>
<1> DEFINE t == IF events[s] = <<>> THEN <<>> ELSE Tail(events[s])
           out == IF hit = {} THEN Outbox(<<>>, offline[s], used[s])
                  ELSE Prepare(s, CHOOSE n \in hit : TRUE)
<1>1. Positions' = Positions /\ EventsOf' = EventsOf /\ cast' \in Seq(Pubs) /\ (IsStarted(s)' <=> IsStarted(s))
  BY CastStays DEF TypeOK, IsStarted
<1>2. hit # {} => (CHOOSE n \in hit : TRUE) \in Positions
  BY DEF FindsRetained, TypeOK
<1>3. events'[s] = (t \o out.push) \o rest /\ offline'[s] = out.offline
  BY DEF DeliverRetained, TypeOK
<1>4. CASE hit = {}
  <2>1. out.push = <<>> /\ out.offline = offline[s]
    BY <1>4 DEF Outbox
  <2>2. ~AwaitsRetained(<<>>) /\ <<>> \in Seq(EventsOf)
    BY KindsOfAnswers, EmptySeq
  <2> HIDE DEF t, out
  <2>3. Stored(s)' = Stored(s)
    BY <1>1, <1>3, <2>1 DEF Stored
  <2>4. events'[s] = (t \o <<>>) \o rest
    BY <1>3, <2>1
  <2>5. QED
    BY <2>2, <2>3, <2>4 DEF t
<1>5. CASE hit # {}
  <2> DEFINE n == CHOOSE k \in hit : TRUE
  <2>1. n \in Positions /\ n \in Positions' /\ out = Prepare(s, n)
    BY <1>1, <1>2, <1>5
  <2> HIDE DEF t, out, n
  <2>2. out.push \in Seq(EventsOf) /\ ~AwaitsRetained(out.push) /\ (~IsStarted(s) => out.push = <<>>)
    BY <1>1, <2>1, PrepareType, PushKinds
  <2>3. CASE IsStarted(s)
    <3>1. Num(out.push) \o offline'[s] = offline[s] \o <<n>>
      BY <1>1, <1>3, <2>1, <2>3, PrepareFlow
    <3>2. QED
      BY <1>3, <2>1, <2>2, <2>3, <3>1 DEF t
  <2>4. CASE ~IsStarted(s)
    <3>1. Stored(s)' = Stored(s)
      BY <1>1, <2>4 DEF Stored
    <3>2. QED
      BY <1>3, <2>2, <2>4, <3>1 DEF t
  <2>5. QED
    BY <2>3, <2>4
<1>6. QED
  BY <1>4, <1>5

LEMMA RunRetainedSession ==
  ASSUME TypeOK, NEW s \in Conns, Session(s), RunRetained(s)
  PROVE  Session(s)'
<1> DEFINE t == Tail(events[s])
<1>1. /\ ~adrift /\ events[s] # <<>> /\ Head(events[s]).e = "retained"
      /\ UNCHANGED <<cast, state, link, got, since, subs, adrift>>
  BY DEF RunRetained, maps
<1>2. /\ events[s] \in Seq(EventsOf) /\ t \in Seq(EventsOf) /\ Num(t) \in Seq(Nat)
      /\ Num(events[s]) = <<0>> \o Num(t)
  <2>1. Head(events[s]).n = 0
    BY <1>1, FirstEvent
  <2>2. QED
    BY <1>1, <2>1, FirstEvent DEF TypeOK
<1>3. AwaitsRetained(events[s]) /\ ~AwaitsRetained(t) /\ ~RetainedTwice(events[s])
      /\ state[s] # "destroyed" /\ state[s] # "none" /\ since[s] # 0
  BY <1>1, <1>2, KindsTail DEF Session
<1>4. PICK push \in Seq(EventsOf) :
        /\ events'[s] = (t \o push) \o <<>> /\ ~AwaitsRetained(push)
        /\ \/ push = <<>> /\ Stored(s)' = Stored(s)
           \/ /\ IsStarted(s)
              /\ \E n \in Positions : Num(push) \o offline'[s] = offline[s] \o <<n>>
  <2>1. <<>> \in Seq(EventsOf)
    BY EmptySeq
  <2>2. \E hit \in FindsRetained : DeliverRetained(s, hit, <<>>)
    BY DEF RunRetained
  <2>3. QED
    BY <1>1, <2>1, <2>2, RetainedFlows
<1> HIDE DEF t
<1>5. events'[s] = t \o push
  <2>1. t \o push \in Seq(EventsOf)
    BY <1>2, ConcatProperties
  <2>2. QED
    BY <1>4, <2>1, ConcatEmptySeq
<1>6. ~AwaitsRetained(events'[s]) /\ ~RetainedTwice(events'[s])
  <2>1. AwaitsRetained(t \o push) <=> AwaitsRetained(t) \/ AwaitsRetained(push)
    BY <1>2, <1>4, KindsConcat
  <2>2. ~AwaitsRetained(events'[s])
    BY <1>3, <1>4, <1>5, <2>1
  <2>3. QED
    BY <2>2 DEF AwaitsRetained, RetainedTwice
<1>7. /\ got[s] \in Seq(Nat) /\ Stored(s) \in Seq(Nat) /\ offline[s] \in Seq(Nat) /\ since[s] \in Nat \ {0}
      /\ (IsStarted(s)' <=> IsStarted(s)) /\ (Subscribed(s)' <=> Subscribed(s)) /\ Positions' = Positions
      /\ Numbered(EventsOf)
  BY <1>1, <1>3, FlowType DEF TypeOK, IsStarted, Subscribed, Positions
<1>8. Num(t) \o Stored(s) \in Seq(Nat)
  BY <1>2, <1>7, ConcatProperties
<1> DEFINE flow0 == got[s] \o (Num(t) \o Stored(s))
<1>9. flow0 \in Seq(Nat)
  BY <1>7, <1>8, ConcatProperties
<1>10. \A n \in Positions : n \in Nat \ {0}
  <2>1. DOMAIN cast = 1 .. Len(cast) /\ Len(cast) \in Nat
    BY LenProperties DEF TypeOK
  <2>2. QED
    BY <2>1 DEF Positions
<1>11. ASSUME link[s] = "up"
       PROVE  /\ Ordered(since[s], flow0)
              /\ Closed(since[s], Flow(s)) => Closed(since[s], flow0)
              /\ \A n \in Positions : Has(Flow(s), n) => Has(flow0, n)
  <2>1. Flow(s) = got[s] \o ((<<0>> \o Num(t)) \o Stored(s))
    BY <1>2, <1>11 DEF Flow
  <2>2. (<<0>> \o Num(t)) \o Stored(s) = <<0>> \o (Num(t) \o Stored(s))
    <3>1. <<0>> \in Seq(Nat)
      OBVIOUS
    <3>2. QED
      BY <1>2, <1>7, <3>1, Associative
  <2> DEFINE rest == Num(t) \o Stored(s)
  <2>3. Flow(s) = got[s] \o (<<0>> \o rest) /\ flow0 = got[s] \o rest /\ rest \in Seq(Nat)
    BY <1>8, <2>1, <2>2
  <2> HIDE DEF rest, flow0
  <2>4. /\ Ordered(since[s], got[s] \o (<<0>> \o rest)) <=> Ordered(since[s], got[s] \o rest)
        /\ Closed(since[s], got[s] \o (<<0>> \o rest)) <=> Closed(since[s], got[s] \o rest)
        /\ \A n \in Nat \ {0} : Has(got[s] \o (<<0>> \o rest), n) <=> Has(got[s] \o rest, n)
    BY <1>7, <2>3, OneZero
  <2>5. Ordered(since[s], Flow(s))
    BY <1>3 DEF Session
  <2>6. QED
    BY <1>10, <2>3, <2>4, <2>5
<1>12. CASE link[s] # "up"
  <2>1. Flow(s)' = Flow(s) /\ ~IsStarted(s)
    BY <1>1, <1>12 DEF Flow, Session
  <2>2. QED
    BY <1>1, <1>3, <1>6, <1>7, <2>1 DEF Session, IsStarted
<1>13. CASE link[s] = "up" /\ push = <<>> /\ Stored(s)' = Stored(s)
  <2>1. events'[s] = t
    BY <1>2, <1>5, <1>13, ConcatEmptySeq
  <2>2. Flow(s)' = flow0
    BY <1>1, <1>13, <2>1 DEF Flow
  <2> HIDE DEF flow0
  <2>3. QED
    BY <1>1, <1>3, <1>6, <1>7, <1>11, <1>13, <2>2 DEF Session, IsStarted
<1>14. CASE link[s] = "up" /\ IsStarted(s) /\ \E n \in Positions : Num(push) \o offline'[s] = offline[s] \o <<n>>
  <2>1. PICK n \in Positions : Num(push) \o offline'[s] = offline[s] \o <<n>>
    BY <1>14
  <2>2. Stored(s) = offline[s] /\ Stored(s)' = offline'[s] /\ n \in Nat
    BY <1>7, <1>10, <1>14 DEF Stored
  <2>3. Num(events'[s]) = Num(t) \o Num(push) /\ Num(push) \in Seq(Nat)
    BY <1>2, <1>4, <1>5, <1>7, NumConcat, NumType
  <2>4. offline'[s] \in Seq(Nat)
    <3>1. offline'[s] \in Seq(Positions)
      <4>1. RunRetained(s) => SessionTypes'
        BY SubscriberType DEF SubscriberSession
      <4>2. QED
        BY <1>7, <4>1 DEF SessionTypes
    <3>2. Positions \subseteq Nat
      BY <1>10
    <3>3. QED
      BY <3>1, <3>2, SeqMonotonic
  <2>5. Flow(s)' = got[s] \o ((Num(t) \o Num(push)) \o offline'[s])
    BY <1>1, <1>14, <2>2, <2>3 DEF Flow
  <2>6. (Num(t) \o Num(push)) \o offline'[s] = Num(t) \o (offline[s] \o <<n>>)
    <3>1. (Num(t) \o Num(push)) \o offline'[s] = Num(t) \o (Num(push) \o offline'[s])
      BY <1>2, <2>3, <2>4, Associative, Zenon
    <3>2. QED
      BY <2>1, <3>1
  <2>7. Flow(s)' = flow0 \o <<n>>
    <3>1. got[s] \in Seq(Nat) /\ Num(t) \in Seq(Nat) /\ offline[s] \in Seq(Nat) /\ n \in Nat
      BY <1>2, <1>7, <2>2
    <3>2. (got[s] \o (Num(t) \o offline[s])) \o <<n>> = got[s] \o (Num(t) \o (offline[s] \o <<n>>))
      BY <3>1, BehindFlow
    <3>3. QED
      BY <2>2, <2>5, <2>6, <3>2
  <2> HIDE DEF flow0
  <2>8. Closed(since[s], flow0)
    BY <1>3, <1>11, <1>14 DEF Session
  <2>9. n < since[s] \/ Has(flow0, n) \/ \A i \in DOMAIN flow0 : flow0[i] <= n \/ flow0[i] < since[s]
    <3>1. \A i \in DOMAIN flow0 : flow0[i] \in Nat
      BY <1>9, LenProperties, ElementOfSeq
    <3>2. QED
      BY <1>7, <2>2, <2>8, <3>1 DEF Closed
  <2>10. Ordered(since[s], flow0 \o <<n>>)
    BY <1>7, <1>9, <1>11, <1>14, <2>2, <2>9, OrderedAppend
  <2>11. \A k \in Positions : Has(flow0, k) => Has(flow0 \o <<n>>, k)
    <3>1. <<n>> \in Seq(Nat)
      BY <2>2
    <3>2. QED
      BY <1>9, <3>1, HasConcat
  <2>12. QED
    BY <1>1, <1>3, <1>6, <1>7, <1>11, <1>14, <2>7, <2>10, <2>11 DEF Session, IsStarted
<1>15. QED
  BY <1>4, <1>12, <1>13, <1>14

\* What a session holds when it subscribes was multicast before.
LEMMA SubscribeSession ==
  ASSUME TypeOK, NEW s \in Conns, Session(s), Subscribe(s)
  PROVE  Session(s)'
<1>1. /\ state[s] \in {"started", "stopping"} /\ link[s] = "up" /\ since[s] = 0
      /\ UNCHANGED <<cast, state, link, got, adrift>> /\ since'[s] = Len(cast) + 1
  BY DEF Subscribe, Reads, TypeOK
<1>2. Positions = 1 .. Len(cast) /\ Len(cast) \in Nat /\ Positions' = Positions /\ EventsOf' = EventsOf
      /\ Stored(s)' = (IF IsStarted(s) THEN offline'[s] ELSE <<>>)
      /\ state'[s] \in {"started", "stopping"}
  BY <1>1, CastStays, LenProperties DEF TypeOK, Positions, IsStarted, Stored
<1>3. /\ <<>> \in Seq(EventsOf) /\ <<Reply>> \in Seq(EventsOf) /\ <<SendRetained, Reply>> \in Seq(EventsOf)
      /\ events[s] \in Seq(EventsOf) /\ ~AwaitsRetained(events[s])
  BY <1>1, SequencesOfEvents DEF TypeOK, Session
<1>4. ~RetainedTwice(events'[s])
  <2>1. CASE events[s] # <<>>
    <3>1. events'[s] = events[s] \o <<SendRetained, Reply>>
      BY <2>1 DEF Subscribe, Reads, TypeOK
    <3>2. RetainedTwice(events[s] \o <<SendRetained, Reply>>) =>
            \/ RetainedTwice(events[s]) \/ RetainedTwice(<<SendRetained, Reply>>)
            \/ AwaitsRetained(events[s]) /\ AwaitsRetained(<<SendRetained, Reply>>)
      BY <1>3, KindsConcat
    <3>3. QED
      BY <1>3, <3>1, <3>2, KindsOfAnswers DEF Session
  <2>2. CASE events[s] = <<>>
    <3>1. \E hit \in FindsRetained : DeliverRetained(s, hit, <<Reply>>)
      BY <2>2 DEF Subscribe, Reads
    <3>2. PICK push \in Seq(EventsOf) : events'[s] = (<<>> \o push) \o <<Reply>> /\ ~AwaitsRetained(push)
      BY <1>1, <1>3, <2>2, <3>1, RetainedFlows
    <3>3. <<>> \o push = push
      BY <3>2, ConcatEmptySeq
    <3>4. AwaitsRetained(push \o <<Reply>>) <=> AwaitsRetained(push) \/ AwaitsRetained(<<Reply>>)
      BY <1>3, <3>2, KindsConcat
    <3>5. ~AwaitsRetained(events'[s])
      BY <3>2, <3>3, <3>4, KindsOfAnswers
    <3>6. QED
      BY <3>5 DEF AwaitsRetained, RetainedTwice
  <2>3. QED
    BY <2>1, <2>2
<1>5. \A k \in DOMAIN Flow(s)' : Flow(s)'[k] \in Nat /\ Flow(s)'[k] < since'[s]
  <2> DEFINE N == 0 .. Len(cast)
  <2>1. \A e \in EventsOf : e.n \in N
    BY <1>2, EventTypes
  <2>2. events'[s] \in Seq(EventsOf) /\ offline'[s] \in Seq(Positions) /\ got'[s] \in Seq(Positions)
    BY <1>2, SubscribeType DEF SessionTypes
  <2>3. Stored(s)' \in Seq(N) /\ got'[s] \in Seq(N)
    <3>1. Positions \subseteq N
      BY <1>2
    <3>2. offline'[s] \in Seq(N) /\ got'[s] \in Seq(N)
      BY <2>2, <3>1, SeqMonotonic
    <3>3. <<>> \in Seq(N)
      BY EmptySeq
    <3>4. QED
      BY <1>2, <3>2, <3>3
  <2>4. Flow(s)' = got'[s] \o (Num(events'[s]) \o Stored(s)')
    BY <1>1 DEF Flow
  <2> HIDE DEF N
  <2>5. Flow(s)' \in Seq(N)
    BY <2>1, <2>2, <2>3, <2>4, FlowBound
  <2>6. \A k \in DOMAIN Flow(s)' : Flow(s)'[k] \in N
    BY <2>5, LenProperties, ElementOfSeq
  <2>7. QED
    BY <1>1, <1>2, <2>6 DEF N
<1>6. since'[s] # 0 /\ ~(\E n \in Positions' : n >= since'[s])
  BY <1>1, <1>2
<1>7. Ordered(since'[s], Flow(s)') /\ Closed(since'[s], Flow(s)')
  <2> DEFINE q == Flow(s)'
             b == since'[s]
  <2>1. b \in Nat /\ \A k \in DOMAIN q : q[k] \in Nat /\ q[k] < b
    BY <1>1, <1>2, <1>5
  <2> HIDE DEF q, b
  <2>2. Ordered(b, q) /\ Closed(b, q)
    BY <2>1 DEF Ordered, Closed
  <2>3. QED
    BY <2>2 DEF q, b
<1>8. QED
  BY <1>1, <1>2, <1>4, <1>6, <1>7 DEF Session, IsStarted

LEMMA UnsubscribeSession ==
  ASSUME TypeOK, NEW s \in Conns, Session(s), Unsubscribe(s)
  PROVE  Session(s)'
<1>1. /\ state[s] \in {"started", "stopping"} /\ link[s] = "up" /\ events'[s] = Append(events[s], Reply)
      /\ UNCHANGED <<cast, state, link, offline, got, since, adrift>>
      /\ subs' \subseteq subs /\ Subscribed(s)
  BY DEF Unsubscribe, Reads, TypeOK, Subscribed
<1>2. since[s] # 0 /\ Positions' = Positions /\ (IsStarted(s)' <=> IsStarted(s))
  BY <1>1 DEF Positions, IsStarted, Session
<1>3. /\ events[s] \in Seq(EventsOf) /\ <<Reply>> \in Seq(EventsOf) /\ Numbered(EventsOf)
      /\ got[s] \in Seq(Nat) /\ Num(events[s]) \in Seq(Nat) /\ Stored(s) \in Seq(Nat)
      /\ since[s] \in Nat \ {0}
  BY <1>2, FlowType, SequencesOfEvents DEF TypeOK
<1>4. events'[s] = events[s] \o <<Reply>>
  <2>1. Reply \in EventsOf
    BY DEF Reply, Event, EventsOf
  <2>2. QED
    BY <1>1, <1>3, <2>1, AppendIsConcat
<1>5. /\ AwaitsRetained(events'[s]) <=> AwaitsRetained(events[s])
      /\ RetainedTwice(events'[s]) => RetainedTwice(events[s])
  <2>1. LET q == events[s] \o <<Reply>>
        IN /\ AwaitsRetained(q) <=> AwaitsRetained(events[s]) \/ AwaitsRetained(<<Reply>>)
           /\ RetainedTwice(q) => \/ RetainedTwice(events[s]) \/ RetainedTwice(<<Reply>>)
                                  \/ AwaitsRetained(events[s]) /\ AwaitsRetained(<<Reply>>)
    BY <1>3, KindsConcat
  <2>2. QED
    BY <1>4, <2>1, KindsOfAnswers
<1> DEFINE q == got[s] \o Num(events[s])
           z == <<0>>
<1>6. q \in Seq(Nat) /\ z \in Seq(Nat) /\ z \o Stored(s) \in Seq(Nat)
  BY <1>3, ConcatProperties
<1>7. Flow(s) = q \o Stored(s)
  BY <1>1, <1>3, Associative DEF Flow
<1>8. Flow(s)' = q \o (z \o Stored(s))
  <2>1. Num(events'[s]) = Num(events[s]) \o z
    <3>1. Num(events[s] \o <<Reply>>) = Num(events[s]) \o Num(<<Reply>>)
      BY <1>3, NumConcat
    <3>2. QED
      BY <1>4, <3>1, KindsOfAnswers
  <2>2. Stored(s)' = Stored(s)
    BY <1>1, <1>2 DEF Stored
  <2>3. Flow(s)' = got[s] \o ((Num(events[s]) \o z) \o Stored(s))
    BY <1>1, <2>1, <2>2 DEF Flow
  <2> HIDE DEF z
  <2>4. (Num(events[s]) \o z) \o Stored(s) = Num(events[s]) \o (z \o Stored(s))
    BY <1>3, <1>6, Associative, ZenonT(30)
  <2>5. q \o (z \o Stored(s)) = got[s] \o (Num(events[s]) \o (z \o Stored(s)))
    BY <1>3, <1>6, Associative, ZenonT(30)
  <2>6. QED
    BY <2>3, <2>4, <2>5
<1> HIDE DEF q
<1>9. /\ Ordered(since[s], Flow(s)') <=> Ordered(since[s], Flow(s))
      /\ Closed(since[s], Flow(s)') <=> Closed(since[s], Flow(s))
      /\ \A n \in Nat \ {0} : Has(Flow(s)', n) <=> Has(Flow(s), n)
  <2> DEFINE r == Stored(s)
  <2>1. q \in Seq(Nat) /\ r \in Seq(Nat) /\ since[s] \in Nat \ {0}
    BY <1>3, <1>6
  <2>2. Flow(s) = q \o r /\ Flow(s)' = q \o (<<0>> \o r)
    BY <1>7, <1>8
  <2> HIDE DEF r
  <2>3. /\ Ordered(since[s], q \o (<<0>> \o r)) <=> Ordered(since[s], q \o r)
        /\ Closed(since[s], q \o (<<0>> \o r)) <=> Closed(since[s], q \o r)
        /\ \A n \in Nat \ {0} : Has(q \o (<<0>> \o r), n) <=> Has(q \o r, n)
    BY <2>1, OneZero
  <2>4. QED
    BY <2>2, <2>3
<1>10. \A n \in Positions : n \in Nat \ {0}
  <2>1. DOMAIN cast = 1 .. Len(cast) /\ Len(cast) \in Nat
    BY LenProperties DEF TypeOK
  <2>2. QED
    BY <2>1 DEF Positions
<1>11. QED
  BY <1>1, <1>2, <1>5, <1>9, <1>10 DEF Session, IsStarted

\* A session that another connection stops keeps its link for what it has to send.
LEMMA StoppedSession ==
  ASSUME TypeOK, NEW s \in Conns, Session(s), IsStarted(s), state'[s] = "stopping",
         events'[s] = events[s] \o <<Reply, Disconnect>>,
         link'[s] = link[s], got'[s] = got[s], since'[s] = since[s], UNCHANGED subs
  PROVE  Session(s)'
<1>1. /\ events[s] \in Seq(EventsOf) /\ <<Reply, Disconnect>> \in Seq(EventsOf) /\ Numbered(EventsOf)
      /\ got[s] \in Seq(Nat) /\ Num(events[s]) \in Seq(Nat) /\ offline[s] \in Seq(Nat) /\ since[s] \in Nat
  BY FlowType, SequencesOfEvents DEF TypeOK
<1>2. /\ Sends(events'[s]) <=> Sends(events[s])
      /\ AwaitsRetained(events'[s]) <=> AwaitsRetained(events[s])
      /\ RetainedTwice(events'[s]) => RetainedTwice(events[s])
  <2>1. LET q == events[s] \o <<Reply, Disconnect>>
        IN /\ AwaitsRetained(q) <=> AwaitsRetained(events[s]) \/ AwaitsRetained(<<Reply, Disconnect>>)
           /\ Sends(q) <=> Sends(events[s]) \/ Sends(<<Reply, Disconnect>>)
           /\ RetainedTwice(q) => \/ RetainedTwice(events[s]) \/ RetainedTwice(<<Reply, Disconnect>>)
                                  \/ AwaitsRetained(events[s]) /\ AwaitsRetained(<<Reply, Disconnect>>)
    BY <1>1, KindsConcat
  <2>2. QED
    BY <2>1, KindsOfAnswers
<1> DEFINE q == got[s] \o Num(events[s])
<1>3. q \in Seq(Nat) /\ <<0>> \in Seq(Nat) /\ q \o <<0>> \in Seq(Nat)
  BY <1>1, ConcatProperties
<1>4. Flow(s) = q \o offline[s]
  <2>1. Flow(s) = got[s] \o (Num(events[s]) \o offline[s])
    BY DEF Flow, Stored, Session
  <2>2. QED
    BY <1>1, <2>1, Associative
<1>5. Flow(s)' = (q \o <<0>>) \o <<0>>
  <2>1. Num(events'[s]) = Num(events[s]) \o (<<0>> \o <<0>>)
    <3>1. Num(events[s] \o <<Reply, Disconnect>>) = Num(events[s]) \o Num(<<Reply, Disconnect>>)
      BY <1>1, NumConcat
    <3>2. QED
      BY <3>1, KindsOfAnswers
  <2> DEFINE z == <<0>>
  <2>2. z \in Seq(Nat) /\ z \o z \in Seq(Nat) /\ Num(events[s]) \o (z \o z) \in Seq(Nat)
    BY <1>1, ConcatProperties
  <2>3. Num(events'[s]) = Num(events[s]) \o (z \o z)
    BY <2>1
  <2> HIDE DEF z
  <2>4. Flow(s)' = got[s] \o (Num(events[s]) \o (z \o z))
    <3>1. Flow(s)' = got[s] \o (Num(events'[s]) \o <<>>)
      BY DEF Flow, Stored, Session, IsStarted
    <3>2. (Num(events[s]) \o (z \o z)) \o <<>> = Num(events[s]) \o (z \o z)
      BY <2>2, ConcatEmptySeq
    <3>3. QED
      BY <2>3, <3>1, <3>2
  <2>5. got[s] \o (Num(events[s]) \o (z \o z)) = q \o (z \o z)
    BY <1>1, <2>2, Associative, ZenonT(30)
  <2>6. q \o (z \o z) = (q \o z) \o z
    BY <1>3, <2>2, Associative, Zenon
  <2>7. Flow(s)' = (q \o z) \o z
    BY <2>4, <2>5, <2>6
  <2>8. QED
    BY <2>7 DEF z
<1> HIDE DEF q
<1>6. ASSUME since[s] # 0 PROVE Ordered(since[s], Flow(s)')
  <2>1. Ordered(since[s], q)
    BY <1>1, <1>3, <1>4, <1>6, OrderedPrefix DEF Session
  <2>2. 0 < since[s] /\ 0 \in Nat
    BY <1>1, <1>6
  <2>3. Ordered(since[s], q \o <<0>>)
    BY <1>1, <1>3, <2>1, <2>2, OrderedAppend
  <2>4. Ordered(since[s], (q \o <<0>>) \o <<0>>)
    BY <1>1, <1>3, <2>2, <2>3, OrderedAppend
  <2>5. QED
    BY <1>5, <2>4
<1>7. Subscribed(s)' = Subscribed(s) /\ state[s] = "started" /\ ~IsStarted(s)'
  BY DEF Subscribed, IsStarted
<1>8. QED
  BY <1>2, <1>6, <1>7 DEF Session

LEMMA ConnectSessions ==
  ASSUME TypeOK, Sessions, NEW s \in Conns, Connect(s)
  PROVE  Sessions'
<1>1. PICK hit \in Finds(mqttid) :
        LET old == {e.at : e \in hit}
        IN /\ state' = [r \in Conns |-> IF r = s THEN "started"
                                        ELSE IF r \in old /\ IsStarted(r) THEN "stopping" ELSE state[r]]
           /\ events' = [r \in Conns |-> IF r = s THEN <<Reply>>
                                         ELSE IF r \in old /\ IsStarted(r)
                                              THEN events[r] \o <<Reply, Disconnect>> ELSE events[r]]
  BY DEF Connect
<1>2. /\ link' = [link EXCEPT ![s] = "up"] /\ ~adrift /\ state[s] = "none"
      /\ UNCHANGED <<cast, offline, got, since, subs, adrift>>
  BY DEF Connect, Calm
<1>3. SUFFICES ASSUME NEW r \in Conns PROVE Session(r)'
  BY DEF Sessions
<1>4. Session(r)
  BY DEF Sessions
<1>5. CASE r = s
  <2>1. since[s] = 0 /\ ~Subscribed(s)
    BY <1>2, <1>4, <1>5 DEF Session
  <2>2. since'[s] = 0 /\ ~Subscribed(s)' /\ events'[s] = <<Reply>> /\ state'[s] = "started" /\ link'[s] = "up"
        /\ got'[s] = got[s] /\ got[s] = <<>>
    BY <1>1, <1>2, <1>4, <1>5, <2>1 DEF Subscribed, TypeOK, Session
  <2>3. QED
    BY <1>5, <2>2, KindsOfAnswers DEF Session
<1>6. CASE r # s
  <2>1. link'[r] = link[r]
    BY <1>2, <1>6 DEF TypeOK
  <2>2. CASE r \in {e.at : e \in hit} /\ IsStarted(r)
    <3>1. state'[r] = "stopping" /\ events'[r] = events[r] \o <<Reply, Disconnect>>
      BY <1>1, <1>6, <2>2
    <3>2. QED
      BY <1>2, <1>4, <2>1, <2>2, <3>1, StoppedSession
  <2>3. CASE ~(r \in {e.at : e \in hit} /\ IsStarted(r))
    <3>1. state'[r] = state[r] /\ events'[r] = events[r]
      BY <1>1, <1>6, <2>3
    <3>2. Subscribed(r)' => Subscribed(r)
      BY <1>2 DEF Subscribed
    <3>3. QED
      BY <1>2, <1>4, <2>1, <3>1, <3>2, SessionStays
  <2>4. QED
    BY <2>2, <2>3
<1>7. QED
  BY <1>5, <1>6

LEMMA DestroySession ==
  ASSUME TypeOK, NEW s \in Conns, Session(s), Destroy(s)
  PROVE  Session(s)'
<1>1. /\ state'[s] = "destroyed" /\ events'[s] = <<>> /\ got'[s] = <<>> /\ since'[s] = 0
  BY DEF Destroy, TypeOK
<1>2. QED
  BY <1>1, KindsOfAnswers DEF Session, IsStarted

\* The steps of one session leave the others alone.
LEMMA SubscriberSessions ==
  ASSUME TypeOK, Sessions, NEW s \in Conns, Subscribe(s) \/ Unsubscribe(s) \/ SubscriberSession(s)
  PROVE  Sessions'
<1>1. Session(s)
  BY DEF Sessions
<1>2. Session(s)'
  BY <1>1, SubscribeSession, UnsubscribeSession, RunRetainedSession, WriteEndsSession, WriteFailsSession,
     ReadFailsSession, CloseSession, DestroySession DEF SubscriberSession
<1>3. ASSUME NEW r \in Conns, r # s PROVE Session(r)'
  <2>1. /\ state'[r] = state[r] /\ link'[r] = link[r] /\ events'[r] = events[r]
        /\ offline'[r] = offline[r] /\ got'[r] = got[r] /\ since'[r] = since[r]
    <3>1. CASE Subscribe(s) \/ RunRetained(s)
      BY <1>3, <3>1, SMTT(20), ZenonT(20)
      DEF TypeOK, Subscribe, Reads, RunRetained, DeliverRetained
    <3>2. CASE Unsubscribe(s) \/ WriteEnds(s)
      BY <1>3, <3>2 DEF TypeOK, Unsubscribe, Reads, WriteEnds
    <3>3. CASE WriteFails(s) \/ ReadFails(s)
      BY <1>3, <3>3 DEF TypeOK, WriteFails, ReadFails
    <3>4. CASE Close(s) \/ Destroy(s)
      BY <1>3, <3>4 DEF TypeOK, Close, Destroy
    <3>5. QED
      BY <3>1, <3>2, <3>3, <3>4 DEF SubscriberSession
  <2>2. UNCHANGED <<cast, adrift>> /\ ~adrift
    BY DEF SubscriberSession, Subscribe, Reads, Unsubscribe, RunRetained, WriteEnds, WriteFails, ReadFails, Close,
           Destroy, Calm
  <2>3. Subscribed(r)' => Subscribed(r)
    <3>1. subs' \subseteq subs \/ \E hit \in Finds(subs) : subs' = Put(subs, hit, s)
      BY DEF SubscriberSession, Subscribe, Reads, Unsubscribe, RunRetained, WriteEnds, WriteFails, ReadFails, Close,
             Destroy, maps
    <3>2. \A hit \in Finds(subs) : \A e \in Put(subs, hit, s) : e.at = r => e \in subs
      <4> SUFFICES ASSUME NEW hit \in Finds(subs), NEW e \in Put(subs, hit, s), e.at = r PROVE e \in subs
        OBVIOUS
      <4>1. hit \in SUBSET subs /\ subs \in SUBSET [at : Conns, key : Conns]
        BY FindsSubset DEF TypeOK
      <4>2. QED
        BY <1>3, <4>1 DEF Put
    <3>3. QED
      BY <3>1, <3>2 DEF Subscribed
  <2>4. QED
    BY <2>1, <2>2, <2>3, SessionStays DEF Sessions
<1>4. QED
  BY <1>2, <1>3 DEF Sessions

LEMMA SessionsStep == TypeOK /\ Sessions /\ [Next]_vars => Sessions'
<1> SUFFICES ASSUME TypeOK, Sessions, [Next]_vars PROVE Sessions'
  OBVIOUS
<1>stay. UNCHANGED <<sessions, since, subs, cast, adrift>> => Sessions'
  BY DEF Sessions, sessions, Session, Flow, Stored, IsStarted, Subscribed, Positions
<1>1. CASE UNCHANGED vars
  BY <1>1, <1>stay DEF vars, maps
<1>2. CASE Publishes
  BY <1>2, <1>stay DEF Publishes, Publish, Resend, maps
<1>3. CASE HandlePublish
  <2>1. Head(toBroker).m \in Pubs /\ ~adrift
    BY <1>3, HeadTypes DEF HandlePublish, Calm
  <2>2. UNCHANGED <<sessions, cast, adrift>> \/ Multicast(Head(toBroker).m)
    BY <1>3 DEF HandlePublish, PushPublished
  <2>3. UNCHANGED <<since, subs>>
    BY <1>3 DEF HandlePublish, maps
  <2>4. QED
    BY <1>stay, <2>1, <2>2, <2>3, MulticastSessions
<1>4. CASE HandlePubrel \/ AnswerSent
  BY <1>4, <1>stay DEF HandlePubrel, AnswerSent, maps
<1>5. CASE RunCast
  <2>1. Head(pubEvents).m \in Pubs /\ ~adrift
    BY <1>5, HeadTypes DEF RunCast
  <2>2. QED
    BY <1>5, <2>1, MulticastSessions DEF RunCast, maps
<1>6. CASE \E s \in Conns : Requests(s) \/ SubscriberSession(s)
  BY <1>6, ConnectSessions, SubscriberSessions DEF Requests
<1>7. QED
  BY <1>1, <1>2, <1>3, <1>4, <1>5, <1>6 DEF Next, PublisherSession

-----------------------------------------------------------------------------
(* The inductive invariant, and what it implies.                           *)

Inv == TypeOK /\ Identified /\ Exchange /\ Sessions

LEMMA IdentifiedStep == TypeOK /\ Identified /\ [Next]_vars => Identified'
<1> SUFFICES ASSUME TypeOK, Identified, [Next]_vars PROVE Identified'
  OBVIOUS
<1>stay. UNCHANGED <<qos, id>> => Identified'
  BY DEF Identified
<1>1. CASE UNCHANGED vars
  BY <1>1, <1>stay DEF vars, publisher
<1>2. ASSUME NEW m \in Pubs, Publish(m) PROVE Identified'
  <2>1. PICK kind \in Kinds[m], i \in (1 .. MaxPubs) \ Taken :
          /\ qos' = [qos EXCEPT ![m] = kind[1]] /\ id' = [id EXCEPT ![m] = IF kind[1] = 0 THEN 0 ELSE i]
    BY <1>2 DEF Publish
  <2>2. kind[1] \in 0 .. 2 /\ i # 0
    BY <2>1, KindsAssumption, BoundsAssumption DEF Pubs
  <2>3. QED
    BY <2>1, <2>2 DEF Identified, TypeOK
<1>3. CASE ~(\E m \in Pubs : Publish(m)) /\ Next
  BY <1>3, <1>stay DEF Next, Publishes, Resend, PublisherSession, HandlePublish, HandlePubrel, AnswerSent, RunCast,
                       Requests, SubscriberSession, Connect, Subscribe, Reads, Unsubscribe, RunRetained, WriteEnds,
                       WriteFails, ReadFails, Close, Destroy, publisher
<1>4. QED
  BY <1>1, <1>2, <1>3

LEMMA InitInv == Init => Inv
<1> SUFFICES ASSUME Init PROVE Inv
  OBVIOUS
<1>1. TypeOK
  <2>1. <<>> \in Seq(EventsOf) /\ <<>> \in Seq(Positions) /\ <<>> \in Seq(Pubs)
        /\ <<>> \in Seq(PacketsOf({"publish", "pubrel"}))
        /\ <<>> \in Seq(PacketsOf({"cast", "puback", "pubrec", "pubcomp"}))
    BY EmptySeq
  <2>2. /\ qos \in [Pubs -> 0 .. 2] /\ keep \in [Pubs -> {"no", "store", "erase"}]
        /\ id \in [Pubs -> 0 .. MaxPubs]
        /\ flow \in [Pubs -> {"new", "sent", "released", "done"}] /\ resends \in 0 .. MaxResends
    BY BoundsAssumption DEF Init
  <2>3. /\ toBroker \in Seq(PacketsOf({"publish", "pubrel"})) /\ processed \subseteq 1 .. MaxPubs
        /\ pubEvents \in Seq(PacketsOf({"cast", "puback", "pubrec", "pubcomp"}))
        /\ cast \in Seq(Pubs) /\ retained \subseteq Positions
    BY <2>1 DEF Init
  <2>4. /\ state \in [Conns -> {"none", "started", "stopping", "closed", "destroyed"}]
        /\ link \in [Conns -> {"up", "down"}]
        /\ used \in [Conns -> SUBSET PacketIds] /\ since \in [Conns -> Nat]
    BY DEF Init
  <2>5. /\ events = [s \in Conns |-> <<>>] /\ offline = [s \in Conns |-> <<>>]
        /\ got = [s \in Conns |-> <<>>]
    BY DEF Init
  <2>6. \A S : <<>> \in Seq(S) => [s \in Conns |-> <<>>] \in [Conns -> Seq(S)]
    OBVIOUS
  <2>7. /\ events \in [Conns -> Seq(EventsOf)] /\ offline \in [Conns -> Seq(Positions)]
        /\ got \in [Conns -> Seq(Positions)]
    BY <2>1, <2>5, <2>6
  <2>8. mqttid \subseteq [at : Conns, key : Conns] /\ subs \subseteq [at : Conns, key : Conns]
        /\ adrift \in BOOLEAN
    BY DEF Init
  <2>9. QED
    BY <2>2, <2>3, <2>4, <2>7, <2>8 DEF TypeOK
<1>2. Identified /\ Exchange
  BY DEF Init, Identified, Exchange, Unseen, Once, IsCast, IsQueued, CastTwice, QueuedTwice, Positions
<1>3. Sessions
  BY KindsOfAnswers DEF Init, Sessions, Session, IsStarted, Subscribed
<1>4. QED
  BY <1>1, <1>2, <1>3 DEF Inv

LEMMA InvStep == Inv /\ [Next]_vars => Inv'
BY TypeStep, IdentifiedStep, ExchangeStep, SessionsStep DEF Inv

LEMMA Invariance == Spec => []Inv
BY InitInv, InvStep, PTL DEF Spec

LEMMA SessionsImplyInOrder == TypeOK /\ Sessions => InOrder
<1> SUFFICES ASSUME TypeOK, Sessions, NEW s \in Conns
             PROVE  Ordered(since[s], got[s])
  BY DEF InOrder, Ordered
<1>1. got[s] \in Seq(Nat) /\ Num(events[s]) \in Seq(Nat) /\ Stored(s) \in Seq(Nat) /\ since[s] \in Nat
  BY FlowType DEF TypeOK
<1>2. CASE since[s] = 0
  BY <1>2 DEF Sessions, Session, Ordered
<1>3. CASE since[s] # 0
  <2>1. (IF link[s] = "up" THEN Num(events[s]) \o Stored(s) ELSE <<>>) \in Seq(Nat)
    BY <1>1, ConcatProperties, EmptySeq
  <2>2. Ordered(since[s], Flow(s))
    BY <1>3 DEF Sessions, Session
  <2>3. QED
    BY <1>1, <2>1, <2>2, OrderedPrefix DEF Flow
<1>4. QED
  BY <1>2, <1>3

LEMMA SessionsImplyNothingLost == TypeOK /\ Sessions => NothingLost
<1> SUFFICES ASSUME TypeOK, Sessions, NEW e \in subs, IsStarted(e.at), NEW n \in Positions, n >= since[e.at], ~adrift
             PROVE  \/ \E k \in DOMAIN got[e.at] : got[e.at][k] = n
                    \/ \E k \in DOMAIN offline[e.at] : offline[e.at][k] = n
                    \/ \E k \in DOMAIN events[e.at] : events[e.at][k].e = "publish" /\ events[e.at][k].n = n
  BY DEF NothingLost
<1> DEFINE s == e.at
<1>1. s \in Conns /\ link[s] = "up" /\ Has(Flow(s), n)
  BY DEF TypeOK, Sessions, Session, Subscribed
<1>2. n # 0
  <2>1. DOMAIN cast = 1 .. Len(cast) /\ Len(cast) \in Nat
    BY LenProperties DEF TypeOK
  <2>2. QED
    BY <2>1 DEF Positions
<1> HIDE DEF s
<1>3. /\ got[s] \in Seq(Nat) /\ Num(events[s]) \in Seq(Nat) /\ offline[s] \in Seq(Nat)
      /\ events[s] \in Seq(EventsOf) /\ Numbered(EventsOf)
  BY <1>1, FlowType
<1>4. Num(events[s]) \o offline[s] \in Seq(Nat)
  BY <1>3, ConcatProperties
<1>5. Flow(s) = got[s] \o (Num(events[s]) \o offline[s])
  BY <1>1 DEF Flow, Stored, s
<1>6. Has(got[s], n) \/ Has(Num(events[s]), n) \/ Has(offline[s], n)
  <2> DEFINE rest == Num(events[s]) \o offline[s]
  <2>1. Has(rest, n) <=> Has(Num(events[s]), n) \/ Has(offline[s], n)
    BY <1>3, HasConcat
  <2>2. Has(got[s] \o rest, n)
    BY <1>1, <1>5
  <2>3. got[s] \in Seq(Nat) /\ rest \in Seq(Nat)
    BY <1>3, <1>4
  <2> HIDE DEF rest
  <2>4. Has(got[s] \o rest, n) <=> Has(got[s], n) \/ Has(rest, n)
    BY <2>3, HasConcat
  <2>5. QED
    BY <2>1, <2>2, <2>4
<1>7. ASSUME Has(Num(events[s]), n)
      PROVE  \E k \in DOMAIN events[s] : events[s][k].e = "publish" /\ events[s][k].n = n
  <2>1. PICK k \in DOMAIN events[s] : events[s][k].n = n
    BY <1>3, <1>7, NumType DEF Has
  <2>2. events[s][k] \in EventsOf
    BY <1>3, ElementOfSeq, LenProperties
  <2>3. QED
    BY <1>2, <2>1, <2>2, EventTypes
<1>8. QED
  BY <1>6, <1>7 DEF Has, s

\* The types of every state, for any bounds.
THEOREM TypeCorrect == Spec => []TypeOK
BY Invariance, PTL DEF Inv

\* A message of QoS 2 is multicast at most once, whatever is sent again and
\* whatever the identifiers are.
THEOREM CastsOnce == Spec => []CastOnce
<1>1. Inv => CastOnce
  BY ExchangeImpliesCastOnce DEF Inv
<1>2. QED
  BY <1>1, Invariance, PTL

\* A client gets the messages published after its subscription in the order of
\* their multicast, through write failures, offline messages and retained ones.
THEOREM GetsInOrder == Spec => []InOrder
<1>1. Inv => InOrder
  BY SessionsImplyInOrder DEF Inv
<1>2. QED
  BY <1>1, Invariance, PTL

\* A started session that subscribed loses no message published since.
THEOREM LosesNothing == Spec => []NothingLost
<1>1. Inv => NothingLost
  BY SessionsImplyNothingLost DEF Inv
<1>2. QED
  BY <1>1, Invariance, PTL
=============================================================================
