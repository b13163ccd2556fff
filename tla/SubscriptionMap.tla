-------------------------- MODULE SubscriptionMap --------------------------
(***************************************************************************)
(* The map from topic filters to subscribers (mqtt_subscription_map.hpp):  *)
(* a tree whose nodes are entries of one hash map, keyed by the id of      *)
(* their parent and a level of the filter.  A node counts the              *)
(* subscriptions at and below it and is erased with the last one; two      *)
(* flags say whether it has a child for a wildcard, so that a lookup need  *)
(* not ask.  A topic or a filter is the sequence of its levels.            *)
(***************************************************************************)
EXTENDS Naturals, Sequences, FiniteSets, SequencesExt

CONSTANT SystemLevels   \* the levels that begin with a dollar sign

Plus == "+"
Hash == "#"

-----------------------------------------------------------------------------
(* The tree: nodes is a function from keys to nodes, lastId the last id     *)
(* that was given out, size the number of subscriptions.  A key is a pair   *)
(* of the parent's id and a level.                                          *)

RootId == 1
RootKey == <<2, "">>

Node(i) == [id |-> i, count |-> 1, plus |-> FALSE, hash |-> FALSE, subs |-> {}]

EmptyMap == [nodes |-> (RootKey :> Node(RootId)), lastId |-> 2, size |-> 0]

\* find_topic_filter: the keys from the root down to the filter, <<>> if one
\* is missing.
PathOf(map, filter) ==
  LET Down(found, level) ==
        LET key == <<found.id, level>>
        IN IF ~found.ok \/ key \notin DOMAIN map.nodes THEN [found EXCEPT !.ok = FALSE]
           ELSE [ok |-> TRUE, id |-> map.nodes[key].id, path |-> Append(found.path, key)]
      end == FoldLeft(Down, [ok |-> TRUE, id |-> RootId, path |-> <<>>], filter)
  IN IF end.ok THEN end.path ELSE <<>>

\* create_topic_filter: nodes that are missing are made, those that exist
\* count one subscription more; and the key of the last one.
Create(map, filter) ==
  LET Down(made, level) ==
        LET parent == made.map.nodes[made.at]
            key    == <<parent.id, level>>
            nodes  == made.map.nodes
        IN IF key \in DOMAIN nodes
             THEN [made EXCEPT !.map.nodes[key].count = @ + 1, !.at = key]
             ELSE [map |-> [made.map EXCEPT
                     !.lastId = @ + 1,
                     !.nodes = (key :> Node(made.map.lastId + 1)) @@
                        [nodes EXCEPT ![made.at].plus = @ \/ level = Plus,
                                      ![made.at].hash = @ \/ level = Hash]],
                   at |-> key]
  IN FoldLeft(Down, [map |-> map, at |-> RootKey], filter)

\* insert_or_assign of the entry of a client.
InsertOrAssign(map, filter, client) ==
  LET path    == PathOf(map, filter)
      entry   == [client |-> client, filter |-> filter]
      created == Create(map, filter)
      counted == [k \in DOMAIN map.nodes |->
                    IF \E i \in DOMAIN path : path[i] = k
                      THEN [map.nodes[k] EXCEPT !.count = @ + 1] ELSE map.nodes[k]]
  IN IF path = <<>>
       THEN [created.map EXCEPT !.nodes[created.at].subs = {entry}, !.size = @ + 1]
     ELSE IF \E e \in map.nodes[Last(path)].subs : e.client = client THEN map
     ELSE [map EXCEPT !.size = @ + 1,
             !.nodes = [counted EXCEPT ![Last(path)].subs = @ \cup {entry}]]

\* remove_topic_filter: from the filter up to the root the nodes count one
\* less, those at zero are erased, and the flag of their parent is reset.
Detach(nodes, path) ==
  LET Up(key, left) ==
        LET n == [left.nodes[key] EXCEPT !.count = @ - 1,
                                         !.plus = @ /\ ~left.plus, !.hash = @ /\ ~left.hash]
            gone == n.count = 0
        IN [nodes |-> IF gone THEN Restrict(left.nodes, DOMAIN left.nodes \ {key})
                      ELSE [left.nodes EXCEPT ![key] = n],
            plus |-> gone /\ key[2] = Plus, hash |-> gone /\ key[2] = Hash]
      top == FoldRight(Up, path, [nodes |-> nodes, plus |-> FALSE, hash |-> FALSE])
  IN [top.nodes EXCEPT ![RootKey].plus = @ /\ ~top.plus, ![RootKey].hash = @ /\ ~top.hash]

\* erase of the entry of a client.
Erase(map, filter, client) ==
  LET path  == PathOf(map, filter)
      entry == {e \in map.nodes[Last(path)].subs : e.client = client}
  IN IF path = <<>> THEN map
     ELSE IF entry = {} THEN map
     ELSE [map EXCEPT !.size = @ - 1,
             !.nodes = Detach([map.nodes EXCEPT ![Last(path)].subs = @ \ entry], path)]

\* find_match_impl: level by level, the nodes that match so far; a node for
\* "#" matches whatever is left, and no wildcard in front matches a system level.
FindMatch(map, topic) ==
  LET Subs(keys) == UNION {map.nodes[k].subs : k \in keys}
      Step(at, level) ==
        LET Hidden(k) == map.nodes[k].id = RootId /\ level \in SystemLevels
            Child(k, l) == {<<map.nodes[k].id, l>>} \cap DOMAIN map.nodes
            pluses == UNION {Child(k, Plus) : k \in {e \in at.keys : map.nodes[e].plus /\ ~Hidden(e)}}
            hashes == UNION {Child(k, Hash) : k \in {e \in at.keys : map.nodes[e].hash /\ ~Hidden(e)}}
        IN [keys  |-> UNION {Child(k, level) : k \in at.keys} \cup pluses,
            found |-> at.found \cup Subs(hashes)]
      end == FoldLeft(Step, [keys |-> {RootKey}, found |-> {}], topic)
  IN end.found \cup Subs(end.keys)

-----------------------------------------------------------------------------
(* What it is for.                                                         *)

\* A filter matches a topic level by level; "+" stands for any level and "#",
\* at the end, for one or more; neither for a system level in front.
Matches(filter, topic) ==
  /\ filter[1] \in {Plus, Hash} => topic[1] \notin SystemLevels
  /\ IF Last(filter) = Hash THEN Len(topic) >= Len(filter) ELSE Len(topic) = Len(filter)
  /\ \A i \in DOMAIN filter : filter[i] \in {topic[i], Plus, Hash}

\* The subscriptions that a sequence of operations leaves: a client has one
\* per filter.
Entry(op) == [client |-> op.client, filter |-> op.filter]
Subscribed(ops) ==
  LET After(held, op) == IF op.insert THEN held \cup {Entry(op)} ELSE held \ {Entry(op)}
  IN FoldLeft(After, {}, ops)

\* And the map after them.
MapAfter(ops) ==
  LET After(map, op) == IF op.insert THEN InsertOrAssign(map, op.filter, op.client)
                                    ELSE Erase(map, op.filter, op.client)
  IN FoldLeft(After, EmptyMap, ops)

\* A lookup finds the subscriptions whose filter matches, no more and no less,
\* whatever was subscribed and erased before.
FindsMatches(ops, topics) ==
  \A topic \in topics :
    FindMatch(MapAfter(ops), topic) = {e \in Subscribed(ops) : Matches(e.filter, topic)}

\* The tree has the nodes on the way to a subscription and no others, and size
\* counts the subscriptions: nothing is erased early, nothing is left behind.
KeepsWhatItNeeds(ops) ==
  LET held == Subscribed(ops)
      ways == UNION {{SubSeq(e.filter, 1, i) : i \in DOMAIN e.filter} : e \in held}
      map  == MapAfter(ops)
  IN /\ Cardinality(DOMAIN map.nodes) = 1 + Cardinality(ways)
     /\ \A way \in ways : PathOf(map, way) # <<>>
     /\ map.size = Cardinality(held)
=============================================================================
