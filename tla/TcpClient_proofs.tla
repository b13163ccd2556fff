--------------------------- MODULE TcpClient_proofs ---------------------------
(***************************************************************************)
(* Proofs about TcpClient, for every set of messages, either pool, every   *)
(* choice of what callbacks may call and every bound: its type invariant   *)
(* and that the guard of the event queue has exactly one owner, so that at *)
(* most one write is in flight; and, for a client that is started again    *)
(* only when nothing of its last life is left, that a connected client has *)
(* its reconnect timer armed and that a client is stopped when its pool    *)
(* may return.                                                             *)
(***************************************************************************)
EXTENDS TcpClient, SequenceTheorems, FiniteSetTheorems, FunctionTheorems, TLAPS

-----------------------------------------------------------------------------
(* Types, and the strengthening of TypeOK.                                 *)

FrameType == [k : {"user", "event", "release", "start2", "done2", "disc2",
                   "recv2", "sent2", "rtimer2", "stop2"},
              x : Codes \cup {"-", "sync", "async"}]

HandlerType == [k : AttemptOps \cup {"rtimer", "push", "stop", "refused"},
                op : OpType, ec : Codes, ev : EventType]

\* A handler that pushes an event has one to push.
WorkType == {h \in HandlerType : h.k = "push" => h.ev # NoEvent}

QueueType == EventType \ {NoEvent}

\* _start_connect goes on directly above the guard of its own event.
Sits(st) ==
  \A i \in DOMAIN st : st[i].k = "start2" =>
    i > 1 /\ st[i - 1].k = "release" /\ st[i].x \in {"sync", "async"}

Stacks == {st \in Seq(FrameType) : Sits(st)}

TInv ==
  /\ TypeOK
  /\ IsFiniteSet(ops)
  /\ posted \in Seq(WorkType)
  /\ Sits(stack)

-----------------------------------------------------------------------------
(* Frames.                                                                 *)

LEMMA FrameTypes ==
  /\ User \in FrameType /\ Body \in FrameType /\ Release \in FrameType
  /\ \A k \in {"user", "event", "release", "start2", "done2", "disc2",
               "recv2", "sent2", "rtimer2", "stop2"} :
       \A x \in Codes \cup {"-", "sync", "async"} :
         Frame(k, x) \in FrameType /\ Frame(k, x).k = k /\ Frame(k, x).x = x
  /\ User.k = "user" /\ Body.k = "event" /\ Release.k = "release"
BY DEF User, Body, Release, Frame, FrameType

LEMMA SplitTop ==
  ASSUME NEW S, NEW st \in Seq(S), st # <<>>
  PROVE  Front(st) \in Seq(S) /\ Last(st) \in S /\ st = Append(Front(st), Last(st))
<1>1. Len(st) \in Nat /\ Len(st) # 0 /\ \A i \in 1 .. Len(st) : st[i] \in S
  BY EmptySeq, LenProperties, ElementOfSeq
<1>2. Last(st) \in S
  BY <1>1 DEF Last
<1>3. /\ Front(st) \in Seq(S) /\ Len(Front(st)) = Len(st) - 1
      /\ \A i \in 1 .. Len(st) - 1 : Front(st)[i] = st[i]
  <2>1. 1 \in Int /\ Len(st) - 1 \in Int /\ \A i \in 1 .. Len(st) - 1 : st[i] \in S
    BY <1>1
  <2>2. /\ SubSeq(st, 1, Len(st) - 1) \in Seq(S)
        /\ Len(SubSeq(st, 1, Len(st) - 1)) = IF 1 <= Len(st) - 1 THEN (Len(st) - 1) - 1 + 1 ELSE 0
        /\ \A i \in 1 .. (Len(st) - 1) - 1 + 1 : SubSeq(st, 1, Len(st) - 1)[i] = st[1 + i - 1]
    BY <2>1, SubSeqProperties
  <2>3. Len(st) \in Nat /\ Len(st) # 0
    BY <1>1
  <2>4. Len(SubSeq(st, 1, Len(st) - 1)) = Len(st) - 1
    <3>1. \A n \in Nat : \A m : n # 0 /\ m = (IF 1 <= n - 1 THEN (n - 1) - 1 + 1 ELSE 0) => m = n - 1
      OBVIOUS
    <3>2. QED
      BY <2>2, <2>3, <3>1
  <2>5. \A i \in 1 .. Len(st) - 1 : SubSeq(st, 1, Len(st) - 1)[i] = st[i]
    <3>1. SUFFICES ASSUME NEW i \in 1 .. Len(st) - 1
                   PROVE  SubSeq(st, 1, Len(st) - 1)[i] = st[i]
      OBVIOUS
    <3>2. i \in 1 .. (Len(st) - 1) - 1 + 1 /\ 1 + i - 1 = i
      BY <2>3
    <3>3. QED
      BY <2>2, <3>2
  <2>6. QED
    BY <2>2, <2>4, <2>5 DEF Front
<1>4. /\ Append(Front(st), Last(st)) \in Seq(S)
      /\ Len(Append(Front(st), Last(st))) = Len(st)
      /\ \A i \in 1 .. Len(st) - 1 : Append(Front(st), Last(st))[i] = st[i]
      /\ Append(Front(st), Last(st))[Len(st)] = Last(st)
  BY <1>1, <1>2, <1>3, AppendProperties
<1>5. \A i \in 1 .. Len(st) : st[i] = Append(Front(st), Last(st))[i]
  BY <1>1, <1>4 DEF Last
<1>6. QED
  BY <1>1, <1>2, <1>3, <1>4, <1>5, SeqEqual

LEMMA Appended ==
  ASSUME NEW S, NEW st \in Seq(S), NEW f \in S
  PROVE  /\ Append(st, f) \in Seq(S) /\ Append(st, f) # <<>>
         /\ Len(st) \in Nat /\ DOMAIN st = 1 .. Len(st)
         /\ DOMAIN Append(st, f) = 1 .. (Len(st) + 1)
         /\ \A i \in 1 .. Len(st) : Append(st, f)[i] = st[i]
         /\ Append(st, f)[Len(st) + 1] = f
         /\ Last(Append(st, f)) = f
<1>1. Len(Append(st, f)) = Len(st) + 1 /\ Append(st, f) \in Seq(S)
  BY AppendProperties
<1>2. QED
  BY <1>1, AppendProperties, LenProperties DEF Last

LEMMA AppendedFront ==
  ASSUME NEW S, NEW st \in Seq(S), NEW f \in S
  PROVE  Front(Append(st, f)) = st
<1>1. Append(st, f) \in Seq(S) /\ Append(st, f) # <<>> /\ Last(Append(st, f)) = f
  BY Appended
<1>2. /\ Front(Append(st, f)) \in Seq(S)
      /\ Append(st, f) = Append(Front(Append(st, f)), f)
  BY <1>1, SplitTop
<1>3. QED
  BY <1>2, AppendInjective

\* A sequence of frames written out is a chain of Append.
LEMMA Chain ==
  ASSUME NEW S, NEW st \in Seq(S), NEW f \in S, NEW g \in S, NEW h \in S
  PROVE  /\ <<f>> = Append(<<>>, f)
         /\ <<f, g>> = Append(Append(<<>>, f), g)
         /\ <<f, g, h>> = Append(Append(Append(<<>>, f), g), h)
         /\ st \o <<>> = st
         /\ st \o <<f>> = Append(st, f)
         /\ st \o <<f, g>> = Append(Append(st, f), g)
         /\ st \o <<f, g, h>> = Append(Append(Append(st, f), g), h)
<1>1. <<f>> = Append(<<>>, f)
  OBVIOUS
<1>2. <<f, g>> = Append(Append(<<>>, f), g)
  OBVIOUS
<1>3. <<f, g, h>> = Append(Append(Append(<<>>, f), g), h)
  OBVIOUS
<1>4. /\ <<f>> \in Seq(S) /\ <<g>> \in Seq(S) /\ <<h>> \in Seq(S) /\ <<f, g>> \in Seq(S)
      /\ Append(st, f) \in Seq(S) /\ Append(Append(st, f), g) \in Seq(S)
  BY AppendProperties
<1>5. st \o <<>> = st
  BY ConcatEmptySeq
<1>6. st \o <<f>> = Append(st, f)
  BY AppendIsConcat
<1>7. st \o <<f, g>> = Append(Append(st, f), g)
  <2>1. <<f, g>> = <<f>> \o <<g>>
    <3>1. <<f>> \o <<g>> = Append(<<f>>, g)
      BY <1>4, AppendIsConcat
    <3>2. QED
      BY <1>1, <1>2, <3>1
  <2>2. (st \o <<f>>) \o <<g>> = st \o (<<f>> \o <<g>>)
    BY <1>4, ConcatAssociative
  <2>3. Append(Append(st, f), g) = Append(st, f) \o <<g>>
    BY <1>4, AppendIsConcat
  <2>4. QED
    BY <1>6, <2>1, <2>2, <2>3
<1>8. st \o <<f, g, h>> = Append(Append(Append(st, f), g), h)
  <2>1. <<f, g, h>> = <<f, g>> \o <<h>>
    <3>1. <<f, g>> \o <<h>> = Append(<<f, g>>, h)
      BY <1>4, AppendIsConcat
    <3>2. QED
      BY <1>2, <1>3, <3>1
  <2>2. (st \o <<f, g>>) \o <<h>> = st \o (<<f, g>> \o <<h>>)
    BY <1>4, ConcatAssociative
  <2>3. Append(Append(Append(st, f), g), h) = Append(Append(st, f), g) \o <<h>>
    BY <1>4, AppendIsConcat
  <2>4. QED
    BY <1>7, <2>1, <2>2, <2>3
<1>9. QED
  BY <1>1, <1>2, <1>3, <1>5, <1>6, <1>7, <1>8

LEMMA EmptyStack == <<>> \in Stacks
BY EmptySeq DEF Stacks, Sits

LEMMA StackPush ==
  ASSUME NEW st \in Stacks, NEW f \in FrameType,
         f.k = "start2" => /\ st # <<>> /\ Last(st).k = "release"
                           /\ f.x \in {"sync", "async"}
  PROVE  Append(st, f) \in Stacks /\ Append(st, f) # <<>> /\ Last(Append(st, f)) = f
<1>1. st \in Seq(FrameType) /\ Sits(st)
  BY DEF Stacks
<1>2. /\ Append(st, f) \in Seq(FrameType) /\ Append(st, f) # <<>>
      /\ Len(st) \in Nat /\ DOMAIN st = 1 .. Len(st)
      /\ DOMAIN Append(st, f) = 1 .. (Len(st) + 1)
      /\ \A i \in 1 .. Len(st) : Append(st, f)[i] = st[i]
      /\ Append(st, f)[Len(st) + 1] = f
      /\ Last(Append(st, f)) = f
  BY <1>1, Appended
<1>3. SUFFICES ASSUME NEW i \in 1 .. (Len(st) + 1), Append(st, f)[i].k = "start2"
               PROVE  /\ i > 1 /\ Append(st, f)[i - 1].k = "release"
                      /\ Append(st, f)[i].x \in {"sync", "async"}
  BY <1>2 DEF Stacks, Sits
<1>4. CASE i = Len(st) + 1
  <2>1. Append(st, f)[i] = f
    BY <1>2, <1>4
  <2>2. st # <<>> /\ Last(st).k = "release" /\ f.x \in {"sync", "async"}
    BY <1>3, <2>1
  <2>3. Len(st) \in 1 .. Len(st)
    BY <1>1, <1>2, <2>2, EmptySeq
  <2>4. Append(st, f)[Len(st)] = Last(st)
    BY <1>2, <2>3 DEF Last
  <2>5. i > 1 /\ i - 1 = Len(st)
    BY <1>2, <1>4, <2>3
  <2>6. QED
    BY <2>1, <2>2, <2>4, <2>5
<1>5. CASE i \in 1 .. Len(st)
  <2>1. i > 1 /\ st[i - 1].k = "release" /\ st[i].x \in {"sync", "async"}
    BY <1>1, <1>2, <1>3, <1>5 DEF Sits
  <2>2. i - 1 \in 1 .. Len(st)
    BY <1>2, <1>5, <2>1
  <2>3. QED
    BY <1>2, <1>5, <2>1, <2>2
<1>6. QED
  BY <1>2, <1>4, <1>5

LEMMA StackPop ==
  ASSUME NEW st \in Stacks, st # <<>>
  PROVE  /\ Front(st) \in Stacks /\ Last(st) \in FrameType
         /\ st = Append(Front(st), Last(st))
         /\ Last(st).k = "start2" => /\ Front(st) # <<>> /\ Last(Front(st)).k = "release"
                                     /\ Last(st).x \in {"sync", "async"}
<1>1. st \in Seq(FrameType) /\ Sits(st)
  BY DEF Stacks
<1>2. /\ Front(st) \in Seq(FrameType) /\ Last(st) \in FrameType
      /\ st = Append(Front(st), Last(st))
  BY <1>1, SplitTop
<1>n. Len(Front(st)) \in Nat /\ DOMAIN Front(st) = 1 .. Len(Front(st))
  BY <1>2, LenProperties
<1>3. /\ DOMAIN st = 1 .. (Len(Front(st)) + 1)
      /\ \A i \in 1 .. Len(Front(st)) : st[i] = Front(st)[i]
      /\ st[Len(Front(st)) + 1] = Last(st)
  BY <1>2, Appended
<1>4. Sits(Front(st))
  <2>1. SUFFICES ASSUME NEW i \in 1 .. Len(Front(st)), Front(st)[i].k = "start2"
                 PROVE  /\ i > 1 /\ Front(st)[i - 1].k = "release"
                        /\ Front(st)[i].x \in {"sync", "async"}
    BY <1>n DEF Sits
  <2>2. i > 1 /\ st[i - 1].k = "release" /\ st[i].x \in {"sync", "async"}
    BY <1>1, <1>3, <1>n, <2>1 DEF Sits
  <2>3. QED
    BY <1>3, <1>n, <2>1, <2>2
<1>5. ASSUME Last(st).k = "start2"
      PROVE  Front(st) # <<>> /\ Last(Front(st)).k = "release" /\ Last(st).x \in {"sync", "async"}
  <2>1. /\ Len(Front(st)) + 1 > 1 /\ st[Len(Front(st))].k = "release"
        /\ Last(st).x \in {"sync", "async"}
    BY <1>1, <1>3, <1>n, <1>5 DEF Sits
  <2>2. Len(Front(st)) \in 1 .. Len(Front(st))
    BY <1>n, <2>1
  <2>3. QED
    BY <1>3, <1>n, <2>1, <2>2, EmptySeq DEF Last
<1>6. QED
  BY <1>2, <1>4, <1>5 DEF Stacks

-----------------------------------------------------------------------------
(* Operations that are cancelled.                                          *)

LEMMA SetToSeqBijection ==
  ASSUME NEW S, IsFiniteSet(S)
  PROVE  /\ SetToSeq(S) \in [1 .. Cardinality(S) -> S] /\ Cardinality(S) \in Nat
         /\ \A i, j \in 1 .. Cardinality(S) : SetToSeq(S)[i] = SetToSeq(S)[j] => i = j
         /\ \A o \in S : \E i \in 1 .. Cardinality(S) : SetToSeq(S)[i] = o
<1>1. Cardinality(S) \in Nat /\ ExistsBijection(1 .. Cardinality(S), S)
  BY FS_CardinalityType
<1>2. PICK f : f \in Bijection(1 .. Cardinality(S), S)
  BY <1>1, Fun_ExistsBij
<1>3. /\ f \in [1 .. Cardinality(S) -> S]
      /\ \A i, j \in 1 .. Cardinality(S) : f[i] = f[j] => i = j
  BY <1>2, Fun_BijectionProperties
<1>4. f \in [1 .. Cardinality(S) -> S] /\ IsInjective(f)
  BY <1>3 DEF IsInjective
<1>5. SetToSeq(S) \in [1 .. Cardinality(S) -> S] /\ IsInjective(SetToSeq(S))
  BY <1>4 DEF SetToSeq
<1>6. \A i, j \in 1 .. Cardinality(S) : SetToSeq(S)[i] = SetToSeq(S)[j] => i = j
  BY <1>5 DEF IsInjective
<1>7. SetToSeq(S) \in Injection(1 .. Cardinality(S), S)
  BY <1>5, <1>6, Fun_IsInj
<1>8. /\ IsFiniteSet(1 .. Cardinality(S))
      /\ Cardinality(1 .. Cardinality(S)) = Cardinality(S)
  <2>1. 1 \in Int /\ Cardinality(S) \in Int
    BY <1>1
  <2>2. Cardinality(1 .. Cardinality(S)) = IF 1 > Cardinality(S) THEN 0 ELSE Cardinality(S) - 1 + 1
    BY <2>1, FS_Interval
  <2>3. QED
    BY <1>1, <2>1, <2>2, FS_Interval
<1>9. SetToSeq(S) \in Surjection(1 .. Cardinality(S), S)
  BY <1>7, <1>8, FS_Injection
<1>10. \A o \in S : \E i \in 1 .. Cardinality(S) : SetToSeq(S)[i] = o
  <2>1. ASSUME NEW T, NEW F \in Surjection(T, S)
        PROVE  \A o \in S : \E i \in T : F[i] = o
    BY Fun_SurjectionProperties
  <2>2. QED
    BY <1>9, <2>1
<1>11. QED
  BY <1>1, <1>5, <1>6, <1>10

\* q lists the completions of the operations of D, each once.
Lists(q, D) ==
  /\ \A i \in DOMAIN q : \E o \in D : q[i] = Completion(o, "aborted")
  /\ \A o \in D : \E i \in DOMAIN q : q[i] = Completion(o, "aborted")
  /\ \A i, j \in DOMAIN q : q[i] = q[j] => i = j

PostsOf(S, k) ==
  LET s == SetToSeq({o \in S : o.k = k}) IN [i \in DOMAIN s |-> Completion(s[i], "aborted")]

LEMMA CompletionOp ==
  ASSUME NEW o, NEW ec
  PROVE  /\ Completion(o, ec).op = o /\ Completion(o, ec).k = o.k
         /\ Completion(o, ec).ec = ec /\ Completion(o, ec).ev = NoEvent
BY DEF Completion

LEMMA CompletionType ==
  ASSUME NEW o \in OpType, o.k # "none", NEW ec \in Codes
  PROVE  Completion(o, ec) \in WorkType /\ Completion(o, ec).k # "push"
BY DEF Completion, WorkType, HandlerType, OpType, AttemptOps, EventType

LEMMA PostsOfLists ==
  ASSUME NEW C, C \subseteq OpType, IsFiniteSet(C),
         NEW k \in {"recv", "write", "connect", "ctimer", "rtimer"}
  PROVE  /\ PostsOf(C, k) \in Seq(WorkType)
         /\ Lists(PostsOf(C, k), {o \in C : o.k = k})
<1> DEFINE D == {o \in C : o.k = k}
           s == SetToSeq(D)
<1>1. IsFiniteSet(D)
  BY FS_Subset
<1>2. /\ s \in [1 .. Cardinality(D) -> D] /\ Cardinality(D) \in Nat
      /\ \A i, j \in 1 .. Cardinality(D) : s[i] = s[j] => i = j
      /\ \A o \in D : \E i \in 1 .. Cardinality(D) : s[i] = o
  BY <1>1, SetToSeqBijection
<1> DEFINE n == Cardinality(D)
           q == PostsOf(C, k)
<1>3. q = [i \in 1 .. n |-> Completion(s[i], "aborted")]
  BY <1>2 DEF PostsOf
<1>4. \A o \in D : Completion(o, "aborted") \in WorkType
  BY CompletionType DEF Codes
<1>n. /\ s \in [1 .. n -> D] /\ n \in Nat
      /\ \A i, j \in 1 .. n : s[i] = s[j] => i = j
      /\ \A o \in D : \E i \in 1 .. n : s[i] = o
  BY <1>2
<1> HIDE DEF s, n, q, D
<1>5. q \in [1 .. n -> WorkType]
  BY <1>n, <1>3, <1>4
<1>6. q \in Seq(WorkType) /\ DOMAIN q = 1 .. n
  BY <1>n, <1>5, SeqDef
<1>7. \A o, p : Completion(o, "aborted") = Completion(p, "aborted") => o = p
  BY CompletionOp
<1>8. Lists(q, D)
  <2>1. \A i \in 1 .. n : s[i] \in D /\ q[i] = Completion(s[i], "aborted")
    BY <1>n, <1>3
  <2>2. \A i, j \in 1 .. n : q[i] = q[j] => i = j
    BY <1>n, <1>7, <2>1
  <2>3. QED
    BY <1>n, <1>6, <2>1, <2>2 DEF Lists
<1>9. QED
  BY <1>6, <1>8 DEF q, D

LEMMA ListsConcat ==
  ASSUME NEW q \in Seq(WorkType), NEW r \in Seq(WorkType), NEW D, NEW E,
         Lists(q, D), Lists(r, E), D \cap E = {}
  PROVE  q \o r \in Seq(WorkType) /\ Lists(q \o r, D \cup E)
<1>1. /\ Len(q) \in Nat /\ DOMAIN q = 1 .. Len(q)
      /\ Len(r) \in Nat /\ DOMAIN r = 1 .. Len(r)
  BY LenProperties
<1>2. /\ q \o r \in Seq(WorkType) /\ Len(q \o r) = Len(q) + Len(r)
      /\ \A i \in 1 .. Len(q) + Len(r) :
           (q \o r)[i] = IF i <= Len(q) THEN q[i] ELSE r[i - Len(q)]
  BY ConcatProperties
<1>3. DOMAIN (q \o r) = 1 .. (Len(q) + Len(r))
  BY <1>2, LenProperties
<1> DEFINE t == q \o r
<1>4. /\ DOMAIN t = 1 .. (Len(q) + Len(r))
      /\ \A i \in 1 .. Len(q) : i \in DOMAIN t /\ t[i] = q[i]
      /\ \A i \in 1 .. Len(r) : i + Len(q) \in DOMAIN t /\ t[i + Len(q)] = r[i]
      /\ \A i \in DOMAIN t : i \in 1 .. Len(q) \/ (i - Len(q) \in 1 .. Len(r) /\ t[i] = r[i - Len(q)])
  BY <1>1, <1>2, <1>3
<1> HIDE DEF t
<1>5. \A i \in DOMAIN t : \E o \in D \cup E : t[i] = Completion(o, "aborted")
  BY <1>1, <1>4 DEF Lists
<1>6. \A o \in D \cup E : \E i \in DOMAIN t : t[i] = Completion(o, "aborted")
  <2>1. SUFFICES ASSUME NEW o \in D \cup E
                 PROVE  \E i \in DOMAIN t : t[i] = Completion(o, "aborted")
    OBVIOUS
  <2>2. CASE o \in D
    BY <1>1, <1>4, <2>2 DEF Lists
  <2>3. CASE o \in E
    <3>1. PICK i \in 1 .. Len(r) : r[i] = Completion(o, "aborted")
      BY <1>1, <2>3 DEF Lists
    <3>2. QED
      BY <1>4, <3>1
  <2>4. QED
    BY <2>2, <2>3
<1>7. ASSUME NEW i \in DOMAIN t, NEW j \in DOMAIN t, t[i] = t[j]
      PROVE  i = j
  <2>1. CASE i \in 1 .. Len(q) /\ j \in 1 .. Len(q)
    BY <1>1, <1>4, <1>7, <2>1 DEF Lists
  <2>2. CASE i - Len(q) \in 1 .. Len(r) /\ j - Len(q) \in 1 .. Len(r)
             /\ i \notin 1 .. Len(q) /\ j \notin 1 .. Len(q)
    <3>1. r[i - Len(q)] = r[j - Len(q)]
      BY <1>4, <1>7, <2>2
    <3>2. i - Len(q) = j - Len(q)
      BY <1>1, <2>2, <3>1 DEF Lists
    <3>3. QED
      BY <1>1, <1>4, <3>2
  <2>3. CASE \/ i \in 1 .. Len(q) /\ j \notin 1 .. Len(q)
             \/ j \in 1 .. Len(q) /\ i \notin 1 .. Len(q)
    <3>1. \E o \in D, p \in E : Completion(o, "aborted") = Completion(p, "aborted")
      BY <1>1, <1>4, <1>7, <2>3 DEF Lists
    <3>2. QED
      BY <3>1, CompletionOp
  <2>4. QED
    BY <1>4, <2>1, <2>2, <2>3
<1>8. QED
  BY <1>2, <1>5, <1>6, <1>7 DEF Lists, t

\* What Aborted(C) is: the completions of C, each once.
Cancellable == {"recv", "write", "connect", "ctimer", "rtimer"}

LEMMA AbortedLists ==
  ASSUME NEW C, C \subseteq OpType, IsFiniteSet(C)
  PROVE  /\ Aborted(C) \in Seq(WorkType)
         /\ Lists(Aborted(C), {o \in C : o.k \in Cancellable})
<1> DEFINE D(k) == {o \in C : o.k = k}
           a1 == PostsOf(C, "recv") \o PostsOf(C, "write")
           a2 == a1 \o PostsOf(C, "connect")
           a3 == a2 \o PostsOf(C, "ctimer")
           a4 == a3 \o PostsOf(C, "rtimer")
<1>1. \A k \in Cancellable : PostsOf(C, k) \in Seq(WorkType) /\ Lists(PostsOf(C, k), D(k))
  BY PostsOfLists DEF Cancellable
<1>2. a1 \in Seq(WorkType) /\ Lists(a1, D("recv") \cup D("write"))
  BY <1>1, ListsConcat DEF Cancellable
<1>3. a2 \in Seq(WorkType) /\ Lists(a2, D("recv") \cup D("write") \cup D("connect"))
  <2> HIDE DEF a1
  <2>1. (D("recv") \cup D("write")) \cap D("connect") = {}
    OBVIOUS
  <2>2. QED
    BY <1>1, <1>2, <2>1, ListsConcat DEF Cancellable
<1>4. /\ a3 \in Seq(WorkType)
      /\ Lists(a3, D("recv") \cup D("write") \cup D("connect") \cup D("ctimer"))
  <2> HIDE DEF a2
  <2>1. (D("recv") \cup D("write") \cup D("connect")) \cap D("ctimer") = {}
    OBVIOUS
  <2>2. QED
    BY <1>1, <1>3, <2>1, ListsConcat DEF Cancellable
<1>5. /\ a4 \in Seq(WorkType)
      /\ Lists(a4, D("recv") \cup D("write") \cup D("connect") \cup D("ctimer") \cup D("rtimer"))
  <2> HIDE DEF a3
  <2>1. (D("recv") \cup D("write") \cup D("connect") \cup D("ctimer")) \cap D("rtimer") = {}
    OBVIOUS
  <2>2. QED
    BY <1>1, <1>4, <2>1, ListsConcat DEF Cancellable
<1>6. Aborted(C) = a4
  BY DEF Aborted, PostsOf
<1>7. {o \in C : o.k \in Cancellable}
        = D("recv") \cup D("write") \cup D("connect") \cup D("ctimer") \cup D("rtimer")
  BY DEF Cancellable
<1>8. QED
  BY <1>5, <1>6, <1>7

LEMMA AbortedNone == Aborted({}) = <<>>
<1>1. Aborted({}) \in Seq(WorkType) /\ Lists(Aborted({}), {o \in {} : o.k \in Cancellable})
  BY AbortedLists, FS_EmptySet
<1>2. DOMAIN Aborted({}) = {}
  BY <1>1 DEF Lists
<1>3. QED
  BY <1>1, <1>2, LenProperties, EmptySeq

-----------------------------------------------------------------------------
(* Type correctness.                                                       *)

ValueTypes ==
  /\ state \in States /\ sock \in {"closed", "open", "connected"}
  /\ rRunning \in BOOLEAN /\ rCanceled \in BOOLEAN /\ cFlag \in BOOLEAN
  /\ cErr \in Codes
  /\ note \in {"none", "connected", "failed", "disconnected"}
  /\ send \in [Data -> {"new", "queued", "ok", "err"}]
  /\ promise \in {"none", "pending", "ok", "err"}
  /\ app \in {"free", "waiting", "stopping", "joining"}
  /\ poolStopped \in BOOLEAN
  /\ starts \in 0 .. MaxStarts /\ stops \in 0 .. MaxStops

StrandTypes ==
  /\ ops \subseteq OpType /\ IsFiniteSet(ops)
  /\ posted \in Seq(WorkType)
  /\ stack \in Stacks
  /\ events \in Seq(QueueType)

LEMMA TypesSplit == TInv <=> ValueTypes /\ StrandTypes
<1>1. ASSUME TInv PROVE ValueTypes /\ StrandTypes
  BY <1>1 DEF TInv, TypeOK, ValueTypes, StrandTypes, Stacks, FrameType, QueueType
<1>2. ASSUME ValueTypes, StrandTypes PROVE TInv
  <2>1. posted \in Seq(HandlerType)
    <3>1. WorkType \subseteq HandlerType
      BY DEF WorkType
    <3>2. QED
      BY <1>2, <3>1, SeqMonotonic DEF StrandTypes
  <2>2. QED
    BY <1>2, <2>1 DEF TInv, TypeOK, ValueTypes, StrandTypes, Stacks, FrameType, QueueType, HandlerType
<1>3. QED
  BY <1>1, <1>2

LEMMA TypesSplitNext == TInv' <=> ValueTypes' /\ StrandTypes'
<1>1. TInv <=> ValueTypes /\ StrandTypes
  BY TypesSplit
<1>2. QED
  BY <1>1, PTL

LEMMA EventTypes ==
  /\ ReconnectEvent \in QueueType /\ WakeEvent \in QueueType /\ StopEvent \in QueueType
  /\ \A s \in {"sync", "async"} : ConnectEvent(s) \in QueueType
  /\ \A d \in Data : SendEvent(d) \in QueueType
  /\ \A o \in {"starting", "started"} : \A c \in {"stop", "wake"} : DisconnectEvent(o, c) \in QueueType
<1>1. /\ ReconnectEvent # NoEvent /\ WakeEvent # NoEvent /\ StopEvent # NoEvent
      /\ \A s : ConnectEvent(s) # NoEvent
      /\ \A d : SendEvent(d) # NoEvent
      /\ \A o, c : DisconnectEvent(o, c) # NoEvent
  BY DEF ReconnectEvent, WakeEvent, StopEvent, ConnectEvent, SendEvent, DisconnectEvent, NoEvent
<1>2. \A o \in {"starting", "started"} : \A c \in {"stop", "wake"} : DisconnectEvent(o, c) \in EventType
  BY DEF EventType
<1>3. QED
  BY <1>1, <1>2 DEF QueueType, EventType

LEMMA OpTypes ==
  /\ \A k \in AttemptOps \cup {"rtimer", "none"} :
       \A x \in Data \cup {"-", "sync", "async", "forever", "delay"} :
         \A n \in 0 .. Endpoints :
            Op(k, n, x) \in OpType
  /\ \A s \in {"sync", "async", "-"} : Op("ctimer", 0, s) \in OpType
  /\ Op("resolve", 0, "-") \in OpType /\ Op("recv", 0, "-") \in OpType
  /\ Op("rtimer", 0, "forever") \in OpType /\ Op("rtimer", 0, "delay") \in OpType
  /\ Op("none", 0, "-") \in OpType
  /\ \A d \in Data : Op("write", 0, d) \in OpType
BY BoundsAssumption DEF Op, OpType, AttemptOps

LEMMA HandlerTypes ==
  /\ \A ev \in QueueType : /\ Handler("push", ev) \in WorkType
                           /\ Handler("refused", ev) \in WorkType
  /\ Handler("stop", NoEvent) \in WorkType
BY OpTypes DEF Handler, WorkType, HandlerType, QueueType, Codes, NoEvent, EventType

LEMMA OutstandingTypes ==
  ASSUME StrandTypes, NEW P \in Seq(WorkType), NEW C, C \subseteq ops,
         NEW N, N \subseteq OpType, IsFiniteSet(N), Outstanding(P, C, N)
  PROVE  ops' \subseteq OpType /\ IsFiniteSet(ops') /\ posted' \in Seq(WorkType)
<1>1. C \subseteq OpType /\ IsFiniteSet(C)
  BY FS_Subset DEF StrandTypes
<1>2. Aborted(C) \in Seq(WorkType)
  BY <1>1, AbortedLists
<1>3. posted' \in Seq(WorkType)
  <2>1. posted' = P \o Aborted(C)
    BY DEF Outstanding
  <2>2. QED
    BY <1>2, <2>1, ConcatProperties
<1>4. ops' \subseteq OpType
  BY DEF Outstanding, StrandTypes
<1>5. IsFiniteSet(ops')
  <2>1. ops' = (ops \ C) \cup N
    BY DEF Outstanding
  <2>2. IsFiniteSet(ops \ C)
    BY FS_Subset DEF StrandTypes
  <2>3. QED
    BY <2>1, <2>2, FS_Union
<1>6. QED
  BY <1>3, <1>4, <1>5

LEMMA FiniteFew ==
  /\ IsFiniteSet({})
  /\ \A a : IsFiniteSet({a})
  /\ \A a, b : IsFiniteSet({a, b})
<1>1. \A a : IsFiniteSet({a})
  BY FS_Singleton
<1>2. ASSUME NEW a, NEW b PROVE IsFiniteSet({a, b})
  <2>1. {a, b} = {a} \cup {b}
    OBVIOUS
  <2>2. IsFiniteSet({a} \cup {b})
    BY <1>1, FS_Union
  <2>3. QED
    BY <2>1, <2>2
<1>3. QED
  BY <1>1, <1>2, FS_EmptySet

LEMMA EmplaceTypes ==
  ASSUME events \in Seq(QueueType), NEW st \in Stacks, NEW ev \in QueueType, Emplace(ev, st)
  PROVE  events' \in Seq(QueueType) /\ stack' \in Stacks
<1>1. events' \in Seq(QueueType)
  BY AppendProperties DEF Emplace
<1>2. Append(st, Body) \in Stacks
  BY StackPush, FrameTypes
<1>3. QED
  BY <1>1, <1>2 DEF Emplace

LEMMA DoDisconnectTypes ==
  ASSUME state \in States, events \in Seq(QueueType), NEW st \in Stacks,
         NEW chain \in {"stop", "wake"}, DoDisconnect(chain, st)
  PROVE  state' \in States /\ events' \in Seq(QueueType) /\ stack' \in Stacks
<1>1. CASE state \in {"started", "starting"}
  <2>1. DisconnectEvent(state, chain) \in QueueType
    BY <1>1, EventTypes
  <2>2. QED
    BY <1>1, <2>1, EmplaceTypes DEF DoDisconnect, States
<1>2. CASE state \notin {"started", "starting"} /\ chain = "stop"
  BY <1>2, EventTypes, EmplaceTypes DEF DoDisconnect
<1>3. CASE state \notin {"started", "starting"} /\ chain # "stop"
  BY <1>3 DEF DoDisconnect
<1>4. QED
  BY <1>1, <1>2, <1>3

LEMMA StopOnStrandTypes ==
  ASSUME StrandTypes, state \in States, NEW P \in Seq(WorkType), NEW st \in Stacks,
         StopOnStrand(P, st)
  PROVE  StrandTypes' /\ state' \in States /\ rCanceled' \in BOOLEAN
<1>1. ops' \subseteq OpType /\ IsFiniteSet(ops') /\ posted' \in Seq(WorkType)
  <2>1. Outstanding(P, ReconnectWait, {}) /\ ReconnectWait \subseteq ops
    BY DEF StopOnStrand, ReconnectWait
  <2>2. QED
    BY <2>1, OutstandingTypes, FiniteFew
<1>2. state' \in States /\ events' \in Seq(QueueType) /\ stack' \in Stacks
  BY DoDisconnectTypes DEF StopOnStrand, StrandTypes
<1>3. QED
  BY <1>1, <1>2 DEF StrandTypes, StopOnStrand

LEMMA PushTwo ==
  ASSUME NEW st \in Stacks, NEW f \in FrameType, f.k # "start2"
  PROVE  st \o <<f, User>> \in Stacks
<1>1. Append(st, f) \in Stacks
  BY StackPush
<1>2. Append(Append(st, f), User) \in Stacks
  BY <1>1, StackPush, FrameTypes
<1>3. st \o <<f, User>> = Append(Append(st, f), User)
  BY Chain, FrameTypes DEF Stacks
<1>4. QED
  BY <1>2, <1>3

LEMMA DoneConnectTypes ==
  ASSUME StrandTypes, ValueTypes, NEW ec \in Codes, NEW P \in Seq(WorkType), NEW st \in Stacks,
         DoneConnect(ec, P, st)
  PROVE  /\ StrandTypes' /\ state' \in States /\ cErr' \in Codes
         /\ note' \in {"none", "connected", "failed", "disconnected"}
<1> DEFINE ec1 == IF cFlag THEN "timed_out" ELSE ec
           ec2 == IF ec1 = "ok" /\ state # "starting" THEN "aborted" ELSE ec1
<1>1. ec1 \in Codes /\ ec2 \in Codes
  BY DEF Codes
<1>2. ops' \subseteq OpType /\ IsFiniteSet(ops') /\ posted' \in Seq(WorkType)
  <2>1. Outstanding(P, ConnectWait, {}) /\ ConnectWait \subseteq ops
    BY DEF DoneConnect, ConnectWait
  <2>2. QED
    BY <2>1, OutstandingTypes, FiniteFew
<1>3. stack' \in Stacks
  <2>1. Frame("done2", ec2) \in FrameType /\ Frame("done2", ec2).k # "start2"
    BY <1>1, FrameTypes
  <2>2. st \o <<Frame("done2", ec2), User>> \in Stacks
    BY <2>1, PushTwo
  <2>3. QED
    BY <2>2 DEF DoneConnect
<1>4. QED
  BY <1>1, <1>2, <1>3 DEF DoneConnect, StrandTypes, ValueTypes, States

LEMMA PostConnectTypes ==
  ASSUME StrandTypes, ValueTypes, NEW n \in 0 .. Endpoints, NEW P \in Seq(WorkType),
         PostConnect(n, P), Idle
  PROVE  /\ StrandTypes' /\ state' \in States /\ cErr' \in Codes
         /\ sock' \in {"closed", "open", "connected"}
         /\ note' \in {"none", "connected", "failed", "disconnected"}
         /\ UNCHANGED <<rRunning, rCanceled, cFlag>>
<1>1. CASE n = 0
  <2>1. DoneConnect("err", P, <<>>) /\ sock' = sock
    BY <1>1 DEF PostConnect
  <2>2. QED
    BY <2>1, DoneConnectTypes, EmptyStack DEF Codes, ValueTypes, DoneConnect
<1>2. CASE n # 0
  <2> DEFINE o == Op("connect", n - 1, "-")
  <2>1. o \in OpType /\ o.k # "none"
    <3>1. n - 1 \in 0 .. Endpoints
      BY <1>2, BoundsAssumption
    <3>2. QED
      BY <3>1 DEF Op, OpType, AttemptOps
  <2>2. ops' \subseteq OpType /\ IsFiniteSet(ops') /\ posted' \in Seq(WorkType)
    <3> HIDE DEF o
    <3>1. CASE Outstanding(P, {}, {o})
      BY <2>1, <3>1, OutstandingTypes, FiniteFew
    <3>2. CASE posted' = Append(P, Completion(o, "err")) /\ UNCHANGED ops
      <4>1. Completion(o, "err") \in WorkType
        BY <2>1, CompletionType DEF Codes
      <4>2. QED
        BY <3>2, <4>1, AppendProperties DEF StrandTypes
    <3>3. QED
      BY <1>2, <3>1, <3>2 DEF PostConnect, o
  <2>3. UNCHANGED <<state, timers, stack, events, note>> /\ sock' \in {"closed", "open", "connected"}
    BY <1>2 DEF PostConnect, ValueTypes
  <2>4. QED
    BY <2>2, <2>3 DEF StrandTypes, ValueTypes, timers
<1>3. QED
  BY <1>1, <1>2

LEMMA PostRecvTypes ==
  ASSUME StrandTypes, NEW P \in Seq(WorkType), PostRecv(P)
  PROVE  ops' \subseteq OpType /\ IsFiniteSet(ops') /\ posted' \in Seq(WorkType)
<1> DEFINE N == IF IsStarted THEN {Op("recv", 0, "-")} ELSE {}
<1>1. N \subseteq OpType /\ IsFiniteSet(N) /\ Outstanding(P, {}, N)
  BY OpTypes, FiniteFew DEF PostRecv
<1>2. QED
  BY <1>1, OutstandingTypes

\* How _start_connect marks what an earlier attempt left.
OldOp(o) == [o EXCEPT !.old = o.k \in AttemptOps]

LEMMA OldOpType ==
  ASSUME NEW o \in OpType
  PROVE  OldOp(o) \in OpType /\ OldOp(o).k = o.k /\ OldOp(o).x = o.x /\ OldOp(o).n = o.n
<1>1. (o.k \in AttemptOps) \in BOOLEAN
  OBVIOUS
<1>2. ASSUME NEW b \in BOOLEAN
      PROVE  /\ [o EXCEPT !.old = b] \in OpType
             /\ [o EXCEPT !.old = b].k = o.k /\ [o EXCEPT !.old = b].x = o.x
             /\ [o EXCEPT !.old = b].n = o.n
  BY DEF OpType
<1>3. QED
  BY <1>1, <1>2 DEF OldOp

LEMMA OldOpsFinite ==
  ASSUME NEW S, S \subseteq OpType, IsFiniteSet(S)
  PROVE  IsFiniteSet({OldOp(o) : o \in S}) /\ {OldOp(o) : o \in S} \subseteq OpType
<1> DEFINE T == {OldOp(o) : o \in S}
           f == [o \in S |-> OldOp(o)]
<1>1. f \in Surjection(S, T)
  <2>1. f \in [S -> T] /\ \A t \in T : \E o \in S : f[o] = t
    OBVIOUS
  <2> HIDE DEF f, T
  <2>2. QED
    BY <2>1, Fun_IsSurj
<1>2. IsFiniteSet(T)
  <2> HIDE DEF f, T
  <2>1. QED
    BY <1>1, FS_Surjection
<1>3. QED
  BY <1>2, OldOpType

LEMMA OldHandlers ==
  ASSUME NEW q \in Seq(WorkType)
  PROVE  /\ [i \in DOMAIN q |-> [q[i] EXCEPT !.op = OldOp(@)]] \in Seq(WorkType)
         /\ DOMAIN q = 1 .. Len(q) /\ Len(q) \in Nat
         /\ Len([i \in DOMAIN q |-> [q[i] EXCEPT !.op = OldOp(@)]]) = Len(q)
<1> DEFINE r == [i \in DOMAIN q |-> [q[i] EXCEPT !.op = OldOp(@)]]
<1>1. Len(q) \in Nat /\ DOMAIN q = 1 .. Len(q) /\ \A i \in 1 .. Len(q) : q[i] \in WorkType
  BY LenProperties, ElementOfSeq
<1>2. ASSUME NEW h \in WorkType PROVE [h EXCEPT !.op = OldOp(@)] \in WorkType
  <2>1. h.op \in OpType
    BY DEF WorkType, HandlerType
  <2>2. OldOp(h.op) \in OpType
    BY <2>1, OldOpType
  <2>3. QED
    BY <2>2 DEF WorkType, HandlerType
<1>3. r \in [1 .. Len(q) -> WorkType]
  BY <1>1, <1>2
<1>4. r \in Seq(WorkType)
  BY <1>1, <1>3, SeqDef
<1>5. DOMAIN r = 1 .. Len(q)
  BY <1>1
<1>6. Len(r) = Len(q)
  <2> HIDE DEF r
  <2>1. DOMAIN r = 1 .. Len(r) /\ Len(r) \in Nat
    BY <1>4, LenProperties
  <2>2. QED
    BY <1>1, <1>5, <2>1
<1>7. QED
  BY <1>1, <1>4, <1>6

LEMMA StartConnectTypes ==
  ASSUME StrandTypes, NEW sync \in {"sync", "async"}, NEW st \in Stacks,
         NEW N, N \subseteq OpType, IsFiniteSet(N), StartConnect(sync, st, N), UNCHANGED events
  PROVE  StrandTypes' /\ state' = "starting" /\ sock' = "open"
<1> DEFINE all == posted \o Aborted(SocketOps)
<1>1. SocketOps \subseteq OpType /\ IsFiniteSet(SocketOps)
  BY FS_Subset DEF StrandTypes, SocketOps
<1>2. all \in Seq(WorkType)
  <2>1. Aborted(SocketOps) \in Seq(WorkType)
    BY <1>1, AbortedLists
  <2>2. QED
    BY <2>1, ConcatProperties DEF StrandTypes
<1>3. posted' = [i \in DOMAIN all |-> [all[i] EXCEPT !.op = OldOp(@)]]
  BY DEF StartConnect, OldOp
<1>4. posted' \in Seq(WorkType)
  <2> HIDE DEF all
  <2>1. QED
    BY <1>2, <1>3, OldHandlers
<1>5. ops' \subseteq OpType /\ IsFiniteSet(ops')
  <2>1. ops' = {OldOp(o) : o \in ops \ SocketOps} \cup N
    BY DEF StartConnect, OldOp
  <2>2. ops \ SocketOps \subseteq OpType /\ IsFiniteSet(ops \ SocketOps)
    BY FS_Subset DEF StrandTypes
  <2>3. /\ IsFiniteSet({OldOp(o) : o \in ops \ SocketOps})
        /\ {OldOp(o) : o \in ops \ SocketOps} \subseteq OpType
    BY <2>2, OldOpsFinite
  <2>4. IsFiniteSet({OldOp(o) : o \in ops \ SocketOps} \cup N)
    BY <2>3, FS_Union
  <2>5. QED
    BY <2>1, <2>3, <2>4
<1>6. stack' \in Stacks
  <2>1. /\ Frame("release", sync) \in FrameType /\ Frame("release", sync).k = "release"
        /\ Frame("start2", sync) \in FrameType /\ Frame("start2", sync).x = sync
    BY FrameTypes
  <2> DEFINE s1 == Append(st, Frame("release", sync))
             s2 == Append(s1, Frame("start2", sync))
  <2>2. s1 \in Stacks /\ s1 # <<>> /\ Last(s1) = Frame("release", sync)
    BY <2>1, StackPush
  <2>3. s2 \in Stacks
    <3> HIDE DEF s1
    <3>1. QED
      BY <2>1, <2>2, StackPush
  <2>4. Append(s2, User) \in Stacks
    <3> HIDE DEF s2
    <3>1. QED
      BY <2>3, StackPush, FrameTypes
  <2>5. st \o <<Frame("release", sync), Frame("start2", sync), User>> = Append(s2, User)
    BY <2>1, FrameTypes, Chain DEF Stacks
  <2>6. QED
    BY <2>4, <2>5 DEF StartConnect
<1>7. QED
  BY <1>4, <1>5, <1>6 DEF StartConnect, StrandTypes

LEMMA EventParts ==
  ASSUME NEW ev \in QueueType
  PROVE  /\ ev.k = "connect" => ev.p \in {"sync", "async"}
         /\ ev.k = "send" => ev.p \in Data /\ ev = SendEvent(ev.p)
BY DEF QueueType, EventType, NoEvent, ReconnectEvent, WakeEvent, StopEvent, ConnectEvent,
       SendEvent, DisconnectEvent


-----------------------------------------------------------------------------
(* Who owns the guard of the event queue.                                  *)

Guard == {"event", "release"}
NoFrame(st, K) == \A i \in DOMAIN st : st[i].k \notin K
OneFrame(st, K) ==
  \E i \in DOMAIN st : st[i].k \in K /\ \A j \in DOMAIN st : st[j].k \in K => j = i

\* No operation of kind k, or one and no other, with x.
NoneIn(S, k) == \A o \in S : o.k # k
OneIn(S, k, x) == \E o \in S : o.k = k /\ o.x = x /\ \A p \in S : p.k = k => p = o
NoneAt(q, k) == \A i \in DOMAIN q : q[i].k # k
OneAt(q, k, x) ==
  \E i \in DOMAIN q : q[i].k = k /\ q[i].op.x = x /\ \A j \in DOMAIN q : q[j].k = k => j = i

\* One operation of kind k, with x, outstanding or completed.
OneOf(S, q, k, x) == \/ OneIn(S, k, x) /\ NoneAt(q, k)
                     \/ NoneIn(S, k) /\ OneAt(q, k, x)
NoneOf(S, q, k) == NoneIn(S, k) /\ NoneAt(q, k)

\* The owner is nobody, a frame of the strand, or the one write.
Guarded(st, es, S, q) ==
  \/ es = <<>> /\ NoFrame(st, Guard) /\ NoneOf(S, q, "write")
  \/ es # <<>> /\ OneFrame(st, Guard) /\ NoneOf(S, q, "write")
  \/ /\ es # <<>> /\ NoFrame(st, Guard)
     /\ \E d \in Data : Head(es) = SendEvent(d) /\ OneOf(S, q, "write", d)

GuardInv == Guarded(stack, events, ops, posted)

IInv == TInv /\ GuardInv

LEMMA FramePush ==
  ASSUME NEW st \in Seq(FrameType), NEW f \in FrameType, NEW K
  PROVE  /\ NoFrame(Append(st, f), K) <=> (NoFrame(st, K) /\ f.k \notin K)
         /\ OneFrame(Append(st, f), K) <=> (\/ (OneFrame(st, K) /\ f.k \notin K)
                                           \/ (NoFrame(st, K) /\ f.k \in K))
<1> DEFINE t == Append(st, f)
           n == Len(st)
<1>1. /\ n \in Nat /\ DOMAIN st = 1 .. n /\ DOMAIN t = 1 .. (n + 1)
      /\ \A i \in 1 .. n : t[i] = st[i]
      /\ t[n + 1] = f
  BY Appended
<1>2. \A i \in 1 .. (n + 1) : i \in 1 .. n \/ i = n + 1
  BY <1>1
<1>3. \A i \in 1 .. n : i \in 1 .. (n + 1) /\ i # n + 1
  BY <1>1
<1>n. n + 1 \in 1 .. (n + 1)
  BY <1>1
<1> HIDE DEF t, n
<1>4. NoFrame(t, K) <=> (NoFrame(st, K) /\ f.k \notin K)
  BY <1>1, <1>2, <1>3, <1>n DEF NoFrame
<1>5. ASSUME OneFrame(t, K)
      PROVE  \/ OneFrame(st, K) /\ f.k \notin K
             \/ NoFrame(st, K) /\ f.k \in K
  <2>1. PICK i \in 1 .. (n + 1) : t[i].k \in K /\ \A j \in 1 .. (n + 1) : t[j].k \in K => j = i
    BY <1>1, <1>5 DEF OneFrame
  <2>2. CASE i = n + 1
    BY <1>1, <1>3, <2>1, <2>2 DEF NoFrame
  <2>3. CASE i \in 1 .. n
    <3>1. f.k \notin K
      BY <1>1, <1>3, <1>n, <2>1, <2>3
    <3>2. st[i].k \in K /\ \A j \in 1 .. n : st[j].k \in K => j = i
      BY <1>1, <1>3, <2>1, <2>3
    <3>3. i \in DOMAIN st /\ st[i].k \in K /\ \A j \in DOMAIN st : st[j].k \in K => j = i
      BY <1>1, <2>3, <3>2
    <3>4. OneFrame(st, K)
      BY <3>3 DEF OneFrame
    <3>5. QED
      BY <3>1, <3>4
  <2>4. QED
    BY <1>2, <2>1, <2>2, <2>3
<1>6. ASSUME OneFrame(st, K), f.k \notin K PROVE OneFrame(t, K)
  BY <1>1, <1>2, <1>3, <1>6 DEF OneFrame
<1>7. ASSUME NoFrame(st, K), f.k \in K PROVE OneFrame(t, K)
  BY <1>1, <1>2, <1>n, <1>7 DEF OneFrame, NoFrame
<1>8. QED
  BY <1>4, <1>5, <1>6, <1>7 DEF t

LEMMA NoFrameEmpty == \A K : NoFrame(<<>>, K)
BY DEF NoFrame

LEMMA ConcatAt ==
  ASSUME NEW q \in Seq(WorkType), NEW r \in Seq(WorkType), NEW k
  PROVE  /\ NoneAt(q, k) /\ NoneAt(r, k) => NoneAt(q \o r, k)
         /\ \A x : OneAt(q, k, x) /\ NoneAt(r, k) => OneAt(q \o r, k, x)
         /\ \A x : NoneAt(q, k) /\ OneAt(r, k, x) => OneAt(q \o r, k, x)
<1> DEFINE t == q \o r
           m == Len(q)
           n == Len(r)
<1>1. /\ m \in Nat /\ DOMAIN q = 1 .. m /\ n \in Nat /\ DOMAIN r = 1 .. n
  BY LenProperties
<1>2. /\ t \in Seq(WorkType) /\ Len(t) = m + n
      /\ \A i \in 1 .. m + n : t[i] = IF i <= m THEN q[i] ELSE r[i - m]
  BY ConcatProperties
<1>3. DOMAIN t = 1 .. (m + n)
  BY <1>2, LenProperties
<1>4. /\ \A i \in 1 .. m : i \in DOMAIN t /\ t[i] = q[i]
      /\ \A i \in 1 .. n : i + m \in DOMAIN t /\ t[i + m] = r[i]
      /\ \A i \in DOMAIN t : i \in 1 .. m \/ (i - m \in 1 .. n /\ t[i] = r[i - m] /\ i = (i - m) + m)
  BY <1>1, <1>2, <1>3
<1> HIDE DEF t, m, n
<1>5. ASSUME NoneAt(q, k), NoneAt(r, k) PROVE NoneAt(t, k)
  BY <1>1, <1>4, <1>5 DEF NoneAt
<1>6. ASSUME NEW x, OneAt(q, k, x), NoneAt(r, k) PROVE OneAt(t, k, x)
  <2>1. PICK i \in 1 .. m : q[i].k = k /\ q[i].op.x = x /\ \A j \in 1 .. m : q[j].k = k => j = i
    BY <1>1, <1>6 DEF OneAt
  <2>2. \A j \in DOMAIN t : t[j].k = k => j = i
    BY <1>1, <1>4, <1>6, <2>1 DEF NoneAt
  <2>3. QED
    BY <1>4, <2>1, <2>2 DEF OneAt
<1>7. ASSUME NEW x, NoneAt(q, k), OneAt(r, k, x) PROVE OneAt(t, k, x)
  <2>1. PICK i \in 1 .. n : r[i].k = k /\ r[i].op.x = x /\ \A j \in 1 .. n : r[j].k = k => j = i
    BY <1>1, <1>7 DEF OneAt
  <2>2. \A j \in DOMAIN t : t[j].k = k => j = i + m
    BY <1>1, <1>4, <1>7, <2>1 DEF NoneAt
  <2>3. QED
    BY <1>4, <2>1, <2>2 DEF OneAt
<1>8. QED
  BY <1>5, <1>6, <1>7 DEF t

LEMMA SingleAt ==
  ASSUME NEW h, NEW k
  PROVE  /\ h.k # k => NoneAt(<<h>>, k)
         /\ h.k = k => OneAt(<<h>>, k, h.op.x)
BY DEF NoneAt, OneAt

LEMMA AppendAt ==
  ASSUME NEW q \in Seq(WorkType), NEW h \in WorkType, NEW k
  PROVE  /\ NoneAt(q, k) /\ h.k # k => NoneAt(Append(q, h), k)
         /\ \A x : OneAt(q, k, x) /\ h.k # k => OneAt(Append(q, h), k, x)
         /\ NoneAt(q, k) /\ h.k = k => OneAt(Append(q, h), k, h.op.x)
<1> DEFINE r == <<h>>
<1>1. Append(q, h) = q \o r /\ r \in Seq(WorkType)
  BY AppendIsConcat
<1>2. (h.k # k => NoneAt(r, k)) /\ (h.k = k => OneAt(r, k, h.op.x))
  BY SingleAt
<1> HIDE DEF r
<1>3. /\ NoneAt(q, k) /\ NoneAt(r, k) => NoneAt(q \o r, k)
      /\ \A x : OneAt(q, k, x) /\ NoneAt(r, k) => OneAt(q \o r, k, x)
      /\ \A x : NoneAt(q, k) /\ OneAt(r, k, x) => OneAt(q \o r, k, x)
  BY <1>1, ConcatAt
<1>4. QED
  BY <1>1, <1>2, <1>3

LEMMA TailAt ==
  ASSUME NEW q \in Seq(WorkType), q # <<>>, NEW k
  PROVE  /\ NoneAt(q, k) => NoneAt(Tail(q), k) /\ Head(q).k # k
         /\ \A x : OneAt(q, k, x) /\ Head(q).k # k => OneAt(Tail(q), k, x)
         /\ \A x : OneAt(q, k, x) /\ Head(q).k = k => NoneAt(Tail(q), k) /\ Head(q).op.x = x
<1> DEFINE t == Tail(q)
           n == Len(t)
<1>1. /\ n \in Nat /\ t \in Seq(WorkType) /\ Len(q) = n + 1
      /\ \A i \in 1 .. n : t[i] = q[i + 1]
  <2>1. /\ t \in Seq(WorkType) /\ Len(t) = Len(q) - 1 /\ Len(q) \in Nat
        /\ \A i \in 1 .. Len(t) : t[i] = q[i + 1]
    BY HeadTailProperties, LenProperties
  <2>2. Len(t) \in Nat
    BY <2>1, LenProperties
  <2>3. QED
    BY <2>1, <2>2
<1>2. DOMAIN q = 1 .. (n + 1) /\ DOMAIN t = 1 .. n
  BY <1>1, LenProperties
<1>3. Head(q) = q[1]
  OBVIOUS
<1>4. /\ \A i \in 1 .. n : i + 1 \in 1 .. (n + 1) /\ i + 1 # 1
      /\ \A i \in 1 .. (n + 1) : i = 1 \/ (i - 1 \in 1 .. n /\ i = (i - 1) + 1)
      /\ 1 \in 1 .. (n + 1)
  BY <1>1
<1> HIDE DEF t, n
<1>5. ASSUME NoneAt(q, k) PROVE NoneAt(t, k) /\ Head(q).k # k
  <2>1. \A i \in 1 .. (n + 1) : q[i].k # k
    BY <1>2, <1>5 DEF NoneAt
  <2>2. NoneAt(t, k)
    BY <1>1, <1>2, <1>4, <2>1 DEF NoneAt
  <2>3. QED
    BY <1>3, <1>4, <2>1, <2>2
<1>6. ASSUME NEW x, OneAt(q, k, x), Head(q).k # k PROVE OneAt(t, k, x)
  <2>1. PICK i \in 1 .. (n + 1) : /\ q[i].k = k /\ q[i].op.x = x
                                 /\ \A j \in 1 .. (n + 1) : q[j].k = k => j = i
    BY <1>2, <1>6 DEF OneAt
  <2>2. i - 1 \in 1 .. n /\ t[i - 1] = q[i]
    BY <1>1, <1>3, <1>4, <1>6, <2>1
  <2>3. \A j \in 1 .. n : t[j].k = k => j = i - 1
    BY <1>1, <1>4, <2>1
  <2>4. QED
    BY <1>2, <2>1, <2>2, <2>3 DEF OneAt
<1>7. ASSUME NEW x, OneAt(q, k, x), Head(q).k = k PROVE NoneAt(t, k) /\ Head(q).op.x = x
  <2>1. PICK i \in 1 .. (n + 1) : /\ q[i].k = k /\ q[i].op.x = x
                                 /\ \A j \in 1 .. (n + 1) : q[j].k = k => j = i
    BY <1>2, <1>7 DEF OneAt
  <2>2. i = 1
    BY <1>3, <1>4, <1>7, <2>1
  <2>3. QED
    BY <1>1, <1>2, <1>3, <1>4, <2>1, <2>2 DEF NoneAt
<1>8. QED
  BY <1>5, <1>6, <1>7 DEF t

LEMMA AbortedAt ==
  ASSUME NEW C, C \subseteq OpType, IsFiniteSet(C), NEW k \in Cancellable
  PROVE  /\ NoneIn(C, k) => NoneAt(Aborted(C), k)
         /\ \A x : OneIn(C, k, x) => OneAt(Aborted(C), k, x)
<1> DEFINE D == {o \in C : o.k \in Cancellable}
           q == Aborted(C)
<1>1. q \in Seq(WorkType) /\ Lists(q, D)
  BY AbortedLists
<1> HIDE DEF q
<1>2. ASSUME NoneIn(C, k) PROVE NoneAt(q, k)
  BY <1>1, <1>2, CompletionOp DEF Lists, NoneIn, NoneAt
<1>3. ASSUME NEW x, OneIn(C, k, x) PROVE OneAt(q, k, x)
  <2>1. PICK o \in C : o.k = k /\ o.x = x /\ \A p \in C : p.k = k => p = o
    BY <1>3 DEF OneIn
  <2>2. PICK i \in DOMAIN q : q[i] = Completion(o, "aborted")
    BY <1>1, <2>1 DEF Lists
  <2>3. ASSUME NEW j \in DOMAIN q, q[j].k = k PROVE j = i
    <3>1. PICK p \in D : q[j] = Completion(p, "aborted")
      BY <1>1 DEF Lists
    <3>2. p = o
      BY <2>1, <2>3, <3>1, CompletionOp
    <3>3. QED
      BY <1>1, <2>2, <3>1, <3>2 DEF Lists
  <2>4. q[i].k = k /\ q[i].op.x = x
    BY <2>1, <2>2, CompletionOp
  <2>5. QED
    BY <2>3, <2>4 DEF OneAt
<1>4. QED
  BY <1>2, <1>3 DEF q

\* Operations that are cancelled keep their place: outstanding or completed.
LEMMA OutstandingOf ==
  ASSUME NEW S, S \subseteq OpType, IsFiniteSet(S), NEW q \in Seq(WorkType), NEW k \in Cancellable,
         NEW C, C \subseteq S, NEW N, NoneIn(N, k)
  PROVE  /\ NoneOf(S, q, k) => NoneOf((S \ C) \cup N, q \o Aborted(C), k)
         /\ \A x : OneOf(S, q, k, x) => OneOf((S \ C) \cup N, q \o Aborted(C), k, x)
<1> DEFINE T == (S \ C) \cup N
           r == q \o Aborted(C)
<1>1. C \subseteq OpType /\ IsFiniteSet(C) /\ Aborted(C) \in Seq(WorkType)
  BY FS_Subset, AbortedLists
<1>2. ASSUME NoneIn(S, k) PROVE NoneIn(T, k) /\ NoneIn(C, k)
  BY <1>2 DEF NoneIn
<1>3. ASSUME NoneIn(C, k)
      PROVE  /\ NoneAt(q, k) => NoneAt(r, k)
             /\ \A x : OneAt(q, k, x) => OneAt(r, k, x)
  <2>1. NoneAt(Aborted(C), k)
    BY <1>1, <1>3, AbortedAt
  <2>2. QED
    BY <1>1, <2>1, ConcatAt
<1>4. ASSUME NEW x, OneIn(S, k, x), NoneAt(q, k) PROVE OneOf(T, r, k, x)
  <2>1. PICK o \in S : o.k = k /\ o.x = x /\ \A p \in S : p.k = k => p = o
    BY <1>4 DEF OneIn
  <2>2. CASE o \in C
    <3>1. NoneIn(T, k) /\ OneIn(C, k, x)
      BY <2>1, <2>2 DEF NoneIn, OneIn
    <3>2. OneAt(Aborted(C), k, x)
      BY <1>1, <3>1, AbortedAt
    <3>3. OneAt(r, k, x)
      BY <1>1, <1>4, <3>2, ConcatAt
    <3>4. QED
      BY <3>1, <3>3 DEF OneOf
  <2>3. CASE o \notin C
    <3>1. OneIn(T, k, x) /\ NoneIn(C, k)
      BY <2>1, <2>3 DEF NoneIn, OneIn
    <3>2. NoneAt(r, k)
      BY <1>3, <1>4, <3>1
    <3>3. QED
      BY <3>1, <3>2 DEF OneOf
  <2>4. QED
    BY <2>2, <2>3
<1> HIDE DEF T, r
<1>5. QED
  BY <1>2, <1>3, <1>4 DEF T, r, NoneOf, OneOf

LEMMA GuardQuiet ==
  ASSUME NEW st \in Stacks, NEW f \in FrameType, f.k \notin Guard, NEW es, NEW S, NEW q
  PROVE  Guarded(Append(st, f), es, S, q) <=> Guarded(st, es, S, q)
<1>1. st \in Seq(FrameType)
  BY DEF Stacks
<1>2. /\ NoFrame(Append(st, f), Guard) <=> (NoFrame(st, Guard) /\ f.k \notin Guard)
      /\ OneFrame(Append(st, f), Guard) <=> (\/ (OneFrame(st, Guard) /\ f.k \notin Guard)
                                            \/ (NoFrame(st, Guard) /\ f.k \in Guard))
  BY <1>1, FramePush
<1>3. QED
  BY <1>2 DEF Guarded

LEMMA GuardHeld ==
  ASSUME NEW st \in Stacks, NEW f \in FrameType, f.k \in Guard, NEW es, NEW S, NEW q
  PROVE  Guarded(Append(st, f), es, S, q) <=> (es # <<>> /\ NoFrame(st, Guard) /\ NoneOf(S, q, "write"))
<1>1. st \in Seq(FrameType)
  BY DEF Stacks
<1>2. /\ ~NoFrame(Append(st, f), Guard)
      /\ OneFrame(Append(st, f), Guard) <=> NoFrame(st, Guard)
  BY <1>1, FramePush
<1>3. QED
  BY <1>2 DEF Guarded

LEMMA OneExcludesNone ==
  ASSUME NEW st, NEW K, NEW S, NEW q, NEW k, NEW x
  PROVE  ~(OneFrame(st, K) /\ NoFrame(st, K)) /\ ~(OneOf(S, q, k, x) /\ NoneOf(S, q, k))
BY DEF OneFrame, NoFrame, OneOf, NoneOf, OneIn, NoneIn, OneAt, NoneAt

LEMMA GuardEmplace ==
  ASSUME events \in Seq(QueueType), NEW st \in Stacks, NEW ev \in QueueType, NEW S, NEW q,
         Guarded(st, events, S, q), Emplace(ev, st)
  PROVE  Guarded(stack', events', S, q)
<1>1. events' = Append(events, ev) /\ events' # <<>>
  BY AppendProperties DEF Emplace
<1>2. CASE events = <<>>
  <2>1. NoFrame(st, Guard) /\ NoneOf(S, q, "write") /\ stack' = Append(st, Body)
    BY <1>2 DEF Guarded, Emplace
  <2>2. Guarded(Append(st, Body), events', S, q)
    BY <1>1, <2>1, GuardHeld, FrameTypes DEF Guard
  <2>3. QED
    BY <2>1, <2>2
<1>3. CASE events # <<>>
  <2>1. stack' = st /\ Head(events') = Head(events)
    BY <1>1, <1>3, HeadTailAppend DEF Emplace
  <2>2. QED
    BY <1>1, <1>3, <2>1 DEF Guarded
<1>4. QED
  BY <1>2, <1>3

LEMMA GuardDisconnect ==
  ASSUME events \in Seq(QueueType), NEW st \in Stacks, NEW chain \in {"stop", "wake"}, NEW S, NEW q,
         Guarded(st, events, S, q), DoDisconnect(chain, st)
  PROVE  Guarded(stack', events', S, q)
<1>1. CASE state \in {"started", "starting"}
  <2>1. DisconnectEvent(state, chain) \in QueueType /\ Emplace(DisconnectEvent(state, chain), st)
    BY <1>1, EventTypes DEF DoDisconnect
  <2>2. QED
    BY <2>1, GuardEmplace
<1>2. CASE state \notin {"started", "starting"} /\ chain = "stop"
  <2>1. Emplace(StopEvent, st)
    BY <1>2 DEF DoDisconnect
  <2>2. QED
    BY <2>1, EventTypes, GuardEmplace
<1>3. CASE state \notin {"started", "starting"} /\ chain # "stop"
  BY <1>3 DEF DoDisconnect
<1>4. QED
  BY <1>1, <1>2, <1>3

LEMMA GuardOutstanding ==
  ASSUME StrandTypes, NEW P \in Seq(WorkType), NEW C, C \subseteq ops,
         NEW N, NoneIn(N, "write"), Outstanding(P, C, N), NEW st, NEW es, Guarded(st, es, ops, P)
  PROVE  Guarded(st, es, ops', posted')
<1>1. ops \subseteq OpType /\ IsFiniteSet(ops) /\ "write" \in Cancellable
  BY DEF StrandTypes, Cancellable
<1>2. /\ NoneOf(ops, P, "write") => NoneOf((ops \ C) \cup N, P \o Aborted(C), "write")
      /\ \A x : OneOf(ops, P, "write", x) => OneOf((ops \ C) \cup N, P \o Aborted(C), "write", x)
  BY <1>1, OutstandingOf
<1>3. /\ NoneOf(ops, P, "write") => NoneOf(ops', posted', "write")
      /\ \A x : OneOf(ops, P, "write", x) => OneOf(ops', posted', "write", x)
  BY <1>2 DEF Outstanding
<1>4. QED
  BY <1>3 DEF Guarded

LEMMA GuardTail ==
  ASSUME NEW q \in Seq(WorkType), q # <<>>, Head(q).k # "write", NEW st, NEW es, NEW S,
         Guarded(st, es, S, q)
  PROVE  Guarded(st, es, S, Tail(q))
<1>1. /\ NoneOf(S, q, "write") => NoneOf(S, Tail(q), "write")
      /\ \A x : OneOf(S, q, "write", x) => OneOf(S, Tail(q), "write", x)
  BY TailAt DEF NoneOf, OneOf
<1>2. QED
  BY <1>1 DEF Guarded

LEMMA GuardPost ==
  ASSUME NEW q \in Seq(WorkType), NEW h \in WorkType, h.k # "write", NEW st, NEW es, NEW S,
         Guarded(st, es, S, q)
  PROVE  Guarded(st, es, S, Append(q, h))
<1>1. /\ NoneOf(S, q, "write") => NoneOf(S, Append(q, h), "write")
      /\ \A x : OneOf(S, q, "write", x) => OneOf(S, Append(q, h), "write", x)
  BY AppendAt DEF NoneOf, OneOf
<1>2. QED
  BY <1>1 DEF Guarded

OldSeq(q) == [i \in DOMAIN q |-> [q[i] EXCEPT !.op = OldOp(@)]]

LEMMA OldAt ==
  ASSUME NEW q \in Seq(WorkType), NEW k
  PROVE  /\ OldSeq(q) \in Seq(WorkType)
         /\ NoneAt(q, k) => NoneAt(OldSeq(q), k)
         /\ \A x : OneAt(q, k, x) => OneAt(OldSeq(q), k, x)
<1>1. /\ OldSeq(q) \in Seq(WorkType) /\ DOMAIN q = 1 .. Len(q) /\ Len(q) \in Nat
      /\ Len(OldSeq(q)) = Len(q)
  BY OldHandlers DEF OldSeq
<1>2. DOMAIN OldSeq(q) = DOMAIN q
  BY DEF OldSeq
<1>3. \A i \in DOMAIN q : OldSeq(q)[i].k = q[i].k /\ OldSeq(q)[i].op.x = q[i].op.x
  <2>1. SUFFICES ASSUME NEW i \in DOMAIN q
                 PROVE  OldSeq(q)[i].k = q[i].k /\ OldSeq(q)[i].op.x = q[i].op.x
    OBVIOUS
  <2>2. OldSeq(q)[i] = [q[i] EXCEPT !.op = OldOp(@)] /\ q[i] \in WorkType
    BY <1>1, ElementOfSeq DEF OldSeq
  <2>3. q[i].op \in OpType /\ OldOp(q[i].op).x = q[i].op.x
    BY <2>2, OldOpType DEF WorkType, HandlerType
  <2>4. QED
    BY <2>2, <2>3 DEF WorkType, HandlerType
<1>4. QED
  BY <1>1, <1>2, <1>3 DEF NoneAt, OneAt

LEMMA OldIn ==
  ASSUME NEW S, S \subseteq OpType, NEW k, NoneIn(S, k)
  PROVE  NoneIn({OldOp(o) : o \in S}, k)
BY OldOpType DEF NoneIn

LEMMA StartConnectGuard ==
  ASSUME StrandTypes, NEW sync \in {"sync", "async"}, NEW st \in Stacks, NEW N, NoneIn(N, "write"),
         StartConnect(sync, st, N), UNCHANGED events, events # <<>>, NoFrame(st, Guard),
         NoneOf(ops, posted, "write")
  PROVE  Guarded(stack', events', ops', posted')
<1> DEFINE all == posted \o Aborted(SocketOps)
<1>1. SocketOps \subseteq OpType /\ IsFiniteSet(SocketOps)
  BY FS_Subset DEF StrandTypes, SocketOps
<1>2. NoneIn(ops, "write") /\ NoneAt(posted, "write") /\ NoneIn(SocketOps, "write")
  BY DEF NoneOf, NoneIn, SocketOps
<1>3. all \in Seq(WorkType) /\ NoneAt(all, "write")
  <2>1. Aborted(SocketOps) \in Seq(WorkType) /\ NoneAt(Aborted(SocketOps), "write")
    BY <1>1, <1>2, AbortedLists, AbortedAt DEF Cancellable
  <2>2. QED
    BY <1>2, <2>1, ConcatAt, ConcatProperties DEF StrandTypes
<1>4. NoneAt(posted', "write")
  <2>1. posted' = OldSeq(all)
    BY DEF StartConnect, OldOp, OldSeq
  <2> HIDE DEF all
  <2>2. QED
    BY <1>3, <2>1, OldAt
<1>5. NoneIn(ops', "write")
  <2>1. ops' = {OldOp(o) : o \in ops \ SocketOps} \cup N
    BY DEF StartConnect, OldOp
  <2>2. ops \ SocketOps \subseteq OpType /\ NoneIn(ops \ SocketOps, "write")
    BY <1>2 DEF StrandTypes, NoneIn
  <2>3. NoneIn({OldOp(o) : o \in ops \ SocketOps}, "write")
    BY <2>2, OldIn
  <2>4. QED
    BY <2>1, <2>3 DEF NoneIn
<1> DEFINE s1 == Append(st, Frame("release", sync))
           s2 == Append(s1, Frame("start2", sync))
<1>6. /\ Frame("release", sync) \in FrameType /\ Frame("release", sync).k = "release"
      /\ Frame("start2", sync) \in FrameType /\ Frame("start2", sync).k = "start2"
      /\ Frame("start2", sync).x = sync
  BY FrameTypes
<1>7. s1 \in Stacks /\ s1 # <<>> /\ Last(s1) = Frame("release", sync)
  BY <1>6, StackPush
<1>8. Guarded(s1, events, ops', posted')
  BY <1>4, <1>5, <1>6, GuardHeld DEF Guard, NoneOf
<1>9. s2 \in Stacks
  <2> HIDE DEF s1
  <2>1. QED
    BY <1>6, <1>7, StackPush
<1>10. Guarded(s2, events, ops', posted')
  <2> HIDE DEF s1
  <2>1. QED
    BY <1>6, <1>7, <1>8, GuardQuiet DEF Guard
<1>11. Guarded(Append(s2, User), events, ops', posted')
  <2> HIDE DEF s2
  <2>1. QED
    BY <1>9, <1>10, FrameTypes, GuardQuiet DEF Guard
<1>12. st \o <<Frame("release", sync), Frame("start2", sync), User>> = Append(s2, User)
  BY <1>6, FrameTypes, Chain DEF Stacks
<1>13. QED
  BY <1>11, <1>12 DEF StartConnect

-----------------------------------------------------------------------------
(* Every action keeps the invariant.                                       *)

LEMMA IInvParts == IInv <=> ValueTypes /\ StrandTypes /\ GuardInv
BY TypesSplit DEF IInv

LEMMA IInvNext ==
  ASSUME ValueTypes', StrandTypes', Guarded(stack', events', ops', posted')
  PROVE  IInv'
BY TypesSplitNext DEF IInv, GuardInv

LEMMA TopFrame ==
  ASSUME IInv, ~Idle
  PROVE  /\ stack \in Stacks /\ Below \in Stacks /\ Top \in FrameType /\ stack = Append(Below, Top)
         /\ Top.k \notin Guard => Guarded(Below, events, ops, posted)
         /\ Top.k \in Guard => /\ events # <<>> /\ NoFrame(Below, Guard)
                               /\ NoneOf(ops, posted, "write")
                               /\ Head(events) \in QueueType
         /\ Top.k = "start2" => /\ Below # <<>> /\ Last(Below).k = "release"
                                /\ Top.x \in {"sync", "async"}
<1>1. stack \in Stacks /\ stack # <<>> /\ events \in Seq(QueueType)
  BY IInvParts DEF StrandTypes, Idle
<1>2. /\ Below \in Stacks /\ Top \in FrameType /\ stack = Append(Below, Top)
      /\ Top.k = "start2" => /\ Below # <<>> /\ Last(Below).k = "release"
                             /\ Top.x \in {"sync", "async"}
  BY <1>1, StackPop DEF Top, Below
<1>3. Guarded(Append(Below, Top), events, ops, posted)
  BY <1>2 DEF IInv, GuardInv
<1>4. Top.k \notin Guard => Guarded(Below, events, ops, posted)
  BY <1>2, <1>3, GuardQuiet
<1>5. Top.k \in Guard => events # <<>> /\ NoFrame(Below, Guard) /\ NoneOf(ops, posted, "write")
  BY <1>2, <1>3, GuardHeld
<1>6. events # <<>> => Head(events) \in QueueType
  BY <1>1, HeadTailProperties
<1>7. QED
  BY <1>1, <1>2, <1>4, <1>5, <1>6

LEMMA NextHandler ==
  ASSUME IInv, NEW k, Runs(k)
  PROVE  /\ posted \in Seq(WorkType) /\ posted # <<>> /\ stack = <<>>
         /\ Rest \in Seq(WorkType) /\ Done \in WorkType /\ Done.k = k
         /\ Guarded(<<>>, events, ops, posted)
         /\ k # "write" => Guarded(<<>>, events, ops, Rest)
<1>1. posted \in Seq(WorkType) /\ posted # <<>> /\ stack = <<>> /\ Done.k = k
  BY IInvParts DEF Runs, StrandTypes, Idle, Done
<1>2. Rest \in Seq(WorkType) /\ Done \in WorkType
  BY <1>1, HeadTailProperties DEF Rest, Done
<1>3. Guarded(<<>>, events, ops, posted)
  BY <1>1 DEF IInv, GuardInv
<1>4. k # "write" => Guarded(<<>>, events, ops, Rest)
  BY <1>1, <1>3, GuardTail DEF Rest, Done
<1>5. QED
  BY <1>1, <1>2, <1>3, <1>4

\* The body is done: its frame gives way to one that destroys the guard.
LEMMA BodyReleased ==
  ASSUME IInv, ~Idle, Top.k \in Guard, NEW f \in FrameType, f.k \in Guard
  PROVE  /\ Append(Below, f) \in Stacks
         /\ \A S, q : NoneOf(S, q, "write") => Guarded(Append(Below, f), events, S, q)
<1>1. f.k # "start2"
  BY DEF Guard
<1>2. Below \in Stacks /\ events # <<>> /\ NoFrame(Below, Guard)
  BY TopFrame
<1>3. Append(Below, f) \in Stacks
  BY <1>1, <1>2, StackPush
<1>4. ASSUME NEW S, NEW q, NoneOf(S, q, "write") PROVE Guarded(Append(Below, f), events, S, q)
  BY <1>2, <1>4, GuardHeld
<1>5. QED
  BY <1>3, <1>4

LEMMA NoneOutstanding ==
  ASSUME StrandTypes, NEW C, C \subseteq ops, NEW N, NoneIn(N, "write"), Outstanding(posted, C, N),
         NoneOf(ops, posted, "write")
  PROVE  NoneOf(ops', posted', "write")
<1>1. ops \subseteq OpType /\ IsFiniteSet(ops) /\ "write" \in Cancellable /\ posted \in Seq(WorkType)
  BY DEF StrandTypes, Cancellable
<1>2. NoneOf((ops \ C) \cup N, posted \o Aborted(C), "write")
  BY <1>1, OutstandingOf
<1>3. QED
  BY <1>2 DEF Outstanding

LEMMA NoneInFew ==
  ASSUME NEW k
  PROVE  /\ NoneIn({}, k)
         /\ \A o : o.k # k => NoneIn({o}, k)
         /\ \A o, p : o.k # k /\ p.k # k => NoneIn({o, p}, k)
BY DEF NoneIn

LEMMA KeptByConnectBody ==
  ASSUME IInv, ConnectBody
  PROVE  IInv'
<1>1. /\ ~Idle /\ Top.k = "event" /\ Top.k \in Guard /\ Head(events).k = "connect"
      /\ ValueTypes /\ StrandTypes
  BY IInvParts DEF ConnectBody, RunsEvent, Guard
<1>2. /\ Below \in Stacks /\ events # <<>> /\ NoFrame(Below, Guard)
      /\ NoneOf(ops, posted, "write") /\ Head(events) \in QueueType
  BY <1>1, TopFrame
<1>3. Head(events).p \in {"sync", "async"}
  BY <1>1, <1>2, EventParts
<1>4. CASE state = "stopped"
  <2> DEFINE N == IF rRunning THEN {} ELSE {Op("rtimer", 0, "forever")}
  <2>1. N \subseteq OpType /\ IsFiniteSet(N) /\ NoneIn(N, "write")
    <3>1. N \subseteq OpType /\ IsFiniteSet(N)
      BY OpTypes, FiniteFew
    <3>2. Op("rtimer", 0, "forever").k # "write"
      BY DEF Op
    <3>3. NoneIn(N, "write")
      BY <3>2, NoneInFew
    <3>4. QED
      BY <3>1, <3>3
  <2>2. StartConnect(Head(events).p, Below, N) /\ UNCHANGED events
    BY <1>4 DEF ConnectBody
  <2>3. StrandTypes' /\ state' = "starting" /\ sock' = "open"
    BY <1>1, <1>2, <1>3, <2>1, <2>2, StartConnectTypes
  <2>4. Guarded(stack', events', ops', posted')
    BY <1>1, <1>2, <1>3, <2>1, <2>2, StartConnectGuard
  <2>5. ValueTypes'
    BY <1>1, <1>4, <2>3 DEF ConnectBody, ValueTypes, States, caller
  <2>6. QED
    BY <2>3, <2>4, <2>5, IInvNext
<1>5. CASE state # "stopped"
  <2> DEFINE f == Frame("release", Head(events).p)
  <2>1. f \in FrameType /\ f.k \in Guard
    BY <1>3, FrameTypes DEF Guard
  <2>2. Append(Below, f) \in Stacks /\ Guarded(Append(Below, f), events, ops, posted)
    BY <1>1, <1>2, <2>1, BodyReleased
  <2>3. stack' = Append(Below, f) /\ UNCHANGED <<events, ops, posted>>
    BY <1>5 DEF ConnectBody
  <2>4. ValueTypes' /\ StrandTypes'
    BY <1>1, <1>5, <2>2, <2>3 DEF ConnectBody, ValueTypes, StrandTypes, caller
  <2>5. QED
    BY <2>2, <2>3, <2>4, IInvNext
<1>6. QED
  BY <1>4, <1>5

LEMMA KeptByReconnectBody ==
  ASSUME IInv, ReconnectBody
  PROVE  IInv'
<1>1. /\ ~Idle /\ Top.k = "event" /\ Top.k \in Guard
      /\ ValueTypes /\ StrandTypes
  BY IInvParts DEF ReconnectBody, RunsEvent, Guard
<1>2. /\ Below \in Stacks /\ events # <<>> /\ NoFrame(Below, Guard)
      /\ NoneOf(ops, posted, "write")
  BY <1>1, TopFrame
<1>3. CASE ~rCanceled /\ state = "stopping"
  <2>1. StartConnect("async", Below, {}) /\ UNCHANGED events
    BY <1>3 DEF ReconnectBody
  <2>2. StrandTypes' /\ state' = "starting" /\ sock' = "open"
    BY <1>1, <1>2, <2>1, FiniteFew, StartConnectTypes
  <2>3. Guarded(stack', events', ops', posted')
    BY <1>1, <1>2, <2>1, NoneInFew, StartConnectGuard
  <2>4. ValueTypes'
    BY <1>1, <2>2 DEF ReconnectBody, ValueTypes, States, caller, timers
  <2>5. QED
    BY <2>2, <2>3, <2>4, IInvNext
<1>4. CASE ~(~rCanceled /\ state = "stopping")
  <2>1. Append(Below, Release) \in Stacks /\ Guarded(Append(Below, Release), events, ops, posted)
    BY <1>1, <1>2, FrameTypes, BodyReleased DEF Guard
  <2>2. stack' = Append(Below, Release) /\ UNCHANGED <<events, ops, posted>>
    BY <1>4 DEF ReconnectBody
  <2>3. ValueTypes' /\ StrandTypes'
    BY <1>1, <1>4, <2>1, <2>2 DEF ReconnectBody, ValueTypes, StrandTypes, caller, timers
  <2>4. QED
    BY <2>1, <2>2, <2>3, IInvNext
<1>5. QED
  BY <1>3, <1>4

LEMMA KeptByDisconnectBody ==
  ASSUME IInv, DisconnectBody
  PROVE  IInv'
<1> DEFINE s1 == Append(Below, Release)
           f == Frame("disc2", "-")
           s2 == Append(s1, f)
<1>1. /\ ~Idle /\ Top.k = "event" /\ Top.k \in Guard
      /\ ValueTypes /\ StrandTypes
  BY IInvParts DEF DisconnectBody, RunsEvent, Guard
<1>2. Below \in Stacks /\ NoneOf(ops, posted, "write")
  BY <1>1, TopFrame
<1>3. s1 \in Stacks /\ Guarded(s1, events, ops, posted)
  BY <1>1, <1>2, FrameTypes, BodyReleased DEF Guard
<1>4. f \in FrameType /\ f.k = "disc2"
  BY FrameTypes
<1>5. s2 \in Stacks /\ Guarded(s2, events, ops, posted)
  <2> HIDE DEF s1, f
  <2>1. QED
    BY <1>3, <1>4, StackPush, GuardQuiet DEF Guard
<1>6. Append(s2, User) \in Stacks /\ Guarded(Append(s2, User), events, ops, posted)
  <2> HIDE DEF s2
  <2>1. QED
    BY <1>5, FrameTypes, StackPush, GuardQuiet DEF Guard
<1>7. stack' = s2 \/ stack' = Append(s2, User)
  <2>1. Below \o <<Release, f>> = s2 /\ s2 \in Seq(FrameType)
    BY <1>2, <1>4, <1>5, FrameTypes, Chain DEF Stacks
  <2>2. s2 \o <<User>> = Append(s2, User) /\ s2 \o <<>> = s2
    <3> HIDE DEF s2
    <3>1. QED
      BY <2>1, FrameTypes, Chain
  <2>3. stack' = s2 \o <<User>> \/ stack' = s2 \o <<>>
    BY <2>1 DEF DisconnectBody
  <2>4. QED
    BY <2>2, <2>3
<1> HIDE DEF s2
<1>8. ValueTypes' /\ StrandTypes'
  BY <1>1, <1>5, <1>6, <1>7, SMTT(20), ZenonT(20)
  DEF DisconnectBody, ValueTypes, StrandTypes, caller, timers
<1>9. Guarded(stack', events', ops', posted')
  BY <1>5, <1>6, <1>7 DEF DisconnectBody
<1>10. QED
  BY <1>8, <1>9, IInvNext

LEMMA KeptByHandleDisconnect ==
  ASSUME IInv, HandleDisconnect
  PROVE  IInv'
<1>1. ~Idle /\ Top.k \notin Guard /\ ValueTypes /\ StrandTypes /\ posted \in Seq(WorkType)
  BY IInvParts DEF HandleDisconnect, Guard, StrandTypes
<1>2. Below \in Stacks /\ Guarded(Below, events, ops, posted)
  BY <1>1, TopFrame
<1>3. Outstanding(posted, SocketOps, {}) /\ SocketOps \subseteq ops
  BY DEF HandleDisconnect, SocketOps
<1>4. ops' \subseteq OpType /\ IsFiniteSet(ops') /\ posted' \in Seq(WorkType)
  BY <1>1, <1>3, FiniteFew, OutstandingTypes
<1>5. Guarded(Below, events, ops', posted')
  BY <1>1, <1>2, <1>3, NoneInFew, GuardOutstanding
<1>6. ValueTypes' /\ StrandTypes'
  BY <1>1, <1>2, <1>4 DEF HandleDisconnect, ValueTypes, StrandTypes, caller, timers
<1>7. QED
  BY <1>5, <1>6, IInvNext DEF HandleDisconnect

LEMMA KeptByWakeBody ==
  ASSUME IInv, WakeBody
  PROVE  IInv'
<1>1. ~Idle /\ Top.k \in Guard /\ ValueTypes /\ StrandTypes /\ posted \in Seq(WorkType)
  BY IInvParts DEF WakeBody, RunsEvent, Guard, StrandTypes
<1>2. Outstanding(posted, ReconnectWait, {}) /\ ReconnectWait \subseteq ops
  BY DEF WakeBody, ReconnectWait
<1>3. NoneOf(ops, posted, "write")
  BY <1>1, TopFrame
<1>4. ops' \subseteq OpType /\ IsFiniteSet(ops') /\ posted' \in Seq(WorkType)
  BY <1>1, <1>2, FiniteFew, OutstandingTypes
<1>5. NoneOf(ops', posted', "write")
  BY <1>1, <1>2, <1>3, NoneInFew, NoneOutstanding
<1>6. Append(Below, Release) \in Stacks /\ Guarded(Append(Below, Release), events, ops', posted')
  BY <1>1, <1>5, FrameTypes, BodyReleased DEF Guard
<1>7. ValueTypes' /\ StrandTypes'
  BY <1>1, <1>4, <1>6 DEF WakeBody, ValueTypes, StrandTypes, caller, timers
<1>8. QED
  BY <1>6, <1>7, IInvNext DEF WakeBody

LEMMA KeptByStopBody ==
  ASSUME IInv, StopBody
  PROVE  IInv'
<1>1. ~Idle /\ Top.k \in Guard /\ ValueTypes /\ StrandTypes /\ posted \in Seq(WorkType)
  BY IInvParts DEF StopBody, RunsEvent, Guard, StrandTypes
<1> DEFINE C == ReconnectWait \cup ConnectWait
<1>2. Outstanding(posted, C, {}) /\ C \subseteq ops
  BY DEF StopBody, ReconnectWait, ConnectWait
<1> HIDE DEF C
<1>3. NoneOf(ops, posted, "write")
  BY <1>1, TopFrame
<1>4. ops' \subseteq OpType /\ IsFiniteSet(ops') /\ posted' \in Seq(WorkType)
  BY <1>1, <1>2, FiniteFew, OutstandingTypes
<1>5. NoneOf(ops', posted', "write")
  BY <1>1, <1>2, <1>3, NoneInFew, NoneOutstanding
<1>6. Append(Below, Release) \in Stacks /\ Guarded(Append(Below, Release), events, ops', posted')
  BY <1>1, <1>5, FrameTypes, BodyReleased DEF Guard
<1>7. ValueTypes' /\ StrandTypes'
  BY <1>1, <1>4, <1>6 DEF StopBody, ValueTypes, StrandTypes, caller, States, Codes
<1>8. QED
  BY <1>6, <1>7, IInvNext DEF StopBody

LEMMA KeptBySendBody ==
  ASSUME IInv, SendBody
  PROVE  IInv'
<1> DEFINE d == Head(events).p
           o == Op("write", 0, d)
<1>1. ~Idle /\ Top.k \in Guard /\ ValueTypes /\ StrandTypes /\ posted \in Seq(WorkType)
  BY IInvParts DEF SendBody, RunsEvent, Guard, StrandTypes
<1>2. /\ Below \in Stacks /\ events # <<>> /\ NoFrame(Below, Guard)
      /\ NoneIn(ops, "write") /\ NoneAt(posted, "write") /\ Head(events) \in QueueType
  BY <1>1, TopFrame DEF NoneOf
<1>3. Head(events).k = "send" /\ stack' = Below /\ events' = events
  BY DEF SendBody, RunsEvent
<1>4. d \in Data /\ Head(events) = SendEvent(d)
  BY <1>2, <1>3, EventParts
<1>5. o \in OpType /\ o.k = "write" /\ o.x = d
  <2>1. o.k = "write" /\ o.x = d
    BY DEF Op
  <2>2. QED
    BY <1>4, <2>1, OpTypes
<1> HIDE DEF d, o
<1>6. ASSUME sock = "connected"
      PROVE  /\ ops' \subseteq OpType /\ IsFiniteSet(ops') /\ posted' \in Seq(WorkType)
             /\ OneOf(ops', posted', "write", d)
  <2>1. Outstanding(posted, {}, {o})
    BY <1>6 DEF SendBody, o, d
  <2>2. ops' \subseteq OpType /\ IsFiniteSet(ops') /\ posted' \in Seq(WorkType)
    BY <1>1, <1>5, <2>1, FiniteFew, OutstandingTypes
  <2>3. posted' = posted /\ ops' = ops \cup {o}
    BY <1>1, <2>1, AbortedNone, ConcatEmptySeq DEF Outstanding
  <2>4. OneIn(ops', "write", d)
    BY <1>2, <1>5, <2>3 DEF OneIn, NoneIn
  <2>5. QED
    BY <1>2, <2>2, <2>3, <2>4 DEF OneOf
<1>7. ASSUME sock # "connected"
      PROVE  /\ ops' \subseteq OpType /\ IsFiniteSet(ops') /\ posted' \in Seq(WorkType)
             /\ OneOf(ops', posted', "write", d)
  <2>1. posted' = Append(posted, Completion(o, "err")) /\ ops' = ops
    BY <1>7 DEF SendBody, o, d
  <2>2. /\ Completion(o, "err") \in WorkType /\ Completion(o, "err").k = "write"
        /\ Completion(o, "err").op.x = d
    BY <1>5, CompletionType, CompletionOp DEF Codes
  <2>3. ops' \subseteq OpType /\ IsFiniteSet(ops') /\ posted' \in Seq(WorkType)
    BY <1>1, <2>1, <2>2, AppendProperties DEF StrandTypes
  <2>4. OneAt(posted', "write", d)
    BY <1>1, <1>2, <2>1, <2>2, AppendAt
  <2>5. QED
    BY <1>2, <2>1, <2>3, <2>4 DEF OneOf
<1>8. ValueTypes' /\ StrandTypes'
  BY <1>1, <1>2, <1>3, <1>6, <1>7 DEF SendBody, ValueTypes, StrandTypes, caller, timers
<1>9. Guarded(stack', events', ops', posted')
  BY <1>2, <1>3, <1>4, <1>6, <1>7 DEF Guarded
<1>10. QED
  BY <1>8, <1>9, IInvNext

LEMMA KeptByReleaseGuard ==
  ASSUME IInv, ReleaseGuard
  PROVE  IInv'
<1> DEFINE chain == IF Head(events).k # "disconnect" THEN <<>>
                    ELSE IF Head(events).q = "stop" THEN <<StopEvent>> ELSE <<WakeEvent>>
           rest == Tail(events \o chain)
<1>1. /\ ~Idle /\ Top.k \in Guard /\ ValueTypes /\ StrandTypes /\ posted \in Seq(WorkType)
      /\ events \in Seq(QueueType)
  BY IInvParts DEF ReleaseGuard, Guard, StrandTypes
<1>2. Below \in Stacks /\ events # <<>> /\ NoFrame(Below, Guard) /\ NoneOf(ops, posted, "write")
  BY <1>1, TopFrame
<1>3. rest \in Seq(QueueType)
  <2>1. <<StopEvent>> \in Seq(QueueType) /\ <<WakeEvent>> \in Seq(QueueType)
    BY EventTypes
  <2>2. chain \in Seq(QueueType)
    BY <2>1, EmptySeq
  <2> HIDE DEF chain
  <2>3. events \o chain \in Seq(QueueType) /\ events \o chain # <<>>
    BY <1>1, <1>2, <2>2, ConcatProperties, ConcatEqualIffEmpty
  <2>4. QED
    BY <2>3, HeadTailProperties
<1>4. events' = rest /\ stack' = IF rest = <<>> THEN Below ELSE Append(Below, Body)
  BY DEF ReleaseGuard
<1> HIDE DEF rest
<1>5. stack' \in Stacks /\ Guarded(stack', events', ops, posted)
  <2>1. CASE rest = <<>>
    BY <1>2, <1>4, <2>1 DEF Guarded
  <2>2. CASE rest # <<>>
    <3>1. Append(Below, Body) \in Stacks /\ Guarded(Append(Below, Body), rest, ops, posted)
      BY <1>2, <2>2, FrameTypes, StackPush, GuardHeld DEF Guard
    <3>2. QED
      BY <1>4, <2>2, <3>1
  <2>3. QED
    BY <2>1, <2>2
<1>6. ValueTypes' /\ StrandTypes'
  BY <1>1, <1>3, <1>4, <1>5 DEF ReleaseGuard, ValueTypes, StrandTypes, timers
<1>7. QED
  BY <1>5, <1>6, IInvNext DEF ReleaseGuard

LEMMA GuardPushTwo ==
  ASSUME NEW st \in Stacks, NEW f \in FrameType, f.k \notin Guard \cup {"start2"},
         NEW es, NEW S, NEW q, Guarded(st, es, S, q)
  PROVE  Guarded(st \o <<f, User>>, es, S, q)
<1> DEFINE s1 == Append(st, f)
<1>1. s1 \in Stacks /\ Guarded(s1, es, S, q)
  BY StackPush, GuardQuiet
<1> HIDE DEF s1
<1>2. Guarded(Append(s1, User), es, S, q)
  BY <1>1, FrameTypes, GuardQuiet DEF Guard
<1>3. st \o <<f, User>> = Append(s1, User)
  BY Chain, FrameTypes DEF Stacks, s1
<1>4. QED
  BY <1>2, <1>3

LEMMA DoneConnectGuard ==
  ASSUME StrandTypes, NEW ec \in Codes, NEW P \in Seq(WorkType), NEW st \in Stacks,
         DoneConnect(ec, P, st), Guarded(st, events, ops, P)
  PROVE  Guarded(stack', events', ops', posted')
<1> DEFINE ec1 == IF cFlag THEN "timed_out" ELSE ec
           ec2 == IF ec1 = "ok" /\ state # "starting" THEN "aborted" ELSE ec1
           f == Frame("done2", ec2)
<1>1. f \in FrameType /\ f.k \notin Guard \cup {"start2"}
  BY FrameTypes DEF Codes, Guard
<1>2. Outstanding(P, ConnectWait, {}) /\ ConnectWait \subseteq ops /\ UNCHANGED events
  BY DEF DoneConnect, ConnectWait
<1>3. Guarded(st, events, ops', posted')
  BY <1>2, NoneInFew, GuardOutstanding
<1>4. Guarded(st \o <<f, User>>, events, ops', posted')
  <2> HIDE DEF f
  <2>1. QED
    BY <1>1, <1>3, GuardPushTwo
<1>5. stack' = st \/ stack' = st \o <<f, User>>
  BY DEF DoneConnect
<1>6. QED
  BY <1>2, <1>3, <1>4, <1>5

LEMMA KeptByStartConnect2 ==
  ASSUME IInv, StartConnect2
  PROVE  IInv'
<1>1. ~Idle /\ Top.k = "start2" /\ ValueTypes /\ StrandTypes /\ posted \in Seq(WorkType)
  BY IInvParts DEF StartConnect2, StrandTypes
<1>2. /\ Below \in Stacks /\ Below # <<>> /\ Last(Below).k = "release"
      /\ Top.x \in {"sync", "async"} /\ Guarded(Below, events, ops, posted)
  BY <1>1, TopFrame DEF Guard
<1>3. CASE DoneConnect("err", posted, Below) /\ UNCHANGED sock
  <2>1. "err" \in Codes
    BY DEF Codes
  <2>2. /\ StrandTypes' /\ state' \in States /\ cErr' \in Codes
        /\ note' \in {"none", "connected", "failed", "disconnected"}
    BY <1>1, <1>2, <1>3, <2>1, DoneConnectTypes
  <2>3. Guarded(stack', events', ops', posted')
    BY <1>1, <1>2, <1>3, <2>1, DoneConnectGuard
  <2>4. ValueTypes'
    BY <1>1, <1>3, <2>2 DEF StartConnect2, DoneConnect, ValueTypes, caller
  <2>5. QED
    BY <2>2, <2>3, <2>4, IInvNext
<1>4. CASE /\ cErr' = "ok" /\ cFlag' = FALSE
           /\ Outstanding(posted, ConnectWait, {Op("ctimer", 0, Top.x), Op("resolve", 0, "-")})
           /\ stack' = Append(Front(Below), Release)
           /\ UNCHANGED <<state, sock, rRunning, rCanceled, events, note>>
  <2> DEFINE N == {Op("ctimer", 0, Top.x), Op("resolve", 0, "-")}
  <2>1. N \subseteq OpType /\ IsFiniteSet(N)
    BY <1>2, OpTypes, FiniteFew
  <2>2. NoneIn(N, "write")
    BY DEF NoneIn, Op
  <2>3. ConnectWait \subseteq ops
    BY DEF ConnectWait
  <2> HIDE DEF N
  <2>4. ops' \subseteq OpType /\ IsFiniteSet(ops') /\ posted' \in Seq(WorkType)
    BY <1>1, <1>4, <2>1, <2>3, OutstandingTypes DEF N
  <2>5. Guarded(Below, events, ops', posted')
    BY <1>1, <1>2, <1>4, <2>2, <2>3, GuardOutstanding DEF N
  <2>6. Front(Below) \in Stacks /\ Last(Below) \in FrameType /\ Below = Append(Front(Below), Last(Below))
    BY <1>2, StackPop
  <2>7. events # <<>> /\ NoFrame(Front(Below), Guard) /\ NoneOf(ops', posted', "write")
    BY <1>2, <2>5, <2>6, GuardHeld DEF Guard
  <2>8. Append(Front(Below), Release) \in Stacks /\ Guarded(Append(Front(Below), Release), events, ops', posted')
    BY <2>6, <2>7, FrameTypes, StackPush, GuardHeld DEF Guard
  <2>9. ValueTypes' /\ StrandTypes'
    BY <1>1, <1>4, <2>4, <2>8, SMTT(20), ZenonT(20)
    DEF StartConnect2, ValueTypes, StrandTypes, caller, Codes
  <2>10. QED
    BY <1>4, <2>8, <2>9, IInvNext
<1>5. QED
  BY <1>3, <1>4 DEF StartConnect2

LEMMA KeptByDoneConnect2 ==
  ASSUME IInv, DoneConnect2
  PROVE  IInv'
<1>1. ~Idle /\ Top.k \notin Guard /\ ValueTypes /\ StrandTypes /\ posted \in Seq(WorkType)
  BY IInvParts DEF DoneConnect2, StrandTypes, Guard
<1>2. Below \in Stacks /\ Guarded(Below, events, ops, posted)
  BY <1>1, TopFrame
<1>3. CASE PostRecv(posted) /\ stack' = Below /\ UNCHANGED <<state, events>>
  <2> DEFINE N == IF IsStarted THEN {Op("recv", 0, "-")} ELSE {}
  <2>1. ops' \subseteq OpType /\ IsFiniteSet(ops') /\ posted' \in Seq(WorkType)
    BY <1>1, <1>3, PostRecvTypes
  <2>2. NoneIn(N, "write") /\ Outstanding(posted, {}, N)
    BY <1>3 DEF PostRecv, NoneIn, Op
  <2> HIDE DEF N
  <2>3. Guarded(Below, events, ops', posted')
    BY <1>1, <1>2, <2>2, GuardOutstanding
  <2>4. ValueTypes' /\ StrandTypes'
    BY <1>1, <1>2, <1>3, <2>1 DEF DoneConnect2, ValueTypes, StrandTypes, caller, timers
  <2>5. QED
    BY <1>3, <2>3, <2>4, IInvNext
<1>4. CASE DoDisconnect("wake", Below) /\ UNCHANGED <<ops, posted>>
  <2>1. state' \in States /\ events' \in Seq(QueueType) /\ stack' \in Stacks
    BY <1>1, <1>2, <1>4, DoDisconnectTypes DEF ValueTypes, StrandTypes
  <2>2. Guarded(stack', events', ops, posted)
    BY <1>1, <1>2, <1>4, GuardDisconnect DEF StrandTypes
  <2>3. ValueTypes' /\ StrandTypes'
    BY <1>1, <1>4, <2>1 DEF DoneConnect2, ValueTypes, StrandTypes, caller, timers
  <2>4. QED
    BY <1>4, <2>2, <2>3, IInvNext
<1>5. QED
  BY <1>3, <1>4 DEF DoneConnect2

LEMMA KeptByHandleRecv2 ==
  ASSUME IInv, HandleRecv2
  PROVE  IInv'
<1> DEFINE N == IF IsStarted THEN {Op("recv", 0, "-")} ELSE {}
<1>1. ~Idle /\ Top.k \notin Guard /\ ValueTypes /\ StrandTypes /\ posted \in Seq(WorkType)
  BY IInvParts DEF HandleRecv2, StrandTypes, Guard
<1>2. Below \in Stacks /\ Guarded(Below, events, ops, posted)
  BY <1>1, TopFrame
<1>3. ops' \subseteq OpType /\ IsFiniteSet(ops') /\ posted' \in Seq(WorkType)
  BY <1>1, PostRecvTypes DEF HandleRecv2
<1>4. NoneIn(N, "write") /\ Outstanding(posted, {}, N)
  BY DEF HandleRecv2, PostRecv, NoneIn, Op
<1> HIDE DEF N
<1>5. Guarded(Below, events, ops', posted')
  BY <1>1, <1>2, <1>4, GuardOutstanding
<1>6. ValueTypes' /\ StrandTypes'
  BY <1>1, <1>2, <1>3 DEF HandleRecv2, ValueTypes, StrandTypes, caller, timers
<1>7. QED
  BY <1>5, <1>6, IInvNext DEF HandleRecv2

LEMMA KeptByHandleSend2 ==
  ASSUME IInv, HandleSend2
  PROVE  IInv'
<1>1. ~Idle /\ Top.k \notin Guard /\ ValueTypes /\ StrandTypes
  BY IInvParts DEF HandleSend2, Guard
<1>2. Below \in Stacks /\ Guarded(Below, events, ops, posted)
  BY <1>1, TopFrame
<1>3. CASE DoDisconnect("wake", Below)
  <2>1. state' \in States /\ events' \in Seq(QueueType) /\ stack' \in Stacks
    BY <1>1, <1>2, <1>3, DoDisconnectTypes DEF ValueTypes, StrandTypes
  <2>2. Guarded(stack', events', ops, posted)
    BY <1>1, <1>2, <1>3, GuardDisconnect DEF StrandTypes
  <2>3. ValueTypes' /\ StrandTypes'
    BY <1>1, <1>3, <2>1 DEF HandleSend2, ValueTypes, StrandTypes, caller, timers
  <2>4. QED
    BY <1>3, <2>2, <2>3, IInvNext DEF HandleSend2
<1>4. CASE stack' = Below /\ UNCHANGED <<state, events>>
  <2>1. ValueTypes' /\ StrandTypes'
    BY <1>1, <1>2, <1>4 DEF HandleSend2, ValueTypes, StrandTypes, caller, timers
  <2>2. QED
    BY <1>2, <1>4, <2>1, IInvNext DEF HandleSend2
<1>5. QED
  BY <1>3, <1>4 DEF HandleSend2

LEMMA KeptByReconnectTimer2 ==
  ASSUME IInv, ReconnectTimer2
  PROVE  IInv'
<1> DEFINE N == {Op("rtimer", 0, "forever")}
<1>1. ~Idle /\ Top.k \notin Guard /\ ValueTypes /\ StrandTypes /\ posted \in Seq(WorkType)
  BY IInvParts DEF ReconnectTimer2, StrandTypes, Guard
<1>2. Below \in Stacks /\ Guarded(Below, events, ops, posted)
  BY <1>1, TopFrame
<1>3. N \subseteq OpType /\ IsFiniteSet(N)
  BY OpTypes, FiniteFew
<1>4. NoneIn(N, "write")
  BY DEF NoneIn, Op
<1>5. Outstanding(posted, ReconnectWait, N) /\ ReconnectWait \subseteq ops
  BY DEF ReconnectTimer2, ReconnectWait
<1> HIDE DEF N
<1>6. ops' \subseteq OpType /\ IsFiniteSet(ops') /\ posted' \in Seq(WorkType)
  BY <1>1, <1>3, <1>5, OutstandingTypes
<1>7. Guarded(Below, events, ops', posted')
  BY <1>1, <1>2, <1>4, <1>5, GuardOutstanding
<1>8. ValueTypes' /\ StrandTypes'
  BY <1>1, <1>2, <1>6 DEF ReconnectTimer2, ValueTypes, StrandTypes, caller, timers
<1>9. QED
  BY <1>7, <1>8, IInvNext DEF ReconnectTimer2

LEMMA KeptByStop2 ==
  ASSUME IInv, Stop2
  PROVE  IInv'
<1>1. ~Idle /\ Top.k \notin Guard /\ ValueTypes /\ StrandTypes
  BY IInvParts DEF Stop2, Guard
<1>2. Below \in Stacks /\ Guarded(Below, events, ops, posted)
  BY <1>1, TopFrame
<1>3. ValueTypes' /\ StrandTypes'
  BY <1>1, <1>2 DEF Stop2, ValueTypes, StrandTypes, timers
<1>4. QED
  BY <1>2, <1>3, IInvNext DEF Stop2

LEMMA KeptByCallbackReturns ==
  ASSUME IInv, CallbackReturns
  PROVE  IInv'
<1>1. ~Idle /\ Top.k \notin Guard /\ ValueTypes /\ StrandTypes
  BY IInvParts, FrameTypes DEF CallbackReturns, Guard
<1>2. Below \in Stacks /\ Guarded(Below, events, ops, posted)
  BY <1>1, TopFrame
<1>3. ValueTypes' /\ StrandTypes'
  BY <1>1, <1>2 DEF CallbackReturns, ValueTypes, StrandTypes, timers, caller
<1>4. QED
  BY <1>2, <1>3, IInvNext DEF CallbackReturns

LEMMA KeptByRunPush ==
  ASSUME IInv, RunPush
  PROVE  IInv'
<1>1. ValueTypes /\ StrandTypes
  BY IInvParts
<1>2. /\ Rest \in Seq(WorkType) /\ Done \in WorkType /\ Done.k = "push"
      /\ Guarded(<<>>, events, ops, Rest)
  BY NextHandler DEF RunPush
<1>3. Done.ev \in QueueType
  BY <1>2 DEF WorkType, HandlerType, QueueType
<1>4. Emplace(Done.ev, <<>>)
  BY DEF RunPush
<1>5. events' \in Seq(QueueType) /\ stack' \in Stacks
  BY <1>1, <1>3, <1>4, EmptyStack, EmplaceTypes DEF StrandTypes
<1>6. Guarded(stack', events', ops, Rest)
  BY <1>1, <1>2, <1>3, <1>4, EmptyStack, GuardEmplace DEF StrandTypes
<1>7. ValueTypes' /\ StrandTypes'
  BY <1>1, <1>2, <1>5 DEF RunPush, ValueTypes, StrandTypes, timers, caller
<1>8. QED
  BY <1>6, <1>7, IInvNext DEF RunPush

LEMMA StopOnStrandKept ==
  ASSUME ValueTypes, StrandTypes, NEW P \in Seq(WorkType), NEW st \in Stacks, StopOnStrand(P, st),
         Guarded(st, events, ops, P)
  PROVE  /\ StrandTypes' /\ state' \in States /\ rCanceled' \in BOOLEAN
         /\ Guarded(stack', events', ops', posted')
<1>1. StrandTypes' /\ state' \in States /\ rCanceled' \in BOOLEAN
  BY StopOnStrandTypes DEF ValueTypes
<1>2. Outstanding(P, ReconnectWait, {}) /\ ReconnectWait \subseteq ops /\ DoDisconnect("stop", st)
  BY DEF StopOnStrand, ReconnectWait
<1>3. Guarded(st, events, ops', posted')
  BY <1>2, NoneInFew, GuardOutstanding
<1>4. Guarded(stack', events', ops', posted')
  BY <1>2, <1>3, GuardDisconnect DEF StrandTypes
<1>5. QED
  BY <1>1, <1>4

LEMMA KeptByRunStop ==
  ASSUME IInv, RunStop
  PROVE  IInv'
<1>1. ValueTypes /\ StrandTypes
  BY IInvParts
<1>2. Rest \in Seq(WorkType) /\ Guarded(<<>>, events, ops, Rest)
  BY NextHandler DEF RunStop
<1>3. /\ StrandTypes' /\ state' \in States /\ rCanceled' \in BOOLEAN
      /\ Guarded(stack', events', ops', posted')
  BY <1>1, <1>2, EmptyStack, StopOnStrandKept DEF RunStop
<1>4. ValueTypes'
  BY <1>1, <1>3 DEF RunStop, StopOnStrand, ValueTypes, caller
<1>5. QED
  BY <1>3, <1>4, IInvNext

LEMMA PostConnectGuard ==
  ASSUME StrandTypes, NEW n \in 0 .. Endpoints, NEW P \in Seq(WorkType), PostConnect(n, P),
         stack = <<>>, Guarded(<<>>, events, ops, P)
  PROVE  Guarded(stack', events', ops', posted')
<1>1. CASE n = 0
  <2>1. DoneConnect("err", P, <<>>)
    BY <1>1 DEF PostConnect
  <2>2. QED
    BY <2>1, DoneConnectGuard, EmptyStack DEF Codes
<1>2. CASE n # 0
  <2> DEFINE o == Op("connect", n - 1, "-")
  <2>1. o \in OpType /\ o.k = "connect"
    <3>1. n - 1 \in 0 .. Endpoints
      BY <1>2, BoundsAssumption
    <3>2. QED
      BY <3>1 DEF Op, OpType, AttemptOps
  <2> HIDE DEF o
  <2>2. UNCHANGED <<stack, events>>
    BY <1>2 DEF PostConnect
  <2>3. CASE Outstanding(P, {}, {o})
    <3>1. NoneIn({o}, "write")
      BY <2>1 DEF NoneIn
    <3>2. Guarded(<<>>, events, ops', posted')
      BY <2>3, <3>1, GuardOutstanding
    <3>3. QED
      BY <2>2, <3>2
  <2>4. CASE posted' = Append(P, Completion(o, "err")) /\ UNCHANGED ops
    <3>1. Completion(o, "err") \in WorkType /\ Completion(o, "err").k # "write"
      BY <2>1, CompletionType, CompletionOp DEF Codes
    <3>2. Guarded(<<>>, events, ops, Append(P, Completion(o, "err")))
      BY <3>1, GuardPost
    <3>3. QED
      BY <2>2, <2>4, <3>2
  <2>5. QED
    BY <1>2, <2>3, <2>4 DEF PostConnect, o
<1>3. QED
  BY <1>1, <1>2

LEMMA DoneConnectKept ==
  ASSUME ValueTypes, StrandTypes, NEW ec \in Codes, NEW P \in Seq(WorkType),
         Guarded(<<>>, events, ops, P), DoneConnect(ec, P, <<>>), UNCHANGED <<sock, send, caller>>
  PROVE  IInv'
<1>1. /\ StrandTypes' /\ state' \in States /\ cErr' \in Codes
      /\ note' \in {"none", "connected", "failed", "disconnected"}
  BY EmptyStack, DoneConnectTypes
<1>2. Guarded(stack', events', ops', posted')
  BY EmptyStack, DoneConnectGuard
<1>3. ValueTypes'
  BY <1>1 DEF DoneConnect, ValueTypes, caller
<1>4. QED
  BY <1>1, <1>2, <1>3, IInvNext

LEMMA PostConnectKept ==
  ASSUME ValueTypes, StrandTypes, Idle, NEW n \in 0 .. Endpoints, NEW P \in Seq(WorkType),
         Guarded(<<>>, events, ops, P), PostConnect(n, P), UNCHANGED <<send, caller>>
  PROVE  IInv'
<1>1. /\ StrandTypes' /\ state' \in States /\ cErr' \in Codes
      /\ sock' \in {"closed", "open", "connected"}
      /\ note' \in {"none", "connected", "failed", "disconnected"}
      /\ UNCHANGED <<rRunning, rCanceled, cFlag>>
  BY PostConnectTypes
<1>2. Guarded(stack', events', ops', posted')
  BY PostConnectGuard DEF Idle
<1>3. ValueTypes'
  BY <1>1 DEF ValueTypes, caller
<1>4. QED
  BY <1>1, <1>2, <1>3, IInvNext

LEMMA KeptByHandleResolve ==
  ASSUME IInv, HandleResolve
  PROVE  IInv'
<1>1. ValueTypes /\ StrandTypes /\ Idle
  BY IInvParts DEF HandleResolve, Runs
<1>2. Rest \in Seq(WorkType) /\ Guarded(<<>>, events, ops, Rest)
  BY NextHandler DEF HandleResolve
<1>3. CASE \E n \in 1 .. Endpoints : PostConnect(n, Rest)
  <2>1. PICK n \in 1 .. Endpoints : PostConnect(n, Rest)
    BY <1>3
  <2>2. n \in 0 .. Endpoints
    BY BoundsAssumption
  <2>3. QED
    BY <1>1, <1>2, <2>1, <2>2, PostConnectKept DEF HandleResolve
<1>4. CASE DoneConnect("err", Rest, <<>>) /\ UNCHANGED sock
  BY <1>1, <1>2, <1>4, DoneConnectKept DEF HandleResolve, Codes
<1>5. QED
  BY <1>3, <1>4 DEF HandleResolve

LEMMA KeptByHandleConnect ==
  ASSUME IInv, HandleConnect
  PROVE  IInv'
<1>1. ValueTypes /\ StrandTypes /\ Idle
  BY IInvParts DEF HandleConnect, Runs
<1>2. Rest \in Seq(WorkType) /\ Guarded(<<>>, events, ops, Rest) /\ Done \in WorkType
  BY NextHandler DEF HandleConnect
<1>3. Done.op.n \in 0 .. Endpoints /\ Done.ec \in Codes
  BY <1>2 DEF WorkType, HandlerType, OpType
<1>4. CASE PostConnect(Done.op.n, Rest)
  BY <1>1, <1>2, <1>3, <1>4, PostConnectKept DEF HandleConnect
<1>5. CASE DoneConnect(Done.ec, Rest, <<>>) /\ UNCHANGED sock
  BY <1>1, <1>2, <1>3, <1>5, DoneConnectKept DEF HandleConnect
<1>6. QED
  BY <1>4, <1>5 DEF HandleConnect

\* Frames a handler that runs on the idle strand leaves behind.
LEMMA HandlerFrames ==
  ASSUME NEW f \in FrameType, f.k \notin Guard \cup {"start2"}
  PROVE  /\ <<User>> \in Stacks /\ <<f, User>> \in Stacks /\ <<f>> \in Stacks
         /\ \A es, S, q : Guarded(<<>>, es, S, q) => /\ Guarded(<<User>>, es, S, q)
                                                     /\ Guarded(<<f, User>>, es, S, q)
                                                     /\ Guarded(<<f>>, es, S, q)
<1>1. /\ <<User>> = Append(<<>>, User) /\ <<f>> = Append(<<>>, f)
      /\ <<f, User>> = Append(Append(<<>>, f), User)
  OBVIOUS
<1>2. Append(<<>>, f) \in Stacks /\ Append(<<>>, User) \in Stacks
  BY EmptyStack, StackPush, FrameTypes
<1>3. Append(Append(<<>>, f), User) \in Stacks
  BY <1>2, StackPush, FrameTypes
<1>4. ASSUME NEW es, NEW S, NEW q, Guarded(<<>>, es, S, q)
      PROVE  /\ Guarded(Append(<<>>, User), es, S, q) /\ Guarded(Append(<<>>, f), es, S, q)
             /\ Guarded(Append(Append(<<>>, f), User), es, S, q)
  <2>1. Guarded(Append(<<>>, User), es, S, q) /\ Guarded(Append(<<>>, f), es, S, q)
    BY <1>4, EmptyStack, FrameTypes, GuardQuiet DEF Guard
  <2>2. QED
    BY <1>2, <2>1, FrameTypes, GuardQuiet DEF Guard
<1>5. QED
  BY <1>1, <1>2, <1>3, <1>4

LEMMA KeptByHandleRecv ==
  ASSUME IInv, HandleRecv
  PROVE  IInv'
<1>1. ValueTypes /\ StrandTypes
  BY IInvParts
<1>2. Rest \in Seq(WorkType) /\ Guarded(<<>>, events, ops, Rest)
  BY NextHandler DEF HandleRecv
<1>3. CASE stack' = <<Frame("recv2", "-"), User>> /\ UNCHANGED <<state, events>>
  <2> DEFINE f == Frame("recv2", "-")
  <2>1. f \in FrameType /\ f.k \notin Guard \cup {"start2"}
    BY FrameTypes DEF Guard
  <2> HIDE DEF f
  <2>2. <<f, User>> \in Stacks /\ Guarded(<<f, User>>, events, ops, Rest)
    BY <1>2, <2>1, HandlerFrames
  <2>3. ValueTypes' /\ StrandTypes'
    BY <1>1, <1>2, <1>3, <2>2 DEF HandleRecv, ValueTypes, StrandTypes, timers, caller, f
  <2>4. QED
    BY <1>3, <2>2, <2>3, IInvNext DEF HandleRecv, f
<1>4. CASE DoDisconnect("wake", <<>>)
  <2>1. state' \in States /\ events' \in Seq(QueueType) /\ stack' \in Stacks
    BY <1>1, <1>4, EmptyStack, DoDisconnectTypes DEF ValueTypes, StrandTypes
  <2>2. Guarded(stack', events', ops, Rest)
    BY <1>1, <1>2, <1>4, EmptyStack, GuardDisconnect DEF StrandTypes
  <2>3. ValueTypes' /\ StrandTypes'
    BY <1>1, <1>2, <2>1 DEF HandleRecv, ValueTypes, StrandTypes, timers, caller
  <2>4. QED
    BY <2>2, <2>3, IInvNext DEF HandleRecv
<1>5. QED
  BY <1>3, <1>4 DEF HandleRecv

LEMMA KeptByHandleSend ==
  ASSUME IInv, HandleSend
  PROVE  IInv'
<1>1. ValueTypes /\ StrandTypes
  BY IInvParts
<1>2. /\ posted \in Seq(WorkType) /\ posted # <<>> /\ Rest \in Seq(WorkType) /\ Done \in WorkType
      /\ Done.k = "write" /\ Guarded(<<>>, events, ops, posted)
  BY NextHandler DEF HandleSend
<1>3. Done.ec \in Codes
  BY <1>2 DEF WorkType, HandlerType
<1>4. ~NoneOf(ops, posted, "write")
  BY <1>2, TailAt DEF NoneOf, Done
<1>5. events # <<>> /\ NoFrame(<<>>, Guard) /\ \E d \in Data : OneOf(ops, posted, "write", d)
  BY <1>2, <1>4 DEF Guarded
<1>6. NoneOf(ops, Rest, "write")
  <2>1. PICK d \in Data : OneOf(ops, posted, "write", d)
    BY <1>5
  <2>2. ~NoneAt(posted, "write")
    BY <1>2, TailAt DEF Done
  <2>3. NoneIn(ops, "write") /\ OneAt(posted, "write", d)
    BY <2>1, <2>2 DEF OneOf
  <2>4. QED
    BY <1>2, <2>3, TailAt DEF NoneOf, Rest, Done
<1> DEFINE f == Frame("sent2", Done.ec)
           s1 == Append(<<>>, Release)
<1>7. f \in FrameType /\ f.k \notin Guard \cup {"start2"}
  BY <1>3, FrameTypes DEF Guard
<1>8. s1 \in Stacks /\ Guarded(s1, events, ops, Rest)
  BY <1>5, <1>6, EmptyStack, FrameTypes, StackPush, GuardHeld DEF Guard
<1>9. <<Release, f, User>> = Append(Append(s1, f), User)
  OBVIOUS
<1> HIDE DEF f, s1
<1>10. Append(s1, f) \in Stacks /\ Guarded(Append(s1, f), events, ops, Rest)
  BY <1>7, <1>8, StackPush, GuardQuiet
<1>11. Append(Append(s1, f), User) \in Stacks /\ Guarded(Append(Append(s1, f), User), events, ops, Rest)
  BY <1>10, FrameTypes, StackPush, GuardQuiet DEF Guard
<1>12. stack' = Append(Append(s1, f), User)
  BY <1>9 DEF HandleSend, f
<1>13. ValueTypes' /\ StrandTypes'
  BY <1>1, <1>2, <1>11, <1>12, SMTT(20), ZenonT(20)
  DEF HandleSend, ValueTypes, StrandTypes, timers, caller
<1>14. QED
  BY <1>11, <1>12, <1>13, IInvNext DEF HandleSend

LEMMA KeptByHandleRefused ==
  ASSUME IInv, HandleRefused
  PROVE  IInv'
<1>1. ValueTypes /\ StrandTypes
  BY IInvParts
<1>2. Rest \in Seq(WorkType) /\ Guarded(<<>>, events, ops, Rest)
  BY NextHandler DEF HandleRefused
<1>3. User.k \notin Guard \cup {"start2"} /\ User \in FrameType
  BY FrameTypes DEF Guard
<1>4. <<User>> \in Stacks /\ Guarded(<<User>>, events, ops, Rest)
  BY <1>2, <1>3, HandlerFrames
<1>5. ValueTypes' /\ StrandTypes'
  <2>1. posted' = Rest /\ stack' = <<User>> /\ UNCHANGED <<ops, events>>
    BY DEF HandleRefused
  <2>2. send' = [send EXCEPT ![Done.ev.p] = "err"] /\ send \in [Data -> {"new", "queued", "ok", "err"}]
    BY <1>1 DEF HandleRefused, ValueTypes
  <2>3. send' \in [Data -> {"new", "queued", "ok", "err"}]
    BY <2>2
  <2>4. UNCHANGED <<state, sock, rRunning, rCanceled, cFlag, cErr, note, promise, app, poolStopped, starts, stops>>
    BY DEF HandleRefused, timers, caller
  <2>5. StrandTypes'
    BY <1>1, <1>2, <1>4, <2>1 DEF StrandTypes
  <2>6. ValueTypes'
    BY <1>1, <2>3, <2>4 DEF ValueTypes
  <2>7. QED
    BY <2>5, <2>6
<1>6. QED
  BY <1>4, <1>5, IInvNext DEF HandleRefused

LEMMA KeptByHandleConnectTimer ==
  ASSUME IInv, HandleConnectTimer
  PROVE  IInv'
<1>1. ValueTypes /\ StrandTypes
  BY IInvParts
<1>2. Rest \in Seq(WorkType) /\ Guarded(<<>>, events, ops, Rest) /\ stack = <<>>
  BY NextHandler DEF HandleConnectTimer
<1>3. CASE cFlag' = TRUE /\ sock' = "closed" /\ Outstanding(Rest, SocketOps, {})
  <2>1. SocketOps \subseteq ops
    BY DEF SocketOps
  <2>2. ops' \subseteq OpType /\ IsFiniteSet(ops') /\ posted' \in Seq(WorkType)
    BY <1>1, <1>2, <1>3, <2>1, FiniteFew, OutstandingTypes
  <2>3. Guarded(<<>>, events, ops', posted')
    BY <1>1, <1>2, <1>3, <2>1, NoneInFew, GuardOutstanding
  <2>4. ValueTypes' /\ StrandTypes'
    BY <1>1, <1>3, <2>2 DEF HandleConnectTimer, ValueTypes, StrandTypes
  <2>5. QED
    BY <1>2, <2>3, <2>4, IInvNext DEF HandleConnectTimer
<1>4. CASE posted' = Rest /\ UNCHANGED <<cFlag, sock, ops>>
  <2>1. ValueTypes' /\ StrandTypes'
    BY <1>1, <1>2, <1>4 DEF HandleConnectTimer, ValueTypes, StrandTypes
  <2>2. QED
    BY <1>2, <1>4, <2>1, IInvNext DEF HandleConnectTimer
<1>5. QED
  BY <1>3, <1>4 DEF HandleConnectTimer

LEMMA KeptByHandleReconnectTimer ==
  ASSUME IInv, HandleReconnectTimer
  PROVE  IInv'
<1>1. ValueTypes /\ StrandTypes
  BY IInvParts
<1>2. Rest \in Seq(WorkType) /\ Guarded(<<>>, events, ops, Rest) /\ stack = <<>>
  BY NextHandler DEF HandleReconnectTimer
<1>3. CASE rCanceled /\ rRunning' = FALSE /\ posted' = Rest /\ UNCHANGED <<ops, stack, events>>
  <2>1. ValueTypes' /\ StrandTypes'
    BY <1>1, <1>2, <1>3 DEF HandleReconnectTimer, ValueTypes, StrandTypes, caller
  <2>2. QED
    BY <1>2, <1>3, <2>1, IInvNext
<1>4. CASE /\ Outstanding(Rest, ReconnectWait, {Op("rtimer", 0, "delay")})
           /\ UNCHANGED <<rRunning, stack, events>>
  <2> DEFINE N == {Op("rtimer", 0, "delay")}
  <2>1. N \subseteq OpType /\ IsFiniteSet(N)
    BY OpTypes, FiniteFew
  <2>2. NoneIn(N, "write")
    BY DEF NoneIn, Op
  <2>3. Outstanding(Rest, ReconnectWait, N) /\ ReconnectWait \subseteq ops
    BY <1>4 DEF ReconnectWait
  <2> HIDE DEF N
  <2>4. ops' \subseteq OpType /\ IsFiniteSet(ops') /\ posted' \in Seq(WorkType)
    BY <1>1, <1>2, <2>1, <2>3, OutstandingTypes
  <2>5. Guarded(<<>>, events, ops', posted')
    BY <1>1, <1>2, <2>2, <2>3, GuardOutstanding
  <2>6. ValueTypes' /\ StrandTypes'
    BY <1>1, <1>4, <2>4 DEF HandleReconnectTimer, ValueTypes, StrandTypes, caller
  <2>7. QED
    BY <1>2, <1>4, <2>5, <2>6, IInvNext
<1>5. CASE posted' = Rest /\ Emplace(ReconnectEvent, <<Frame("rtimer2", "-")>>) /\ UNCHANGED <<rRunning, ops>>
  <2> DEFINE f == Frame("rtimer2", "-")
  <2>1. f \in FrameType /\ f.k \notin Guard \cup {"start2"}
    BY FrameTypes DEF Guard
  <2>2. Emplace(ReconnectEvent, <<f>>)
    BY <1>5
  <2> HIDE DEF f
  <2>3. <<f>> \in Stacks /\ Guarded(<<f>>, events, ops, Rest)
    BY <1>2, <2>1, HandlerFrames
  <2>4. events' \in Seq(QueueType) /\ stack' \in Stacks
    BY <1>1, <2>2, <2>3, EventTypes, EmplaceTypes DEF StrandTypes
  <2>5. Guarded(stack', events', ops, Rest)
    BY <1>1, <2>2, <2>3, EventTypes, GuardEmplace DEF StrandTypes
  <2>6. ValueTypes' /\ StrandTypes'
    BY <1>1, <1>2, <1>5, <2>4 DEF HandleReconnectTimer, ValueTypes, StrandTypes, caller
  <2>7. QED
    BY <1>5, <2>5, <2>6, IInvNext
<1>6. QED
  BY <1>3, <1>4, <1>5 DEF HandleReconnectTimer

\* The calls of the application, in callbacks and on its own thread.
LEMMA KeptByCallbackStops ==
  ASSUME IInv, CallbackStops
  PROVE  IInv'
<1> DEFINE st == Append(stack, Frame("stop2", "-"))
<1>1. ValueTypes /\ StrandTypes /\ posted \in Seq(WorkType) /\ stack \in Stacks
      /\ Guarded(stack, events, ops, posted)
  BY IInvParts DEF StrandTypes, GuardInv
<1>2. Frame("stop2", "-") \in FrameType /\ Frame("stop2", "-").k \notin Guard \cup {"start2"}
  BY FrameTypes DEF Guard
<1>3. st \in Stacks /\ Guarded(st, events, ops, posted)
  BY <1>1, <1>2, StackPush, GuardQuiet
<1>4. StopOnStrand(posted, st)
  BY DEF CallbackStops
<1> HIDE DEF st
<1>5. /\ StrandTypes' /\ state' \in States /\ rCanceled' \in BOOLEAN
      /\ Guarded(stack', events', ops', posted')
  BY <1>1, <1>3, <1>4, StopOnStrandKept
<1>6. ValueTypes'
  BY <1>1, <1>4, <1>5, BoundsAssumption DEF CallbackStops, StopOnStrand, ValueTypes
<1>7. QED
  BY <1>5, <1>6, IInvNext

LEMMA KeptByCallbackStarts ==
  ASSUME IInv, CallbackStarts
  PROVE  IInv'
<1>1. /\ ValueTypes /\ StrandTypes /\ posted \in Seq(WorkType) /\ stack \in Stacks
      /\ events \in Seq(QueueType) /\ Guarded(stack, events, ops, posted)
  BY IInvParts DEF StrandTypes, GuardInv
<1>2. ConnectEvent("async") \in QueueType /\ Emplace(ConnectEvent("async"), stack)
  BY EventTypes DEF CallbackStarts
<1>3. /\ events' \in Seq(QueueType) /\ stack' \in Stacks
      /\ Guarded(stack', events', ops, posted)
  BY <1>1, <1>2, EmplaceTypes, GuardEmplace
<1>n. starts' \in 0 .. MaxStarts
  BY <1>1, BoundsAssumption DEF CallbackStarts, ValueTypes
<1>4. ValueTypes' /\ StrandTypes'
  BY <1>1, <1>3, <1>n, SMTT(20), ZenonT(20)
  DEF CallbackStarts, ValueTypes, StrandTypes, timers
<1>5. QED
  BY <1>3, <1>4, IInvNext DEF CallbackStarts

LEMMA KeptByCallbackSends ==
  ASSUME IInv, NEW d \in Data, CallbackSends(d)
  PROVE  IInv'
<1>1. /\ ValueTypes /\ StrandTypes /\ posted \in Seq(WorkType) /\ stack \in Stacks
      /\ events \in Seq(QueueType) /\ Guarded(stack, events, ops, posted)
  BY IInvParts DEF StrandTypes, GuardInv
<1>2. CASE IsStarted
  <2>1. SendEvent(d) \in QueueType /\ Emplace(SendEvent(d), stack)
    BY <1>2, EventTypes DEF CallbackSends
  <2>2. /\ events' \in Seq(QueueType) /\ stack' \in Stacks
        /\ Guarded(stack', events', ops, posted)
    BY <1>1, <2>1, EmplaceTypes, GuardEmplace
  <2>3. ValueTypes' /\ StrandTypes'
    BY <1>1, <1>2, <2>2 DEF CallbackSends, ValueTypes, StrandTypes, timers, caller
  <2>4. QED
    BY <2>2, <2>3, IInvNext DEF CallbackSends
<1>3. CASE ~IsStarted
  <2>1. Append(stack, User) \in Stacks /\ Guarded(Append(stack, User), events, ops, posted)
    BY <1>1, FrameTypes, StackPush, GuardQuiet DEF Guard
  <2>2. stack' = Append(stack, User) /\ UNCHANGED events
    BY <1>3 DEF CallbackSends
  <2>3. ValueTypes' /\ StrandTypes'
    BY <1>1, <1>3, <2>1, <2>2 DEF CallbackSends, ValueTypes, StrandTypes, timers, caller
  <2>4. QED
    BY <2>1, <2>2, <2>3, IInvNext DEF CallbackSends
<1>4. QED
  BY <1>2, <1>3

\* A handler that is not a completion of a write is posted.
LEMMA PostKept ==
  ASSUME StrandTypes, GuardInv, NEW h \in WorkType, h.k # "write", posted' = Append(posted, h),
         UNCHANGED <<ops, stack, events>>, ValueTypes'
  PROVE  IInv'
<1>1. Guarded(stack, events, ops, posted')
  BY GuardPost DEF GuardInv, StrandTypes
<1>2. StrandTypes'
  BY AppendProperties DEF StrandTypes
<1>3. QED
  BY <1>1, <1>2, IInvNext

LEMMA KeptByAppCalls ==
  ASSUME IInv, \/ \E sync \in {"sync", "async"} : AppStarts(sync)
               \/ \E d \in Data : AppSends(d)
               \/ AppStops
  PROVE  IInv'
<1>1. ValueTypes /\ StrandTypes /\ GuardInv
  BY IInvParts
<1>2. ASSUME NEW sync \in {"sync", "async"}, AppStarts(sync) PROVE IInv'
  <2>1. ConnectEvent(sync) \in QueueType
    BY EventTypes
  <2>2. Handler("push", ConnectEvent(sync)) \in WorkType /\ Handler("push", ConnectEvent(sync)).k # "write"
    BY <2>1, HandlerTypes DEF Handler
  <2>n. starts' \in 0 .. MaxStarts
    BY <1>1, <1>2, BoundsAssumption DEF AppStarts, ValueTypes
  <2>3. ValueTypes'
    BY <1>1, <1>2, <2>n DEF AppStarts, ValueTypes, timers
  <2>4. QED
    BY <1>1, <1>2, <2>2, <2>3, PostKept DEF AppStarts
<1>3. ASSUME NEW d \in Data, AppSends(d) PROVE IInv'
  <2> DEFINE h == Handler(IF IsStarted THEN "push" ELSE "refused", SendEvent(d))
  <2>1. SendEvent(d) \in QueueType
    BY EventTypes
  <2>2. h \in WorkType
    BY <2>1, HandlerTypes
  <2>3. h.k # "write"
    BY DEF Handler
  <2>4. ValueTypes' /\ posted' = Append(posted, h)
    BY <1>1, <1>3 DEF AppSends, ValueTypes, timers, caller
  <2> HIDE DEF h
  <2>5. QED
    BY <1>1, <1>3, <2>2, <2>3, <2>4, PostKept DEF AppSends
<1>4. ASSUME AppStops PROVE IInv'
  <2>1. Handler("stop", NoEvent) \in WorkType /\ Handler("stop", NoEvent).k # "write"
    BY HandlerTypes DEF Handler
  <2>2. ValueTypes'
    BY <1>1, <1>4, BoundsAssumption DEF AppStops, ValueTypes, timers
  <2>3. QED
    BY <1>1, <1>4, <2>1, <2>2, PostKept DEF AppStops
<1>5. QED
  BY <1>2, <1>3, <1>4

LEMMA KeptByAppReturns ==
  ASSUME IInv, AppReturns
  PROVE  IInv'
<1>1. ValueTypes /\ StrandTypes /\ Guarded(stack, events, ops, posted)
  BY IInvParts DEF GuardInv
<1>2. UNCHANGED strand
  BY DEF AppReturns, AppStarted, AppStopsPool, AppStopped
<1>3. ValueTypes'
  BY <1>1 DEF AppReturns, AppStarted, AppStopsPool, AppStopped, ValueTypes, timers
<1>4. QED
  BY <1>1, <1>2, <1>3, IInvNext DEF StrandTypes, strand

\* An operation completes: it stays the one of its kind.
LEMMA EndsKept ==
  ASSUME IInv, NEW o \in ops, o.k # "none", NEW ec \in Codes, Ends(o, ec),
         sock' \in {"closed", "open", "connected"}
  PROVE  IInv'
<1> DEFINE h == Completion(o, ec)
<1>1. ValueTypes /\ StrandTypes /\ Guarded(stack, events, ops, posted) /\ posted \in Seq(WorkType)
  BY IInvParts DEF GuardInv, StrandTypes
<1>2. h \in WorkType /\ h.k = o.k /\ h.op = o
  BY <1>1, CompletionType, CompletionOp DEF StrandTypes
<1> HIDE DEF h
<1>3. ops' = ops \ {o} /\ posted' = Append(posted, h) /\ UNCHANGED <<stack, events>>
  BY DEF Ends, h
<1>4. ops' \subseteq OpType /\ IsFiniteSet(ops') /\ posted' \in Seq(WorkType)
  BY <1>1, <1>2, <1>3, FS_Subset, AppendProperties DEF StrandTypes
<1>5. Guarded(stack, events, ops', posted')
  <2>1. CASE o.k # "write"
    <3>1. Guarded(stack, events, ops, posted')
      BY <1>1, <1>2, <1>3, <2>1, GuardPost
    <3>2. /\ NoneIn(ops, "write") => NoneIn(ops', "write")
          /\ \A x : OneIn(ops, "write", x) => OneIn(ops', "write", x)
      BY <1>3, <2>1 DEF NoneIn, OneIn
    <3>3. QED
      BY <3>1, <3>2 DEF Guarded, NoneOf, OneOf
  <2>2. CASE o.k = "write"
    <3>1. ~NoneIn(ops, "write")
      BY <2>2 DEF NoneIn
    <3>2. /\ events # <<>> /\ NoFrame(stack, Guard)
          /\ \E d \in Data : Head(events) = SendEvent(d) /\ OneIn(ops, "write", d) /\ NoneAt(posted, "write")
      BY <1>1, <3>1 DEF Guarded, NoneOf, OneOf
    <3>3. PICK d \in Data : Head(events) = SendEvent(d) /\ OneIn(ops, "write", d) /\ NoneAt(posted, "write")
      BY <3>2
    <3>4. o.x = d /\ NoneIn(ops', "write")
      BY <1>3, <2>2, <3>3 DEF OneIn, NoneIn
    <3>5. OneAt(posted', "write", d)
      BY <1>1, <1>2, <1>3, <2>2, <3>3, <3>4, AppendAt
    <3>6. QED
      BY <3>2, <3>3, <3>4, <3>5 DEF Guarded, OneOf
  <2>3. QED
    BY <2>1, <2>2
<1>6. ValueTypes' /\ StrandTypes'
  BY <1>1, <1>3, <1>4 DEF Ends, ValueTypes, StrandTypes, timers, caller
<1>7. QED
  BY <1>3, <1>5, <1>6, IInvNext

LEMMA KeptByWorld ==
  ASSUME IInv, World
  PROVE  IInv'
<1>1. sock \in {"closed", "open", "connected"}
  BY IInvParts DEF ValueTypes
<1>2. \E o \in ops, ec \in Codes : /\ o.k # "none" /\ Ends(o, ec)
                                   /\ sock' \in {"closed", "open", "connected"}
  BY <1>1 DEF World, ResolveEnds, ConnectEnds, RecvEnds, WriteEnds, ConnectTimerExpires,
              ReconnectTimerExpires, ConnectWait, ReconnectWait, Codes
<1>3. QED
  BY <1>2, EndsKept

-----------------------------------------------------------------------------
(* The invariant and what it gives.                                        *)

LEMMA IInvInit == Init => IInv
<1>1. SUFFICES ASSUME Init PROVE ValueTypes /\ StrandTypes /\ GuardInv
  BY IInvParts
<1>n. starts \in 0 .. MaxStarts /\ stops \in 0 .. MaxStops
  BY <1>1, BoundsAssumption DEF Init
<1>2. ValueTypes
  BY <1>1, <1>n DEF Init, ValueTypes, States, Codes
<1>3. StrandTypes
  BY <1>1, EmptyStack, EmptySeq, FiniteFew DEF Init, StrandTypes
<1>4. NoFrame(<<>>, Guard) /\ NoneIn({}, "write") /\ NoneAt(<<>>, "write")
  BY DEF NoFrame, NoneIn, NoneAt
<1>5. GuardInv
  BY <1>1, <1>4 DEF Init, GuardInv, Guarded, NoneOf
<1>6. QED
  BY <1>2, <1>3, <1>5

LEMMA IInvStep == IInv /\ [Next]_vars => IInv'
<1>1. SUFFICES ASSUME IInv, [Next]_vars PROVE IInv'
  OBVIOUS
<1>2. CASE StrandWork
  BY <1>1, <1>2, KeptByConnectBody, KeptByReconnectBody, KeptByDisconnectBody, KeptByHandleDisconnect,
     KeptByWakeBody, KeptByStopBody, KeptBySendBody, KeptByReleaseGuard,
     KeptByStartConnect2, KeptByDoneConnect2, KeptByHandleRecv2, KeptByHandleSend2,
     KeptByReconnectTimer2, KeptByStop2, KeptByRunPush, KeptByRunStop, KeptByHandleResolve,
     KeptByHandleConnect, KeptByHandleRecv, KeptByHandleSend, KeptByHandleRefused,
     KeptByHandleConnectTimer, KeptByHandleReconnectTimer, KeptByCallbackReturns DEF StrandWork
<1>3. CASE Calls
  BY <1>1, <1>3, KeptByCallbackStops, KeptByCallbackStarts, KeptByCallbackSends, KeptByAppCalls DEF Calls
<1>4. CASE AppReturns
  BY <1>1, <1>4, KeptByAppReturns
<1>5. CASE World
  BY <1>1, <1>5, KeptByWorld
<1>6. CASE UNCHANGED vars
  <2>1. ValueTypes /\ StrandTypes /\ Guarded(stack, events, ops, posted)
    BY <1>1, IInvParts DEF GuardInv
  <2>2. ValueTypes' /\ StrandTypes' /\ Guarded(stack', events', ops', posted')
    BY <1>6, <2>1 DEF vars, timers, strand, caller, ValueTypes, StrandTypes
  <2>3. QED
    BY <2>2, IInvNext
<1>7. QED
  BY <1>1, <1>2, <1>3, <1>4, <1>5, <1>6 DEF Next, StrandStep

THEOREM InductiveInvariant == Spec => []IInv
<1>1. Init => IInv
  BY IInvInit
<1>2. IInv /\ [Next]_vars => IInv'
  BY IInvStep
<1>3. QED
  BY <1>1, <1>2, PTL DEF Spec

\* The state stays in its types: operations, handlers, frames and events are
\* of the kinds the code makes, and a message, a promise and the application
\* in the states they may be in.
THEOREM TypeCorrect == Spec => []TypeOK
<1>1. IInv => TypeOK
  BY DEF IInv, TInv
<1>2. QED
  BY <1>1, InductiveInvariant, PTL

LEMMA CountNone ==
  ASSUME NEW S, S = {}
  PROVE  Cardinality(S) = 0
BY FS_EmptySet

LEMMA CountOne ==
  ASSUME NEW S, NEW x, S = {x}
  PROVE  Cardinality(S) = 1
BY FS_Singleton

LEMMA GuardCounts == IInv => OneWriter
<1> SUFFICES ASSUME IInv PROVE OneWriter
  OBVIOUS
<1>1. Guarded(stack, events, ops, posted)
  BY DEF IInv, GuardInv
<1>2. NoFrame(stack, Guard) => Frames("event") = {} /\ Frames("release") = {}
  BY DEF NoFrame, Guard, Frames
<1>3. NoneIn(ops, "write") => InFlight("write") = {}
  BY DEF NoneIn, InFlight
<1>4. NoneAt(posted, "write") => PostedOps("write") = {}
  BY DEF NoneAt, PostedOps
<1>5. CASE events = <<>> /\ NoFrame(stack, Guard) /\ NoneOf(ops, posted, "write")
  <2>1. /\ Frames("event") = {} /\ Frames("release") = {}
        /\ InFlight("write") = {} /\ PostedOps("write") = {}
    BY <1>2, <1>3, <1>4, <1>5 DEF NoneOf
  <2>2. /\ Cardinality(Frames("event")) = 0 /\ Cardinality(Frames("release")) = 0
        /\ Cardinality(InFlight("write")) = 0 /\ Cardinality(PostedOps("write")) = 0
    BY <2>1, CountNone
  <2>3. QED
    BY <1>5, <2>1, <2>2 DEF OneWriter
<1>6. CASE events # <<>> /\ OneFrame(stack, Guard) /\ NoneOf(ops, posted, "write")
  <2>1. InFlight("write") = {} /\ PostedOps("write") = {}
    BY <1>3, <1>4, <1>6 DEF NoneOf
  <2>2. Cardinality(InFlight("write")) = 0 /\ Cardinality(PostedOps("write")) = 0
    BY <2>1, CountNone
  <2>3. PICK i \in DOMAIN stack : /\ stack[i].k \in Guard
                                  /\ \A j \in DOMAIN stack : stack[j].k \in Guard => j = i
    BY <1>6 DEF OneFrame
  <2>4. \/ Frames("event") = {i} /\ Frames("release") = {}
        \/ Frames("event") = {} /\ Frames("release") = {i}
    BY <2>3 DEF Frames, Guard
  <2>5. \/ Cardinality(Frames("event")) = 1 /\ Cardinality(Frames("release")) = 0
        \/ Cardinality(Frames("event")) = 0 /\ Cardinality(Frames("release")) = 1
    BY <2>4, CountNone, CountOne
  <2>6. QED
    BY <1>6, <2>1, <2>2, <2>5 DEF OneWriter
<1>7. ASSUME NEW d \in Data, events # <<>>, NoFrame(stack, Guard), Head(events) = SendEvent(d),
             OneOf(ops, posted, "write", d)
      PROVE  OneWriter
  <2>1. /\ Cardinality(Frames("event")) = 0 /\ Cardinality(Frames("release")) = 0
    BY <1>2, <1>7, CountNone
  <2>2. CASE OneIn(ops, "write", d) /\ NoneAt(posted, "write")
    <3>1. PICK o \in ops : o.k = "write" /\ o.x = d /\ \A p \in ops : p.k = "write" => p = o
      BY <2>2 DEF OneIn
    <3>2. InFlight("write") = {o} /\ PostedOps("write") = {}
      BY <1>4, <2>2, <3>1 DEF InFlight
    <3>3. Cardinality(InFlight("write")) = 1 /\ Cardinality(PostedOps("write")) = 0
      BY <3>2, CountNone, CountOne
    <3>4. QED
      BY <1>7, <2>1, <3>1, <3>2, <3>3 DEF OneWriter
  <2>3. CASE NoneIn(ops, "write") /\ OneAt(posted, "write", d)
    <3>1. PICK i \in DOMAIN posted : /\ posted[i].k = "write" /\ posted[i].op.x = d
                                     /\ \A j \in DOMAIN posted : posted[j].k = "write" => j = i
      BY <2>3 DEF OneAt
    <3>2. InFlight("write") = {} /\ PostedOps("write") = {i}
      BY <1>3, <2>3, <3>1 DEF PostedOps
    <3>3. Cardinality(InFlight("write")) = 0 /\ Cardinality(PostedOps("write")) = 1
      BY <3>2, CountNone, CountOne
    <3>4. QED
      BY <1>7, <2>1, <3>1, <3>2, <3>3 DEF OneWriter
  <2>4. QED
    BY <1>7, <2>2, <2>3 DEF OneOf
<1>8. QED
  BY <1>1, <1>5, <1>6, <1>7 DEF Guarded

\* The guard of the event queue has exactly one owner while the queue is not
\* empty and none while it is empty, so that at most one write is in flight,
\* that of the event at the front, and the queue never stands still.
THEOREM OneWriterHolds == Spec => []OneWriter
BY GuardCounts, InductiveInvariant, PTL

-----------------------------------------------------------------------------
(* A client that has one life at a time: from the connect event on.        *)

\* Events that stop the client, or will: a disconnect whose chain does.
Stops(ev) == ev.k = "stop" \/ (ev.k = "disconnect" /\ ev.q = "stop")

\* A stop was asked for, is under way, or is done.
Told(st, rC, es, stk) ==
  /\ \A i \in DOMAIN es : Stops(es[i]) => rC
  /\ rC /\ st = "stopping" => \E i \in DOMAIN es : Stops(es[i])
  /\ ~NoFrame(stk, {"release"}) /\ es # <<>> /\ Head(es).k = "stop" => st = "stopped"

\* The wait of the reconnect timer is outstanding, completed or being handled.
Armed(stk, S, q) == ~NoFrame(stk, {"rtimer2"}) \/ ~NoneOf(S, q, "rtimer")

\* A call other than a message that is still to be pushed.
PushesCall(h) == h.k = "push" /\ h.ev.k # "send"
NoPush(q) == \A i \in DOMAIN q : ~PushesCall(q[i])

\* No connect event is still to run.
Connected(es, stk) ==
  /\ \A i \in DOMAIN es : i # 1 => es[i].k # "connect"
  /\ es # <<>> /\ Head(es).k = "connect" => NoFrame(stk, {"event"})

Begun(st, rR, rC, es, stk, S, q) ==
  /\ st # "stopped" /\ ~rC => rR
  /\ rC => st \in {"stopping", "stopped"}
  /\ Told(st, rC, es, stk)
  /\ rR => Armed(stk, S, q)
  /\ NoPush(q)
  /\ Connected(es, stk)

BegunNow == Begun(state, rRunning, rCanceled, events, stack, ops, posted)

LEMMA BegunFrames ==
  ASSUME NEW st, NEW rR, NEW rC, NEW es, NEW s1, NEW s2, NEW S, NEW q,
         Begun(st, rR, rC, es, s1, S, q),
         NoFrame(s1, {"release"}) => NoFrame(s2, {"release"}),
         NoFrame(s1, {"event"}) => NoFrame(s2, {"event"}),
         NoFrame(s2, {"rtimer2"}) => NoFrame(s1, {"rtimer2"})
  PROVE  Begun(st, rR, rC, es, s2, S, q)
BY DEF Begun, Told, Armed, Connected

LEMMA BegunPush ==
  ASSUME NEW st, NEW rR, NEW rC, NEW es, NEW s1 \in Stacks, NEW f \in FrameType, NEW S, NEW q,
         f.k \notin Guard, Begun(st, rR, rC, es, s1, S, q)
  PROVE  Begun(st, rR, rC, es, Append(s1, f), S, q)
<1>1. s1 \in Seq(FrameType)
  BY DEF Stacks
<1>2. \A K : NoFrame(Append(s1, f), K) <=> (NoFrame(s1, K) /\ f.k \notin K)
  BY <1>1, FramePush
<1>3. QED
  BY <1>2, BegunFrames DEF Guard

LEMMA BegunPushTwo ==
  ASSUME NEW st, NEW rR, NEW rC, NEW es, NEW s1 \in Stacks, NEW f \in FrameType, NEW S, NEW q,
         f.k \notin Guard \cup {"start2"}, Begun(st, rR, rC, es, s1, S, q)
  PROVE  Begun(st, rR, rC, es, s1 \o <<f, User>>, S, q)
<1> DEFINE s2 == Append(s1, f)
<1>1. s2 \in Stacks /\ Begun(st, rR, rC, es, s2, S, q)
  BY StackPush, BegunPush
<1>2. s1 \o <<f, User>> = Append(s2, User)
  BY Chain, FrameTypes DEF Stacks
<1> HIDE DEF s2
<1>3. User \in FrameType /\ User.k \notin Guard
  BY FrameTypes DEF Guard
<1>4. Begun(st, rR, rC, es, Append(s2, User), S, q)
  BY <1>1, <1>3, BegunPush
<1>5. QED
  BY <1>2, <1>4

LEMMA BegunPop ==
  ASSUME IInv, ~Idle, Top.k # "rtimer2", NEW st, NEW rR, NEW rC, NEW es, NEW S, NEW q,
         Begun(st, rR, rC, es, stack, S, q)
  PROVE  Begun(st, rR, rC, es, Below, S, q)
<1>1. Below \in Seq(FrameType) /\ Top \in FrameType /\ stack = Append(Below, Top)
  BY TopFrame DEF Stacks
<1>2. \A K : NoFrame(stack, K) <=> (NoFrame(Below, K) /\ Top.k \notin K)
  BY <1>1, FramePush
<1>3. QED
  BY <1>2, BegunFrames

\* The body of an event that is not a stop, or whose stop is done, is over.
LEMMA BegunRelease ==
  ASSUME IInv, ~Idle, Top.k = "event", NEW f \in FrameType, f.k = "release",
         NEW st, NEW rR, NEW rC, NEW S, NEW q,
         Begun(st, rR, rC, events, stack, S, q), Head(events).k # "stop" \/ st = "stopped"
  PROVE  Begun(st, rR, rC, events, Append(Below, f), S, q)
<1>1. /\ Below \in Seq(FrameType) /\ Top \in FrameType /\ stack = Append(Below, Top)
      /\ NoFrame(Below, Guard)
  BY TopFrame DEF Stacks, Guard
<1>2. /\ \A K : NoFrame(stack, K) <=> (NoFrame(Below, K) /\ Top.k \notin K)
      /\ \A K : NoFrame(Append(Below, f), K) <=> (NoFrame(Below, K) /\ f.k \notin K)
  BY <1>1, FramePush
<1>3. NoFrame(Below, {"event"})
  BY <1>1 DEF NoFrame, Guard
<1>4. /\ NoFrame(Append(Below, f), {"event"})
      /\ NoFrame(Append(Below, f), {"rtimer2"}) => NoFrame(stack, {"rtimer2"})
  BY <1>2, <1>3
<1>5. QED
  BY <1>4 DEF Begun, Told, Armed, Connected

LEMMA NoPushConcat ==
  ASSUME NEW q \in Seq(WorkType), NEW r \in Seq(WorkType), NoPush(q), NoPush(r)
  PROVE  NoPush(q \o r)
<1> DEFINE t == q \o r
           m == Len(q)
           n == Len(r)
<1>1. /\ m \in Nat /\ DOMAIN q = 1 .. m /\ n \in Nat /\ DOMAIN r = 1 .. n
  BY LenProperties
<1>2. /\ t \in Seq(WorkType) /\ Len(t) = m + n
      /\ \A i \in 1 .. m + n : t[i] = IF i <= m THEN q[i] ELSE r[i - m]
  BY ConcatProperties
<1>3. DOMAIN t = 1 .. (m + n)
  BY <1>2, LenProperties
<1>4. \A i \in DOMAIN t : \/ i \in 1 .. m /\ t[i] = q[i]
                          \/ i - m \in 1 .. n /\ t[i] = r[i - m]
  BY <1>1, <1>2, <1>3
<1> HIDE DEF t, m, n
<1>5. NoPush(t)
  BY <1>1, <1>4 DEF NoPush
<1>6. QED
  BY <1>5 DEF t

LEMMA NoPushAppend ==
  ASSUME NEW q \in Seq(WorkType), NEW h \in WorkType
  PROVE  NoPush(Append(q, h)) <=> (NoPush(q) /\ ~PushesCall(h))
<1>1. /\ Len(q) \in Nat /\ DOMAIN q = 1 .. Len(q)
      /\ DOMAIN Append(q, h) = 1 .. (Len(q) + 1)
      /\ \A i \in 1 .. Len(q) : Append(q, h)[i] = q[i]
      /\ Append(q, h)[Len(q) + 1] = h
  BY Appended
<1>2. /\ \A i \in 1 .. (Len(q) + 1) : i \in 1 .. Len(q) \/ i = Len(q) + 1
      /\ \A i \in 1 .. Len(q) : i \in 1 .. (Len(q) + 1)
      /\ Len(q) + 1 \in 1 .. (Len(q) + 1)
  BY <1>1
<1>3. QED
  BY <1>1, <1>2 DEF NoPush

LEMMA NoPushTail ==
  ASSUME NEW q \in Seq(WorkType), q # <<>>
  PROVE  NoPush(q) <=> (~PushesCall(Head(q)) /\ NoPush(Tail(q)))
<1>1. /\ Tail(q) \in Seq(WorkType) /\ Len(Tail(q)) = Len(q) - 1 /\ Len(q) \in Nat
      /\ \A i \in 1 .. Len(Tail(q)) : Tail(q)[i] = q[i + 1]
      /\ DOMAIN q = 1 .. Len(q) /\ DOMAIN Tail(q) = 1 .. Len(Tail(q))
      /\ Head(q) = q[1]
  BY HeadTailProperties, LenProperties
<1>2. /\ \A i \in DOMAIN Tail(q) : i + 1 \in DOMAIN q
      /\ \A i \in DOMAIN q : i = 1 \/ (i - 1 \in DOMAIN Tail(q) /\ q[i] = Tail(q)[i - 1])
      /\ 1 \in DOMAIN q
  <2>1. Len(q) # 0
    BY EmptySeq
  <2>2. QED
    BY <1>1, <2>1
<1>3. QED
  BY <1>1, <1>2 DEF NoPush

LEMMA NoPushAborted ==
  ASSUME NEW C, C \subseteq OpType, IsFiniteSet(C)
  PROVE  NoPush(Aborted(C)) /\ Aborted(C) \in Seq(WorkType)
<1>1. Aborted(C) \in Seq(WorkType) /\ Lists(Aborted(C), {o \in C : o.k \in Cancellable})
  BY AbortedLists
<1>2. \A o : o.k \in Cancellable => ~PushesCall(Completion(o, "aborted"))
  BY CompletionOp DEF PushesCall, Cancellable
<1>3. NoPush(Aborted(C))
  BY <1>1, <1>2 DEF Lists, NoPush
<1>4. QED
  BY <1>1, <1>3

\* Cancelling and starting operations: none of kind k is forgotten.
LEMMA SomeOutstanding ==
  ASSUME NEW S, S \subseteq OpType, IsFiniteSet(S), NEW q \in Seq(WorkType), NEW k \in Cancellable,
         NEW C, C \subseteq S, NEW N, NoneOf((S \ C) \cup N, q \o Aborted(C), k)
  PROVE  NoneOf(S, q, k)
<1>1. C \subseteq OpType /\ IsFiniteSet(C)
  BY FS_Subset
<1>2. /\ Aborted(C) \in Seq(WorkType)
      /\ \A o \in {p \in C : p.k \in Cancellable} :
           \E i \in DOMAIN Aborted(C) : Aborted(C)[i] = Completion(o, "aborted")
  BY <1>1, AbortedLists DEF Lists
<1> DEFINE r == Aborted(C)
           t == q \o r
<1>3. /\ \A i \in DOMAIN q : i \in DOMAIN t /\ t[i] = q[i]
      /\ \A i \in DOMAIN r : i + Len(q) \in DOMAIN t /\ t[i + Len(q)] = r[i]
  <2>1. /\ Len(q) \in Nat /\ DOMAIN q = 1 .. Len(q) /\ Len(r) \in Nat /\ DOMAIN r = 1 .. Len(r)
    BY <1>2, LenProperties
  <2>2. /\ t \in Seq(WorkType) /\ Len(t) = Len(q) + Len(r)
        /\ \A i \in 1 .. Len(q) + Len(r) : t[i] = IF i <= Len(q) THEN q[i] ELSE r[i - Len(q)]
    BY <1>2, ConcatProperties
  <2>3. DOMAIN t = 1 .. (Len(q) + Len(r))
    BY <2>2, LenProperties
  <2> HIDE DEF t, r
  <2>4. QED
    BY <2>1, <2>2, <2>3
<1>4. NoneAt(t, k) /\ NoneIn((S \ C) \cup N, k)
  BY DEF NoneOf
<1> HIDE DEF t, r
<1>5. NoneAt(q, k)
  BY <1>3, <1>4 DEF NoneAt
<1>6. NoneAt(r, k)
  BY <1>3, <1>4 DEF NoneAt
<1>7. NoneIn(S, k)
  <2>1. SUFFICES ASSUME NEW o \in S, o.k = k PROVE FALSE
    BY DEF NoneIn
  <2>2. o \in C
    BY <1>4, <2>1 DEF NoneIn
  <2>3. PICK i \in DOMAIN r : r[i] = Completion(o, "aborted")
    BY <1>2, <2>1, <2>2 DEF r
  <2>4. QED
    BY <1>6, <2>1, <2>3, CompletionOp DEF NoneAt
<1>8. QED
  BY <1>5, <1>7 DEF NoneOf

LEMMA BegunOutstanding ==
  ASSUME StrandTypes, NEW P \in Seq(WorkType), NEW C, C \subseteq ops, NEW N, Outstanding(P, C, N),
         NEW st, NEW rR, NEW rC, NEW es, NEW stk, Begun(st, rR, rC, es, stk, ops, P)
  PROVE  Begun(st, rR, rC, es, stk, ops', posted')
<1>1. C \subseteq OpType /\ IsFiniteSet(C) /\ ops \subseteq OpType /\ IsFiniteSet(ops)
  BY FS_Subset DEF StrandTypes
<1>2. ops' = (ops \ C) \cup N /\ posted' = P \o Aborted(C)
  BY DEF Outstanding
<1>3. NoPush(posted')
  BY <1>1, <1>2, NoPushAborted, NoPushConcat DEF Begun
<1>4. NoneOf(ops', posted', "rtimer") => NoneOf(ops, P, "rtimer")
  BY <1>1, <1>2, SomeOutstanding DEF Cancellable
<1>5. QED
  BY <1>3, <1>4 DEF Begun, Armed

LEMMA BegunTail ==
  ASSUME NEW q \in Seq(WorkType), q # <<>>, Head(q).k # "rtimer", NEW S,
         NEW st, NEW rR, NEW rC, NEW es, NEW stk, Begun(st, rR, rC, es, stk, S, q)
  PROVE  Begun(st, rR, rC, es, stk, S, Tail(q))
<1>1. NoPush(Tail(q))
  BY NoPushTail DEF Begun
<1>2. NoneAt(Tail(q), "rtimer") => NoneAt(q, "rtimer")
  <2>1. /\ Tail(q) \in Seq(WorkType) /\ Len(Tail(q)) = Len(q) - 1 /\ Len(q) \in Nat
        /\ \A i \in 1 .. Len(Tail(q)) : Tail(q)[i] = q[i + 1]
        /\ DOMAIN q = 1 .. Len(q) /\ DOMAIN Tail(q) = 1 .. Len(Tail(q))
        /\ Head(q) = q[1]
    BY HeadTailProperties, LenProperties
  <2>2. \A i \in DOMAIN q : i = 1 \/ (i - 1 \in DOMAIN Tail(q) /\ q[i] = Tail(q)[i - 1])
    BY <2>1
  <2>3. QED
    BY <2>1, <2>2 DEF NoneAt
<1>3. QED
  BY <1>1, <1>2 DEF Begun, Armed, NoneOf

LEMMA BegunPost ==
  ASSUME NEW q \in Seq(WorkType), NEW h \in WorkType, ~PushesCall(h), NEW S,
         NEW st, NEW rR, NEW rC, NEW es, NEW stk, Begun(st, rR, rC, es, stk, S, q)
  PROVE  Begun(st, rR, rC, es, stk, S, Append(q, h))
<1>1. NoPush(Append(q, h))
  BY NoPushAppend DEF Begun
<1>2. NoneAt(Append(q, h), "rtimer") => NoneAt(q, "rtimer")
  <2>1. /\ Len(q) \in Nat /\ DOMAIN q = 1 .. Len(q)
        /\ DOMAIN Append(q, h) = 1 .. (Len(q) + 1)
        /\ \A i \in 1 .. Len(q) : Append(q, h)[i] = q[i]
    BY Appended
  <2>2. QED
    BY <2>1 DEF NoneAt
<1>3. QED
  BY <1>1, <1>2 DEF Begun, Armed, NoneOf

\* An event joins the queue; st, rC are what they were, st2, rC2 what they are.
LEMMA BegunEmplace ==
  ASSUME events \in Seq(QueueType), NEW stk \in Stacks, NEW ev \in QueueType, NEW S, NEW q,
         events = <<>> => NoFrame(stk, Guard), Emplace(ev, stk),
         NEW st, NEW st2, NEW rR, NEW rC, NEW rC2, Begun(st, rR, rC, events, stk, S, q),
         ev.k # "connect", Stops(ev) => rC2, rC => rC2,
         rC2 /\ st2 = "stopping" => Stops(ev) \/ (rC /\ st = "stopping"),
         st = "stopped" => st2 = "stopped", st2 # "stopped" /\ ~rC2 => rR,
         rC2 => st2 \in {"stopping", "stopped"}
  PROVE  Begun(st2, rR, rC2, events', stack', S, q)
<1>1. /\ Len(events) \in Nat /\ DOMAIN events = 1 .. Len(events)
      /\ events' = Append(events, ev) /\ events' # <<>>
      /\ DOMAIN events' = 1 .. (Len(events) + 1)
      /\ \A i \in 1 .. Len(events) : events'[i] = events[i]
      /\ events'[Len(events) + 1] = ev
  BY Appended DEF Emplace
<1>2. Head(events') = IF events = <<>> THEN ev ELSE Head(events)
  BY <1>1, HeadTailAppend
<1>3. /\ \A i \in DOMAIN events' : i \in DOMAIN events \/ i = Len(events) + 1
      /\ \A i \in DOMAIN events : i \in DOMAIN events'
      /\ Len(events) + 1 \in DOMAIN events'
  BY <1>1
<1>4. stk \in Seq(FrameType) /\ Body \in FrameType /\ Body.k = "event"
  BY FrameTypes DEF Stacks
<1>5. events = <<>> => /\ NoFrame(stack', {"release"})
                       /\ NoFrame(stack', {"rtimer2"}) => NoFrame(stk, {"rtimer2"})
  <2>1. SUFFICES ASSUME events = <<>> PROVE /\ NoFrame(stack', {"release"})
                                            /\ NoFrame(stack', {"rtimer2"}) => NoFrame(stk, {"rtimer2"})
    OBVIOUS
  <2>2. stack' = Append(stk, Body)
    BY <2>1 DEF Emplace
  <2>3. \A K : NoFrame(stack', K) <=> (NoFrame(stk, K) /\ Body.k \notin K)
    BY <1>4, <2>2, FramePush
  <2>4. NoFrame(stk, {"release"})
    BY <2>1 DEF NoFrame, Guard
  <2>5. QED
    BY <1>4, <2>3, <2>4
<1>6. events # <<>> => stack' = stk
  BY DEF Emplace
<1>7. Told(st2, rC2, events', stack')
  <2>1. \A i \in DOMAIN events' : Stops(events'[i]) => rC2
    BY <1>1, <1>3 DEF Begun, Told
  <2>2. rC2 /\ st2 = "stopping" => \E i \in DOMAIN events' : Stops(events'[i])
    BY <1>1, <1>3 DEF Begun, Told
  <2>3. ~NoFrame(stack', {"release"}) /\ events' # <<>> /\ Head(events').k = "stop" => st2 = "stopped"
    BY <1>2, <1>5, <1>6 DEF Begun, Told
  <2>4. QED
    BY <2>1, <2>2, <2>3 DEF Told
<1>8. Armed(stk, S, q) => Armed(stack', S, q)
  BY <1>5, <1>6 DEF Armed
<1>9. Connected(events', stack')
  <2>1. \A i \in DOMAIN events' : i # 1 => events'[i].k # "connect"
    BY <1>1, <1>3 DEF Begun, Connected
  <2>2. events' # <<>> /\ Head(events').k = "connect" => NoFrame(stack', {"event"})
    BY <1>2, <1>6 DEF Begun, Connected
  <2>3. QED
    BY <2>1, <2>2 DEF Connected
<1>10. QED
  BY <1>7, <1>8, <1>9 DEF Begun

LaterFrames == {"start2", "done2", "disc2", "recv2", "sent2", "rtimer2"}

\* Before the connect event has run nothing is under way but stops.
IsEarly(h) == h.k \in {"push", "stop", "refused"} /\ (h.k = "push" => h.ev.k = "connect")
Early(q) == \A i \in DOMAIN q : IsEarly(q[i])

Fresh(st, rR, es, stk, S, q) ==
  /\ st = "stopped" /\ ~rR /\ S = {} /\ Early(q)
  /\ NoFrame(stk, LaterFrames)
  /\ es # <<>> => /\ Tail(es) = <<>> /\ Head(es).k \in {"stop", "connect"}
                  /\ stk # <<>> /\ Last(stk).k \in Guard

FreshNow ==
  /\ Fresh(state, rRunning, events, stack, ops, posted)
  /\ \/ NoneAt(posted, "push") /\ (events # <<>> => Head(events).k = "stop")
     \/ starts # 0 /\ OneAt(posted, "push", "-") /\ (events # <<>> => Head(events).k = "stop")
     \/ /\ starts # 0 /\ NoneAt(posted, "push")
        /\ events # <<>> /\ Head(events).k = "connect" /\ Last(stack).k = "event"

OneLife == FreshNow \/ (starts # 0 /\ BegunNow)

\* Nothing of a life of the client is left.
AtRest == state = "stopped" /\ Idle /\ events = <<>> /\ posted = <<>> /\ ops = {}

\* The client is started again only when it has come to rest: on a pool of its
\* own that is after stop has returned (StopLeavesRest), on a shared one after
\* the application has waited for the strand as well.
StartsAtRest == starts' # starts => starts = 0 \/ AtRest

\* On a client at rest the next start finds what the first one found.
LEMMA RestFresh ==
  ASSUME AtRest, BegunNow
  PROVE  FreshNow
<1>1. Early(posted) /\ NoFrame(stack, LaterFrames) /\ NoneAt(posted, "push") /\ NoneOf(ops, posted, "rtimer")
      /\ NoFrame(stack, {"rtimer2"})
  BY NoFrameEmpty DEF AtRest, Idle, Early, NoneAt, NoneOf, NoneIn
<1>2. ~rRunning
  BY <1>1 DEF BegunNow, Begun, Armed
<1>3. QED
  BY <1>1, <1>2 DEF AtRest, FreshNow, Fresh

\* On the stack of a client that has not begun, events follow one another.
LEMMA FreshSteps ==
  ASSUME IInv, FreshNow
  PROVE  /\ ~Idle => Top.k \in {"user", "stop2", "event", "release"}
         /\ ~Idle => NoFrame(Below, LaterFrames)
         /\ ~Idle /\ Top.k \in Guard => events # <<>> /\ Tail(events) = <<>> /\ Head(events).k \in {"stop", "connect"}
         /\ ~Idle /\ Top.k \notin Guard => events = <<>>
         /\ Idle => events = <<>>
         /\ \A k : Runs(k) => k \in {"push", "stop", "refused"}
         /\ ops = {} /\ state = "stopped" /\ ~rRunning
<1>1. Fresh(state, rRunning, events, stack, ops, posted)
  BY DEF FreshNow
<1>2. ~Idle => /\ Below \in Seq(FrameType) /\ Top \in FrameType /\ stack = Append(Below, Top)
               /\ Top.k \in Guard => events # <<>>
  BY TopFrame DEF Stacks
<1>3. ~Idle => NoFrame(Below, LaterFrames) /\ Top.k \notin LaterFrames
  <2>1. NoFrame(stack, LaterFrames)
    BY <1>1 DEF Fresh
  <2>2. QED
    BY <1>2, <2>1, FramePush
<1>4. ~Idle => Top.k \in {"user", "stop2", "event", "release"}
  BY <1>2, <1>3 DEF LaterFrames, FrameType
<1>5. ASSUME NEW k, Runs(k) PROVE k \in {"push", "stop", "refused"}
  <2>1. posted \in Seq(WorkType) /\ posted # <<>> /\ Head(posted).k = k
    BY <1>5, IInvParts DEF Runs, StrandTypes
  <2>2. 1 \in DOMAIN posted /\ Head(posted) = posted[1]
    <3>1. DOMAIN posted = 1 .. Len(posted) /\ Len(posted) \in Nat /\ Len(posted) # 0
      BY <2>1, LenProperties, EmptySeq
    <3>2. QED
      BY <3>1
  <2>3. QED
    BY <1>1, <2>1, <2>2 DEF Fresh, Early, IsEarly
<1>6. QED
  BY <1>1, <1>2, <1>3, <1>4, <1>5 DEF Fresh, Idle, Top

LEMMA StartFrames ==
  ASSUME NEW st \in Stacks, NEW sync \in {"sync", "async"}
  PROVE  \A K : NoFrame(st \o <<Frame("release", sync), Frame("start2", sync), User>>, K)
                  <=> (NoFrame(st, K) /\ "release" \notin K /\ "start2" \notin K /\ "user" \notin K)
<1> DEFINE f == Frame("release", sync)
           g == Frame("start2", sync)
           s1 == Append(st, f)
           s2 == Append(s1, g)
<1>1. /\ f \in FrameType /\ f.k = "release" /\ g \in FrameType /\ g.k = "start2"
      /\ User \in FrameType /\ User.k = "user" /\ st \in Seq(FrameType)
  BY FrameTypes DEF Stacks
<1> HIDE DEF f, g
<1>2. s1 \in Seq(FrameType) /\ s2 \in Seq(FrameType)
  BY <1>1, AppendProperties
<1>3. \A K : NoFrame(s1, K) <=> (NoFrame(st, K) /\ "release" \notin K)
  BY <1>1, FramePush
<1> HIDE DEF s1
<1>4. \A K : NoFrame(s2, K) <=> (NoFrame(s1, K) /\ "start2" \notin K)
  BY <1>1, <1>2, FramePush
<1> HIDE DEF s2
<1>5. \A K : NoFrame(Append(s2, User), K) <=> (NoFrame(s2, K) /\ "user" \notin K)
  BY <1>1, <1>2, FramePush
<1>6. st \o <<f, g, User>> = Append(s2, User)
  BY <1>1, Chain DEF s1, s2
<1>7. QED
  BY <1>3, <1>4, <1>5, <1>6 DEF f, g

\* _start_connect forgets no wait of the reconnect timer.
LEMMA StartConnectKeeps ==
  ASSUME StrandTypes, NEW sync, NEW st, NEW N, StartConnect(sync, st, N)
  PROVE  /\ NoPush(posted) => NoPush(posted')
         /\ NoneOf(ops', posted', "rtimer") => NoneOf(ops, posted, "rtimer") /\ NoneIn(N, "rtimer")
<1> DEFINE C == SocketOps
           all == posted \o Aborted(C)
<1>1. /\ C \subseteq ops /\ C \subseteq OpType /\ IsFiniteSet(C) /\ posted \in Seq(WorkType)
      /\ ops \subseteq OpType /\ IsFiniteSet(ops)
  BY FS_Subset DEF StrandTypes, SocketOps
<1>2. Aborted(C) \in Seq(WorkType) /\ NoPush(Aborted(C))
  BY <1>1, NoPushAborted
<1>3. all \in Seq(WorkType) /\ (NoPush(posted) => NoPush(all))
  BY <1>1, <1>2, NoPushConcat, ConcatProperties
<1>4. /\ posted' = OldSeq(all) /\ ops' = {OldOp(o) : o \in ops \ C} \cup N
  BY DEF StartConnect, OldOp, OldSeq
<1> HIDE DEF all
<1>5. /\ DOMAIN posted' = DOMAIN all
      /\ \A i \in DOMAIN all : posted'[i].k = all[i].k /\ posted'[i].ev = all[i].ev
  <2>1. DOMAIN posted' = DOMAIN all
    BY <1>4 DEF OldSeq
  <2>2. ASSUME NEW i \in DOMAIN all PROVE posted'[i].k = all[i].k /\ posted'[i].ev = all[i].ev
    <3>1. posted'[i] = [all[i] EXCEPT !.op = OldOp(@)] /\ all[i] \in WorkType
      BY <1>3, <1>4, ElementOfSeq, LenProperties DEF OldSeq
    <3>2. QED
      BY <3>1 DEF WorkType, HandlerType
  <2>3. QED
    BY <2>1, <2>2
<1>6. NoPush(all) => NoPush(posted')
  BY <1>5 DEF NoPush, PushesCall
<1>7. ASSUME NoneOf(ops', posted', "rtimer")
      PROVE  NoneOf(ops, posted, "rtimer") /\ NoneIn(N, "rtimer")
  <2>1. NoneAt(all, "rtimer")
    BY <1>5, <1>7 DEF NoneOf, NoneAt
  <2>2. NoneIn(N, "rtimer") /\ NoneIn({OldOp(o) : o \in ops \ C}, "rtimer")
    BY <1>4, <1>7 DEF NoneOf, NoneIn
  <2>3. NoneIn(ops \ C, "rtimer")
    BY <1>1, <2>2, OldOpType DEF NoneIn
  <2>4. NoneOf((ops \ C) \cup {}, posted \o Aborted(C), "rtimer")
    BY <2>1, <2>3 DEF NoneOf, all
  <2>5. NoneOf(ops, posted, "rtimer")
    BY <1>1, <2>4, SomeOutstanding DEF Cancellable
  <2>6. QED
    BY <2>2, <2>5
<1>8. QED
  BY <1>3, <1>6, <1>7

LEMMA EarlyQueue ==
  ASSUME NEW q \in Seq(WorkType)
  PROVE  /\ \A h \in WorkType : Early(q) /\ IsEarly(h) => Early(Append(q, h))
         /\ q # <<>> /\ Early(q) => IsEarly(Head(q)) /\ Early(Tail(q))
<1>1. ASSUME NEW h \in WorkType, Early(q), IsEarly(h) PROVE Early(Append(q, h))
  <2>1. /\ Len(q) \in Nat /\ DOMAIN q = 1 .. Len(q)
        /\ DOMAIN Append(q, h) = 1 .. (Len(q) + 1)
        /\ \A i \in 1 .. Len(q) : Append(q, h)[i] = q[i]
        /\ Append(q, h)[Len(q) + 1] = h
    BY Appended
  <2>2. \A i \in 1 .. (Len(q) + 1) : i \in 1 .. Len(q) \/ i = Len(q) + 1
    BY <2>1
  <2>3. QED
    BY <1>1, <2>1, <2>2 DEF Early
<1>2. ASSUME q # <<>>, Early(q) PROVE IsEarly(Head(q)) /\ Early(Tail(q))
  <2>1. /\ Tail(q) \in Seq(WorkType) /\ Len(Tail(q)) = Len(q) - 1 /\ Len(q) \in Nat /\ Len(q) # 0
        /\ \A i \in 1 .. Len(Tail(q)) : Tail(q)[i] = q[i + 1]
        /\ DOMAIN q = 1 .. Len(q) /\ DOMAIN Tail(q) = 1 .. Len(Tail(q))
        /\ Head(q) = q[1]
    BY <1>2, HeadTailProperties, LenProperties, EmptySeq
  <2>2. 1 \in DOMAIN q /\ \A i \in DOMAIN Tail(q) : i + 1 \in DOMAIN q
    BY <2>1
  <2>3. QED
    BY <1>2, <2>1, <2>2 DEF Early
<1>3. QED
  BY <1>1, <1>2

LEMMA NoPushOfNone ==
  ASSUME NEW q, NoneAt(q, "push")
  PROVE  NoPush(q)
BY DEF NoneAt, NoPush, PushesCall

LEMMA FreshConnectBody ==
  ASSUME IInv, FreshNow, ConnectBody
  PROVE  OneLife'
<1>1. /\ ~Idle /\ Top.k = "event" /\ Top.k \in Guard /\ Head(events).k = "connect" /\ StrandTypes
  BY IInvParts DEF ConnectBody, RunsEvent, Guard
<1>2. /\ Below \in Stacks /\ events # <<>> /\ NoFrame(Below, Guard) /\ Head(events) \in QueueType
  BY <1>1, TopFrame
<1>3. /\ state = "stopped" /\ ~rRunning /\ Tail(events) = <<>>
  BY <1>1, FreshSteps
<1>4. starts # 0 /\ NoneAt(posted, "push")
  BY <1>1, <1>2 DEF FreshNow
<1> DEFINE sync == Head(events).p
           N == {Op("rtimer", 0, "forever")}
<1>5. sync \in {"sync", "async"}
  BY <1>1, <1>2, EventParts
<1>6. ~NoneIn(N, "rtimer")
  BY DEF NoneIn, Op
<1>7. StartConnect(sync, Below, N) /\ rRunning' = TRUE /\ rCanceled' = FALSE /\ events' = events /\ starts' = starts
  BY <1>3, <1>4 DEF ConnectBody, caller
<1> HIDE DEF N
<1>8. NoPush(posted') /\ ~NoneOf(ops', posted', "rtimer")
  BY <1>1, <1>4, <1>6, <1>7, NoPushOfNone, StartConnectKeeps
<1>9. state' = "starting" /\ NoFrame(stack', {"event"})
  <2>1. NoFrame(Below, {"event"})
    BY <1>2 DEF NoFrame, Guard
  <2>2. NoFrame(Below \o <<Frame("release", sync), Frame("start2", sync), User>>, {"event"})
    BY <1>2, <1>5, <2>1, StartFrames
  <2>3. QED
    BY <1>7, <2>2 DEF StartConnect
<1>10. /\ Len(events) = 1 /\ DOMAIN events = {1} /\ events[1] = Head(events)
  <2>1. /\ events \in Seq(QueueType) /\ Len(Tail(events)) = Len(events) - 1 /\ Len(events) \in Nat
        /\ Tail(events) \in Seq(QueueType)
    BY <1>1, <1>2, HeadTailProperties, LenProperties DEF StrandTypes
  <2>2. Len(Tail(events)) = 0
    BY <1>3, <2>1, EmptySeq
  <2>n. Len(events) = 1
    <3> DEFINE m == Len(events)
               n == Len(Tail(events))
    <3>1. n = m - 1 /\ m \in Nat /\ n = 0
      BY <2>1, <2>2
    <3> HIDE DEF m, n
    <3>2. m = 1
      BY <3>1
    <3>3. QED
      BY <3>2 DEF m
  <2>3. QED
    BY <2>1, <2>n, LenProperties
<1>11. Told(state', FALSE, events, stack') /\ Connected(events, stack')
  BY <1>1, <1>9, <1>10 DEF Told, Connected, Stops
<1>12. BegunNow'
  BY <1>7, <1>8, <1>9, <1>11 DEF BegunNow, Begun, Armed
<1>13. QED
  BY <1>4, <1>7, <1>12 DEF OneLife

LEMMA FreshStopBody ==
  ASSUME IInv, FreshNow, StopBody
  PROVE  FreshNow'
<1>1. ~Idle /\ Top.k = "event" /\ Top.k \in Guard /\ Head(events).k = "stop" /\ posted \in Seq(WorkType)
  BY IInvParts DEF StopBody, RunsEvent, Guard, StrandTypes
<1>2. ops = {} /\ state = "stopped" /\ ~rRunning /\ NoFrame(Below, LaterFrames)
  BY <1>1, FreshSteps
<1>3. Below \in Seq(FrameType)
  BY <1>1, TopFrame DEF Stacks
<1>4. ops' = {} /\ posted' = posted /\ state' = "stopped" /\ stack' = Append(Below, Release)
      /\ UNCHANGED <<rRunning, events, starts>>
  BY <1>1, <1>2, AbortedNone, ConcatEmptySeq DEF StopBody, Outstanding, ReconnectWait, ConnectWait, caller
<1>5. NoFrame(stack', LaterFrames) /\ stack' # <<>> /\ Last(stack') = Release
  <2>1. NoFrame(Append(Below, Release), LaterFrames)
    BY <1>2, <1>3, FrameTypes, FramePush DEF LaterFrames
  <2>2. QED
    BY <1>3, <1>4, <2>1, FrameTypes, Appended
<1>6. Fresh(state', rRunning', events', stack', ops', posted')
  BY <1>2, <1>4, <1>5, FrameTypes DEF FreshNow, Fresh, Guard
<1>7. QED
  BY <1>1, <1>4, <1>6 DEF FreshNow

LEMMA FreshReleaseGuard ==
  ASSUME IInv, FreshNow, ReleaseGuard
  PROVE  FreshNow'
<1>1. ~Idle /\ Top.k = "release" /\ Top.k \in Guard /\ events \in Seq(QueueType)
  BY IInvParts DEF ReleaseGuard, Guard, StrandTypes
<1>2. /\ ops = {} /\ state = "stopped" /\ ~rRunning /\ NoFrame(Below, LaterFrames)
      /\ events # <<>> /\ Tail(events) = <<>> /\ Head(events).k \in {"stop", "connect"}
  BY <1>1, FreshSteps
<1>3. Head(events).k = "stop"
  BY <1>1, <1>2 DEF FreshNow, Top
<1>4. events' = <<>> /\ stack' = Below
  <2>1. events \o <<>> = events
    BY <1>1, ConcatEmptySeq
  <2>2. QED
    BY <1>2, <1>3, <2>1 DEF ReleaseGuard
<1>5. Fresh(state', rRunning', events', stack', ops', posted')
  BY <1>2, <1>4 DEF FreshNow, Fresh, ReleaseGuard, timers
<1>6. QED
  BY <1>2, <1>3, <1>4, <1>5 DEF FreshNow, ReleaseGuard

\* The stop of a client that has not begun queues the stop event alone.
LEMMA FreshStops ==
  ASSUME IInv, FreshNow, NEW P \in Seq(WorkType), NEW st \in Stacks, StopOnStrand(P, st),
         events = <<>>, NoFrame(st, LaterFrames)
  PROVE  /\ state' = "stopped" /\ ~rRunning' /\ ops' = {} /\ posted' = P
         /\ events' = <<StopEvent>> /\ Head(events').k = "stop" /\ Tail(events') = <<>>
         /\ NoFrame(stack', LaterFrames) /\ stack' # <<>> /\ Last(stack').k \in Guard
<1>1. state = "stopped" /\ ops = {} /\ ~rRunning
  BY FreshSteps
<1>2. ops' = {} /\ posted' = P
  BY <1>1, AbortedNone, ConcatEmptySeq DEF StopOnStrand, Outstanding, ReconnectWait
<1>3. state' = state /\ Emplace(StopEvent, st) /\ rRunning' = rRunning
  BY <1>1 DEF StopOnStrand, DoDisconnect
<1>4. events' = <<StopEvent>> /\ stack' = Append(st, Body)
  BY <1>3 DEF Emplace
<1>5. NoFrame(Append(st, Body), LaterFrames) /\ Append(st, Body) # <<>> /\ Last(Append(st, Body)).k \in Guard
  <2>1. st \in Seq(FrameType) /\ Body \in FrameType /\ Body.k = "event"
    BY FrameTypes DEF Stacks
  <2>2. NoFrame(Append(st, Body), LaterFrames)
    BY <2>1, FramePush DEF LaterFrames
  <2>3. QED
    BY <2>1, <2>2, Appended DEF Guard
<1>6. Head(events').k = "stop" /\ Tail(events') = <<>>
  BY <1>4 DEF StopEvent
<1>7. QED
  BY <1>1, <1>2, <1>3, <1>4, <1>5, <1>6

LEMMA FreshRunStop ==
  ASSUME IInv, FreshNow, RunStop
  PROVE  FreshNow'
<1>1. posted \in Seq(WorkType) /\ posted # <<>> /\ Done.k = "stop" /\ Rest \in Seq(WorkType)
  BY NextHandler DEF RunStop
<1>2. events = <<>>
  BY FreshSteps DEF RunStop, Runs
<1>3. StopOnStrand(Rest, <<>>) /\ UNCHANGED starts
  BY DEF RunStop, caller
<1>4. /\ state' = "stopped" /\ ~rRunning' /\ ops' = {} /\ posted' = Rest
      /\ Head(events').k = "stop" /\ Tail(events') = <<>>
      /\ NoFrame(stack', LaterFrames) /\ stack' # <<>> /\ Last(stack').k \in Guard
  BY <1>1, <1>2, <1>3, EmptyStack, NoFrameEmpty, FreshStops
<1>5. Early(posted')
  BY <1>1, <1>4, EarlyQueue DEF FreshNow, Fresh, Rest
<1>6. Fresh(state', rRunning', events', stack', ops', posted')
  BY <1>4, <1>5 DEF Fresh
<1>7. /\ NoneAt(posted, "push") => NoneAt(posted', "push")
      /\ OneAt(posted, "push", "-") => OneAt(posted', "push", "-")
  BY <1>1, <1>4, TailAt DEF Done, Rest
<1>8. QED
  BY <1>2, <1>3, <1>4, <1>6, <1>7 DEF FreshNow

LEMMA FreshCallbackStops ==
  ASSUME IInv, FreshNow, CallbackStops
  PROVE  FreshNow'
<1> DEFINE st == Append(stack, Frame("stop2", "-"))
<1>1. posted \in Seq(WorkType) /\ stack \in Stacks /\ stack \in Seq(FrameType)
  BY IInvParts DEF StrandTypes, Stacks
<1>2. events = <<>>
  BY FreshSteps, FrameTypes DEF CallbackStops, InCallback, Guard
<1>3. Frame("stop2", "-") \in FrameType /\ Frame("stop2", "-").k = "stop2"
  BY FrameTypes
<1>4. st \in Stacks /\ NoFrame(st, LaterFrames)
  <2>1. NoFrame(stack, LaterFrames)
    BY DEF FreshNow, Fresh
  <2>2. NoFrame(st, LaterFrames)
    BY <1>1, <1>3, <2>1, FramePush DEF LaterFrames
  <2>3. st \in Stacks
    BY <1>1, <1>3, StackPush
  <2>4. QED
    BY <2>2, <2>3
<1>5. StopOnStrand(posted, st) /\ UNCHANGED starts
  BY DEF CallbackStops
<1> HIDE DEF st
<1>6. /\ state' = "stopped" /\ ~rRunning' /\ ops' = {} /\ posted' = posted
      /\ Head(events').k = "stop" /\ Tail(events') = <<>>
      /\ NoFrame(stack', LaterFrames) /\ stack' # <<>> /\ Last(stack').k \in Guard
  BY <1>1, <1>2, <1>4, <1>5, FreshStops
<1>7. Fresh(state', rRunning', events', stack', ops', posted')
  BY <1>6 DEF FreshNow, Fresh
<1>8. QED
  BY <1>2, <1>5, <1>6, <1>7 DEF FreshNow

\* The connect event joins an empty queue and its body comes next.
LEMMA FreshQueues ==
  ASSUME IInv, FreshNow, NEW st \in Stacks, NEW ev \in QueueType, ev.k = "connect", Emplace(ev, st),
         events = <<>>, NoFrame(st, LaterFrames), Early(posted'), NoneAt(posted', "push"),
         UNCHANGED <<state, rRunning, ops>>, starts' # 0
  PROVE  FreshNow'
<1>1. events' = <<ev>> /\ stack' = Append(st, Body)
  BY DEF Emplace
<1>2. st \in Seq(FrameType) /\ Body \in FrameType /\ Body.k = "event"
  BY FrameTypes DEF Stacks
<1>3. NoFrame(stack', LaterFrames)
  BY <1>1, <1>2, FramePush DEF LaterFrames
<1>4. stack' # <<>> /\ Last(stack').k = "event"
  BY <1>1, <1>2, Appended
<1>5. Tail(events') = <<>> /\ Head(events').k = "connect" /\ events' # <<>>
  BY <1>1
<1>6. Fresh(state', rRunning', events', stack', ops', posted')
  BY <1>3, <1>4, <1>5 DEF FreshNow, Fresh, Guard
<1>7. QED
  BY <1>4, <1>5, <1>6 DEF FreshNow

LEMMA FreshRunPush ==
  ASSUME IInv, FreshNow, RunPush
  PROVE  FreshNow'
<1>1. posted \in Seq(WorkType) /\ posted # <<>> /\ Done.k = "push" /\ Rest \in Seq(WorkType) /\ Done \in WorkType
  BY NextHandler DEF RunPush
<1>2. events = <<>>
  BY FreshSteps DEF RunPush, Runs
<1>3. Early(Rest) /\ IsEarly(Done)
  BY <1>1, EarlyQueue DEF FreshNow, Fresh, Rest, Done
<1>4. Done.ev.k = "connect" /\ Done.ev \in QueueType
  BY <1>1, <1>3 DEF IsEarly, WorkType, HandlerType, QueueType
<1>5. starts # 0 /\ OneAt(posted, "push", "-")
  <2>1. ~NoneAt(posted, "push")
    BY <1>1, TailAt DEF Done
  <2>2. QED
    BY <2>1 DEF FreshNow
<1>6. NoneAt(Rest, "push")
  BY <1>1, <1>5, TailAt DEF Done, Rest
<1>7. Emplace(Done.ev, <<>>) /\ posted' = Rest /\ UNCHANGED <<state, rRunning, ops, starts>>
  BY DEF RunPush, timers, caller
<1>8. QED
  BY <1>2, <1>3, <1>4, <1>5, <1>6, <1>7, EmptyStack, NoFrameEmpty, FreshQueues

LEMMA FreshCallbackStarts ==
  ASSUME IInv, FreshNow, CallbackStarts, StartsAtRest
  PROVE  FreshNow'
<1>1. stack \in Stacks /\ starts \in Nat /\ NoFrame(stack, LaterFrames) /\ Early(posted)
  BY IInvParts, BoundsAssumption DEF StrandTypes, ValueTypes, FreshNow, Fresh
<1>2. events = <<>>
  BY FreshSteps, FrameTypes DEF CallbackStarts, InCallback, Guard
<1>3. starts' = starts + 1 /\ ~Idle
  BY DEF CallbackStarts, InCallback
<1>4. NoneAt(posted, "push") /\ starts' # 0
  <2>1. starts' # starts /\ starts' # 0
    BY <1>1, <1>3
  <2>2. starts = 0
    BY <1>3, <2>1 DEF StartsAtRest, AtRest
  <2>3. QED
    BY <2>1, <2>2 DEF FreshNow
<1>5. /\ Emplace(ConnectEvent("async"), stack) /\ UNCHANGED <<state, rRunning, ops, posted>>
      /\ ConnectEvent("async") \in QueueType /\ ConnectEvent("async").k = "connect"
  BY EventTypes DEF CallbackStarts, timers, ConnectEvent
<1>6. QED
  BY <1>1, <1>2, <1>4, <1>5, FreshQueues

\* Steps that change neither the event queue nor its guard.
LEMMA FreshQuiet ==
  ASSUME IInv, FreshNow, UNCHANGED <<state, rRunning, ops, events, starts>>, Early(posted'),
         NoFrame(stack', LaterFrames), events = <<>> \/ UNCHANGED stack,
         NoneAt(posted, "push") => NoneAt(posted', "push"),
         OneAt(posted, "push", "-") => OneAt(posted', "push", "-")
  PROVE  FreshNow'
<1>1. Fresh(state', rRunning', events', stack', ops', posted')
  BY DEF FreshNow, Fresh
<1>2. QED
  BY <1>1 DEF FreshNow

LEMMA FreshHandleRefused ==
  ASSUME IInv, FreshNow, HandleRefused
  PROVE  FreshNow'
<1>1. /\ posted \in Seq(WorkType) /\ posted # <<>> /\ Done.k = "refused" /\ Rest \in Seq(WorkType)
      /\ stack = <<>>
  BY NextHandler DEF HandleRefused
<1>2. events = <<>>
  BY FreshSteps DEF HandleRefused, Runs
<1>3. Early(Rest)
  BY <1>1, EarlyQueue DEF FreshNow, Fresh, Rest
<1>4. /\ NoneAt(posted, "push") => NoneAt(Rest, "push")
      /\ OneAt(posted, "push", "-") => OneAt(Rest, "push", "-")
  BY <1>1, TailAt DEF Done, Rest
<1>5. /\ posted' = Rest /\ stack' = <<User>> /\ UNCHANGED <<state, rRunning, ops, events, starts>>
  BY DEF HandleRefused, timers, caller
<1>6. NoFrame(<<User>>, LaterFrames)
  BY FrameTypes DEF NoFrame, LaterFrames
<1>7. QED
  BY <1>2, <1>3, <1>4, <1>5, <1>6, FreshQuiet

LEMMA FreshCallbacks ==
  ASSUME IInv, FreshNow, \/ Stop2 \/ CallbackReturns \/ \E d \in Data : CallbackSends(d)
  PROVE  FreshNow'
<1>1. stack \in Stacks /\ stack \in Seq(FrameType) /\ NoFrame(stack, LaterFrames) /\ Early(posted)
  BY IInvParts DEF StrandTypes, Stacks, FreshNow, Fresh
<1>2. events = <<>> /\ ~Idle
  BY FreshSteps, FrameTypes DEF Stop2, CallbackReturns, CallbackSends, InCallback, Guard
<1>3. stack' = Below \/ stack' = Append(stack, User)
  BY <1>2, FreshSteps DEF Stop2, CallbackReturns, CallbackSends, IsStarted
<1>4. NoFrame(stack', LaterFrames)
  <2>1. NoFrame(Below, LaterFrames)
    BY <1>2, FreshSteps
  <2>2. NoFrame(Append(stack, User), LaterFrames)
    BY <1>1, FrameTypes, FramePush DEF LaterFrames
  <2>3. QED
    BY <1>3, <2>1, <2>2
<1>5. UNCHANGED <<state, rRunning, ops, posted, events, starts>>
  BY FreshSteps DEF Stop2, CallbackReturns, CallbackSends, timers, caller, IsStarted
<1>6. QED
  BY <1>1, <1>2, <1>4, <1>5, FreshQuiet

LEMMA FreshAppCalls ==
  ASSUME IInv, FreshNow, StartsAtRest, \/ \E sync \in {"sync", "async"} : AppStarts(sync)
                                       \/ \E d \in Data : AppSends(d)
                                       \/ AppStops
  PROVE  FreshNow'
<1>1. /\ posted \in Seq(WorkType) /\ NoFrame(stack, LaterFrames) /\ Early(posted) /\ starts \in Nat
      /\ state = "stopped"
  BY IInvParts, BoundsAssumption DEF StrandTypes, ValueTypes, FreshNow, Fresh
<1>2. ASSUME NEW sync \in {"sync", "async"}, AppStarts(sync) PROVE FreshNow'
  <2> DEFINE h == Handler("push", ConnectEvent(sync))
  <2>1. starts' # starts /\ starts' # 0
    BY <1>1, <1>2 DEF AppStarts
  <2>2. h \in WorkType
    BY EventTypes, HandlerTypes
  <2>3. h.k = "push" /\ h.op.x = "-" /\ h.ev.k = "connect"
    BY DEF Handler, Op, ConnectEvent
  <2>4. posted' = Append(posted, h) /\ UNCHANGED <<state, rRunning, ops, stack, events>>
    BY <1>2 DEF AppStarts, timers
  <2> HIDE DEF h
  <2>n. NoneAt(posted, "push") /\ (events # <<>> => Head(events).k = "stop")
    <3>1. starts = 0 \/ (posted = <<>> /\ events = <<>>)
      BY <2>1 DEF StartsAtRest, AtRest
    <3>2. QED
      BY <3>1 DEF FreshNow, NoneAt
  <2>5. Early(posted') /\ OneAt(posted', "push", "-")
    <3>1. NoneAt(posted, "push")
      BY <2>n
    <3>2. OneAt(posted', "push", "-")
      BY <1>1, <2>2, <2>3, <2>4, <3>1, AppendAt
    <3>3. QED
      BY <1>1, <2>2, <2>3, <2>4, <3>2, EarlyQueue DEF IsEarly
  <2>6. Fresh(state', rRunning', events', stack', ops', posted')
    BY <2>4, <2>5 DEF FreshNow, Fresh
  <2>7. QED
    BY <2>1, <2>n, <2>4, <2>5, <2>6 DEF FreshNow
<1>3. ASSUME NEW h \in WorkType, h.k \in {"stop", "refused"}, posted' = Append(posted, h),
             UNCHANGED <<state, rRunning, ops, stack, events, starts>>
      PROVE  FreshNow'
  <2>1. Early(posted')
    BY <1>1, <1>3, EarlyQueue DEF IsEarly
  <2>2. /\ NoneAt(posted, "push") => NoneAt(posted', "push")
        /\ OneAt(posted, "push", "-") => OneAt(posted', "push", "-")
    BY <1>1, <1>3, AppendAt
  <2>3. QED
    BY <1>1, <1>3, <2>1, <2>2, FreshQuiet
<1>4. ASSUME NEW d \in Data, AppSends(d) PROVE FreshNow'
  <2>1. Handler("refused", SendEvent(d)) \in WorkType /\ Handler("refused", SendEvent(d)).k = "refused"
    BY EventTypes, HandlerTypes DEF Handler
  <2>2. posted' = Append(posted, Handler("refused", SendEvent(d)))
    BY <1>1, <1>4 DEF AppSends, IsStarted
  <2>3. QED
    BY <1>3, <1>4, <2>1, <2>2 DEF AppSends, timers, caller
<1>5. ASSUME AppStops PROVE FreshNow'
  <2>1. Handler("stop", NoEvent) \in WorkType /\ Handler("stop", NoEvent).k = "stop"
    BY HandlerTypes DEF Handler
  <2>2. QED
    BY <1>3, <1>5, <2>1 DEF AppStops, timers
<1>6. QED
  BY <1>2, <1>4, <1>5

LEMMA FreshKeeps ==
  ASSUME IInv, FreshNow, [Next]_vars, StartsAtRest, ~ConnectBody
  PROVE  FreshNow'
<1>1. /\ ~Idle => Top.k \in {"user", "stop2", "event", "release"}
      /\ ~Idle /\ Top.k \in Guard => events # <<>> /\ Head(events).k \in {"stop", "connect"}
      /\ \A k : Runs(k) => k \in {"push", "stop", "refused"}
      /\ ops = {}
  BY FreshSteps
<1>2. CASE StrandWork
  <2>1. /\ ~HandleDisconnect /\ ~StartConnect2 /\ ~DoneConnect2 /\ ~HandleRecv2 /\ ~HandleSend2
        /\ ~ReconnectTimer2
    BY <1>1 DEF HandleDisconnect, StartConnect2, DoneConnect2, HandleRecv2, HandleSend2, ReconnectTimer2
  <2>2. ~ReconnectBody /\ ~DisconnectBody /\ ~WakeBody /\ ~SendBody
    BY <1>1 DEF ReconnectBody, DisconnectBody, WakeBody, SendBody, RunsEvent, Guard
  <2>3. /\ ~HandleResolve /\ ~HandleConnect /\ ~HandleRecv /\ ~HandleSend /\ ~HandleConnectTimer
        /\ ~HandleReconnectTimer
    BY <1>1 DEF HandleResolve, HandleConnect, HandleRecv, HandleSend, HandleConnectTimer, HandleReconnectTimer
  <2>4. QED
    BY <1>2, <2>1, <2>2, <2>3, FreshStopBody, FreshReleaseGuard, FreshRunStop,
       FreshRunPush, FreshHandleRefused, FreshCallbacks DEF StrandWork
<1>3. CASE Calls
  BY <1>3, FreshCallbackStops, FreshCallbackStarts, FreshCallbacks, FreshAppCalls DEF Calls
<1>4. CASE AppReturns \/ UNCHANGED vars
  <2>1. UNCHANGED <<state, rRunning, ops, posted, stack, events, starts>>
    BY <1>4 DEF AppReturns, AppStarted, AppStopsPool, AppStopped, timers, strand, vars, caller
  <2>2. Early(posted) /\ NoFrame(stack, LaterFrames)
    BY DEF FreshNow, Fresh
  <2>3. QED
    BY <2>1, <2>2, FreshQuiet
<1>5. CASE World
  BY <1>1, <1>5 DEF World, ResolveEnds, ConnectEnds, RecvEnds, WriteEnds, ConnectTimerExpires,
                    ReconnectTimerExpires, ConnectWait, ReconnectWait
<1>6. QED
  BY <1>2, <1>3, <1>4, <1>5 DEF Next, StrandStep

LEMMA FreshStep ==
  ASSUME IInv, FreshNow, [Next]_vars, StartsAtRest
  PROVE  OneLife'
BY FreshConnectBody, FreshKeeps DEF OneLife

LEMMA BegunDisconnect ==
  ASSUME StrandTypes, state \in States, NEW stk \in Stacks, events = <<>> => NoFrame(stk, Guard),
         NEW chain \in {"stop", "wake"}, DoDisconnect(chain, stk), NEW S, NEW q, NEW rR,
         NEW rC \in BOOLEAN, NEW rC2 \in BOOLEAN, rC2 <=> (rC \/ chain = "stop"),
         Begun(state, rR, rC, events, stk, S, q)
  PROVE  Begun(state', rR, rC2, events', stack', S, q)
<1>1. events \in Seq(QueueType)
  BY DEF StrandTypes
<1>2. CASE state \in {"started", "starting"}
  <2> DEFINE ev == DisconnectEvent(state, chain)
  <2>1. /\ ev \in QueueType /\ ev.k = "disconnect" /\ ev.q = chain
    BY <1>2, EventTypes DEF DisconnectEvent
  <2>2. Emplace(ev, stk) /\ state' = "stopping"
    BY <1>2 DEF DoDisconnect
  <2>3. ~rC /\ rR
    BY <1>2 DEF Begun
  <2> HIDE DEF ev
  <2>4. Stops(ev) <=> chain = "stop"
    BY <2>1 DEF Stops
  <2>5. QED
    BY <1>1, <1>2, <2>1, <2>2, <2>3, <2>4, BegunEmplace
<1>3. CASE state \notin {"started", "starting"} /\ chain = "stop"
  <2>1. Emplace(StopEvent, stk) /\ state' = state
    BY <1>3 DEF DoDisconnect
  <2>2. StopEvent \in QueueType /\ StopEvent.k # "connect" /\ Stops(StopEvent)
    BY EventTypes DEF StopEvent, Stops
  <2>3. rC2 /\ state \in {"stopping", "stopped"}
    BY <1>3 DEF States
  <2>4. QED
    BY <1>1, <2>1, <2>2, <2>3, BegunEmplace
<1>4. CASE state \notin {"started", "starting"} /\ chain # "stop"
  <2>1. stack' = stk /\ events' = events /\ state' = state
    BY <1>4 DEF DoDisconnect
  <2>2. rC2 = rC
    BY <1>4
  <2>3. QED
    BY <2>1, <2>2
<1>5. QED
  BY <1>2, <1>3, <1>4

\* tcp_client::stop: from here on the reconnect timer is cancelled.
LEMMA BegunStops ==
  ASSUME IInv, NEW stk \in Stacks, events = <<>> => NoFrame(stk, Guard), NEW P \in Seq(WorkType),
         StopOnStrand(P, stk), Begun(state, rRunning, rCanceled, events, stk, ops, P)
  PROVE  BegunNow'
<1>1. StrandTypes /\ state \in States /\ rCanceled \in BOOLEAN /\ ReconnectWait \subseteq ops
  BY IInvParts DEF ValueTypes, ReconnectWait
<1>2. /\ Outstanding(P, ReconnectWait, {}) /\ DoDisconnect("stop", stk)
      /\ rRunning' = rRunning /\ rCanceled' = TRUE
  BY DEF StopOnStrand
<1>3. Begun(state, rRunning, rCanceled, events, stk, ops', posted')
  BY <1>1, <1>2, BegunOutstanding
<1>4. Begun(state', rRunning, TRUE, events', stack', ops', posted')
  BY <1>1, <1>2, <1>3, BegunDisconnect
<1>5. QED
  BY <1>2, <1>4 DEF BegunNow

LEMMA BegunStates ==
  ASSUME NEW st, NEW rR, NEW rC, NEW es, NEW stk, NEW S, NEW q, Begun(st, rR, rC, es, stk, S, q)
  PROVE  /\ st = "starting" => Begun("started", rR, rC, es, stk, S, q)
         /\ rC => Begun("stopped", rR, rC, es, stk, S, q)
BY DEF Begun, Told

LEMMA BegunDone ==
  ASSUME IInv, NEW ec \in Codes, NEW P \in Seq(WorkType), NEW stk \in Stacks,
         DoneConnect(ec, P, stk), Begun(state, rRunning, rCanceled, events, stk, ops, P)
  PROVE  BegunNow'
<1> DEFINE ec1 == IF cFlag THEN "timed_out" ELSE ec
           ec2 == IF ec1 = "ok" /\ state # "starting" THEN "aborted" ELSE ec1
           f == Frame("done2", ec2)
<1>1. f \in FrameType /\ f.k \notin Guard \cup {"start2"}
  BY FrameTypes DEF Codes, Guard
<1>2. StrandTypes /\ ConnectWait \subseteq ops
  BY IInvParts DEF ConnectWait
<1>3. Outstanding(P, ConnectWait, {}) /\ UNCHANGED <<rRunning, rCanceled, events>>
  BY DEF DoneConnect
<1>4. Begun(state, rRunning, rCanceled, events, stk, ops', posted')
  BY <1>2, <1>3, BegunOutstanding
<1>5. state' = state \/ (state = "starting" /\ state' = "started")
  BY DEF DoneConnect
<1>6. Begun(state', rRunning, rCanceled, events, stk, ops', posted')
  BY <1>4, <1>5, BegunStates
<1>7. stack' = stk \/ stack' = stk \o <<f, User>>
  BY DEF DoneConnect
<1> HIDE DEF f
<1>8. Begun(state', rRunning, rCanceled, events, stk \o <<f, User>>, ops', posted')
  BY <1>1, <1>6, BegunPushTwo
<1>9. QED
  BY <1>3, <1>6, <1>7, <1>8 DEF BegunNow

LEMMA BegunPostConnect ==
  ASSUME IInv, Idle, NEW n \in 0 .. Endpoints, NEW P \in Seq(WorkType), PostConnect(n, P),
         Begun(state, rRunning, rCanceled, events, <<>>, ops, P)
  PROVE  BegunNow'
<1>1. StrandTypes /\ ops \subseteq OpType /\ IsFiniteSet(ops)
  BY IInvParts DEF StrandTypes
<1>2. CASE n = 0
  <2>1. DoneConnect("err", P, <<>>) /\ "err" \in Codes
    BY <1>2 DEF PostConnect, Codes
  <2>2. QED
    BY <2>1, EmptyStack, BegunDone
<1>3. CASE n # 0
  <2> DEFINE o == Op("connect", n - 1, "-")
  <2>1. o \in OpType /\ o.k = "connect"
    <3>1. n - 1 \in 0 .. Endpoints
      BY <1>3, BoundsAssumption
    <3>2. QED
      BY <3>1 DEF Op, OpType, AttemptOps
  <2>2. UNCHANGED <<state, timers, stack, events>>
    BY <1>3 DEF PostConnect
  <2>3. \/ Outstanding(P, {}, {o})
        \/ posted' = Append(P, Completion(o, "err")) /\ UNCHANGED ops
    BY <1>3 DEF PostConnect
  <2> HIDE DEF o
  <2>4. Completion(o, "err") \in WorkType /\ Completion(o, "err").k = "connect"
    BY <2>1, CompletionType, CompletionOp DEF Codes
  <2>5. Begun(state, rRunning, rCanceled, events, <<>>, ops', posted')
    <3>1. ASSUME Outstanding(P, {}, {o})
          PROVE  Begun(state, rRunning, rCanceled, events, <<>>, ops', posted')
      BY <1>1, <3>1, BegunOutstanding
    <3>2. Begun(state, rRunning, rCanceled, events, <<>>, ops, Append(P, Completion(o, "err")))
      <4>1. ~PushesCall(Completion(o, "err"))
        BY <2>4 DEF PushesCall
      <4>2. QED
        BY <2>4, <4>1, BegunPost
    <3>3. QED
      BY <2>3, <3>1, <3>2
  <2>6. QED
    BY <2>2, <2>5 DEF BegunNow, Idle, timers
<1>4. QED
  BY <1>2, <1>3

\* The queue is empty, or its guard is on the stack or with the write.
LEMMA EmptyUnguarded ==
  ASSUME IInv
  PROVE  /\ events = <<>> => NoFrame(stack, Guard)
         /\ ~Idle /\ Top.k \notin Guard /\ events = <<>> => NoFrame(Below, Guard)
<1>1. events = <<>> => NoFrame(stack, Guard)
  BY DEF IInv, GuardInv, Guarded
<1>2. ASSUME ~Idle, Top.k \notin Guard, events = <<>> PROVE NoFrame(Below, Guard)
  BY <1>2, TopFrame DEF Guarded
<1>3. QED
  BY <1>1, <1>2

LEMMA BegunReconnectBody ==
  ASSUME IInv, BegunNow, ReconnectBody
  PROVE  BegunNow'
<1>1. /\ ~Idle /\ Top.k = "event" /\ Top.k \in Guard /\ Head(events).k = "reconnect" /\ StrandTypes
      /\ Begun(state, rRunning, rCanceled, events, stack, ops, posted)
  BY IInvParts DEF ReconnectBody, RunsEvent, Guard, BegunNow
<1>2. /\ Below \in Stacks /\ NoFrame(Below, Guard) /\ Top \in FrameType /\ stack = Append(Below, Top)
      /\ Below \in Seq(FrameType)
  BY <1>1, TopFrame DEF Stacks
<1>3. CASE ~rCanceled /\ state = "stopping"
  <2>1. /\ StartConnect("async", Below, {}) /\ UNCHANGED <<events, rRunning, rCanceled>>
        /\ state' = "starting"
    BY <1>3 DEF ReconnectBody, timers, StartConnect
  <2>2. NoPush(posted') /\ (NoneOf(ops', posted', "rtimer") => NoneOf(ops, posted, "rtimer"))
    BY <1>1, <2>1, StartConnectKeeps DEF Begun
  <2>3. /\ NoFrame(stack', {"event"})
        /\ NoFrame(stack', {"rtimer2"}) => NoFrame(stack, {"rtimer2"})
    <3>1. \A K : NoFrame(stack', K)
                   <=> (NoFrame(Below, K) /\ "release" \notin K /\ "start2" \notin K /\ "user" \notin K)
      BY <1>2, <2>1, StartFrames DEF StartConnect
    <3>2. NoFrame(Below, {"event"})
      BY <1>2 DEF NoFrame, Guard
    <3>3. NoFrame(Below, {"rtimer2"}) => NoFrame(stack, {"rtimer2"})
      BY <1>1, <1>2, FramePush
    <3>4. QED
      BY <3>1, <3>2, <3>3
  <2>4. Told(state', rCanceled, events, stack')
    BY <1>1, <1>3, <2>1 DEF Begun, Told
  <2>5. Connected(events, stack')
    BY <1>1, <2>3 DEF Begun, Connected
  <2>6. rRunning => Armed(stack', ops', posted')
    BY <1>1, <2>2, <2>3 DEF Begun, Armed
  <2>7. QED
    BY <1>1, <1>3, <2>1, <2>2, <2>4, <2>5, <2>6 DEF BegunNow, Begun
<1>4. CASE ~(~rCanceled /\ state = "stopping")
  <2>1. stack' = Append(Below, Release) /\ UNCHANGED <<state, events, ops, posted, rRunning, rCanceled>>
    BY <1>4 DEF ReconnectBody, timers
  <2>2. Begun(state, rRunning, rCanceled, events, Append(Below, Release), ops, posted)
    BY <1>1, FrameTypes, BegunRelease
  <2>3. QED
    BY <2>1, <2>2 DEF BegunNow
<1>5. QED
  BY <1>3, <1>4

LEMMA BegunDisconnectBody ==
  ASSUME IInv, BegunNow, DisconnectBody
  PROVE  BegunNow'
<1> DEFINE s1 == Append(Below, Release)
           f == Frame("disc2", "-")
           s2 == Append(s1, f)
<1>1. /\ ~Idle /\ Top.k = "event" /\ Top.k \in Guard /\ Head(events).k = "disconnect"
      /\ Begun(state, rRunning, rCanceled, events, stack, ops, posted)
  BY DEF DisconnectBody, RunsEvent, Guard, BegunNow
<1>2. Below \in Stacks
  BY <1>1, TopFrame
<1>3. s1 \in Stacks
  BY <1>2, FrameTypes, StackPush
<1>4. Begun(state, rRunning, rCanceled, events, s1, ops, posted)
  BY <1>1, FrameTypes, BegunRelease
<1>5. f \in FrameType /\ f.k = "disc2"
  BY FrameTypes
<1>6. s2 \in Stacks /\ Begun(state, rRunning, rCanceled, events, s2, ops, posted)
  <2> HIDE DEF s1, f
  <2>1. QED
    BY <1>3, <1>4, <1>5, StackPush, BegunPush DEF Guard
<1>7. Begun(state, rRunning, rCanceled, events, Append(s2, User), ops, posted)
  <2> HIDE DEF s2
  <2>1. QED
    BY <1>6, FrameTypes, BegunPush DEF Guard
<1>8. stack' = s2 \/ stack' = Append(s2, User)
  <2>1. Below \o <<Release, f>> = s2 /\ s2 \in Seq(FrameType)
    BY <1>2, <1>5, <1>6, FrameTypes, Chain DEF Stacks
  <2>2. s2 \o <<User>> = Append(s2, User) /\ s2 \o <<>> = s2
    <3> HIDE DEF s2
    <3>1. QED
      BY <2>1, FrameTypes, Chain
  <2>3. stack' = s2 \o <<User>> \/ stack' = s2 \o <<>>
    BY <2>1 DEF DisconnectBody
  <2>4. QED
    BY <2>2, <2>3
<1> HIDE DEF s2
<1>9. QED
  BY <1>6, <1>7, <1>8 DEF DisconnectBody, BegunNow, timers

LEMMA BegunHandleDisconnect ==
  ASSUME IInv, BegunNow, HandleDisconnect
  PROVE  BegunNow'
<1>1. ~Idle /\ Top.k # "rtimer2" /\ StrandTypes /\ posted \in Seq(WorkType) /\ SocketOps \subseteq ops
  BY IInvParts DEF HandleDisconnect, StrandTypes, SocketOps
<1>2. Begun(state, rRunning, rCanceled, events, Below, ops, posted)
  BY <1>1, BegunPop DEF BegunNow
<1>3. Outstanding(posted, SocketOps, {})
  BY DEF HandleDisconnect
<1>4. Begun(state, rRunning, rCanceled, events, Below, ops', posted')
  BY <1>1, <1>2, <1>3, BegunOutstanding
<1>5. QED
  BY <1>4 DEF HandleDisconnect, BegunNow, timers

LEMMA BegunWakeBody ==
  ASSUME IInv, BegunNow, WakeBody
  PROVE  BegunNow'
<1>1. /\ ~Idle /\ Top.k = "event" /\ Head(events).k = "wake"
      /\ StrandTypes /\ posted \in Seq(WorkType) /\ ReconnectWait \subseteq ops
  BY IInvParts DEF WakeBody, RunsEvent, StrandTypes, ReconnectWait
<1>2. Begun(state, rRunning, rCanceled, events, Append(Below, Release), ops, posted)
  BY <1>1, FrameTypes, BegunRelease DEF BegunNow
<1>3. Outstanding(posted, ReconnectWait, {})
  BY DEF WakeBody
<1>4. Begun(state, rRunning, rCanceled, events, Append(Below, Release), ops', posted')
  BY <1>1, <1>2, <1>3, BegunOutstanding
<1>5. QED
  BY <1>4 DEF WakeBody, BegunNow, timers

LEMMA BegunStopBody ==
  ASSUME IInv, BegunNow, StopBody
  PROVE  BegunNow'
<1> DEFINE C == ReconnectWait \cup ConnectWait
<1>1. /\ ~Idle /\ Top.k = "event" /\ Head(events).k = "stop" /\ Top.k \in Guard
      /\ StrandTypes /\ posted \in Seq(WorkType) /\ C \subseteq ops /\ rCanceled \in BOOLEAN
      /\ Begun(state, rRunning, rCanceled, events, stack, ops, posted)
  BY IInvParts DEF StopBody, RunsEvent, StrandTypes, ReconnectWait, ConnectWait, Guard, ValueTypes, BegunNow
<1>2. rCanceled = TRUE
  <2>1. 1 \in DOMAIN events /\ Head(events) = events[1]
    <3>1. events # <<>> /\ events \in Seq(QueueType)
      BY <1>1, TopFrame DEF StrandTypes
    <3>2. DOMAIN events = 1 .. Len(events) /\ Len(events) \in Nat /\ Len(events) # 0
      BY <3>1, LenProperties, EmptySeq
    <3>3. QED
      BY <3>2
  <2>2. Stops(events[1])
    BY <1>1, <2>1 DEF Stops
  <2>3. QED
    BY <1>1, <2>1, <2>2 DEF Begun, Told
<1>3. state \in {"stopping", "stopped"}
  BY <1>1, <1>2 DEF Begun
<1>4. /\ state' = "stopped" /\ rCanceled' = TRUE /\ stack' = Append(Below, Release)
      /\ Outstanding(posted, C, {}) /\ UNCHANGED <<rRunning, events>>
  BY <1>3 DEF StopBody
<1> HIDE DEF C
<1>5. Begun("stopped", rRunning, TRUE, events, stack, ops, posted)
  BY <1>1, <1>2, BegunStates
<1>6. Begun("stopped", rRunning, TRUE, events, Append(Below, Release), ops, posted)
  BY <1>1, <1>5, FrameTypes, BegunRelease
<1>7. Begun("stopped", rRunning, TRUE, events, Append(Below, Release), ops', posted')
  BY <1>1, <1>4, <1>6, BegunOutstanding
<1>8. QED
  BY <1>4, <1>7 DEF BegunNow

LEMMA BegunSendBody ==
  ASSUME IInv, BegunNow, SendBody
  PROVE  BegunNow'
<1> DEFINE o == Op("write", 0, Head(events).p)
           h == Completion(o, "err")
<1>1. /\ ~Idle /\ Top.k = "event" /\ Top.k \in Guard /\ Top.k # "rtimer2" /\ Head(events).k = "send"
      /\ StrandTypes /\ posted \in Seq(WorkType)
  BY IInvParts DEF SendBody, RunsEvent, StrandTypes, Guard
<1>2. Begun(state, rRunning, rCanceled, events, Below, ops, posted)
  BY <1>1, BegunPop DEF BegunNow
<1>3. o \in OpType /\ o.k = "write"
  <2>1. Head(events).p \in Data
    BY <1>1, TopFrame, EventParts
  <2>2. o.k = "write"
    BY DEF Op
  <2>3. QED
    BY <2>1, <2>2, OpTypes
<1> HIDE DEF o
<1>4. h \in WorkType /\ ~PushesCall(h)
  BY <1>3, CompletionType, CompletionOp DEF Codes, PushesCall
<1> HIDE DEF h
<1>5. Outstanding(posted, {}, {o}) \/ (posted' = Append(posted, h) /\ UNCHANGED ops)
  BY DEF SendBody, o, h
<1>6. Begun(state, rRunning, rCanceled, events, Below, ops, Append(posted, h))
  BY <1>1, <1>2, <1>4, BegunPost
<1>7. ASSUME Outstanding(posted, {}, {o})
      PROVE  Begun(state, rRunning, rCanceled, events, Below, ops', posted')
  BY <1>1, <1>2, <1>7, BegunOutstanding
<1>8. QED
  BY <1>5, <1>6, <1>7 DEF SendBody, BegunNow, timers

\* What is left are the events but the first, then the event of the chain.
LEMMA BegunReleaseGuard ==
  ASSUME IInv, BegunNow, ReleaseGuard
  PROVE  BegunNow'
<1> DEFINE chain == IF Head(events).k # "disconnect" THEN <<>>
                    ELSE IF Head(events).q = "stop" THEN <<StopEvent>> ELSE <<WakeEvent>>
           all == events \o chain
           rest == Tail(all)
           n == Len(events)
<1>1. /\ ~Idle /\ Top.k = "release" /\ Top.k \in Guard /\ events \in Seq(QueueType)
      /\ Begun(state, rRunning, rCanceled, events, stack, ops, posted)
  BY IInvParts DEF ReleaseGuard, Guard, StrandTypes, BegunNow
<1>2. /\ Below \in Seq(FrameType) /\ Top \in FrameType /\ stack = Append(Below, Top)
      /\ events # <<>> /\ NoFrame(Below, Guard)
  BY <1>1, TopFrame DEF Stacks
<1>3. events' = rest /\ stack' = IF rest = <<>> THEN Below ELSE Append(Below, Body)
  BY DEF ReleaseGuard
<1>4. chain \in Seq(QueueType) /\ (chain = <<>> \/ chain = <<StopEvent>> \/ chain = <<WakeEvent>>)
  <2>1. <<StopEvent>> \in Seq(QueueType) /\ <<WakeEvent>> \in Seq(QueueType)
    BY EventTypes
  <2>2. QED
    BY <2>1, EmptySeq
<1>5. /\ chain = <<StopEvent>> => Stops(Head(events))
      /\ Head(events).k = "disconnect" /\ Head(events).q = "stop" => chain = <<StopEvent>>
  BY DEF Stops, StopEvent, WakeEvent
<1> HIDE DEF chain
<1>6. /\ n \in Nat /\ n # 0 /\ DOMAIN events = 1 .. n /\ Head(events) = events[1]
  <2>1. n \in Nat /\ n # 0 /\ DOMAIN events = 1 .. n
    BY <1>1, <1>2, LenProperties, EmptySeq
  <2>2. QED
    BY <2>1
<1>7. /\ \A i \in DOMAIN rest : \/ i + 1 \in DOMAIN events /\ i + 1 # 1 /\ rest[i] = events[i + 1]
                                \/ rest[i] = StopEvent /\ chain = <<StopEvent>>
                                \/ rest[i] = WakeEvent
      /\ \A i \in DOMAIN events : i # 1 => i - 1 \in DOMAIN rest /\ rest[i - 1] = events[i]
      /\ chain = <<StopEvent>> => n \in DOMAIN rest /\ rest[n] = StopEvent
      /\ rest # <<>> => 1 \in DOMAIN rest /\ Head(rest) = rest[1]
  <2> DEFINE m == Len(chain)
  <2>1. /\ m \in Nat /\ DOMAIN chain = 1 .. m
    BY <1>4, LenProperties
  <2>2. /\ all \in Seq(QueueType) /\ Len(all) = n + m
        /\ \A i \in 1 .. n + m : all[i] = IF i <= n THEN events[i] ELSE chain[i - n]
    BY <1>1, <1>4, ConcatProperties
  <2>3. all # <<>>
    BY <1>1, <1>2, <1>4, ConcatEqualIffEmpty
  <2> HIDE DEF all, n
  <2>4. /\ rest \in Seq(QueueType) /\ Len(rest) = (n + m) - 1
        /\ \A i \in 1 .. Len(rest) : rest[i] = all[i + 1]
    BY <2>2, <2>3, HeadTailProperties
  <2>5. DOMAIN rest = 1 .. ((n + m) - 1)
    BY <2>4, LenProperties
  <2>6. /\ m = 0 \/ m = 1
        /\ m = 1 => chain = <<chain[1]>>
        /\ chain = <<StopEvent>> => m = 1 /\ chain[1] = StopEvent
        /\ m = 1 => \/ chain[1] = StopEvent /\ chain = <<StopEvent>>
                    \/ chain[1] = WakeEvent
    BY <1>4
  <2> HIDE DEF m, rest
  <2>7. \A i \in DOMAIN rest : rest[i] = IF i + 1 <= n THEN events[i + 1] ELSE chain[(i + 1) - n]
    BY <1>6, <2>1, <2>2, <2>4, <2>5
  <2>8. \A i \in DOMAIN rest : i + 1 <= n \/ (i + 1) - n = 1
    BY <1>6, <2>5, <2>6
  <2>9. \A i \in DOMAIN rest : ~(i + 1 <= n) => m = 1
    BY <1>6, <2>5, <2>6
  <2>10. \A i \in DOMAIN events : i # 1 => i - 1 \in DOMAIN rest /\ rest[i - 1] = events[i]
    <3>1. \A i \in DOMAIN events : i # 1 => i - 1 \in DOMAIN rest /\ (i - 1) + 1 = i /\ i <= n
      BY <1>6, <2>1, <2>5
    <3>2. QED
      BY <2>7, <3>1
  <2>11. chain = <<StopEvent>> => n \in DOMAIN rest /\ rest[n] = StopEvent
    <3>1. chain = <<StopEvent>> => n \in DOMAIN rest /\ ~(n + 1 <= n) /\ (n + 1) - n = 1
      BY <1>6, <2>5, <2>6
    <3>2. QED
      BY <2>6, <2>7, <3>1
  <2>12. rest # <<>> => 1 \in DOMAIN rest /\ Head(rest) = rest[1]
    <3>1. rest # <<>> => Len(rest) # 0
      BY <2>4, EmptySeq
    <3>2. rest # <<>> => 1 \in DOMAIN rest
      BY <1>6, <2>1, <2>4, <2>5, <3>1
    <3>3. QED
      BY <3>2
  <2>13. \A i \in DOMAIN rest : i + 1 <= n => i + 1 \in DOMAIN events /\ i + 1 # 1
    BY <1>6, <2>5
  <2>14. QED
    BY <2>6, <2>7, <2>8, <2>9, <2>10, <2>11, <2>12, <2>13
<1> HIDE DEF rest, n
<1>8. /\ NoFrame(stack', {"release"})
      /\ NoFrame(stack', {"rtimer2"}) => NoFrame(stack, {"rtimer2"})
  <2>1. /\ \A K : NoFrame(stack, K) <=> (NoFrame(Below, K) /\ Top.k \notin K)
        /\ \A K : NoFrame(Append(Below, Body), K) <=> (NoFrame(Below, K) /\ Body.k \notin K)
    BY <1>2, FrameTypes, FramePush
  <2>2. NoFrame(Below, {"release"})
    BY <1>2 DEF NoFrame, Guard
  <2>3. QED
    BY <1>1, <1>3, <2>1, <2>2, FrameTypes
<1>9. Told(state, rCanceled, rest, stack')
  <2>1. \A i \in DOMAIN rest : Stops(rest[i]) => rCanceled
    <3>1. ~Stops(WakeEvent)
      BY DEF Stops, WakeEvent
    <3>2. \A i \in DOMAIN events : Stops(events[i]) => rCanceled
      BY <1>1 DEF Begun, Told
    <3>3. 1 \in DOMAIN events
      BY <1>6
    <3>4. QED
      BY <1>5, <1>6, <1>7, <3>1, <3>2, <3>3
  <2>2. ASSUME rCanceled, state = "stopping" PROVE \E i \in DOMAIN rest : Stops(rest[i])
    <3>1. PICK i \in DOMAIN events : Stops(events[i])
      BY <1>1, <2>2 DEF Begun, Told
    <3>2. CASE i # 1
      BY <1>7, <3>1, <3>2
    <3>3. CASE i = 1
      <4>1. Head(events).k # "stop"
        <5>1. ~NoFrame(stack, {"release"})
          BY <1>1, <1>2, FramePush
        <5>2. QED
          BY <1>1, <1>2, <2>2, <5>1 DEF Begun, Told
      <4>2. chain = <<StopEvent>>
        BY <1>5, <1>6, <3>1, <3>3, <4>1 DEF Stops
      <4>3. Stops(StopEvent)
        BY DEF Stops, StopEvent
      <4>4. QED
        BY <1>7, <4>2, <4>3
    <3>4. QED
      BY <3>2, <3>3
  <2>3. QED
    BY <1>8, <2>1, <2>2 DEF Told
<1>10. Connected(rest, stack')
  <2>1. \A i \in DOMAIN events : i # 1 => events[i].k # "connect"
    BY <1>1 DEF Begun, Connected
  <2>2. \A i \in DOMAIN rest : rest[i].k # "connect"
    BY <1>7, <2>1 DEF StopEvent, WakeEvent
  <2>3. QED
    BY <1>7, <2>2 DEF Connected
<1>11. rRunning => Armed(stack', ops, posted)
  BY <1>1, <1>8 DEF Begun, Armed
<1>12. Begun(state, rRunning, rCanceled, rest, stack', ops, posted)
  BY <1>1, <1>9, <1>10, <1>11 DEF Begun
<1>13. QED
  BY <1>3, <1>12 DEF BegunNow, ReleaseGuard, timers

LEMMA BegunStartConnect2 ==
  ASSUME IInv, BegunNow, StartConnect2
  PROVE  BegunNow'
<1>1. /\ ~Idle /\ Top.k = "start2" /\ StrandTypes /\ posted \in Seq(WorkType)
      /\ ConnectWait \subseteq ops
  BY IInvParts DEF StartConnect2, StrandTypes, ConnectWait
<1>2. /\ Below \in Stacks /\ Below # <<>> /\ Last(Below).k = "release" /\ Below \in Seq(FrameType)
  BY <1>1, TopFrame DEF Stacks
<1>3. Begun(state, rRunning, rCanceled, events, Below, ops, posted)
  BY <1>1, BegunPop DEF BegunNow
<1>4. CASE DoneConnect("err", posted, Below) /\ UNCHANGED sock
  <2>1. "err" \in Codes
    BY DEF Codes
  <2>2. QED
    BY <1>1, <1>2, <1>3, <1>4, <2>1, BegunDone
<1>5. CASE /\ cErr' = "ok" /\ cFlag' = FALSE
           /\ Outstanding(posted, ConnectWait, {Op("ctimer", 0, Top.x), Op("resolve", 0, "-")})
           /\ stack' = Append(Front(Below), Release)
           /\ UNCHANGED <<state, sock, rRunning, rCanceled, events, note>>
  <2>1. Begun(state, rRunning, rCanceled, events, Below, ops', posted')
    BY <1>1, <1>3, <1>5, BegunOutstanding
  <2>2. /\ Front(Below) \in Seq(FrameType) /\ Last(Below) \in FrameType
        /\ Below = Append(Front(Below), Last(Below))
    BY <1>2, SplitTop
  <2>3. ASSUME NEW s \in Seq(FrameType), NEW f \in FrameType, f.k = "release", NEW K
        PROVE  NoFrame(Append(s, f), K) <=> (NoFrame(s, K) /\ "release" \notin K)
    BY <2>3, FramePush
  <2>4. ASSUME NEW K PROVE NoFrame(stack', K) <=> NoFrame(Below, K)
    <3> DEFINE s1 == Front(Below)
               f == Last(Below)
    <3>1. s1 \in Seq(FrameType) /\ f \in FrameType /\ f.k = "release" /\ Below = Append(s1, f)
      BY <1>2, <2>2
    <3>2. stack' = Append(s1, Release)
      BY <1>5
    <3> HIDE DEF s1, f
    <3>3. NoFrame(Append(s1, f), K) <=> (NoFrame(s1, K) /\ "release" \notin K)
      BY <2>3, <3>1
    <3>4. NoFrame(Append(s1, Release), K) <=> (NoFrame(s1, K) /\ "release" \notin K)
      BY <2>3, <3>1, FrameTypes
    <3>5. QED
      BY <3>1, <3>2, <3>3, <3>4
  <2>5. Begun(state, rRunning, rCanceled, events, stack', ops', posted')
    BY <2>1, <2>4, BegunFrames
  <2>6. QED
    BY <1>5, <2>5 DEF BegunNow
<1>6. QED
  BY <1>4, <1>5 DEF StartConnect2

LEMMA BegunDisconnectBelow ==
  ASSUME IInv, BegunNow, ~Idle, Top.k \notin Guard \cup {"rtimer2"}, DoDisconnect("wake", Below),
         UNCHANGED <<rRunning, rCanceled, ops, posted>>
  PROVE  BegunNow'
<1>1. StrandTypes /\ state \in States /\ rCanceled \in BOOLEAN
  BY IInvParts DEF ValueTypes
<1>2. Below \in Stacks /\ (events = <<>> => NoFrame(Below, Guard))
  BY TopFrame, EmptyUnguarded
<1>3. Begun(state, rRunning, rCanceled, events, Below, ops, posted)
  BY BegunPop DEF BegunNow
<1>4. Begun(state', rRunning, rCanceled, events', stack', ops, posted)
  BY <1>1, <1>2, <1>3, BegunDisconnect
<1>5. QED
  BY <1>4 DEF BegunNow

LEMMA BegunPostRecv ==
  ASSUME IInv, BegunNow, ~Idle, Top.k # "rtimer2", PostRecv(posted), stack' = Below,
         UNCHANGED <<state, rRunning, rCanceled, events>>
  PROVE  BegunNow'
<1> DEFINE N == IF IsStarted THEN {Op("recv", 0, "-")} ELSE {}
<1>1. StrandTypes /\ posted \in Seq(WorkType)
  BY IInvParts DEF StrandTypes
<1>2. Outstanding(posted, {}, N)
  BY DEF PostRecv
<1>3. Begun(state, rRunning, rCanceled, events, Below, ops, posted)
  BY BegunPop DEF BegunNow
<1> HIDE DEF N
<1>4. Begun(state, rRunning, rCanceled, events, Below, ops', posted')
  BY <1>1, <1>2, <1>3, BegunOutstanding
<1>5. QED
  BY <1>4 DEF BegunNow

LEMMA BegunAfterCallbacks ==
  ASSUME IInv, BegunNow, \/ DoneConnect2 \/ HandleRecv2 \/ HandleSend2 \/ Stop2 \/ CallbackReturns
  PROVE  BegunNow'
<1>1. ASSUME ~Idle, Top.k # "rtimer2", stack' = Below,
             UNCHANGED <<state, rRunning, rCanceled, ops, posted, events>>
      PROVE  BegunNow'
  BY <1>1, BegunPop DEF BegunNow
<1>2. CASE DoneConnect2
  <2>1. ~Idle /\ Top.k \notin Guard \cup {"rtimer2"} /\ UNCHANGED <<rRunning, rCanceled>>
    BY <1>2 DEF DoneConnect2, Guard, timers
  <2>2. \/ PostRecv(posted) /\ stack' = Below /\ UNCHANGED <<state, events>>
        \/ DoDisconnect("wake", Below) /\ UNCHANGED <<ops, posted>>
    BY <1>2 DEF DoneConnect2
  <2>3. QED
    BY <2>1, <2>2, BegunPostRecv, BegunDisconnectBelow
<1>3. CASE HandleRecv2
  BY <1>3, BegunPostRecv DEF HandleRecv2, timers
<1>4. CASE HandleSend2
  <2>1. ~Idle /\ Top.k \notin Guard \cup {"rtimer2"} /\ UNCHANGED <<rRunning, rCanceled, ops, posted>>
    BY <1>4 DEF HandleSend2, Guard, timers
  <2>2. \/ DoDisconnect("wake", Below)
        \/ stack' = Below /\ UNCHANGED <<state, events>>
    BY <1>4 DEF HandleSend2
  <2>3. QED
    BY <1>1, <2>1, <2>2, BegunDisconnectBelow
<1>5. CASE Stop2 \/ CallbackReturns
  BY <1>1, <1>5, FrameTypes DEF Stop2, CallbackReturns, timers
<1>6. QED
  BY <1>2, <1>3, <1>4, <1>5

LEMMA BegunReconnectTimer2 ==
  ASSUME IInv, BegunNow, ReconnectTimer2
  PROVE  BegunNow'
<1> DEFINE o == Op("rtimer", 0, "forever")
<1>1. /\ ~Idle /\ Top.k = "rtimer2" /\ StrandTypes /\ posted \in Seq(WorkType) /\ ReconnectWait \subseteq ops
      /\ Begun(state, rRunning, rCanceled, events, stack, ops, posted)
  BY IInvParts DEF ReconnectTimer2, StrandTypes, ReconnectWait, BegunNow
<1>2. /\ Below \in Seq(FrameType) /\ Top \in FrameType /\ stack = Append(Below, Top)
  BY <1>1, TopFrame DEF Stacks
<1>3. o.k = "rtimer"
  BY DEF Op
<1>4. Outstanding(posted, ReconnectWait, {o}) /\ stack' = Below /\ UNCHANGED <<state, rRunning, rCanceled, events>>
  BY DEF ReconnectTimer2, timers
<1> HIDE DEF o
<1>5. Begun(state, rRunning, rCanceled, events, stack, ops', posted')
  BY <1>1, <1>4, BegunOutstanding
<1>6. ~NoneOf(ops', posted', "rtimer")
  BY <1>3, <1>4 DEF Outstanding, NoneOf, NoneIn
<1>7. \A K : NoFrame(stack, K) <=> (NoFrame(Below, K) /\ Top.k \notin K)
  BY <1>2, FramePush
<1>8. Begun(state, rRunning, rCanceled, events, Below, ops', posted')
  <2>1. /\ NoFrame(stack, {"release"}) => NoFrame(Below, {"release"})
        /\ NoFrame(stack, {"event"}) => NoFrame(Below, {"event"})
    BY <1>7
  <2>2. QED
    BY <1>5, <1>6, <2>1 DEF Begun, Told, Armed, Connected
<1>9. QED
  BY <1>4, <1>8 DEF BegunNow

\* The handler that runs next takes its place from the queue.
LEMMA BegunNext ==
  ASSUME IInv, BegunNow, NEW k, Runs(k)
  PROVE  /\ posted \in Seq(WorkType) /\ posted # <<>> /\ Rest \in Seq(WorkType) /\ Done \in WorkType
         /\ Done.k = k /\ stack = <<>> /\ ~PushesCall(Done)
         /\ k # "rtimer" => Begun(state, rRunning, rCanceled, events, <<>>, ops, Rest)
         /\ Idle /\ StrandTypes /\ ValueTypes
<1>1. /\ posted \in Seq(WorkType) /\ posted # <<>> /\ Rest \in Seq(WorkType) /\ Done \in WorkType
      /\ Done.k = k /\ stack = <<>>
  BY NextHandler
<1>2. Begun(state, rRunning, rCanceled, events, <<>>, ops, posted)
  BY <1>1 DEF BegunNow
<1>3. ~PushesCall(Done)
  BY <1>1, <1>2, NoPushTail DEF Begun, Done
<1>4. k # "rtimer" => Begun(state, rRunning, rCanceled, events, <<>>, ops, Rest)
  BY <1>1, <1>2, BegunTail DEF Done, Rest
<1>5. Idle /\ StrandTypes /\ ValueTypes
  BY IInvParts DEF Runs
<1>6. QED
  BY <1>1, <1>3, <1>4, <1>5

LEMMA BegunRunPush ==
  ASSUME IInv, BegunNow, RunPush
  PROVE  BegunNow'
<1>1. /\ Done \in WorkType /\ Done.k = "push" /\ ~PushesCall(Done) /\ events \in Seq(QueueType)
      /\ Begun(state, rRunning, rCanceled, events, <<>>, ops, Rest)
  BY BegunNext DEF RunPush, StrandTypes
<1> DEFINE ev == Done.ev
<1>2. ev \in QueueType /\ ev.k = "send"
  BY <1>1 DEF PushesCall, WorkType, HandlerType, QueueType
<1>3. Emplace(ev, <<>>) /\ posted' = Rest /\ UNCHANGED <<state, rRunning, rCanceled, ops>>
  BY DEF RunPush, timers
<1> HIDE DEF ev
<1>4. ev.k # "connect" /\ ~Stops(ev)
  BY <1>2 DEF Stops
<1>5. /\ state # "stopped" /\ ~rCanceled => rRunning
      /\ rCanceled => state \in {"stopping", "stopped"}
  BY <1>1 DEF Begun
<1>6. Begun(state, rRunning, rCanceled, events', stack', ops, Rest)
  BY <1>1, <1>2, <1>3, <1>4, <1>5, EmptyStack, NoFrameEmpty, BegunEmplace
<1>7. QED
  BY <1>3, <1>6 DEF BegunNow

LEMMA BegunRunStop ==
  ASSUME IInv, BegunNow, RunStop
  PROVE  BegunNow'
<1>1. Rest \in Seq(WorkType) /\ Begun(state, rRunning, rCanceled, events, <<>>, ops, Rest)
  BY BegunNext DEF RunStop
<1>2. StopOnStrand(Rest, <<>>)
  BY DEF RunStop
<1>3. QED
  BY <1>1, <1>2, EmptyStack, NoFrameEmpty, BegunStops

LEMMA BegunHandleResolve ==
  ASSUME IInv, BegunNow, HandleResolve
  PROVE  BegunNow'
<1>1. Idle /\ Rest \in Seq(WorkType) /\ Begun(state, rRunning, rCanceled, events, <<>>, ops, Rest)
  BY BegunNext DEF HandleResolve
<1>2. CASE \E n \in 1 .. Endpoints : PostConnect(n, Rest)
  <2>1. PICK n \in 1 .. Endpoints : PostConnect(n, Rest)
    BY <1>2
  <2>2. n \in 0 .. Endpoints
    BY BoundsAssumption
  <2>3. QED
    BY <1>1, <2>1, <2>2, BegunPostConnect
<1>3. CASE DoneConnect("err", Rest, <<>>)
  <2>1. "err" \in Codes
    BY DEF Codes
  <2>2. QED
    BY <1>1, <1>3, <2>1, EmptyStack, BegunDone
<1>4. QED
  BY <1>2, <1>3 DEF HandleResolve

LEMMA BegunHandleConnect ==
  ASSUME IInv, BegunNow, HandleConnect
  PROVE  BegunNow'
<1>1. /\ Idle /\ Rest \in Seq(WorkType) /\ Begun(state, rRunning, rCanceled, events, <<>>, ops, Rest)
      /\ Done \in WorkType
  BY BegunNext DEF HandleConnect
<1>2. Done.op.n \in 0 .. Endpoints /\ Done.ec \in Codes
  BY <1>1 DEF WorkType, HandlerType, OpType
<1>3. PostConnect(Done.op.n, Rest) \/ DoneConnect(Done.ec, Rest, <<>>)
  BY DEF HandleConnect
<1>4. QED
  BY <1>1, <1>2, <1>3, EmptyStack, BegunPostConnect, BegunDone

LEMMA BegunHandleRecv ==
  ASSUME IInv, BegunNow, HandleRecv
  PROVE  BegunNow'
<1>1. /\ StrandTypes /\ state \in States /\ rCanceled \in BOOLEAN
      /\ Begun(state, rRunning, rCanceled, events, <<>>, ops, Rest)
  BY BegunNext DEF HandleRecv, ValueTypes
<1>2. posted' = Rest /\ UNCHANGED <<rRunning, rCanceled, ops>>
  BY DEF HandleRecv, timers
<1>3. CASE stack' = <<Frame("recv2", "-"), User>> /\ UNCHANGED <<state, events>>
  <2> DEFINE f == Frame("recv2", "-")
  <2>1. f \in FrameType /\ f.k = "recv2"
    BY FrameTypes
  <2>2. stack' = Append(Append(<<>>, f), User)
    BY <1>3
  <2> HIDE DEF f
  <2>3. Append(<<>>, f) \in Stacks
    BY <2>1, EmptyStack, StackPush
  <2>4. Begun(state, rRunning, rCanceled, events, Append(<<>>, f), ops, Rest)
    BY <1>1, <2>1, EmptyStack, BegunPush DEF Guard
  <2>5. Begun(state, rRunning, rCanceled, events, Append(Append(<<>>, f), User), ops, Rest)
    BY <2>3, <2>4, FrameTypes, BegunPush DEF Guard
  <2>6. QED
    BY <1>2, <1>3, <2>2, <2>5 DEF BegunNow
<1>4. CASE DoDisconnect("wake", <<>>)
  <2>1. Begun(state', rRunning, rCanceled, events', stack', ops, Rest)
    BY <1>1, <1>4, EmptyStack, NoFrameEmpty, BegunDisconnect
  <2>2. QED
    BY <1>2, <2>1 DEF BegunNow
<1>5. QED
  BY <1>3, <1>4 DEF HandleRecv

LEMMA BegunHandleSend ==
  ASSUME IInv, BegunNow, HandleSend
  PROVE  BegunNow'
<1>1. /\ Begun(state, rRunning, rCanceled, events, <<>>, ops, Rest) /\ posted \in Seq(WorkType)
      /\ posted # <<>> /\ Done.k = "write" /\ Done \in WorkType
  BY BegunNext DEF HandleSend
<1>2. posted' = Rest /\ UNCHANGED <<state, rRunning, rCanceled, ops, events>>
  BY DEF HandleSend, timers
<1>3. Head(events).k = "send"
  <2>1. Guarded(<<>>, events, ops, posted)
    BY NextHandler DEF HandleSend
  <2>2. ~NoneOf(ops, posted, "write")
    BY <1>1, TailAt DEF NoneOf, Done
  <2>3. QED
    BY <2>1, <2>2 DEF Guarded, SendEvent
<1> DEFINE f == Frame("sent2", Done.ec)
           s1 == Append(<<>>, Release)
<1>4. f \in FrameType /\ f.k \notin Guard
  BY <1>1, FrameTypes DEF Guard, WorkType, HandlerType
<1>5. stack' = Append(Append(s1, f), User) /\ s1 \in Stacks
  <2>1. <<Release, f, User>> = Append(Append(s1, f), User)
    OBVIOUS
  <2>2. s1 \in Stacks
    BY EmptyStack, StackPush, FrameTypes
  <2>3. stack' = <<Release, f, User>>
    BY DEF HandleSend
  <2>4. QED
    BY <2>1, <2>2, <2>3
<1>6. Begun(state, rRunning, rCanceled, events, s1, ops, Rest)
  <2>1. <<>> \in Seq(FrameType)
    BY EmptyStack DEF Stacks
  <2>2. \A K : NoFrame(s1, K) <=> (NoFrame(<<>>, K) /\ Release.k \notin K)
    BY <2>1, FrameTypes, FramePush
  <2>3. NoFrame(s1, {"event"})
    BY <2>2, FrameTypes, NoFrameEmpty
  <2>4. NoFrame(<<>>, {"rtimer2"})
    BY NoFrameEmpty
  <2> HIDE DEF s1
  <2>5. QED
    BY <1>1, <1>3, <2>3, <2>4 DEF Begun, Told, Armed, Connected
<1> HIDE DEF f, s1
<1>7. Append(s1, f) \in Stacks /\ Begun(state, rRunning, rCanceled, events, Append(s1, f), ops, Rest)
  <2>1. f.k # "start2"
    BY DEF f, Frame
  <2>2. QED
    BY <1>4, <1>5, <1>6, <2>1, StackPush, BegunPush
<1>8. Begun(state, rRunning, rCanceled, events, Append(Append(s1, f), User), ops, Rest)
  BY <1>7, FrameTypes, BegunPush DEF Guard
<1>9. QED
  BY <1>2, <1>5, <1>8 DEF BegunNow

LEMMA BegunHandleRefused ==
  ASSUME IInv, BegunNow, HandleRefused
  PROVE  BegunNow'
<1>1. Begun(state, rRunning, rCanceled, events, <<>>, ops, Rest)
  BY BegunNext DEF HandleRefused
<1>2. stack' = Append(<<>>, User) /\ posted' = Rest /\ UNCHANGED <<state, rRunning, rCanceled, ops, events>>
  BY DEF HandleRefused, timers
<1>3. Begun(state, rRunning, rCanceled, events, Append(<<>>, User), ops, Rest)
  BY <1>1, EmptyStack, FrameTypes, BegunPush DEF Guard
<1>4. QED
  BY <1>2, <1>3 DEF BegunNow

LEMMA BegunHandleConnectTimer ==
  ASSUME IInv, BegunNow, HandleConnectTimer
  PROVE  BegunNow'
<1>1. /\ Begun(state, rRunning, rCanceled, events, <<>>, ops, Rest) /\ StrandTypes
      /\ Rest \in Seq(WorkType) /\ SocketOps \subseteq ops /\ stack = <<>>
  BY BegunNext DEF HandleConnectTimer, SocketOps
<1>2. /\ Outstanding(Rest, SocketOps, {}) \/ (posted' = Rest /\ UNCHANGED ops)
      /\ UNCHANGED <<state, rRunning, rCanceled, stack, events>>
  BY DEF HandleConnectTimer
<1>3. ASSUME Outstanding(Rest, SocketOps, {})
      PROVE  Begun(state, rRunning, rCanceled, events, <<>>, ops', posted')
  BY <1>1, <1>3, BegunOutstanding
<1>4. QED
  BY <1>1, <1>2, <1>3 DEF BegunNow

LEMMA BegunHandleReconnectTimer ==
  ASSUME IInv, BegunNow, HandleReconnectTimer
  PROVE  BegunNow'
<1>1. /\ posted \in Seq(WorkType) /\ posted # <<>> /\ Rest \in Seq(WorkType) /\ stack = <<>>
      /\ StrandTypes /\ state \in States /\ rCanceled \in BOOLEAN /\ ReconnectWait \subseteq ops
      /\ Begun(state, rRunning, rCanceled, events, <<>>, ops, posted)
  BY BegunNext DEF HandleReconnectTimer, ValueTypes, ReconnectWait, BegunNow
<1>2. NoPush(Rest)
  BY <1>1, NoPushTail DEF Begun, Rest
<1>3. UNCHANGED <<state, rCanceled>>
  BY DEF HandleReconnectTimer
<1>4. CASE rCanceled /\ rRunning' = FALSE /\ posted' = Rest /\ UNCHANGED <<ops, stack, events>>
  BY <1>1, <1>2, <1>3, <1>4 DEF BegunNow, Begun
<1>5. CASE /\ ~rCanceled /\ Outstanding(Rest, ReconnectWait, {Op("rtimer", 0, "delay")})
           /\ UNCHANGED <<rRunning, stack, events>>
  <2> DEFINE o == Op("rtimer", 0, "delay")
  <2>1. o.k = "rtimer"
    BY DEF Op
  <2> HIDE DEF o
  <2>2. ops' = (ops \ ReconnectWait) \cup {o} /\ posted' = Rest \o Aborted(ReconnectWait)
    BY <1>5 DEF Outstanding, o
  <2>3. ~NoneOf(ops', posted', "rtimer")
    BY <2>1, <2>2 DEF NoneOf, NoneIn
  <2>4. NoPush(posted')
    <3>1. ReconnectWait \subseteq OpType /\ IsFiniteSet(ReconnectWait)
      BY <1>1, FS_Subset DEF StrandTypes
    <3>2. NoPush(Aborted(ReconnectWait)) /\ Aborted(ReconnectWait) \in Seq(WorkType)
      BY <3>1, NoPushAborted
    <3>3. QED
      BY <1>1, <1>2, <2>2, <3>2, NoPushConcat
  <2>5. QED
    BY <1>1, <1>3, <1>5, <2>3, <2>4 DEF BegunNow, Begun, Armed
<1>6. CASE /\ ~rCanceled /\ posted' = Rest /\ Emplace(ReconnectEvent, <<Frame("rtimer2", "-")>>)
           /\ UNCHANGED <<rRunning, ops>>
  <2> DEFINE f == Frame("rtimer2", "-")
  <2>1. f \in FrameType /\ f.k = "rtimer2" /\ Append(<<>>, f) = <<f>>
    BY FrameTypes
  <2>2. Emplace(ReconnectEvent, <<f>>)
    BY <1>6
  <2> HIDE DEF f
  <2>3. <<f>> \in Stacks
    BY <2>1, EmptyStack, StackPush
  <2>4. \A K : NoFrame(<<f>>, K) <=> f.k \notin K
    BY <2>1 DEF NoFrame
  <2>5. NoFrame(<<f>>, Guard) /\ NoFrame(<<f>>, {"event"}) /\ NoFrame(<<f>>, {"release"})
        /\ ~NoFrame(<<f>>, {"rtimer2"})
    BY <2>1, <2>4 DEF Guard
  <2>6. Begun(state, rRunning, rCanceled, events, <<f>>, ops, Rest)
    BY <1>1, <1>2, <2>5 DEF Begun, Told, Armed, Connected
  <2>7. /\ ReconnectEvent \in QueueType /\ ReconnectEvent.k # "connect" /\ ~Stops(ReconnectEvent)
        /\ events \in Seq(QueueType)
    BY <1>1, EventTypes DEF ReconnectEvent, Stops, StrandTypes
  <2>8. /\ state # "stopped" /\ ~rCanceled => rRunning
        /\ rCanceled => state \in {"stopping", "stopped"}
    BY <1>1 DEF Begun
  <2>9. Begun(state, rRunning, rCanceled, events', stack', ops, Rest)
    BY <2>2, <2>3, <2>5, <2>6, <2>7, <2>8, BegunEmplace
  <2>10. QED
    BY <1>3, <1>6, <2>9 DEF BegunNow
<1>7. QED
  BY <1>4, <1>5, <1>6 DEF HandleReconnectTimer

LEMMA BegunCallbackStops ==
  ASSUME IInv, BegunNow, CallbackStops
  PROVE  BegunNow'
<1> DEFINE f == Frame("stop2", "-")
           st == Append(stack, f)
<1>1. stack \in Stacks /\ stack \in Seq(FrameType) /\ posted \in Seq(WorkType)
  BY IInvParts DEF StrandTypes, Stacks
<1>2. f \in FrameType /\ f.k = "stop2"
  BY FrameTypes
<1>3. StopOnStrand(posted, st)
  BY DEF CallbackStops
<1> HIDE DEF f
<1>4. st \in Stacks /\ Begun(state, rRunning, rCanceled, events, st, ops, posted)
  BY <1>1, <1>2, StackPush, BegunPush DEF Guard, BegunNow
<1>5. events = <<>> => NoFrame(st, Guard)
  BY <1>1, <1>2, EmptyUnguarded, FramePush DEF Guard
<1> HIDE DEF st
<1>6. QED
  BY <1>1, <1>3, <1>4, <1>5, BegunStops

LEMMA BegunCallbackSends ==
  ASSUME IInv, BegunNow, NEW d \in Data, CallbackSends(d)
  PROVE  BegunNow'
<1>1. /\ stack \in Stacks /\ events \in Seq(QueueType) /\ (events = <<>> => NoFrame(stack, Guard))
      /\ Begun(state, rRunning, rCanceled, events, stack, ops, posted)
  BY IInvParts, EmptyUnguarded DEF StrandTypes, BegunNow
<1>2. UNCHANGED <<state, rRunning, rCanceled, ops, posted>>
  BY DEF CallbackSends, timers
<1>3. CASE IsStarted
  <2> DEFINE ev == SendEvent(d)
  <2>1. ev \in QueueType /\ ev.k = "send"
    BY EventTypes DEF SendEvent
  <2>2. Emplace(ev, stack)
    BY <1>3 DEF CallbackSends
  <2> HIDE DEF ev
  <2>3. ev.k # "connect" /\ ~Stops(ev)
    BY <2>1 DEF Stops
  <2>4. /\ state # "stopped" /\ ~rCanceled => rRunning
        /\ rCanceled => state \in {"stopping", "stopped"}
    BY <1>1 DEF Begun
  <2>5. Begun(state, rRunning, rCanceled, events', stack', ops, posted)
    BY <1>1, <2>1, <2>2, <2>3, <2>4, BegunEmplace
  <2>6. QED
    BY <1>2, <2>5 DEF BegunNow
<1>4. CASE ~IsStarted
  <2>1. stack' = Append(stack, User) /\ UNCHANGED events
    BY <1>4 DEF CallbackSends
  <2>2. Begun(state, rRunning, rCanceled, events, Append(stack, User), ops, posted)
    BY <1>1, FrameTypes, BegunPush DEF Guard
  <2>3. QED
    BY <1>2, <2>1, <2>2 DEF BegunNow
<1>5. QED
  BY <1>3, <1>4

LEMMA BegunPosts ==
  ASSUME IInv, BegunNow, NEW h \in WorkType, ~PushesCall(h), posted' = Append(posted, h),
         UNCHANGED <<state, rRunning, rCanceled, events, stack, ops>>
  PROVE  BegunNow'
<1>1. posted \in Seq(WorkType)
  BY IInvParts DEF StrandTypes
<1>2. Begun(state, rRunning, rCanceled, events, stack, ops, Append(posted, h))
  BY <1>1, BegunPost DEF BegunNow
<1>3. QED
  BY <1>2 DEF BegunNow

LEMMA BegunAppCalls ==
  ASSUME IInv, BegunNow, (\E d \in Data : AppSends(d)) \/ AppStops
  PROVE  BegunNow'
<1>1. ASSUME NEW d \in Data, AppSends(d) PROVE BegunNow'
  <2> DEFINE h == Handler(IF IsStarted THEN "push" ELSE "refused", SendEvent(d))
  <2>1. h \in WorkType
    BY EventTypes, HandlerTypes
  <2>2. ~PushesCall(h)
    BY DEF Handler, PushesCall, SendEvent
  <2>3. posted' = Append(posted, h) /\ UNCHANGED <<state, rRunning, rCanceled, events, stack, ops>>
    BY <1>1 DEF AppSends, timers
  <2> HIDE DEF h
  <2>4. QED
    BY <2>1, <2>2, <2>3, BegunPosts
<1>2. ASSUME AppStops PROVE BegunNow'
  <2> DEFINE h == Handler("stop", NoEvent)
  <2>1. h \in WorkType
    BY HandlerTypes
  <2>2. ~PushesCall(h)
    BY DEF Handler, PushesCall
  <2>3. posted' = Append(posted, h) /\ UNCHANGED <<state, rRunning, rCanceled, events, stack, ops>>
    BY <1>2 DEF AppStops, timers
  <2> HIDE DEF h
  <2>4. QED
    BY <2>1, <2>2, <2>3, BegunPosts
<1>3. QED
  BY <1>1, <1>2

LEMMA BegunEnds ==
  ASSUME IInv, BegunNow, NEW o \in ops, o.k # "none", NEW ec \in Codes, Ends(o, ec)
  PROVE  BegunNow'
<1> DEFINE h == Completion(o, ec)
<1>1. posted \in Seq(WorkType) /\ ops \subseteq OpType
  BY IInvParts DEF StrandTypes
<1>2. h \in WorkType /\ h.k = o.k
  BY <1>1, CompletionType, CompletionOp
<1>3. o.k # "push"
  BY <1>1 DEF OpType, AttemptOps
<1>4. /\ ops' = ops \ {o} /\ posted' = Append(posted, h)
      /\ UNCHANGED <<state, rRunning, rCanceled, events, stack>>
  BY DEF Ends, timers
<1> HIDE DEF h
<1>5. ~PushesCall(h)
  BY <1>2, <1>3 DEF PushesCall
<1>6. Begun(state, rRunning, rCanceled, events, stack, ops, posted')
  BY <1>1, <1>2, <1>4, <1>5, BegunPost DEF BegunNow
<1>7. NoneOf(ops', posted', "rtimer") => NoneOf(ops, posted', "rtimer")
  <2>1. /\ DOMAIN posted' = 1 .. (Len(posted) + 1) /\ posted'[Len(posted) + 1] = h /\ Len(posted) \in Nat
    BY <1>1, <1>2, <1>4, Appended
  <2>2. Len(posted) + 1 \in DOMAIN posted'
    BY <2>1
  <2>3. NoneAt(posted', "rtimer") => o.k # "rtimer"
    BY <1>2, <2>1, <2>2 DEF NoneAt
  <2>4. QED
    BY <1>4, <2>3 DEF NoneOf, NoneIn
<1>8. QED
  BY <1>4, <1>6, <1>7 DEF BegunNow, Begun, Armed

LEMMA StartsCount ==
  ASSUME IInv, [Next]_vars
  PROVE  starts \in Nat /\ starts' \in Nat /\ (starts' = starts \/ starts' = starts + 1)
<1>1. starts \in Nat
  BY IInvParts, BoundsAssumption DEF ValueTypes
<1>2. ASSUME StrandWork PROVE starts' = starts
  BY <1>2 DEF StrandWork, ConnectBody, ReconnectBody, DisconnectBody, HandleDisconnect, WakeBody,
     StopBody, SendBody, ReleaseGuard, StartConnect2, DoneConnect2, HandleRecv2, HandleSend2,
     ReconnectTimer2, Stop2, RunPush, RunStop, HandleResolve, HandleConnect, HandleRecv,
     HandleSend, HandleRefused, HandleConnectTimer, HandleReconnectTimer, CallbackReturns, caller
<1>3. ASSUME Calls PROVE starts' = starts \/ starts' = starts + 1
  BY <1>3 DEF Calls, CallbackStops, CallbackStarts, CallbackSends, AppStarts, AppSends, AppStops, caller
<1>4. ASSUME AppReturns \/ World \/ UNCHANGED vars PROVE starts' = starts
  BY <1>4 DEF AppReturns, AppStarted, AppStopsPool, AppStopped, World, ResolveEnds, ConnectEnds,
     RecvEnds, WriteEnds, ConnectTimerExpires, ReconnectTimerExpires, Ends, caller, vars
<1>5. starts' = starts \/ starts' = starts + 1
  BY <1>2, <1>3, <1>4 DEF Next, StrandStep
<1>6. QED
  BY <1>1, <1>5

LEMMA NoStart ==
  ASSUME IInv, starts' = starts
  PROVE  ~CallbackStarts /\ \A sync : ~AppStarts(sync)
<1>1. starts \in Nat
  BY IInvParts, BoundsAssumption DEF ValueTypes
<1>2. starts + 1 # starts
  BY <1>1
<1>3. QED
  BY <1>2 DEF CallbackStarts, AppStarts

LEMMA BegunStep ==
  ASSUME IInv, BegunNow, [Next]_vars, starts' = starts
  PROVE  BegunNow'
<1>1. ~ConnectBody
  <2>1. SUFFICES ASSUME ConnectBody PROVE FALSE
    OBVIOUS
  <2>2. ~Idle /\ Top.k = "event" /\ Top.k \in Guard /\ Head(events).k = "connect"
    BY <2>1 DEF ConnectBody, RunsEvent, Guard
  <2>3. /\ events # <<>> /\ Below \in Seq(FrameType) /\ Top \in FrameType /\ stack = Append(Below, Top)
    BY <2>2, TopFrame DEF Stacks
  <2>4. ~NoFrame(stack, {"event"})
    BY <2>2, <2>3, FramePush
  <2>5. QED
    BY <2>2, <2>3, <2>4 DEF BegunNow, Begun, Connected
<1>2. CASE StrandWork
  BY <1>1, <1>2, BegunReconnectBody, BegunDisconnectBody, BegunHandleDisconnect,
     BegunWakeBody, BegunStopBody, BegunSendBody, BegunReleaseGuard, BegunStartConnect2,
     BegunAfterCallbacks, BegunReconnectTimer2, BegunRunPush, BegunRunStop, BegunHandleResolve,
     BegunHandleConnect, BegunHandleRecv, BegunHandleSend, BegunHandleRefused,
     BegunHandleConnectTimer, BegunHandleReconnectTimer DEF StrandWork
<1>3. CASE Calls
  <2>1. ~CallbackStarts /\ \A sync : ~AppStarts(sync)
    BY NoStart
  <2>2. QED
    BY <1>3, <2>1, BegunCallbackStops, BegunCallbackSends, BegunAppCalls DEF Calls
<1>4. CASE AppReturns \/ UNCHANGED vars
  <2>1. UNCHANGED <<state, rRunning, rCanceled, ops, posted, stack, events>>
    BY <1>4 DEF AppReturns, AppStarted, AppStopsPool, AppStopped, timers, strand, vars
  <2>2. QED
    BY <2>1 DEF BegunNow
<1>5. CASE World
  <2>1. \E o \in ops, ec \in Codes : o.k # "none" /\ Ends(o, ec)
    BY <1>5 DEF World, ResolveEnds, ConnectEnds, RecvEnds, WriteEnds, ConnectTimerExpires,
                ReconnectTimerExpires, ConnectWait, ReconnectWait, Codes
  <2>2. QED
    BY <2>1, BegunEnds
<1>6. QED
  BY <1>2, <1>3, <1>4, <1>5 DEF Next, StrandStep

LEMMA OneLifeInit == Init => OneLife
<1>1. SUFFICES ASSUME Init PROVE FreshNow
  BY DEF OneLife
<1>2. Early(<<>>) /\ NoFrame(<<>>, LaterFrames) /\ NoneAt(<<>>, "push")
  BY NoFrameEmpty DEF Early, NoneAt
<1>3. QED
  BY <1>1, <1>2 DEF Init, FreshNow, Fresh

\* A step meets a client that has not begun, or does not start it.
LEMMA OneLifeCases ==
  ASSUME IInv, OneLife, [Next]_vars, [StartsAtRest]_vars
  PROVE  /\ StartsAtRest
         /\ FreshNow \/ (BegunNow /\ starts # 0 /\ starts' = starts)
<1>1. StartsAtRest
  BY DEF StartsAtRest, vars, caller
<1>2. QED
  BY <1>1, RestFresh DEF OneLife, StartsAtRest

LEMMA OneLifeStep == IInv /\ OneLife /\ [Next]_vars /\ [StartsAtRest]_vars => OneLife'
<1>1. SUFFICES ASSUME IInv, OneLife, [Next]_vars, [StartsAtRest]_vars PROVE OneLife'
  OBVIOUS
<1>2. CASE FreshNow
  BY <1>1, <1>2, OneLifeCases, FreshStep
<1>3. CASE BegunNow /\ starts # 0 /\ starts' = starts
  <2>1. BegunNow'
    BY <1>1, <1>3, BegunStep
  <2>2. QED
    BY <1>3, <2>1 DEF OneLife
<1>4. QED
  BY <1>1, <1>2, <1>3, OneLifeCases

\* A client that is started at most once is started only at rest.
LEMMA OneStart == Spec /\ [](starts <= 1) => [][StartsAtRest]_vars
<1>1. IInv /\ [Next]_vars /\ (starts <= 1)' => [StartsAtRest]_vars
  <2>1. SUFFICES ASSUME IInv, [Next]_vars, starts' <= 1, starts' # starts PROVE starts = 0
    BY DEF StartsAtRest
  <2>2. QED
    BY <2>1, StartsCount
<1>2. QED
  BY <1>1, InductiveInvariant, PTL DEF Spec

\* A client that is started again only at rest has either not begun, and then
\* nothing but stops and one connect event are under way, or goes through one
\* life, whose connect event comes no second time.
THEOREM OneLifeInvariant == Spec /\ [][StartsAtRest]_vars => []OneLife
<1>1. Init => OneLife
  BY OneLifeInit
<1>2. IInv /\ OneLife /\ [Next]_vars /\ [StartsAtRest]_vars => OneLife'
  BY OneLifeStep
<1>3. QED
  BY <1>1, <1>2, InductiveInvariant, PTL DEF Spec

\* While a client that is started only at rest connects or is connected, its
\* reconnect timer is armed, whatever its callbacks and its application do:
\* a loss of the connection will be followed by a new attempt.
THEOREM ArmedHolds == Spec /\ [][StartsAtRest]_vars => []ReconnectArmed
<1>1. ASSUME OneLife, state \in {"starting", "started"} PROVE ReconnectArmed
  <2>1. BegunNow
    BY <1>1 DEF OneLife, FreshNow, Fresh
  <2>2. ~rCanceled /\ Armed(stack, ops, posted)
    BY <1>1, <2>1 DEF BegunNow, Begun
  <2>3. ReconnectWait # {} \/ PostedOps("rtimer") # {} \/ Frames("rtimer2") # {}
    BY <2>2 DEF Armed, NoFrame, NoneOf, NoneIn, NoneAt, ReconnectWait, PostedOps, Frames
  <2>4. QED
    BY <2>2, <2>3 DEF ReconnectArmed
<1>2. OneLife => ReconnectArmed
  BY <1>1 DEF ReconnectArmed
<1>3. QED
  BY <1>2, OneLifeInvariant, PTL

\* A strand with nothing left to do leaves its client at rest.
LEMMA DrainedAtRest ==
  ASSUME IInv, OneLife, Idle, posted = <<>>, ops = {}
  PROVE  AtRest
<1>1. stack = <<>> /\ NoneIn(ops, "rtimer") /\ NoneAt(posted, "rtimer")
  BY DEF Idle, NoneIn, NoneAt
<1>2. events = <<>>
  <2>1. NoFrame(stack, Guard) /\ NoneIn(ops, "write") /\ NoneAt(posted, "write")
    BY <1>1, NoFrameEmpty DEF NoneIn, NoneAt
  <2>2. ~OneFrame(stack, Guard) /\ \A d : ~OneOf(ops, posted, "write", d)
    BY <2>1, OneExcludesNone DEF NoneOf
  <2>3. QED
    BY <2>2 DEF IInv, GuardInv, Guarded
<1>3. state = "stopped"
  <2>1. SUFFICES ASSUME BegunNow PROVE state = "stopped"
    BY DEF OneLife, FreshNow, Fresh
  <2>2. ~Armed(stack, ops, posted)
    BY <1>1, NoFrameEmpty DEF Armed, NoneOf
  <2>3. state = "stopped" \/ (rCanceled /\ state = "stopping")
    BY <2>1, <2>2, IInvParts DEF BegunNow, Begun, ValueTypes
  <2>4. ~(\E i \in DOMAIN events : Stops(events[i]))
    BY <1>2
  <2>5. QED
    BY <2>1, <2>3, <2>4 DEF BegunNow, Begun, Told
<1>4. QED
  BY <1>2, <1>3 DEF AtRest

\* When the strand of a client that is started only at rest has nothing left
\* to do, which is when iopool::stop may return to the thread that called
\* stop, the client is stopped.
THEOREM StoppedHolds == Spec /\ [][StartsAtRest]_vars => []StoppedAfterJoin
<1>1. IInv /\ OneLife => StoppedAfterJoin
  BY DrainedAtRest DEF StoppedAfterJoin, AtRest
<1>2. QED
  BY <1>1, InductiveInvariant, OneLifeInvariant, PTL

\* stop of a client with a pool of its own (tcp_client.hpp:187, iopool.hpp)
\* returns to a thread that is not the pool's only when nothing of the
\* client's life is left: who starts it after that starts it at rest.
THEOREM StopLeavesRest == Spec /\ [][StartsAtRest]_vars => [][AppStopped => AtRest']_vars
<1>1. ASSUME IInv, OneLife, AppStopped PROVE AtRest'
  <2>1. AtRest /\ UNCHANGED <<state, strand>>
    BY <1>1, DrainedAtRest DEF AppStopped
  <2>2. QED
    BY <2>1 DEF AtRest, Idle, strand
<1>2. IInv /\ OneLife => [AppStopped => AtRest']_vars
  BY <1>1
<1>3. QED
  BY <1>2, InductiveInvariant, OneLifeInvariant, PTL
=============================================================================
