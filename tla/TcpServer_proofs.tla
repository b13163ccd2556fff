-------------------------- MODULE TcpServer_proofs --------------------------
(***************************************************************************)
(* Proofs about TcpServer, for every finite set of sessions on any         *)
(* io_contexts, every set of calls from callbacks and every bound.         *)
(***************************************************************************)
EXTENDS TcpServer, FunctionTheorems, FiniteSetTheorems, SequenceTheorems, TLAPS

-----------------------------------------------------------------------------
(* Counting in a sequence.                                                 *)

Is(t, G) == IF t \in G THEN 1 ELSE 0

Hits(q, G) == {j \in DOMAIN q : q[j] \in G}
Hit(q, G)  == Cardinality(Hits(q, G))

LEMMA HitsFinite ==
  ASSUME NEW A, NEW q \in Seq(A), NEW G
  PROVE  /\ IsFiniteSet(Hits(q, G))
         /\ Hit(q, G) \in Nat
         /\ Hit(q, G) = 0 <=> \A j \in DOMAIN q : q[j] \notin G
<1>1. DOMAIN q = 1 .. Len(q) /\ Len(q) \in Nat
  OBVIOUS
<1>2. IsFiniteSet(1 .. Len(q))
  BY <1>1, FS_Interval
<1>3. Hits(q, G) \in SUBSET (1 .. Len(q))
  BY <1>1 DEF Hits
<1>4. IsFiniteSet(Hits(q, G))
  BY <1>2, <1>3, FS_Subset
<1>5. Hit(q, G) \in Nat
  BY <1>4, FS_CardinalityType DEF Hit
<1>6. Hit(q, G) = 0 <=> Hits(q, G) = {}
  BY <1>4, FS_EmptySet DEF Hit
<1>7. QED
  BY <1>4, <1>5, <1>6 DEF Hits

LEMMA HitEmpty ==
  ASSUME NEW G
  PROVE  Hit(<<>>, G) = 0
<1>1. Hits(<<>>, G) = {}
  BY DEF Hits
<1>2. QED
  BY <1>1, FS_EmptySet DEF Hit

LEMMA HitAppend ==
  ASSUME NEW A, NEW q \in Seq(A), NEW t, NEW G
  PROVE  Hit(Append(q, t), G) = Hit(q, G) + Is(t, G)
<1>1. Len(q) \in Nat /\ DOMAIN q = 1 .. Len(q) /\ DOMAIN Append(q, t) = 1 .. Len(q) + 1
  OBVIOUS
<1>2. IsFiniteSet(Hits(q, G))
  BY HitsFinite
<1> Len(q) + 1 \notin Hits(q, G)
  BY <1>1 DEF Hits
<1>3. CASE t \in G
  <2>1. Hits(Append(q, t), G) = Hits(q, G) \cup {Len(q) + 1}
    BY <1>1, <1>3 DEF Hits
  <2>2. QED
    BY <2>1, <1>2, <1>3, FS_AddElement DEF Hit, Is
<1>4. CASE t \notin G
  <2>1. Hits(Append(q, t), G) = Hits(q, G)
    BY <1>1, <1>4 DEF Hits
  <2>2. QED
    BY <2>1, <1>4, HitsFinite DEF Hit, Is
<1>5. QED
  BY <1>3, <1>4

LEMMA HitFront ==
  ASSUME NEW A, NEW q \in Seq(A), q # <<>>, NEW G
  PROVE  Hit(Front(q), G) = Hit(q, G) - Is(Last(q), G)
<1>1. Len(q) \in Nat \ {0} /\ DOMAIN q = 1 .. Len(q) /\ DOMAIN Front(q) = 1 .. Len(q) - 1
  BY DEF Front
<1>2. \A j \in 1 .. Len(q) - 1 : Front(q)[j] = q[j]
  BY <1>1 DEF Front
<1>3. IsFiniteSet(Hits(q, G))
  BY HitsFinite
<1>4. Hits(Front(q), G) = Hits(q, G) \ {Len(q)}
  BY <1>1, <1>2 DEF Hits
<1>5. Len(q) \in Hits(q, G) <=> Last(q) \in G
  BY <1>1 DEF Hits, Last
<1>6. Cardinality(Hits(q, G) \ {Len(q)})
          = IF Len(q) \in Hits(q, G) THEN Cardinality(Hits(q, G)) - 1 ELSE Cardinality(Hits(q, G))
  BY <1>3, FS_RemoveElement
<1>7. Hit(q, G) \in Nat
  BY HitsFinite
<1>8. QED
  BY <1>4, <1>5, <1>6, <1>7 DEF Hit, Is

LEMMA HitTail ==
  ASSUME NEW A, NEW q \in Seq(A), q # <<>>, NEW G
  PROVE  Hit(Tail(q), G) = Hit(q, G) - Is(Head(q), G)
<1>1. Len(q) \in Nat \ {0} /\ DOMAIN q = 1 .. Len(q) /\ DOMAIN Tail(q) = 1 .. Len(q) - 1
  OBVIOUS
<1>2. \A j \in 1 .. Len(q) - 1 : Tail(q)[j] = q[j + 1]
  BY HeadTailProperties
<1>3. IsFiniteSet(Hits(q, G)) /\ Hit(q, G) \in Nat
  BY HitsFinite
<1>4. 1 \in Hits(q, G) <=> Head(q) \in G
  BY <1>1 DEF Hits
<1> DEFINE Rest == Hits(q, G) \ {1}
           f == [j \in Rest |-> j - 1]
<1>5. IsFiniteSet(Rest) /\ Cardinality(Rest) = Hit(q, G) - Is(Head(q), G)
  BY <1>3, <1>4, FS_RemoveElement DEF Hit, Is
<1>6. f \in Bijection(Rest, Hits(Tail(q), G))
  <2>1. \A j \in Rest : j \in Nat /\ j - 1 \in Hits(Tail(q), G)
    BY <1>1, <1>2 DEF Hits
  <2>2. \A j \in Hits(Tail(q), G) : j \in Nat /\ j + 1 \in Rest
    BY <1>1, <1>2 DEF Hits
  <2>3. f \in [Rest -> Hits(Tail(q), G)]
    BY <2>1
  <2>4. \A a, b \in Rest : f[a] = f[b] => a = b
    BY <2>1
  <2>5. \A j \in Hits(Tail(q), G) : \E a \in Rest : f[a] = j
    BY <2>2
  <2>6. QED
    BY <2>3, <2>4, <2>5, Fun_IsBij
<1>7. Cardinality(Hits(Tail(q), G)) = Cardinality(Rest)
  BY <1>5, <1>6, FS_Bijection DEF ExistsBijection
<1>8. QED
  BY <1>5, <1>7 DEF Hit

LEMMA HitsConcatNone ==
  ASSUME NEW A, NEW q \in Seq(A), NEW r \in Seq(A), NEW G, \A j \in DOMAIN r : r[j] \notin G
  PROVE  Hits(q \o r, G) = Hits(q, G)
<1> DEFINE m == Len(q)
           n == Len(r)
           c == q \o r
<1>1. m \in Nat /\ n \in Nat /\ DOMAIN q = 1 .. m /\ DOMAIN r = 1 .. n /\ DOMAIN c = 1 .. m + n
  OBVIOUS
<1>2. (\A j \in 1 .. m : c[j] = q[j]) /\ (\A j \in 1 .. n : c[m + j] = r[j])
  OBVIOUS
<1>3. \A j \in 1 .. m + n : j \notin 1 .. m => j - m \in 1 .. n /\ c[j] = r[j - m]
  <2>1. TAKE j \in 1 .. m + n
  <2>2. HAVE j \notin 1 .. m
  <2>3. j - m \in 1 .. n /\ m + (j - m) = j
    BY <1>1, <2>2
  <2>4. QED
    BY <2>3, <1>2
<1> HIDE DEF m, n, c
<1>4. \A j \in 1 .. m + n : j \notin 1 .. m => c[j] \notin G
  BY <1>1, <1>3
<1>5. Hits(c, G) \subseteq Hits(q, G)
  BY <1>1, <1>2, <1>4 DEF Hits
<1>6. Hits(q, G) \subseteq Hits(c, G)
  BY <1>1, <1>2 DEF Hits
<1>7. QED
  BY <1>5, <1>6 DEF c

\* What stands behind q, when none of it or one place of it is in G.
LEMMA HitConcat ==
  ASSUME NEW A, NEW q \in Seq(A), NEW r \in Seq(A), NEW G
  PROVE  /\ (\A j \in DOMAIN r : r[j] \notin G) => Hit(q \o r, G) = Hit(q, G)
         /\ (\E p \in DOMAIN r : r[p] \in G /\ \A j \in DOMAIN r : r[j] \in G => j = p)
              => Hit(q \o r, G) = Hit(q, G) + 1
<1> DEFINE m == Len(q)
           n == Len(r)
           c == q \o r
<1>1. m \in Nat /\ n \in Nat /\ DOMAIN q = 1 .. m /\ DOMAIN r = 1 .. n /\ DOMAIN c = 1 .. m + n
  OBVIOUS
<1>2. (\A j \in 1 .. m : c[j] = q[j]) /\ (\A j \in 1 .. n : c[m + j] = r[j])
  OBVIOUS
<1>3. \A j \in 1 .. m + n : j \notin 1 .. m => j - m \in 1 .. n /\ c[j] = r[j - m]
  <2>1. TAKE j \in 1 .. m + n
  <2>2. HAVE j \notin 1 .. m
  <2>3. j - m \in 1 .. n /\ m + (j - m) = j
    BY <1>1, <2>2
  <2>4. QED
    BY <2>3, <1>2
<1>4. IsFiniteSet(Hits(q, G))
  BY HitsFinite
<1> HIDE DEF m, n, c
<1>5. ASSUME \A j \in DOMAIN r : r[j] \notin G
      PROVE  Hit(c, G) = Hit(q, G)
  BY <1>5, HitsConcatNone DEF Hit, c
<1>6. ASSUME NEW p \in DOMAIN r, r[p] \in G, \A j \in DOMAIN r : r[j] \in G => j = p
      PROVE  Hit(c, G) = Hit(q, G) + 1
  <2>1. m + p \in 1 .. m + n /\ m + p \notin 1 .. m /\ c[m + p] \in G
    BY <1>1, <1>2, <1>6
  <2>2. Hits(c, G) \subseteq Hits(q, G) \cup {m + p}
    BY <1>1, <1>2, <1>3, <1>6 DEF Hits
  <2>3. Hits(q, G) \cup {m + p} \subseteq Hits(c, G)
    BY <1>1, <1>2, <2>1 DEF Hits
  <2>4. Hits(c, G) = Hits(q, G) \cup {m + p} /\ m + p \notin Hits(q, G)
    BY <2>1, <2>2, <2>3, <1>1 DEF Hits
  <2>5. QED
    BY <2>4, <1>4, FS_AddElement DEF Hit
<1>7. QED
  BY <1>5, <1>6 DEF c

-----------------------------------------------------------------------------
(* Counting in the strands.                                                *)

Strands == [Ios -> Seq(Tasks)]

LEMMA StrandIsSeq ==
  ASSUME NEW F \in Strands, NEW i \in Ios
  PROVE  F[i] \in Seq(Tasks)
BY DEF Strands

LEMMA IosFinite == IsFiniteSet(Ios) /\ 0 \in Ios /\ Ios \subseteq Nat /\ \A s \in Sessions : Home[s] \in Ios
<1> DEFINE H == {Home[s] : s \in Sessions}
           f == [s \in Sessions |-> Home[s]]
<1>1. IsFiniteSet(Sessions) /\ \A s \in Sessions : Home[s] \in Nat
  BY HomeAssumption
<1>2. f \in Surjection(Sessions, H)
  BY Fun_IsSurj
<1>3. IsFiniteSet(H)
  BY <1>1, <1>2, FS_Surjection
<1>4. IsFiniteSet({0})
  BY FS_Singleton
<1>5. IsFiniteSet({0} \cup H)
  BY <1>3, <1>4, FS_Union
<1>6. QED
  BY <1>1, <1>5 DEF Ios

LEMMA PlacesOf ==
  ASSUME NEW F, NEW G, NEW i, NEW j
  PROVE  <<i, j>> \in Places(F, G) <=> i \in Ios /\ j \in Hits(F[i], G)
BY DEF Places, Hits

LEMMA PlacesPairs ==
  ASSUME NEW F, NEW G, NEW p \in Places(F, G)
  PROVE  \E i \in Ios : \E j \in Hits(F[i], G) : p = <<i, j>>
BY DEF Places, Hits

LEMMA PlacesFinite ==
  ASSUME NEW F \in Strands, NEW G
  PROVE  IsFiniteSet(Places(F, G)) /\ HowMany(F, G) \in Nat
<1> DEFINE Row(i) == {i} \X Hits(F[i], G)
           g == [i \in Ios |-> Row(i)]
           Rows == {Row(i) : i \in Ios}
<1>1. \A i \in Ios : IsFiniteSet(Row(i))
  <2>1. TAKE i \in Ios
  <2>2. IsFiniteSet(Hits(F[i], G)) /\ IsFiniteSet({i})
    BY StrandIsSeq, HitsFinite, FS_Singleton
  <2>3. QED
    BY <2>2, FS_Product
<1>2. g \in Surjection(Ios, Rows)
  BY Fun_IsSurj
<1>3. IsFiniteSet(Rows)
  BY <1>2, IosFinite, FS_Surjection
<1>4. IsFiniteSet(UNION Rows)
  BY <1>1, <1>3, FS_UNION
<1>5. Places(F, G) = UNION Rows
  BY DEF Places, Hits
<1>6. IsFiniteSet(Places(F, G))
  BY <1>4, <1>5
<1>7. QED
  BY <1>6, FS_CardinalityType DEF HowMany

\* What is in one strand, and what is in the others.
LEMMA SplitPlaces ==
  ASSUME NEW F \in Strands, NEW G, NEW i \in Ios,
         NEW R, R = {p \in Places(F, G) : p[1] # i}
  PROVE  IsFiniteSet(R) /\ HowMany(F, G) = Cardinality(R) + Hit(F[i], G) /\ Cardinality(R) \in Nat
<1> DEFINE H == Hits(F[i], G)
           f == [j \in H |-> <<i, j>>]
           Row == {i} \X H
<1>1. IsFiniteSet(Places(F, G))
  BY PlacesFinite
<1>2. IsFiniteSet(R)
  BY <1>1, FS_Subset
<1>3. IsFiniteSet(H)
  BY StrandIsSeq, HitsFinite
<1>4. f \in Bijection(H, Row)
  <2>1. f \in [H -> Row]
    OBVIOUS
  <2>2. \A a, b \in H : f[a] = f[b] => a = b
    OBVIOUS
  <2>3. \A t \in Row : \E a \in H : f[a] = t
    OBVIOUS
  <2>4. QED
    BY <2>1, <2>2, <2>3, Fun_IsBij
<1>5. IsFiniteSet(Row) /\ Cardinality(Row) = Cardinality(H)
  BY <1>3, <1>4, FS_Bijection DEF ExistsBijection
<1>6. Places(F, G) = R \cup Row
  <2>1. ASSUME NEW p \in Places(F, G)
        PROVE  p \in R \cup Row
    <3>0. PICK k \in Ios : \E j \in Hits(F[k], G) : p = <<k, j>>
      BY PlacesPairs
    <3>1. PICK j \in Hits(F[k], G) : p = <<k, j>>
      BY <3>0
    <3>2. QED
      BY <3>1
  <2>2. ASSUME NEW p \in Row
        PROVE  p \in Places(F, G)
    <3>1. PICK j \in H : p = <<i, j>>
      OBVIOUS
    <3>2. QED
      BY <3>1, PlacesOf
  <2>3. QED
    BY <2>1, <2>2
<1>7. R \cap Row = {}
  OBVIOUS
<1>8. Cardinality(R) \in Nat /\ Cardinality(Row) \in Nat
  BY <1>2, <1>5, FS_CardinalityType
<1>9. Cardinality(R \cap Row) = 0
  BY <1>7, FS_EmptySet
<1>10. Cardinality(R \cup Row) = Cardinality(R) + Cardinality(Row) - Cardinality(R \cap Row)
  BY <1>2, <1>5, FS_Union
<1>11. HowMany(F, G) = Cardinality(R \cup Row) /\ Cardinality(H) = Hit(F[i], G)
  BY <1>6 DEF HowMany, Hit
<1> HIDE DEF H, Row, f
<1>12. QED
  BY <1>2, <1>5, <1>8, <1>9, <1>10, <1>11

LEMMA HowManyExcept ==
  ASSUME NEW F \in Strands, NEW G, NEW i \in Ios, NEW q \in Seq(Tasks)
  PROVE  HowMany([F EXCEPT ![i] = q], G) = HowMany(F, G) - Hit(F[i], G) + Hit(q, G)
<1> DEFINE E == [F EXCEPT ![i] = q]
           R == {p \in Places(F, G) : p[1] # i}
           Q == {p \in Places(E, G) : p[1] # i}
<1>1. E \in Strands /\ E[i] = q /\ \A k \in Ios \ {i} : E[k] = F[k]
  BY DEF Strands
<1> HIDE DEF E
<1>2. Q = R
  <2>1. ASSUME NEW p \in R
        PROVE  p \in Q
    <3>0. PICK k \in Ios : \E j \in Hits(F[k], G) : p = <<k, j>>
      BY PlacesPairs
    <3>1. PICK j \in Hits(F[k], G) : p = <<k, j>>
      BY <3>0
    <3>2. k # i /\ j \in Hits(E[k], G)
      BY <3>1, <1>1
    <3>3. QED
      BY <3>1, <3>2, PlacesOf
  <2>2. ASSUME NEW p \in Q
        PROVE  p \in R
    <3>0. PICK k \in Ios : \E j \in Hits(E[k], G) : p = <<k, j>>
      BY PlacesPairs
    <3>1. PICK j \in Hits(E[k], G) : p = <<k, j>>
      BY <3>0
    <3>2. k # i /\ j \in Hits(F[k], G)
      BY <3>1, <1>1
    <3>3. QED
      BY <3>1, <3>2, PlacesOf
  <2>3. QED
    BY <2>1, <2>2
<1> HIDE DEF Q, R
<1>3. HowMany(F, G) = Cardinality(R) + Hit(F[i], G) /\ Cardinality(R) \in Nat
  BY SplitPlaces DEF R
<1>4. HowMany(E, G) = Cardinality(Q) + Hit(E[i], G)
  BY <1>1, SplitPlaces DEF Q
<1>5. Hit(F[i], G) \in Nat /\ Hit(q, G) \in Nat
  BY StrandIsSeq, HitsFinite
<1>6. HowMany(E, G) = HowMany(F, G) - Hit(F[i], G) + Hit(q, G)
  BY <1>1, <1>2, <1>3, <1>4, <1>5
<1>7. QED
  BY <1>6 DEF E

LEMMA HowManyPost ==
  ASSUME NEW F \in Strands, NEW G, NEW i \in Ios, NEW t \in Tasks
  PROVE  /\ HowMany(Post(F, i, t), G) = HowMany(F, G) + Is(t, G)
         /\ HowMany(Call(F, i, t), G) = HowMany(F, G) + Is(t, G)
<1>1. Append(F[i], t) \in Seq(Tasks) /\ Hit(Append(F[i], t), G) = Hit(F[i], G) + Is(t, G)
  BY StrandIsSeq, HitAppend
<1>2. Hit(F[i], G) \in Nat /\ HowMany(F, G) \in Nat /\ Is(t, G) \in Nat
  BY StrandIsSeq, HitsFinite, PlacesFinite DEF Is
<1> DEFINE q == Append(F[i], t)
<1> HIDE DEF q
<1>3. HowMany([F EXCEPT ![i] = q], G) = HowMany(F, G) - Hit(F[i], G) + Hit(q, G)
  <2>1. q \in Seq(Tasks)
    BY <1>1 DEF q
  <2>2. QED
    BY <2>1, HowManyExcept
<1>4. HowMany([F EXCEPT ![i] = q], G) = HowMany(F, G) + Is(t, G)
  BY <1>1, <1>2, <1>3 DEF q
<1>5. QED
  BY <1>4 DEF Post, Call, q

LEMMA HowManyBelow ==
  ASSUME stack \in Strands, NEW G, NEW i \in Ios, ~Idle(i)
  PROVE  HowMany(Below(i), G) = HowMany(stack, G) - Is(Top(i), G)
<1>1. stack[i] \in Seq(Tasks) /\ stack[i] # <<>>
  BY StrandIsSeq DEF Idle
<1>2. Front(stack[i]) \in Seq(Tasks)
  BY <1>1 DEF Front
<1>3. Hit(Front(stack[i]), G) = Hit(stack[i], G) - Is(Last(stack[i]), G)
  BY <1>1, HitFront
<1>4. Hit(stack[i], G) \in Nat /\ HowMany(stack, G) \in Nat /\ Is(Last(stack[i]), G) \in Nat
  BY StrandIsSeq, HitsFinite, PlacesFinite DEF Is
<1> DEFINE q == Front(stack[i])
<1> HIDE DEF q
<1>5. HowMany([stack EXCEPT ![i] = q], G) = HowMany(stack, G) - Hit(stack[i], G) + Hit(q, G)
  <2>1. q \in Seq(Tasks)
    BY <1>2 DEF q
  <2>2. QED
    BY <2>1, HowManyExcept
<1>6. HowMany([stack EXCEPT ![i] = q], G) = HowMany(stack, G) - Is(Last(stack[i]), G)
  BY <1>3, <1>4, <1>5 DEF q
<1>7. QED
  BY <1>6 DEF Below, Top, q

LEMMA HowManyTail ==
  ASSUME NEW F \in Strands, NEW G, NEW i \in Ios, F[i] # <<>>
  PROVE  HowMany([F EXCEPT ![i] = Tail(F[i])], G) = HowMany(F, G) - Is(Head(F[i]), G)
<1>1. Tail(F[i]) \in Seq(Tasks)
  BY StrandIsSeq, HeadTailProperties
<1>2. Hit(Tail(F[i]), G) = Hit(F[i], G) - Is(Head(F[i]), G)
  BY StrandIsSeq, HitTail
<1>3. Hit(F[i], G) \in Nat /\ HowMany(F, G) \in Nat /\ Is(Head(F[i]), G) \in Nat
  BY StrandIsSeq, HitsFinite, PlacesFinite DEF Is
<1> DEFINE q == Tail(F[i])
<1> HIDE DEF q
<1>4. HowMany([F EXCEPT ![i] = q], G) = HowMany(F, G) - Hit(F[i], G) + Hit(q, G)
  <2>1. q \in Seq(Tasks)
    BY <1>1 DEF q
  <2>2. QED
    BY <2>1, HowManyExcept
<1>5. HowMany([F EXCEPT ![i] = q], G) = HowMany(F, G) - Is(Head(F[i]), G)
  BY <1>2, <1>3, <1>4 DEF q
<1>6. QED
  BY <1>5 DEF q

\* There is none exactly if none stands anywhere.
LEMMA HowManyNone ==
  ASSUME NEW F \in Strands, NEW G
  PROVE  HowMany(F, G) = 0 <=> \A i \in Ios : \A j \in DOMAIN F[i] : F[i][j] \notin G
<1>1. HowMany(F, G) = 0 <=> Places(F, G) = {}
  BY PlacesFinite, FS_EmptySet DEF HowMany
<1>2. Places(F, G) = {} <=> \A i \in Ios : Hits(F[i], G) = {}
  <2>1. ASSUME Places(F, G) = {}, NEW i \in Ios, NEW j \in Hits(F[i], G)
        PROVE  FALSE
    BY <2>1, PlacesOf
  <2>2. ASSUME NEW p \in Places(F, G), \A i \in Ios : Hits(F[i], G) = {}
        PROVE  FALSE
    BY <2>2, PlacesPairs
  <2>3. QED
    BY <2>1, <2>2
<1>3. QED
  BY <1>1, <1>2 DEF Hits

-----------------------------------------------------------------------------
(* Tasks added in some order.                                              *)

LEMMA SetToSeqIs ==
  ASSUME NEW D, IsFiniteSet(D)
  PROVE  /\ Cardinality(D) \in Nat
         /\ SetToSeq(D) \in [1 .. Cardinality(D) -> D]
         /\ \A a, b \in 1 .. Cardinality(D) : SetToSeq(D)[a] = SetToSeq(D)[b] => a = b
         /\ \A d \in D : \E a \in 1 .. Cardinality(D) : SetToSeq(D)[a] = d
<1> DEFINE n == Cardinality(D)
           o == SetToSeq(D)
<1>1. n \in Nat /\ ExistsBijection(1 .. n, D)
  BY FS_CardinalityType
<1>2. \E f \in [1 .. n -> D] : IsInjective(f)
  <2>1. PICK f : f \in Bijection(1 .. n, D)
    BY <1>1 DEF ExistsBijection
  <2>2. f \in [1 .. n -> D] /\ \A a, b \in 1 .. n : f[a] = f[b] => a = b
    BY <2>1 DEF Bijection, Injection, IsInjective
  <2>3. IsInjective(f)
    BY <2>2 DEF IsInjective
  <2>4. QED
    BY <2>2, <2>3
<1>3. o \in [1 .. n -> D] /\ IsInjective(o)
  BY <1>2 DEF SetToSeq
<1> HIDE DEF o
<1>4. \A a, b \in 1 .. n : o[a] = o[b] => a = b
  BY <1>3 DEF IsInjective
<1>5. o \in Injection(1 .. n, D)
  BY <1>3, <1>4, Fun_IsInj
<1>6. IsFiniteSet(1 .. n) /\ Cardinality(1 .. n) = n
  BY <1>1, FS_Interval
<1>7. o \in Surjection(1 .. n, D)
  BY <1>5, <1>6, FS_Injection
<1>8. \A d \in D : \E a \in 1 .. n : o[a] = d
  BY <1>7 DEF Surjection
<1>9. QED
  BY <1>1, <1>3, <1>4, <1>8 DEF o

LEMMA InOrderIs ==
  ASSUME NEW D, IsFiniteSet(D), NEW A, NEW T \in [D -> A]
  PROVE  /\ InOrder(T) \in Seq(A)
         /\ \A j \in DOMAIN InOrder(T) : \E e \in D : InOrder(T)[j] = T[e]
         /\ \A d \in D : \E p \in DOMAIN InOrder(T) :
              /\ InOrder(T)[p] = T[d]
              /\ \A j \in DOMAIN InOrder(T) : j # p => \E e \in D \ {d} : InOrder(T)[j] = T[e]
<1> DEFINE o == SetToSeq(D)
           n == Cardinality(D)
           q == [j \in 1 .. n |-> T[o[j]]]
<1>1. /\ n \in Nat /\ o \in [1 .. n -> D]
      /\ \A a, b \in 1 .. n : o[a] = o[b] => a = b
      /\ \A d \in D : \E a \in 1 .. n : o[a] = d
  BY SetToSeqIs
<1> HIDE DEF o, n
<1>2. InOrder(T) = q
  BY <1>1 DEF InOrder, o
<1>3. q \in Seq(A) /\ DOMAIN q = 1 .. n
  BY <1>1
<1>4. \A j \in 1 .. n : q[j] = T[o[j]]
  OBVIOUS
<1> HIDE DEF q
<1>5. \A j \in 1 .. n : \E e \in D : q[j] = T[e]
  BY <1>1, <1>4
<1>6. ASSUME NEW d \in D
      PROVE  \E p \in 1 .. n : /\ q[p] = T[d]
                               /\ \A j \in 1 .. n : j # p => \E e \in D \ {d} : q[j] = T[e]
  <2>1. PICK p \in 1 .. n : o[p] = d
    BY <1>1
  <2>2. q[p] = T[d]
    BY <2>1, <1>4
  <2>3. ASSUME NEW j \in 1 .. n, j # p
        PROVE  \E e \in D \ {d} : q[j] = T[e]
    <3>1. o[j] \in D \ {d}
      BY <1>1, <2>1, <2>3
    <3>2. QED
      BY <3>1, <1>4
  <2>4. QED
    BY <2>2, <2>3
<1>7. \A d \in D : \E p \in DOMAIN q :
        /\ q[p] = T[d]
        /\ \A j \in DOMAIN q : j # p => \E e \in D \ {d} : q[j] = T[e]
  <2>1. TAKE d \in D
  <2>2. PICK p \in 1 .. n : /\ q[p] = T[d]
                            /\ \A j \in 1 .. n : j # p => \E e \in D \ {d} : q[j] = T[e]
    BY <1>6
  <2>3. p \in DOMAIN q /\ \A j \in DOMAIN q : j # p => \E e \in D \ {d} : q[j] = T[e]
    BY <2>2, <1>3
  <2>4. QED
    BY <2>2, <2>3
<1>8. \A j \in DOMAIN q : \E e \in D : q[j] = T[e]
  BY <1>3, <1>5
<1>9. QED
  BY <1>2, <1>3, <1>7, <1>8

\* What AddAll puts behind q in strand i: the tasks T of the sessions of D that
\* live there, in some order.
AddedAt(c, q, T, D, i, A) ==
  \E r \in Seq(A) :
    /\ c = q \o r
    /\ \A j \in DOMAIN r : \E e \in D : Home[e] = i /\ r[j] = T[e]
    /\ \A d \in D : Home[d] = i =>
         \E p \in DOMAIN r : /\ r[p] = T[d]
                             /\ \A j \in DOMAIN r : j # p => \E e \in D \ {d} : r[j] = T[e]

LEMMA AddAllAt ==
  ASSUME NEW D \in SUBSET Sessions, NEW A, NEW T \in [D -> A], NEW F, NEW i \in Ios
  PROVE  AddedAt(AddAll(F, T)[i], F[i], T, D, i, A)
<1> DEFINE E == {s \in DOMAIN T : Home[s] = i}
           U == Restrict(T, E)
<1>1. E \subseteq D /\ \A e \in D : e \in E <=> Home[e] = i
  OBVIOUS
<1>2. IsFiniteSet(E)
  BY <1>1, HomeAssumption, FS_Subset
<1>3. U \in [E -> A] /\ \A e \in E : U[e] = T[e]
  BY <1>1 DEF Restrict
<1>4. AddAll(F, T)[i] = F[i] \o InOrder(U)
  BY DEF AddAll
<1> HIDE DEF E, U
<1>5. /\ InOrder(U) \in Seq(A)
      /\ \A j \in DOMAIN InOrder(U) : \E e \in E : InOrder(U)[j] = U[e]
      /\ \A d \in E : \E p \in DOMAIN InOrder(U) :
           /\ InOrder(U)[p] = U[d]
           /\ \A j \in DOMAIN InOrder(U) : j # p => \E e \in E \ {d} : InOrder(U)[j] = U[e]
  BY <1>2, <1>3, InOrderIs
<1> DEFINE r == InOrder(U)
<1> HIDE DEF r
<1>6. \A j \in DOMAIN r : \E e \in D : Home[e] = i /\ r[j] = T[e]
  BY <1>1, <1>3, <1>5 DEF r
<1>7. ASSUME NEW d \in D, Home[d] = i
      PROVE  \E p \in DOMAIN r : /\ r[p] = T[d]
                                 /\ \A j \in DOMAIN r : j # p => \E e \in D \ {d} : r[j] = T[e]
  <2>1. d \in E /\ U[d] = T[d]
    BY <1>1, <1>3, <1>7
  <2>2. PICK p \in DOMAIN r : /\ r[p] = U[d]
                              /\ \A j \in DOMAIN r : j # p => \E e \in E \ {d} : r[j] = U[e]
    BY <2>1, <1>5 DEF r
  <2>3. QED
    BY <2>1, <2>2, <1>1, <1>3
<1>8. r \in Seq(A) /\ AddAll(F, T)[i] = F[i] \o r
  BY <1>4, <1>5 DEF r
<1>9. QED
  BY <1>6, <1>7, <1>8 DEF AddedAt

LEMMA AddAllType ==
  ASSUME NEW D \in SUBSET Sessions, NEW A, NEW T \in [D -> A], NEW F, NEW i \in Ios, F[i] \in Seq(A)
  PROVE  AddAll(F, T)[i] \in Seq(A)
<1>1. AddedAt(AddAll(F, T)[i], F[i], T, D, i, A)
  BY AddAllAt
<1>2. PICK r \in Seq(A) : AddAll(F, T)[i] = F[i] \o r
  BY <1>1 DEF AddedAt
<1>3. QED
  BY <1>2, ConcatProperties

LEMMA AddAllStrands ==
  ASSUME NEW D \in SUBSET Sessions, NEW T \in [D -> Tasks], NEW F \in Strands
  PROVE  AddAll(F, T) \in Strands
<1>1. \A i \in Ios : AddAll(F, T)[i] \in Seq(Tasks)
  BY AddAllType, StrandIsSeq
<1>2. AddAll(F, T) = [i \in Ios |-> AddAll(F, T)[i]]
  BY DEF AddAll
<1>3. QED
  BY <1>1, <1>2 DEF Strands

LEMMA HowManyAddNone ==
  ASSUME NEW D \in SUBSET Sessions, NEW T \in [D -> Tasks], NEW F \in Strands, NEW G,
         \A d \in D : T[d] \notin G
  PROVE  HowMany(AddAll(F, T), G) = HowMany(F, G)
<1> DEFINE E == AddAll(F, T)
<1>1. ASSUME NEW i \in Ios
      PROVE  Hits(E[i], G) = Hits(F[i], G)
  <2>0. AddedAt(AddAll(F, T)[i], F[i], T, D, i, Tasks)
    BY AddAllAt
  <2>1. PICK r \in Seq(Tasks) : /\ AddAll(F, T)[i] = F[i] \o r
                                /\ \A j \in DOMAIN r : \E e \in D : Home[e] = i /\ r[j] = T[e]
    BY <2>0 DEF AddedAt
  <2>2. \A j \in DOMAIN r : r[j] \notin G
    BY <2>1
  <2>3. F[i] \in Seq(Tasks)
    BY StrandIsSeq
  <2>4. QED
    BY <2>1, <2>2, <2>3, HitsConcatNone
<1> HIDE DEF E
<1>2. ASSUME NEW p \in Places(E, G)
      PROVE  p \in Places(F, G)
  <2>1. PICK i \in Ios : \E j \in Hits(E[i], G) : p = <<i, j>>
    BY PlacesPairs
  <2>2. QED
    BY <2>1, <1>1, PlacesOf
<1>3. ASSUME NEW p \in Places(F, G)
      PROVE  p \in Places(E, G)
  <2>1. PICK i \in Ios : \E j \in Hits(F[i], G) : p = <<i, j>>
    BY PlacesPairs
  <2>2. QED
    BY <2>1, <1>1, PlacesOf
<1>4. Places(E, G) = Places(F, G)
  BY <1>2, <1>3
<1>5. QED
  BY <1>4 DEF HowMany, E

LEMMA HowManyAddOne ==
  ASSUME NEW D \in SUBSET Sessions, NEW T \in [D -> Tasks], NEW F \in Strands, NEW G,
         NEW d \in D, T[d] \in G, \A e \in D \ {d} : T[e] \notin G
  PROVE  HowMany(AddAll(F, T), G) = HowMany(F, G) + 1
<1> DEFINE E == AddAll(F, T)
           h == Home[d]
<1>0. h \in Ios /\ E \in Strands
  BY IosFinite, AddAllStrands
<1>1. ASSUME NEW i \in Ios, i # h
      PROVE  Hits(E[i], G) = Hits(F[i], G)
  <2>0. AddedAt(AddAll(F, T)[i], F[i], T, D, i, Tasks)
    BY AddAllAt
  <2>1. PICK r \in Seq(Tasks) : /\ AddAll(F, T)[i] = F[i] \o r
                                /\ \A j \in DOMAIN r : \E e \in D : Home[e] = i /\ r[j] = T[e]
    BY <2>0 DEF AddedAt
  <2>2. \A j \in DOMAIN r : r[j] \notin G
    BY <2>1, <1>1
  <2>3. F[i] \in Seq(Tasks)
    BY StrandIsSeq
  <2>4. QED
    BY <2>1, <2>2, <2>3, HitsConcatNone
<1>2. Hit(E[h], G) = Hit(F[h], G) + 1
  <2>0. AddedAt(AddAll(F, T)[h], F[h], T, D, h, Tasks)
    BY <1>0, AddAllAt
  <2>1. PICK r \in Seq(Tasks) :
          /\ AddAll(F, T)[h] = F[h] \o r
          /\ \E p \in DOMAIN r : /\ r[p] = T[d]
                                 /\ \A j \in DOMAIN r : j # p => \E e \in D \ {d} : r[j] = T[e]
    BY <2>0 DEF AddedAt
  <2>2. PICK p \in DOMAIN r : /\ r[p] = T[d]
                              /\ \A j \in DOMAIN r : j # p => \E e \in D \ {d} : r[j] = T[e]
    BY <2>1
  <2>3. r[p] \in G /\ \A j \in DOMAIN r : r[j] \in G => j = p
    BY <2>2
  <2>4. F[h] \in Seq(Tasks)
    BY <1>0, StrandIsSeq
  <2>5. Hit(F[h] \o r, G) = Hit(F[h], G) + 1
    BY <2>3, <2>4, HitConcat
  <2>6. QED
    BY <2>1, <2>5
<1> HIDE DEF E, h
<1> DEFINE R == {p \in Places(F, G) : p[1] # h}
           Q == {p \in Places(E, G) : p[1] # h}
<1>3. Q = R
  <2>1. ASSUME NEW p \in R
        PROVE  p \in Q
    <3>0. PICK k \in Ios : \E j \in Hits(F[k], G) : p = <<k, j>>
      BY PlacesPairs
    <3>1. PICK j \in Hits(F[k], G) : p = <<k, j>>
      BY <3>0
    <3>2. k # h /\ j \in Hits(E[k], G)
      BY <3>1, <1>1
    <3>3. QED
      BY <3>1, <3>2, PlacesOf
  <2>2. ASSUME NEW p \in Q
        PROVE  p \in R
    <3>0. PICK k \in Ios : \E j \in Hits(E[k], G) : p = <<k, j>>
      BY PlacesPairs
    <3>1. PICK j \in Hits(E[k], G) : p = <<k, j>>
      BY <3>0
    <3>2. k # h /\ j \in Hits(F[k], G)
      BY <3>1, <1>1
    <3>3. QED
      BY <3>1, <3>2, PlacesOf
  <2>3. QED
    BY <2>1, <2>2
<1> HIDE DEF Q, R
<1>4. HowMany(F, G) = Cardinality(R) + Hit(F[h], G) /\ Cardinality(R) \in Nat
  BY <1>0, SplitPlaces DEF R
<1>5. HowMany(E, G) = Cardinality(Q) + Hit(E[h], G)
  BY <1>0, SplitPlaces DEF Q
<1>6. Hit(F[h], G) \in Nat
  BY <1>0, StrandIsSeq, HitsFinite
<1>7. HowMany(E, G) = HowMany(F, G) + 1
  BY <1>2, <1>3, <1>4, <1>5, <1>6
<1>8. QED
  BY <1>7 DEF E

-----------------------------------------------------------------------------
(* The tasks that may stand on each strand.                                *)

Args      == Events \cup {"-", "ok", "err", "aborted"}
OwnKinds  == {"start", "start2", "start3", "stop", "exec", "exec2"}
MapKinds  == {"session2", "session3", "join", "erase", "erase2"}
HomeKinds == {"body", "disc", "close", "recv1", "recv", "recv2", "write", "silence", "push", "user"}
LiveKinds == HomeKinds \cup MapKinds

AllTasks == {t \in Tasks :
  /\ t.k \in OwnKinds => t.s = NoSession
  /\ t.k \notin OwnKinds \cup {"user"} => t.s \in Sessions
  /\ t.k = "push" => t.x \in Events}

HomeTasks == {t \in AllTasks : t.s \in Sessions /\ t.k \in HomeKinds}

Allowed(i) == IF i = 0 THEN AllTasks ELSE HomeTasks

Sorted(F) == F \in Strands /\ \A i \in Ios : F[i] \in Seq(Allowed(i))

LEMMA TaskParts ==
  ASSUME NEW k, NEW s, NEW x
  PROVE  Task(k, s, x).k = k /\ Task(k, s, x).s = s /\ Task(k, s, x).x = x
BY DEF Task

LEMMA TaskTypes ==
  ASSUME NEW i
  PROVE  /\ Allowed(i) \subseteq Tasks
         /\ \A t \in Tasks : t = Task(t.k, t.s, t.x)
         /\ \A s \in Sessions, x \in Args, k \in HomeKinds \ {"push"} :
              Task(k, s, x) \in HomeTasks /\ Task(k, s, x) \in Allowed(i)
         /\ \A s \in Sessions, x \in Events :
              PushTask(s, x) \in HomeTasks /\ PushTask(s, x) \in Allowed(i)
         /\ \A s \in Sessions : User(s) \in HomeTasks /\ User(s) \in Allowed(i)
         /\ \A s \in Sessions, x \in Args, k \in MapKinds \cup {"accept", "again"} :
              Task(k, s, x) \in Allowed(0)
         /\ \A x \in Args, k \in OwnKinds : Task(k, NoSession, x) \in Allowed(0)
         /\ User(NoSession) \in Allowed(0)
<1>1. AllTasks \subseteq Tasks /\ HomeTasks \subseteq AllTasks /\ NoSession \notin Sessions
  BY NamesAssumption DEF AllTasks, HomeTasks
<1>2. \A t \in Tasks : t = Task(t.k, t.s, t.x)
  BY DEF Tasks, Task
<1>3. \A s \in Sessions \cup {NoSession}, x \in Args, k \in LiveKinds \cup OwnKinds \cup {"accept", "again"} :
        Task(k, s, x) \in Tasks
  BY DEF Tasks, Task, Args, LiveKinds, HomeKinds, MapKinds, OwnKinds, SessionTasks
<1>4. \A s \in Sessions, x \in Args, k \in HomeKinds \ {"push"} : Task(k, s, x) \in HomeTasks
  BY <1>3, TaskParts DEF AllTasks, HomeTasks, LiveKinds, HomeKinds, OwnKinds
<1>5. \A s \in Sessions, x \in Events : PushTask(s, x) \in HomeTasks
  BY <1>3, TaskParts DEF AllTasks, HomeTasks, LiveKinds, HomeKinds, OwnKinds, PushTask, Args
<1>6. \A s \in Sessions : User(s) \in HomeTasks
  BY <1>4 DEF User, HomeKinds, Args
<1>7. \A s \in Sessions, x \in Args, k \in MapKinds \cup {"accept", "again"} : Task(k, s, x) \in AllTasks
  BY <1>3, TaskParts DEF AllTasks, LiveKinds, MapKinds, OwnKinds
<1>8. \A x \in Args, k \in OwnKinds : Task(k, NoSession, x) \in AllTasks
  BY <1>3, TaskParts DEF AllTasks, LiveKinds, OwnKinds
<1>9. User(NoSession) \in AllTasks
  <2>1. Task("user", NoSession, "-") \in Tasks
    BY <1>3 DEF LiveKinds, HomeKinds, Args
  <2>2. Task("user", NoSession, "-") \in AllTasks
    BY <2>1, TaskParts DEF AllTasks, OwnKinds
  <2>3. QED
    BY <2>2 DEF User
<1>10. QED
  BY <1>1, <1>2, <1>4, <1>5, <1>6, <1>7, <1>8, <1>9 DEF Allowed

LEMMA SortedAt ==
  ASSUME NEW F, Sorted(F), NEW i \in Ios
  PROVE  F \in Strands /\ F[i] \in Seq(Allowed(i)) /\ DOMAIN F = Ios
BY DEF Sorted, Strands

LEMMA SortedExcept ==
  ASSUME NEW F, Sorted(F), NEW i \in Ios, NEW q, q \in Seq(Allowed(i))
  PROVE  Sorted([F EXCEPT ![i] = q])
<1>1. Allowed(i) \subseteq Tasks
  BY TaskTypes
<1>2. q \in Seq(Tasks)
  BY <1>1
<1>3. [F EXCEPT ![i] = q] \in Strands
  BY <1>2 DEF Sorted, Strands
<1>4. \A k \in Ios : [F EXCEPT ![i] = q][k] = IF k = i THEN q ELSE F[k]
  BY DEF Sorted, Strands
<1>5. QED
  BY <1>3, <1>4 DEF Sorted

LEMMA SortedPost ==
  ASSUME NEW F, Sorted(F), NEW i \in Ios, NEW t, t \in Allowed(i)
  PROVE  Sorted(Post(F, i, t)) /\ Sorted(Call(F, i, t))
<1> DEFINE q == Append(F[i], t)
<1>1. q \in Seq(Allowed(i))
  BY SortedAt
<1>2. Post(F, i, t) = [F EXCEPT ![i] = q] /\ Call(F, i, t) = [F EXCEPT ![i] = q]
  BY DEF Post, Call
<1> HIDE DEF q
<1>3. Sorted([F EXCEPT ![i] = q])
  BY <1>1, SortedExcept
<1>4. QED
  BY <1>2, <1>3

LEMMA SortedBelow ==
  ASSUME Sorted(stack), NEW i \in Ios, ~Idle(i)
  PROVE  Sorted(Below(i)) /\ Top(i) \in Allowed(i) /\ Top(i) \in Tasks /\ Top(i) = Task(Top(i).k, Top(i).s, Top(i).x)
<1> DEFINE q == Front(stack[i])
<1>1. stack[i] \in Seq(Allowed(i)) /\ stack[i] # <<>>
  BY SortedAt DEF Idle
<1>2. q \in Seq(Allowed(i)) /\ Last(stack[i]) \in Allowed(i)
  BY <1>1 DEF Front, Last
<1>3. Below(i) = [stack EXCEPT ![i] = q]
  BY DEF Below
<1> HIDE DEF q
<1>4. Sorted([stack EXCEPT ![i] = q])
  BY <1>2, SortedExcept
<1>5. QED
  BY <1>2, <1>3, <1>4, TaskTypes DEF Top

LEMMA SortedTail ==
  ASSUME NEW F, Sorted(F), NEW i \in Ios, F[i] # <<>>
  PROVE  Sorted([F EXCEPT ![i] = Tail(F[i])]) /\ Head(F[i]) \in Allowed(i) /\ Head(F[i]) \in Tasks
<1> DEFINE q == Tail(F[i])
<1>1. F[i] \in Seq(Allowed(i))
  BY SortedAt
<1>2. q \in Seq(Allowed(i)) /\ Head(F[i]) \in Allowed(i)
  BY <1>1, HeadTailProperties
<1> HIDE DEF q
<1>3. Sorted([F EXCEPT ![i] = q])
  BY <1>2, SortedExcept
<1>4. QED
  BY <1>2, <1>3, TaskTypes DEF q

LEMMA SortedAddAll ==
  ASSUME NEW F, Sorted(F), NEW D \in SUBSET Sessions, NEW T \in [D -> HomeTasks]
  PROVE  Sorted(AddAll(F, T))
<1>1. HomeTasks \subseteq Tasks /\ \A i \in Ios : HomeTasks \subseteq Allowed(i)
  BY DEF AllTasks, HomeTasks, Allowed
<1>2. T \in [D -> Tasks] /\ \A i \in Ios : T \in [D -> Allowed(i)]
  BY <1>1
<1>3. AddAll(F, T) \in Strands
  BY <1>2, AddAllStrands, SortedAt, IosFinite
<1>4. ASSUME NEW i \in Ios
      PROVE  AddAll(F, T)[i] \in Seq(Allowed(i))
  BY <1>2, SortedAt, AddAllType
<1>5. QED
  BY <1>3, <1>4 DEF Sorted

-----------------------------------------------------------------------------
(* What the moves of tasks do to the counts.                               *)

LEMMA CountNat ==
  ASSUME NEW P, Sorted(P), NEW S, Sorted(S), NEW G
  PROVE  Count(P, S, G) \in Nat
BY PlacesFinite, IosFinite, SortedAt DEF Count

LEMMA CountPost ==
  ASSUME NEW P, Sorted(P), NEW S, Sorted(S), NEW i \in Ios, NEW t, t \in Allowed(i), NEW G
  PROVE  /\ Count(Post(P, i, t), S, G) = Count(P, S, G) + Is(t, G)
         /\ Count(P, Call(S, i, t), G) = Count(P, S, G) + Is(t, G)
<1>1. P \in Strands /\ S \in Strands /\ t \in Tasks
  BY SortedAt, TaskTypes
<1>2. HowMany(P, G) \in Nat /\ HowMany(S, G) \in Nat /\ Is(t, G) \in Nat
  BY <1>1, PlacesFinite DEF Is
<1>3. HowMany(Post(P, i, t), G) = HowMany(P, G) + Is(t, G)
  BY <1>1, HowManyPost
<1>4. HowMany(Call(S, i, t), G) = HowMany(S, G) + Is(t, G)
  BY <1>1, HowManyPost
<1>5. QED
  BY <1>2, <1>3, <1>4 DEF Count

LEMMA CountBelow ==
  ASSUME NEW P, Sorted(P), Sorted(stack), NEW i \in Ios, ~Idle(i), NEW G
  PROVE  Count(P, Below(i), G) = Count(P, stack, G) - Is(Top(i), G)
<1>1. P \in Strands /\ stack \in Strands
  BY SortedAt
<1>2. HowMany(P, G) \in Nat /\ HowMany(stack, G) \in Nat /\ Is(Top(i), G) \in Nat
  BY <1>1, PlacesFinite DEF Is
<1>3. HowMany(Below(i), G) = HowMany(stack, G) - Is(Top(i), G)
  BY <1>1, HowManyBelow
<1>4. QED
  BY <1>2, <1>3 DEF Count

\* A task that goes from the front of a strand to the top of its stack.
LEMMA CountTaken ==
  ASSUME NEW P, Sorted(P), NEW S, Sorted(S), NEW i \in Ios, P[i] # <<>>, NEW G
  PROVE  Count([P EXCEPT ![i] = Tail(P[i])], Call(S, i, Head(P[i])), G) = Count(P, S, G)
<1> DEFINE t == Head(P[i])
           Q == [P EXCEPT ![i] = Tail(P[i])]
<1>1. P \in Strands /\ S \in Strands /\ t \in Tasks
  BY SortedAt, SortedTail
<1>2. HowMany(P, G) \in Nat /\ HowMany(S, G) \in Nat /\ Is(t, G) \in Nat
  BY <1>1, PlacesFinite DEF Is
<1>3. HowMany(Q, G) = HowMany(P, G) - Is(t, G)
  BY <1>1, HowManyTail
<1> HIDE DEF Q, t
<1>4. HowMany(Call(S, i, t), G) = HowMany(S, G) + Is(t, G)
  BY <1>1, HowManyPost
<1>5. Count(Q, Call(S, i, t), G) = Count(P, S, G)
  BY <1>2, <1>3, <1>4 DEF Count
<1>6. QED
  BY <1>5 DEF Q, t

LEMMA CountAddNone ==
  ASSUME NEW P, Sorted(P), NEW S, Sorted(S), NEW D \in SUBSET Sessions, NEW T \in [D -> HomeTasks],
         NEW G, \A d \in D : T[d] \notin G
  PROVE  Count(AddAll(P, T), S, G) = Count(P, S, G) /\ Count(P, AddAll(S, T), G) = Count(P, S, G)
<1>1. P \in Strands /\ S \in Strands /\ HomeTasks \subseteq Tasks
  BY SortedAt, IosFinite DEF HomeTasks, AllTasks
<1>2. T \in [D -> Tasks]
  BY <1>1
<1>3. HowMany(AddAll(P, T), G) = HowMany(P, G) /\ HowMany(AddAll(S, T), G) = HowMany(S, G)
  BY <1>1, <1>2, HowManyAddNone
<1>4. QED
  BY <1>3 DEF Count

LEMMA CountAddOne ==
  ASSUME NEW P, Sorted(P), NEW S, Sorted(S), NEW D \in SUBSET Sessions, NEW T \in [D -> HomeTasks],
         NEW G, NEW d \in D, T[d] \in G, \A e \in D \ {d} : T[e] \notin G
  PROVE  Count(AddAll(P, T), S, G) = Count(P, S, G) + 1 /\ Count(P, AddAll(S, T), G) = Count(P, S, G) + 1
<1>1. P \in Strands /\ S \in Strands /\ HomeTasks \subseteq Tasks
  BY SortedAt, IosFinite DEF HomeTasks, AllTasks
<1>2. T \in [D -> Tasks]
  BY <1>1
<1>3. HowMany(AddAll(P, T), G) = HowMany(P, G) + 1 /\ HowMany(AddAll(S, T), G) = HowMany(S, G) + 1
  BY <1>1, <1>2, HowManyAddOne
<1>4. HowMany(P, G) \in Nat /\ HowMany(S, G) \in Nat
  BY <1>1, PlacesFinite
<1>5. QED
  BY <1>3, <1>4 DEF Count

(* A census of the tasks of a session, or of the server: how many there    *)
(* are of each class.                                                      *)

Classes == {"accepts", "begins", "connects", "joins", "pushes", "bodies", "closings", "writes",
            "lives", "starts", "stops", "execs"}

KindsOf(c) ==
  CASE c = "accepts"  -> {"accept"}
    [] c = "begins"   -> {"session2"}
    [] c = "connects" -> {"session3"}
    [] c = "joins"    -> {"join"}
    [] c = "pushes"   -> {"push"}
    [] c = "bodies"   -> {"body"}
    [] c = "closings" -> {"disc", "erase", "erase2", "close"}
    [] c = "writes"   -> {"write"}
    [] c = "lives"    -> LiveKinds
    [] c = "starts"   -> {"start", "start2", "start3"}
    [] c = "stops"    -> {"stop"}
    [] c = "execs"    -> {"exec", "exec2"}

Class(c, r) == [k : KindsOf(c), s : {r}, x : IF c = "pushes" THEN Disconnect ELSE Args]

Census(r, P, S) == [c \in Classes |-> Count(P, S, Class(c, r))]
Censuses        == [Classes -> Nat]

\* Whether t counts for class c of r; the census n with t, and without.
Bit(c, r, t)  == IF t.k \in KindsOf(c) /\ t.s = r /\ (c = "pushes" => t.x \in Disconnect) THEN 1 ELSE 0
More(n, r, t) == [c \in Classes |-> n[c] + Bit(c, r, t)]
Less(n, r, t) == [c \in Classes |-> n[c] - Bit(c, r, t)]

\* The classes of each kind.
LEMMA KindTable ==
  ASSUME NEW c \in Classes
  PROVE  /\ "accept" \in KindsOf(c) <=> c \in {"accepts"}
         /\ "session2" \in KindsOf(c) <=> c \in {"begins", "lives"}
         /\ "session3" \in KindsOf(c) <=> c \in {"connects", "lives"}
         /\ "join" \in KindsOf(c) <=> c \in {"joins", "lives"}
         /\ "push" \in KindsOf(c) <=> c \in {"pushes", "lives"}
         /\ "body" \in KindsOf(c) <=> c \in {"bodies", "lives"}
         /\ "disc" \in KindsOf(c) <=> c \in {"closings", "lives"}
         /\ "erase" \in KindsOf(c) <=> c \in {"closings", "lives"}
         /\ "erase2" \in KindsOf(c) <=> c \in {"closings", "lives"}
         /\ "close" \in KindsOf(c) <=> c \in {"closings", "lives"}
         /\ "write" \in KindsOf(c) <=> c \in {"writes", "lives"}
         /\ "user" \in KindsOf(c) <=> c \in {"lives"}
         /\ "recv1" \in KindsOf(c) <=> c \in {"lives"}
         /\ "recv" \in KindsOf(c) <=> c \in {"lives"}
         /\ "recv2" \in KindsOf(c) <=> c \in {"lives"}
         /\ "silence" \in KindsOf(c) <=> c \in {"lives"}
         /\ "again" \notin KindsOf(c)
         /\ "start" \in KindsOf(c) <=> c \in {"starts"}
         /\ "start2" \in KindsOf(c) <=> c \in {"starts"}
         /\ "start3" \in KindsOf(c) <=> c \in {"starts"}
         /\ "stop" \in KindsOf(c) <=> c \in {"stops"}
         /\ "exec" \in KindsOf(c) <=> c \in {"execs"}
         /\ "exec2" \in KindsOf(c) <=> c \in {"execs"}
BY DEF Classes, KindsOf, LiveKinds, HomeKinds, MapKinds

LEMMA ClassBit ==
  ASSUME NEW t \in Tasks, NEW c, NEW r
  PROVE  Is(t, Class(c, r)) = Bit(c, r, t) /\ Bit(c, r, t) \in Nat
<1> DEFINE X == IF c = "pushes" THEN Disconnect ELSE Args
           K == KindsOf(c)
<1>1. t \in [k : K, s : {r}, x : X] <=> t.k \in K /\ t.s = r /\ t.x \in X
  <2> HIDE DEF K, X
  <2>1. QED
    BY DEF Tasks
<1>2. t.x \in Args
  BY DEF Tasks, Args
<1>3. t.x \in X <=> (c = "pushes" => t.x \in Disconnect)
  BY <1>2
<1> HIDE DEF K, X
<1>4. t \in [k : K, s : {r}, x : X] <=> t.k \in K /\ t.s = r /\ (c = "pushes" => t.x \in Disconnect)
  BY <1>1, <1>3
<1>5. t \in Class(c, r) <=> t.k \in KindsOf(c) /\ t.s = r /\ (c = "pushes" => t.x \in Disconnect)
  BY <1>4 DEF Class, K, X
<1>6. QED
  BY <1>5 DEF Is, Bit

LEMMA CensusType ==
  ASSUME NEW P, Sorted(P), NEW S, Sorted(S), NEW r
  PROVE  Census(r, P, S) \in Censuses
BY CountNat DEF Census, Censuses

LEMMA CensusPost ==
  ASSUME NEW P, Sorted(P), NEW S, Sorted(S), NEW i \in Ios, NEW t, t \in Allowed(i), NEW r
  PROVE  /\ Census(r, Post(P, i, t), S) = More(Census(r, P, S), r, t)
         /\ Census(r, P, Call(S, i, t)) = More(Census(r, P, S), r, t)
<1>1. t \in Tasks
  BY TaskTypes
<1>2. \A c \in Classes : /\ Count(Post(P, i, t), S, Class(c, r)) = Count(P, S, Class(c, r)) + Bit(c, r, t)
                         /\ Count(P, Call(S, i, t), Class(c, r)) = Count(P, S, Class(c, r)) + Bit(c, r, t)
  BY <1>1, CountPost, ClassBit
<1>3. QED
  BY <1>2 DEF Census, More

LEMMA CensusBelow ==
  ASSUME NEW P, Sorted(P), Sorted(stack), NEW i \in Ios, ~Idle(i), NEW r
  PROVE  Census(r, P, Below(i)) = Less(Census(r, P, stack), r, Top(i))
<1>1. Top(i) \in Tasks
  BY SortedBelow
<1>2. \A c \in Classes : Count(P, Below(i), Class(c, r)) = Count(P, stack, Class(c, r)) - Bit(c, r, Top(i))
  BY <1>1, CountBelow, ClassBit
<1>3. QED
  BY <1>2 DEF Census, Less

LEMMA CensusTaken ==
  ASSUME NEW P, Sorted(P), NEW S, Sorted(S), NEW i \in Ios, P[i] # <<>>, NEW r
  PROVE  Census(r, [P EXCEPT ![i] = Tail(P[i])], Call(S, i, Head(P[i]))) = Census(r, P, S)
BY CountTaken DEF Census

\* The tasks of others do not count.
LEMMA Elsewhere ==
  ASSUME NEW n \in Censuses, NEW r, NEW t, t.s # r
  PROVE  More(n, r, t) = n /\ Less(n, r, t) = n
<1>1. \A c \in Classes : Bit(c, r, t) = 0
  BY DEF Bit
<1>2. QED
  BY <1>1 DEF More, Less, Censuses

\* The census of r with one more task of it, and with one less.
LEMMA CensusMoves ==
  ASSUME NEW n \in Censuses, NEW r, NEW k, NEW x, NEW c \in Classes
  PROVE  /\ More(n, r, Task(k, r, x))[c]
              = n[c] + (IF k \in KindsOf(c) /\ (c = "pushes" => x \in Disconnect) THEN 1 ELSE 0)
         /\ Less(n, r, Task(k, r, x))[c]
              = n[c] - (IF k \in KindsOf(c) /\ (c = "pushes" => x \in Disconnect) THEN 1 ELSE 0)
BY TaskParts DEF More, Less, Bit

-----------------------------------------------------------------------------
(* What holds of a session r in every state, with n its census: one        *)
(* disconnect event while it is stopping and none before; one guard while  *)
(* its queue is not empty, which works for the front; whatever knows it,   *)
(* it holds the counter; it is new, then accepted, then told of, then in   *)
(* the map.                                                                *)

OneEnd(n, st, q) == n["pushes"] + Hit(q, Disconnect) = (IF st = "stopping" THEN 1 ELSE 0)

OneGuard(n, q, ops) ==
  /\ n["bodies"] + n["closings"] + n["writes"] + (IF "write" \in ops THEN 1 ELSE 0)
       = (IF q = <<>> THEN 0 ELSE 1)
  /\ n["closings"] > 0 => Head(q) \in Disconnect
  /\ n["writes"] > 0 \/ "write" \in ops => Head(q) = "write"

Counted(n, r, st, q, ops, map, hold, kept) ==
  /\ n["lives"] > 0 \/ ops # {} \/ q # <<>> \/ r \in map \/ r \in kept => r \in hold
  /\ st \in {"starting", "started", "stopping"} => r \in hold

Accepted(n, r, st, hold, tl, acc) ==
  /\ st = "new" => r \notin hold /\ n["accepts"] = 0 /\ acc # r /\ tl = "none"
  /\ n["accepts"] + (IF acc = r THEN 1 ELSE 0) <= 1
  /\ n["accepts"] > 0 \/ acc = r => r \notin hold /\ tl = "none" /\ st = "stopped"

Greeted(n, r, st, map, tl) ==
  /\ st = "starting" => n["begins"] > 0
  /\ st = "started" => r \in map \/ n["connects"] > 0 \/ n["joins"] > 0
  /\ n["begins"] + n["connects"] + n["joins"] + (IF r \in map THEN 1 ELSE 0) <= 1
  /\ n["begins"] > 0 \/ n["connects"] > 0 => tl = "none"
  /\ n["joins"] > 0 \/ r \in map => tl = "connected"

SessionOK(n, r, st, q, ops, map, hold, kept, tl, acc) ==
  /\ OneEnd(n, st, q) /\ OneGuard(n, q, ops) /\ Counted(n, r, st, q, ops, map, hold, kept)
  /\ Accepted(n, r, st, hold, tl, acc) /\ Greeted(n, r, st, map, tl)

LEMMA CensusNat ==
  ASSUME NEW n \in Censuses
  PROVE  /\ n["accepts"] \in Nat /\ n["begins"] \in Nat /\ n["connects"] \in Nat /\ n["joins"] \in Nat
         /\ n["pushes"] \in Nat /\ n["bodies"] \in Nat /\ n["closings"] \in Nat /\ n["writes"] \in Nat
         /\ n["lives"] \in Nat /\ n["starts"] \in Nat /\ n["stops"] \in Nat /\ n["execs"] \in Nat
BY DEF Censuses, Classes

\* Session r has a harmless task more or less, an operation that is no write,
\* or another thread has its pointer.
LEMMA Harmless ==
  ASSUME NEW n \in Censuses, NEW r, NEW st, NEW q, NEW ops, NEW map, NEW hold, NEW kept, NEW tl, NEW acc,
         SessionOK(n, r, st, q, ops, map, hold, kept, tl, acc),
         NEW m \in Censuses, \A c \in Classes \ {"lives"} : m[c] = n[c],
         NEW ops2, "write" \in ops2 <=> "write" \in ops, NEW kept2,
         m["lives"] > 0 \/ ops2 # {} \/ r \in kept2 => r \in hold
  PROVE  SessionOK(m, r, st, q, ops2, map, hold, kept2, tl, acc)
<1>1. \A c \in {"accepts", "begins", "connects", "joins", "pushes", "bodies", "closings", "writes"} : m[c] = n[c]
  BY DEF Classes
<1>2. QED
  BY <1>1 DEF SessionOK, OneEnd, OneGuard, Counted, Accepted, Greeted

\* The state of session r moves to "stopping" and its disconnect event sets off:
\* it is queued, with its body running if it is alone, or posted.
LEMMA Disconnected ==
  ASSUME NEW n \in Censuses, NEW r, NEW st \in Disconnect, NEW q \in Seq(Events), NEW ops, NEW map, NEW hold,
         NEW kept, NEW tl, NEW acc, SessionOK(n, r, st, q, ops, map, hold, kept, tl, acc),
         NEW m \in Censuses, \A c \in {"accepts", "closings", "writes"} : m[c] = n[c],
         \A c \in {"begins", "connects", "joins"} : m[c] <= n[c],
         NEW q2,
         \/ /\ q2 = Append(q, st) /\ m["pushes"] = n["pushes"]
            /\ m["bodies"] = n["bodies"] + (IF q = <<>> THEN 1 ELSE 0)
         \/ /\ q2 = q /\ m["pushes"] = n["pushes"] + 1 /\ m["bodies"] = n["bodies"]
  PROVE  SessionOK(m, r, "stopping", q2, ops, map, hold, kept, tl, acc)
<1> DEFINE h == Hit(q, Disconnect)
           h2 == Hit(q2, Disconnect)
<1>1. h \in Nat /\ (q2 = Append(q, st) => h2 = h + 1) /\ (q2 = q => h2 = h)
  <2>1. Hit(Append(q, st), Disconnect) = Hit(q, Disconnect) + Is(st, Disconnect)
    BY HitAppend DEF Disconnect, Events
  <2>2. QED
    BY <2>1, HitsFinite DEF Is
<1>2. /\ q # <<>> => q2 # <<>> /\ Head(q2) = Head(q)
      /\ q2 = Append(q, st) => q2 # <<>>
  BY DEF Disconnect, Events
<1>3. /\ n["pushes"] \in Nat /\ n["bodies"] \in Nat /\ n["closings"] \in Nat /\ n["writes"] \in Nat
      /\ n["begins"] \in Nat /\ n["connects"] \in Nat /\ n["joins"] \in Nat
      /\ m["begins"] \in Nat /\ m["connects"] \in Nat /\ m["joins"] \in Nat
  BY CensusNat
<1>4. n["pushes"] + h = 0 /\ st # "stopping"
  BY DEF SessionOK, OneEnd, Disconnect
<1> HIDE DEF h, h2
<1>5. m["pushes"] + h2 = 1
  BY <1>1, <1>3, <1>4
<1>6. OneEnd(m, "stopping", q2)
  BY <1>5 DEF OneEnd, h2
<1>7. OneGuard(m, q2, ops)
  <2>1. OneGuard(n, q, ops)
    BY DEF SessionOK
  <2>2. m["closings"] = n["closings"] /\ m["writes"] = n["writes"]
    OBVIOUS
  <2>3. m["bodies"] + m["closings"] + m["writes"] + (IF "write" \in ops THEN 1 ELSE 0)
          = (IF q2 = <<>> THEN 0 ELSE 1)
    <3>1. n["bodies"] + n["closings"] + n["writes"] + (IF "write" \in ops THEN 1 ELSE 0)
            = (IF q = <<>> THEN 0 ELSE 1)
      BY <2>1 DEF OneGuard
    <3> DEFINE d == IF "write" \in ops THEN 1 ELSE 0
    <3>2. d \in Nat
      OBVIOUS
    <3>3. n["bodies"] + n["closings"] + n["writes"] + d = (IF q = <<>> THEN 0 ELSE 1)
      BY <3>1
    <3> HIDE DEF d
    <3>4. CASE q2 = Append(q, st) /\ m["bodies"] = n["bodies"] + (IF q = <<>> THEN 1 ELSE 0)
      <4> DEFINE b == n["bodies"]
                 c == n["closings"]
                 w == n["writes"]
                 e == IF q = <<>> THEN 1 ELSE 0
                 b2 == m["bodies"]
      <4>3. b \in Nat /\ c \in Nat /\ w \in Nat /\ e \in {0, 1} /\ b + c + w + d = 1 - e /\ b2 = b + e
        <5>1. b \in Nat /\ c \in Nat /\ w \in Nat /\ e \in {0, 1} /\ b2 = b + e
          BY <1>3, <3>4
        <5>2. b + c + w + d = (IF q = <<>> THEN 0 ELSE 1)
          BY <3>3
        <5>3. CASE q = <<>>
          BY <5>1, <5>2, <5>3
        <5>4. CASE q # <<>>
          BY <5>1, <5>2, <5>4
        <5>5. QED
          BY <5>3, <5>4
      <4> HIDE DEF b, c, w, e, b2
      <4>4. b2 + c + w + d = 1
        BY <4>3, <3>2
      <4>1. q2 # <<>> /\ m["bodies"] + n["closings"] + n["writes"] + d = 1
        BY <4>4, <3>4, <1>2 DEF b2, c, w
      <4>2. m["bodies"] + m["closings"] + m["writes"] + d = (IF q2 = <<>> THEN 0 ELSE 1)
        BY <4>1, <2>2
      <4>5. QED
        BY <4>2 DEF d
    <3>5. CASE q2 = q /\ m["bodies"] = n["bodies"]
      BY <3>1, <3>5, <2>2
    <3>6. QED
      BY <3>4, <3>5
  <2>7. q = <<>> => n["closings"] = 0 /\ n["writes"] = 0 /\ "write" \notin ops
    <3>1. n["bodies"] + n["closings"] + n["writes"] + (IF "write" \in ops THEN 1 ELSE 0)
            = (IF q = <<>> THEN 0 ELSE 1)
      BY <2>1 DEF OneGuard
    <3> DEFINE b == n["bodies"]
               c == n["closings"]
               w == n["writes"]
               d == IF "write" \in ops THEN 1 ELSE 0
    <3>2. ASSUME q = <<>>
          PROVE  b \in Nat /\ c \in Nat /\ w \in Nat /\ d \in Nat /\ b + c + w + d = 0
      BY <1>3, <3>1, <3>2
    <3>3. "write" \in ops => d = 1
      OBVIOUS
    <3> HIDE DEF b, c, w, d
    <3>4. q = <<>> => c = 0 /\ w = 0 /\ d = 0
      BY <3>2
    <3>5. QED
      BY <3>3, <3>4 DEF c, w
  <2>6. (n["closings"] > 0 => Head(q) \in Disconnect) /\ (n["writes"] > 0 \/ "write" \in ops => Head(q) = "write")
    BY <2>1 DEF OneGuard
  <2>4. (m["closings"] > 0 => Head(q2) \in Disconnect) /\ (m["writes"] > 0 \/ "write" \in ops => Head(q2) = "write")
    <3>1. CASE q # <<>>
      <4>1. Head(q2) = Head(q)
        BY <1>2, <3>1
      <4>2. QED
        BY <2>2, <2>6, <4>1
    <3>2. CASE q = <<>>
      BY <2>2, <2>7, <3>2
    <3>3. QED
      BY <3>1, <3>2
  <2>5. QED
    BY <2>3, <2>4 DEF OneGuard
<1>8. Counted(m, r, "stopping", q2, ops, map, hold, kept)
  BY DEF SessionOK, Counted, Disconnect
<1>9. Accepted(m, r, "stopping", hold, tl, acc)
  BY DEF SessionOK, Accepted, Disconnect
<1>10. Greeted(m, r, "stopping", map, tl)
  <2>1. Greeted(n, r, st, map, tl)
    BY DEF SessionOK
  <2>2. m["begins"] <= n["begins"] /\ m["connects"] <= n["connects"] /\ m["joins"] <= n["joins"]
    OBVIOUS
  <2> DEFINE in == IF r \in map THEN 1 ELSE 0
  <2>3. n["begins"] + n["connects"] + n["joins"] + in <= 1 /\ in \in {0, 1}
    BY <2>1 DEF Greeted
  <2> DEFINE a == n["begins"]
             b == n["connects"]
             c == n["joins"]
             a2 == m["begins"]
             b2 == m["connects"]
             c2 == m["joins"]
  <2>9. /\ a \in Nat /\ b \in Nat /\ c \in Nat /\ a2 \in Nat /\ b2 \in Nat /\ c2 \in Nat /\ in \in {0, 1}
        /\ a2 <= a /\ b2 <= b /\ c2 <= c /\ a + b + c + in <= 1
    BY <1>3, <2>2, <2>3
  <2> HIDE DEF in, a, b, c, a2, b2, c2
  <2>10. a2 + b2 + c2 + in <= 1
    BY <2>9
  <2>4. m["begins"] + m["connects"] + m["joins"] + in <= 1
    BY <2>10 DEF a2, b2, c2
  <2>5. /\ m["begins"] > 0 => n["begins"] > 0
        /\ m["connects"] > 0 => n["connects"] > 0
        /\ m["joins"] > 0 => n["joins"] > 0
    BY <2>2, <1>3
  <2>6. /\ m["begins"] > 0 \/ m["connects"] > 0 => tl = "none"
        /\ m["joins"] > 0 \/ r \in map => tl = "connected"
    BY <2>1, <2>5 DEF Greeted
  <2>7. m["begins"] + m["connects"] + m["joins"] + (IF r \in map THEN 1 ELSE 0) <= 1
    BY <2>4 DEF in
  <2>8. QED
    BY <2>6, <2>7 DEF Greeted
<1>11. QED
  BY <1>6, <1>7, <1>8, <1>9, <1>10 DEF SessionOK

\* A pushed event arrives in the queue of session r.
LEMMA Arrived ==
  ASSUME NEW n \in Censuses, NEW r, NEW st, NEW q \in Seq(Events), NEW ops, NEW map, NEW hold,
         NEW kept, NEW tl, NEW acc, SessionOK(n, r, st, q, ops, map, hold, kept, tl, acc),
         NEW m \in Censuses, \A c \in Classes \ {"pushes", "bodies", "lives"} : m[c] = n[c],
         NEW x \in Events, r \in hold,
         m["pushes"] = n["pushes"] - (IF x \in Disconnect THEN 1 ELSE 0),
         m["bodies"] = n["bodies"] + (IF q = <<>> THEN 1 ELSE 0)
  PROVE  SessionOK(m, r, st, Append(q, x), ops, map, hold, kept, tl, acc)
<1> DEFINE q2 == Append(q, x)
           h == Hit(q, Disconnect)
           h2 == Hit(q2, Disconnect)
<1>1. h \in Nat /\ h2 = h + (IF x \in Disconnect THEN 1 ELSE 0)
  <2>1. h \in Nat
    BY HitsFinite
  <2>2. h2 = h + Is(x, Disconnect)
    BY HitAppend
  <2>3. QED
    BY <2>1, <2>2 DEF Is
<1>2. q2 # <<>> /\ (q # <<>> => Head(q2) = Head(q))
  <2>1. Len(q) \in Nat /\ Len(q2) = Len(q) + 1 /\ (q # <<>> => 1 \in 1 .. Len(q) /\ q2[1] = q[1])
    OBVIOUS
  <2>2. QED
    BY <2>1
<1>3. /\ n["pushes"] \in Nat /\ n["bodies"] \in Nat /\ n["closings"] \in Nat /\ n["writes"] \in Nat
      /\ n["begins"] \in Nat /\ n["connects"] \in Nat /\ n["joins"] \in Nat
      /\ m["begins"] \in Nat /\ m["connects"] \in Nat /\ m["joins"] \in Nat
  BY CensusNat
<1>4. n["pushes"] + h = (IF st = "stopping" THEN 1 ELSE 0)
  BY DEF SessionOK, OneEnd
<1>5. \A c \in {"accepts", "begins", "connects", "joins", "closings", "writes"} : m[c] = n[c]
  BY DEF Classes
<1> HIDE DEF h, h2, q2
<1>6. m["pushes"] + h2 = (IF st = "stopping" THEN 1 ELSE 0)
  BY <1>1, <1>3, <1>4
<1>7. OneEnd(m, st, q2)
  BY <1>6 DEF OneEnd, h2
<1>8. OneGuard(m, q2, ops)
  <2>1. OneGuard(n, q, ops)
    BY DEF SessionOK
  <2>2. m["closings"] = n["closings"] /\ m["writes"] = n["writes"]
    BY <1>5
  <2>3. m["bodies"] + m["closings"] + m["writes"] + (IF "write" \in ops THEN 1 ELSE 0)
          = (IF q2 = <<>> THEN 0 ELSE 1)
    <3>1. n["bodies"] + n["closings"] + n["writes"] + (IF "write" \in ops THEN 1 ELSE 0)
            = (IF q = <<>> THEN 0 ELSE 1)
      BY <2>1 DEF OneGuard
    <3> DEFINE b == n["bodies"]
               c == n["closings"]
               w == n["writes"]
               d == IF "write" \in ops THEN 1 ELSE 0
               e == IF q = <<>> THEN 1 ELSE 0
               b2 == m["bodies"]
    <3>2. /\ b \in Nat /\ c \in Nat /\ w \in Nat /\ d \in Nat /\ e \in {0, 1} /\ b2 = b + e
          /\ b + c + w + d = 1 - e
      <4>1. CASE q = <<>>
        BY <3>1, <1>3, <4>1
      <4>2. CASE q # <<>>
        BY <3>1, <1>3, <4>2
      <4>3. QED
        BY <4>1, <4>2
    <3>3. m["closings"] = c /\ m["writes"] = w
      BY <2>2
    <3> HIDE DEF b, c, w, e, b2
    <3>4. b2 + c + w + d = 1
      BY <3>2
    <3>5. QED
      BY <3>3, <3>4, <1>2 DEF b2
  <2>7. q = <<>> => n["closings"] = 0 /\ n["writes"] = 0 /\ "write" \notin ops
    <3>1. n["bodies"] + n["closings"] + n["writes"] + (IF "write" \in ops THEN 1 ELSE 0)
            = (IF q = <<>> THEN 0 ELSE 1)
      BY <2>1 DEF OneGuard
    <3> DEFINE b == n["bodies"]
               c == n["closings"]
               w == n["writes"]
               d == IF "write" \in ops THEN 1 ELSE 0
    <3>2. ASSUME q = <<>>
          PROVE  b \in Nat /\ c \in Nat /\ w \in Nat /\ d \in Nat /\ b + c + w + d = 0
      BY <1>3, <3>1, <3>2
    <3>3. "write" \in ops => d = 1
      OBVIOUS
    <3> HIDE DEF b, c, w, d
    <3>4. q = <<>> => c = 0 /\ w = 0 /\ d = 0
      BY <3>2
    <3>5. QED
      BY <3>3, <3>4 DEF c, w
  <2>6. (n["closings"] > 0 => Head(q) \in Disconnect) /\ (n["writes"] > 0 \/ "write" \in ops => Head(q) = "write")
    BY <2>1 DEF OneGuard
  <2>4. (m["closings"] > 0 => Head(q2) \in Disconnect) /\ (m["writes"] > 0 \/ "write" \in ops => Head(q2) = "write")
    <3>1. CASE q = <<>>
      BY <3>1, <2>2, <2>7
    <3>2. CASE q # <<>>
      BY <3>2, <2>2, <2>6, <1>2
    <3>3. QED
      BY <3>1, <3>2
  <2>5. QED
    BY <2>3, <2>4 DEF OneGuard
<1>9. Counted(m, r, st, q2, ops, map, hold, kept)
  BY DEF SessionOK, Counted
<1>10. Accepted(m, r, st, hold, tl, acc) /\ Greeted(m, r, st, map, tl)
  BY <1>5 DEF SessionOK, Accepted, Greeted
<1>11. QED
  BY <1>7, <1>8, <1>9, <1>10 DEF SessionOK, q2

\* The write at the front of the queue of session r is over: its guard goes, and
\* the body of the next event runs.
LEMMA WriteReleased ==
  ASSUME NEW n \in Censuses, NEW r, NEW st, NEW q \in Seq(Events), NEW ops, NEW map, NEW hold,
         NEW kept, NEW tl, NEW acc, SessionOK(n, r, st, q, ops, map, hold, kept, tl, acc),
         NEW m \in Censuses, \A c \in Classes \ {"writes", "bodies", "lives"} : m[c] = n[c],
         n["writes"] > 0, m["writes"] = n["writes"] - 1,
         m["bodies"] = n["bodies"] + (IF Tail(q) = <<>> THEN 0 ELSE 1)
  PROVE  SessionOK(m, r, st, Tail(q), ops, map, hold, kept, tl, acc)
<1> DEFINE q2 == Tail(q)
<1>1. n["pushes"] \in Nat /\ n["bodies"] \in Nat /\ n["closings"] \in Nat /\ n["writes"] \in Nat
  BY CensusNat
<1>2. OneGuard(n, q, ops)
  BY DEF SessionOK
<1>3. q # <<>> /\ Head(q) = "write" /\ n["bodies"] = 0 /\ n["closings"] = 0 /\ n["writes"] = 1 /\ "write" \notin ops
  BY <1>1, <1>2 DEF OneGuard
<1>4. Hit(q2, Disconnect) = Hit(q, Disconnect)
  <2>1. Hit(Tail(q), Disconnect) = Hit(q, Disconnect) - Is(Head(q), Disconnect)
    BY <1>3, HitTail
  <2>2. "write" \notin Disconnect /\ Hit(q, Disconnect) \in Nat
    BY HitsFinite DEF Disconnect
  <2>3. QED
    BY <2>1, <2>2, <1>3 DEF Is
<1>5. \A c \in {"accepts", "begins", "connects", "joins", "pushes", "closings"} : m[c] = n[c]
  BY DEF Classes
<1>6. OneEnd(m, st, q2)
  BY <1>4, <1>5 DEF SessionOK, OneEnd
<1> HIDE DEF q2
<1>7. OneGuard(m, q2, ops)
  BY <1>3, <1>5 DEF OneGuard, q2
<1>8. r \in hold
  BY <1>3 DEF SessionOK, Counted
<1>9. Counted(m, r, st, q2, ops, map, hold, kept)
  BY <1>8 DEF SessionOK, Counted
<1>10. Accepted(m, r, st, hold, tl, acc) /\ Greeted(m, r, st, map, tl)
  BY <1>5 DEF SessionOK, Accepted, Greeted
<1>11. QED
  BY <1>6, <1>7, <1>9, <1>10 DEF SessionOK, q2

\* The disconnect event at the front of the queue of session r is over.
LEMMA CloseReleased ==
  ASSUME NEW n \in Censuses, NEW r, NEW st, NEW q \in Seq(Events), NEW ops, NEW map, NEW hold,
         NEW kept, NEW tl, NEW acc, SessionOK(n, r, st, q, ops, map, hold, kept, tl, acc),
         NEW m \in Censuses, \A c \in Classes \ {"closings", "bodies", "lives"} : m[c] = n[c],
         n["closings"] > 0, m["closings"] = n["closings"] - 1,
         m["bodies"] = n["bodies"] + (IF Tail(q) = <<>> THEN 0 ELSE 1)
  PROVE  /\ st = "stopping" /\ "write" \notin ops
         /\ SessionOK(m, r, "stopped", Tail(q), {}, map, hold, kept, tl, acc)
<1> DEFINE q2 == Tail(q)
           h == Hit(q, Disconnect)
           h2 == Hit(q2, Disconnect)
<1>1. n["pushes"] \in Nat /\ n["bodies"] \in Nat /\ n["closings"] \in Nat /\ n["writes"] \in Nat
  BY CensusNat
<1>2. OneGuard(n, q, ops)
  BY DEF SessionOK
<1>3. n["closings"] = 1 /\ n["bodies"] = 0 /\ n["writes"] = 0 /\ "write" \notin ops /\ q # <<>> /\ Head(q) \in Disconnect
  BY <1>1, <1>2 DEF OneGuard, Disconnect
<1>4. h \in Nat /\ h2 \in Nat /\ h2 = h - 1
  <2>1. h2 = h - Is(Head(q), Disconnect)
    BY <1>3, HitTail
  <2>2. h \in Nat /\ h2 \in Nat
    BY <1>3, HeadTailProperties, HitsFinite
  <2>3. QED
    BY <2>1, <2>2, <1>3 DEF Is
<1>5. n["pushes"] + h = (IF st = "stopping" THEN 1 ELSE 0)
  BY DEF SessionOK, OneEnd
<1> HIDE DEF h, h2, q2
<1>6. n["pushes"] = 0 /\ h = 1 /\ h2 = 0 /\ st = "stopping"
  BY <1>1, <1>4, <1>5
<1>7. \A c \in {"accepts", "begins", "connects", "joins", "pushes", "writes"} : m[c] = n[c]
  BY DEF Classes
<1>8. OneEnd(m, "stopped", q2)
  BY <1>6, <1>7 DEF OneEnd, h2
<1>9. OneGuard(m, q2, {})
  BY <1>3, <1>7 DEF OneGuard, q2
<1>10. r \in hold
  BY <1>3 DEF SessionOK, Counted
<1>11. Counted(m, r, "stopped", q2, {}, map, hold, kept)
  BY <1>10 DEF SessionOK, Counted
<1>12. Accepted(m, r, "stopped", hold, tl, acc) /\ Greeted(m, r, "stopped", map, tl)
  BY <1>6, <1>7 DEF SessionOK, Accepted, Greeted
<1>13. QED
  BY <1>3, <1>6, <1>8, <1>9, <1>11, <1>12 DEF SessionOK, q2

\* The body of the front event of session r hands its guard on, to a write in
\* flight or a posted task; or a write in flight ends.
LEMMA HandedOn ==
  ASSUME NEW n \in Censuses, NEW r, NEW st, NEW q, NEW ops, NEW map, NEW hold,
         NEW kept, NEW tl, NEW acc, SessionOK(n, r, st, q, ops, map, hold, kept, tl, acc),
         NEW m \in Censuses, \A c \in Classes \ {"bodies", "closings", "writes", "lives"} : m[c] = n[c],
         NEW ops2,
         \/ /\ Head(q) = "write" /\ n["bodies"] > 0 /\ ops2 = ops \cup {"write"}
            /\ m["bodies"] = n["bodies"] - 1 /\ m["writes"] = n["writes"] /\ m["closings"] = n["closings"]
         \/ /\ Head(q) = "write" /\ n["bodies"] > 0 /\ ops2 = ops
            /\ m["bodies"] = n["bodies"] - 1 /\ m["writes"] = n["writes"] + 1 /\ m["closings"] = n["closings"]
         \/ /\ Head(q) \in Disconnect /\ n["bodies"] > 0 /\ ops2 = ops
            /\ m["bodies"] = n["bodies"] - 1 /\ m["writes"] = n["writes"] /\ m["closings"] = n["closings"] + 1
         \/ /\ "write" \in ops /\ ops2 = ops \ {"write"}
            /\ m["bodies"] = n["bodies"] /\ m["writes"] = n["writes"] + 1 /\ m["closings"] = n["closings"]
  PROVE  SessionOK(m, r, st, q, ops2, map, hold, kept, tl, acc)
<1>1. n["pushes"] \in Nat /\ n["bodies"] \in Nat /\ n["closings"] \in Nat /\ n["writes"] \in Nat
  BY CensusNat
<1>2. OneGuard(n, q, ops)
  BY DEF SessionOK
<1>3. /\ n["bodies"] + n["closings"] + n["writes"] + (IF "write" \in ops THEN 1 ELSE 0) = (IF q = <<>> THEN 0 ELSE 1)
      /\ n["closings"] > 0 => Head(q) \in Disconnect
      /\ n["writes"] > 0 \/ "write" \in ops => Head(q) = "write"
  BY <1>2 DEF OneGuard
<1>4. q # <<>> /\ OneGuard(m, q, ops2)
  <2>1. CASE Head(q) = "write" /\ n["bodies"] > 0
    <3>1. q # <<>> /\ n["bodies"] = 1 /\ n["closings"] = 0 /\ n["writes"] = 0 /\ "write" \notin ops
      BY <1>1, <1>3, <2>1
    <3>2. QED
      BY <3>1, <2>1 DEF OneGuard, Disconnect
  <2>2. CASE Head(q) \in Disconnect /\ n["bodies"] > 0
    <3>1. q # <<>> /\ n["bodies"] = 1 /\ n["closings"] = 0 /\ n["writes"] = 0 /\ "write" \notin ops
      BY <1>1, <1>3, <2>2
    <3>2. QED
      BY <3>1, <2>2 DEF OneGuard, Disconnect
  <2>3. CASE "write" \in ops /\ ops2 = ops \ {"write"} /\ m["bodies"] = n["bodies"]
             /\ m["writes"] = n["writes"] + 1 /\ m["closings"] = n["closings"]
    <3>1. q # <<>> /\ n["bodies"] = 0 /\ n["closings"] = 0 /\ n["writes"] = 0
      BY <1>1, <1>3, <2>3
    <3>2. QED
      BY <3>1, <2>3, <1>3 DEF OneGuard
  <2>4. QED
    BY <2>1, <2>2, <2>3
<1>5. r \in hold
  BY <1>4 DEF SessionOK, Counted
<1>6. \A c \in {"accepts", "begins", "connects", "joins", "pushes"} : m[c] = n[c]
  BY DEF Classes
<1>7. OneEnd(m, st, q) /\ Counted(m, r, st, q, ops2, map, hold, kept)
  BY <1>5, <1>6 DEF SessionOK, OneEnd, Counted
<1>8. Accepted(m, r, st, hold, tl, acc) /\ Greeted(m, r, st, map, tl)
  BY <1>6 DEF SessionOK, Accepted, Greeted
<1>9. QED
  BY <1>4, <1>7, <1>8 DEF SessionOK

-----------------------------------------------------------------------------
(* The inductive invariant.                                                *)

Fine(r) ==
  SessionOK(Census(r, posted, stack), r, sstate[r], queue[r], sops[r], sessions, holders, held,
            told[r], accepting)

Own == Census(NoSession, posted, stack)

\* The last reference of the counter stops a server that is stopping, once; the
\* server has its own until then; the counter timer keeps io_context 0 at work.
ServerOK ==
  /\ Own["execs"] = (IF state = "stopping" /\ holders = {} THEN 1 ELSE 0)
  /\ Server \in holders <=> state \in {"starting", "started"}
  /\ state = "stopped" => holders = {}
  /\ state = "starting" => holders = {Server}
  /\ state = "stopping" => ctimer

\* One start is waited for; who drains has posted a stop; once io_context 0 has
\* stopped the server is stopped, with nothing left on its strand.
Drained == app = "draining" /\ 0 \in ioStopped

AppOK ==
  /\ Own["starts"] = (IF app = "waiting" THEN 1 ELSE 0)
  /\ app = "draining" => Own["stops"] > 0 \/ state \in {"stopping", "stopped"}
  /\ Drained => state = "stopped" /\ posted[0] = <<>> /\ stack[0] = <<>> /\ accepting = NoSession

Typed == TypeOK /\ Sorted(posted) /\ Sorted(stack)

IInv == Typed /\ ServerOK /\ AppOK /\ \A r \in Sessions : Fine(r)

LEMMA Kinds ==
  /\ OwnKinds \cap LiveKinds = {} /\ "accept" \notin OwnKinds \cup LiveKinds /\ "again" \notin OwnKinds \cup LiveKinds
  /\ MapKinds \subseteq LiveKinds /\ HomeKinds \subseteq LiveKinds /\ HomeKinds \cap MapKinds = {}
BY DEF OwnKinds, LiveKinds, HomeKinds, MapKinds

\* What nothing but the server's own strand may hold.
LEMMA AllowedIs ==
  ASSUME NEW i, NEW t, t \in Allowed(i)
  PROVE  /\ t \in Tasks /\ t = Task(t.k, t.s, t.x) /\ t.x \in Args /\ t.s \in Sessions \cup {NoSession}
         /\ t.k \in OwnKinds => i = 0 /\ t.s = NoSession
         /\ t.k \notin OwnKinds \cup {"user"} => t.s \in Sessions
         /\ t.k \in MapKinds \cup {"accept", "again"} => i = 0
         /\ i # 0 => t.k \in HomeKinds /\ t.s \in Sessions
         /\ t.k = "push" => t.x \in Events
<1>1. t \in AllTasks /\ (i # 0 => t \in HomeTasks)
  BY DEF Allowed, HomeTasks
<1>2. t \in Tasks /\ t = Task(t.k, t.s, t.x) /\ t.x \in Args /\ t.s \in Sessions \cup {NoSession}
  BY <1>1 DEF AllTasks, Tasks, Task, Args
<1>3. i # 0 => t.k \in HomeKinds /\ t.s \in Sessions
  BY <1>1 DEF HomeTasks
<1>4. t.k \in OwnKinds => i = 0
  BY <1>3, Kinds
<1>5. t.k \in MapKinds \cup {"accept", "again"} => i = 0
  BY <1>3, Kinds
<1>6. QED
  BY <1>1, <1>2, <1>3, <1>4, <1>5 DEF AllTasks

LEMMA ClassOf ==
  ASSUME NEW t \in Tasks, NEW c \in Classes, t \in Class(c, t.s)
  PROVE  Bit(c, t.s, t) = 1
BY ClassBit DEF Is

\* A task that is somewhere counts.
LEMMA Counts ==
  ASSUME Sorted(posted), Sorted(stack), NEW i \in Ios, NEW j,
         NEW t, \/ j \in DOMAIN posted[i] /\ t = posted[i][j]
                \/ j \in DOMAIN stack[i] /\ t = stack[i][j],
         NEW c \in Classes, Bit(c, t.s, t) = 1
  PROVE  Census(t.s, posted, stack)[c] > 0
<1>1. posted \in Strands /\ stack \in Strands
  BY SortedAt
<1>2. posted[i] \in Seq(Tasks) /\ stack[i] \in Seq(Tasks)
  BY <1>1, StrandIsSeq
<1>3. t \in Tasks
  BY <1>2
<1> DEFINE G == Class(c, t.s)
<1>4. t \in G
  BY <1>3, ClassBit DEF Is
<1> HIDE DEF G
<1>5. HowMany(posted, G) \in Nat /\ HowMany(stack, G) \in Nat
  BY <1>1, PlacesFinite
<1>6. HowMany(posted, G) # 0 \/ HowMany(stack, G) # 0
  BY <1>1, <1>4, HowManyNone
<1>7. Count(posted, stack, G) > 0
  BY <1>5, <1>6 DEF Count
<1>8. QED
  BY <1>7 DEF Census, G

\* When the server is stopped nobody knows any session.
LEMMA NobodyLeft ==
  ASSUME IInv, state = "stopped"
  PROVE  /\ holders = {} /\ sessions = {} /\ held = {}
         /\ \A s \in Sessions : sops[s] = {} /\ queue[s] = <<>> /\ sstate[s] \in {"new", "stopped"}
         /\ \A i \in Ios : i # 0 => posted[i] = <<>> /\ stack[i] = <<>>
         /\ \A s \in Sessions : ~(Census(s, posted, stack)["lives"] > 0)
<1>1. holders = {}
  BY DEF IInv, ServerOK
<1>2. TypeOK /\ Sorted(posted) /\ Sorted(stack)
  BY DEF IInv, Typed
<1>3. \A s \in Sessions :
        Counted(Census(s, posted, stack), s, sstate[s], queue[s], sops[s], sessions, holders, held)
  BY DEF IInv, Fine, SessionOK
<1>4. \A s \in Sessions : /\ ~(Census(s, posted, stack)["lives"] > 0) /\ sops[s] = {} /\ queue[s] = <<>>
                          /\ s \notin sessions /\ s \notin held
                          /\ sstate[s] \notin {"starting", "started", "stopping"}
  BY <1>1, <1>3 DEF Counted
<1>5. sessions = {} /\ held = {} /\ \A s \in Sessions : sstate[s] \in {"new", "stopped"}
  BY <1>2, <1>4 DEF TypeOK, States
<1>6. ASSUME NEW i \in Ios, i # 0
      PROVE  posted[i] = <<>> /\ stack[i] = <<>>
  <2>1. posted[i] \in Seq(Allowed(i)) /\ stack[i] \in Seq(Allowed(i))
    BY <1>2, SortedAt
  <2>2. ASSUME NEW t, t \in Allowed(i), NEW j,
               (j \in DOMAIN posted[i] /\ t = posted[i][j]) \/ (j \in DOMAIN stack[i] /\ t = stack[i][j])
        PROVE  FALSE
    <3>1. t \in Tasks /\ t.s \in Sessions /\ t.k \in LiveKinds
      BY <2>2, <1>6, AllowedIs, Kinds
    <3>2. Bit("lives", t.s, t) = 1 /\ "lives" \in Classes
      BY <3>1 DEF Bit, KindsOf, Classes
    <3>3. Census(t.s, posted, stack)["lives"] > 0
      BY <1>2, <2>2, <3>2, Counts
    <3>4. QED
      BY <3>1, <3>3, <1>4
  <2>3. ASSUME posted[i] # <<>>
        PROVE  FALSE
    <3>1. 1 \in DOMAIN posted[i] /\ posted[i][1] \in Allowed(i)
      BY <2>1, <2>3
    <3>2. QED
      BY <3>1, <2>2
  <2>4. ASSUME stack[i] # <<>>
        PROVE  FALSE
    <3>1. 1 \in DOMAIN stack[i] /\ stack[i][1] \in Allowed(i)
      BY <2>1, <2>4
    <3>2. QED
      BY <3>1, <2>2
  <2>5. QED
    BY <2>3, <2>4
<1>7. QED
  BY <1>1, <1>4, <1>5, <1>6

LEMMA DrainedQuiet ==
  ASSUME IInv, Drained
  PROVE  /\ holders = {} /\ sessions = {} /\ held = {} /\ accepting = NoSession /\ state = "stopped"
         /\ \A s \in Sessions : sops[s] = {}
         /\ \A i \in Ios : posted[i] = <<>> /\ stack[i] = <<>>
<1>1. state = "stopped" /\ posted[0] = <<>> /\ stack[0] = <<>> /\ accepting = NoSession
  BY DEF IInv, AppOK
<1>2. QED
  BY <1>1, NobodyLeft

LEMMA CensusNow ==
  ASSUME IInv, NEW r
  PROVE  Census(r, posted, stack) \in Censuses
BY CensusType DEF IInv, Typed

\* The handler on top of strand i, of kind k, and the strands without it.
LEMMA TopIs ==
  ASSUME IInv, NEW i \in Ios, NEW k, At(i, k)
  PROVE  /\ Sorted(posted) /\ Sorted(stack) /\ Sorted(Below(i)) /\ ~Drained
         /\ Top(i) \in Allowed(i) /\ Top(i) = Task(k, Top(i).s, Top(i).x) /\ Top(i).k = k
         /\ Top(i).x \in Args /\ Top(i).s \in Sessions \cup {NoSession}
         /\ k \in OwnKinds => i = 0 /\ Top(i).s = NoSession
         /\ k \notin OwnKinds \cup {"user"} => Top(i).s \in Sessions
         /\ k \in MapKinds \cup {"accept", "again"} => i = 0
         /\ k \in LiveKinds /\ Top(i).s \in Sessions => Top(i).s \in holders
<1>1. Sorted(posted) /\ Sorted(stack) /\ ~Idle(i) /\ Top(i).k = k
  BY DEF IInv, Typed, At
<1>2. Sorted(Below(i)) /\ Top(i) \in Allowed(i)
  BY <1>1, SortedBelow
<1>3. ~Drained
  BY <1>1, DrainedQuiet DEF Idle
<1>4. ASSUME k \in LiveKinds, Top(i).s \in Sessions
      PROVE  Top(i).s \in holders
  <2>1. Bit("lives", Top(i).s, Top(i)) = 1 /\ "lives" \in Classes
    BY <1>1, <1>4 DEF Bit, KindsOf, Classes
  <2>2. stack[i] \in Seq(Allowed(i)) /\ stack[i] # <<>>
    BY <1>1, SortedAt DEF Idle
  <2>3. Len(stack[i]) \in DOMAIN stack[i] /\ Top(i) = stack[i][Len(stack[i])]
    BY <2>2 DEF Top, Last
  <2>4. Census(Top(i).s, posted, stack)["lives"] > 0
    BY <1>1, <2>1, <2>3, Counts
  <2>5. QED
    BY <2>4, <1>4 DEF IInv, Fine, SessionOK, Counted
<1>5. QED
  BY <1>1, <1>2, <1>3, <1>4, AllowedIs

\* A handler of a session.
LEMMA HandlerOf ==
  ASSUME IInv, NEW i \in Ios, NEW k, At(i, k), k \notin OwnKinds \cup {"user"}
  PROVE  \E s \in Sessions, x \in Args :
           /\ Top(i) = Task(k, s, x) /\ Top(i).s = s /\ Top(i).x = x
           /\ k \in LiveKinds => s \in holders
           /\ k = "push" => x \in Events
           /\ k \in MapKinds \cup {"accept", "again"} => i = 0
<1>1. Top(i) \in Allowed(i) /\ Top(i) = Task(k, Top(i).s, Top(i).x) /\ Top(i).s \in Sessions /\ Top(i).x \in Args
      /\ Top(i).k = k
  BY TopIs
<1>2. k = "push" => Top(i).x \in Events
  BY <1>1, AllowedIs
<1>3. QED
  BY <1>1, <1>2, TopIs

\* The census without it.
LEMMA CensusTop ==
  ASSUME IInv, NEW i \in Ios, NEW k, At(i, k), NEW r
  PROVE  /\ Census(r, posted, stack) \in Censuses /\ Census(r, posted, Below(i)) \in Censuses
         /\ Census(r, posted, Below(i)) = Less(Census(r, posted, stack), r, Top(i))
         /\ r # Top(i).s => Census(r, posted, Below(i)) = Census(r, posted, stack)
<1>1. Sorted(posted) /\ Sorted(stack) /\ Sorted(Below(i)) /\ ~Idle(i)
  BY TopIs DEF At
<1>2. Census(r, posted, stack) \in Censuses /\ Census(r, posted, Below(i)) \in Censuses
  BY <1>1, CensusType
<1>3. Census(r, posted, Below(i)) = Less(Census(r, posted, stack), r, Top(i))
  BY <1>1, CensusBelow
<1>4. QED
  BY <1>2, <1>3, Elsewhere

LEMMA Untouched ==
  ASSUME IInv, NEW r, Fine(r), Census(r, posted', stack') = Census(r, posted, stack),
         sstate'[r] = sstate[r], queue'[r] = queue[r], sops'[r] = sops[r], r \in sessions' <=> r \in sessions,
         r \in holders' <=> r \in holders, r \in held' => r \in holders, told'[r] = told[r],
         accepting' = r => accepting = r
  PROVE  Fine(r)'
<1> DEFINE n == Census(r, posted, stack)
<1>1. /\ OneEnd(n, sstate[r], queue[r]) /\ OneGuard(n, queue[r], sops[r])
      /\ Counted(n, r, sstate[r], queue[r], sops[r], sessions, holders, held)
      /\ Accepted(n, r, sstate[r], holders, told[r], accepting)
      /\ Greeted(n, r, sstate[r], sessions, told[r])
  BY DEF Fine, SessionOK
<1>2. Census(r, posted', stack') = n
  OBVIOUS
<1> HIDE DEF n
<1>3. Counted(n, r, sstate[r], queue[r], sops[r], sessions', holders', held')
  BY <1>1 DEF Counted
<1>4. Accepted(n, r, sstate[r], holders', told[r], accepting')
  <2>1. CASE accepting' = r
    BY <1>1, <2>1 DEF Accepted
  <2>2. CASE accepting' # r
    <3> DEFINE a == n["accepts"]
    <3>1. Accepted(n, r, sstate[r], holders', told[r], accepting') <=>
            /\ sstate[r] = "new" => r \notin holders /\ a = 0 /\ told[r] = "none"
            /\ a + 0 <= 1
            /\ a > 0 => r \notin holders /\ told[r] = "none" /\ sstate[r] = "stopped"
      BY <2>2 DEF Accepted
    <3>2. /\ sstate[r] = "new" => r \notin holders /\ a = 0 /\ told[r] = "none"
          /\ a + (IF accepting = r THEN 1 ELSE 0) <= 1
          /\ a > 0 => r \notin holders /\ told[r] = "none" /\ sstate[r] = "stopped"
      BY <1>1 DEF Accepted
    <3>3. a \in Nat
      BY CensusType DEF IInv, Typed, n, Censuses, Classes
    <3> HIDE DEF a
    <3>4. a + 0 <= 1
      <4>1. CASE accepting = r
        BY <4>1, <3>2, <3>3
      <4>2. CASE accepting # r
        BY <4>2, <3>2, <3>3
      <4>3. QED
        BY <4>1, <4>2
    <3>5. /\ sstate[r] = "new" => r \notin holders' /\ a = 0 /\ told[r] = "none"
          /\ a > 0 => r \notin holders' /\ told[r] = "none" /\ sstate[r] = "stopped"
      BY <3>2
    <3>6. QED
      BY <3>4, <3>5, <3>2, <2>2 DEF Accepted, a
  <2>3. QED
    BY <2>1, <2>2
<1>5. Greeted(n, r, sstate[r], sessions', told[r])
  BY <1>1 DEF Greeted
<1>6. SessionOK(Census(r, posted', stack'), r, sstate'[r], queue'[r], sops'[r], sessions', holders', held',
                told'[r], accepting')
  BY <1>1, <1>2, <1>3, <1>4, <1>5 DEF SessionOK
<1>7. QED
  BY <1>6 DEF Fine

\* Nothing happens to the server.
LEMMA ServerUntouched ==
  ASSUME IInv, \A c \in {"starts", "stops", "execs"} : Census(NoSession, posted', stack')[c] = Own[c],
         ~Drained, state' = state, ctimer' = ctimer, holders' = holders, app' = app, ioStopped' = ioStopped
  PROVE  ServerOK' /\ AppOK'
BY DEF IInv, ServerOK, AppOK, Own, Drained

-----------------------------------------------------------------------------
(* Steps of one session.                                                   *)

\* What a step of session s leaves alone.
Elsewise(s) ==
  /\ UNCHANGED <<state, acceptor, accepting, ctimer, holders, held, app, ioStopped, starts, stops, sends>>
  /\ Sorted(posted)' /\ Sorted(stack)'
  /\ \A r \in (Sessions \cup {NoSession}) \ {s} : Census(r, posted', stack') = Census(r, posted, stack)
  /\ \A r \in Sessions \ {s} : /\ sstate'[r] = sstate[r] /\ queue'[r] = queue[r] /\ sops'[r] = sops[r]
                               /\ told'[r] = told[r] /\ (r \in sessions' <=> r \in sessions)
  /\ sopen' \subseteq Sessions /\ sessions' \subseteq Sessions
  /\ sstate' \in [Sessions -> States \cup {"new"}] /\ queue' \in [Sessions -> Seq(Events)]
  /\ sops' \in [Sessions -> SUBSET {"recv", "write", "silence"}]
  /\ told' \in [Sessions -> {"none", "connected", "disconnected"}]

LEMMA SessionStep ==
  ASSUME IInv, NEW s \in Sessions, ~Drained, Elsewise(s), Fine(s)'
  PROVE  IInv'
<1>1. Typed'
  BY DEF IInv, Typed, TypeOK, Elsewise, Sorted, Strands
<1>2. NoSession # s
  BY NamesAssumption
<1>3. ServerOK' /\ AppOK'
  BY <1>2, ServerUntouched DEF Elsewise, Own
<1>4. ASSUME NEW r \in Sessions
      PROVE  Fine(r)'
  <2>1. CASE r # s
    <3>1. Fine(r) /\ (r \in held => r \in holders)
      BY DEF IInv, Fine, SessionOK, Counted
    <3>2. QED
      BY <2>1, <3>1, Untouched DEF Elsewise
  <2>2. QED
    BY <2>1
<1>5. QED
  BY <1>1, <1>3, <1>4 DEF IInv

LEMMA TypesNow ==
  ASSUME IInv
  PROVE  /\ sstate \in [Sessions -> States \cup {"new"}] /\ queue \in [Sessions -> Seq(Events)]
         /\ sops \in [Sessions -> SUBSET {"recv", "write", "silence"}]
         /\ told \in [Sessions -> {"none", "connected", "disconnected"}]
         /\ sopen \subseteq Sessions /\ sessions \subseteq Sessions /\ held \subseteq Sessions
         /\ \A s \in Sessions : sstate[s] \in States \cup {"new"} /\ queue[s] \in Seq(Events)
         /\ Sorted(posted) /\ Sorted(stack)
BY DEF IInv, Typed, TypeOK

\* Kinds of tasks that no part of the invariant counts, but that they are alive.
LEMMA HarmlessKinds ==
  ASSUME NEW n \in Censuses, NEW r, NEW x, NEW k,
         k \in {"user", "again", "recv1", "recv", "recv2", "silence"} \/ (k = "push" /\ x \notin Disconnect)
  PROVE  \A c \in Classes \ {"lives"} : More(n, r, Task(k, r, x))[c] = n[c] /\ Less(n, r, Task(k, r, x))[c] = n[c]
<1>1. ASSUME NEW c \in Classes \ {"lives"}
      PROVE  Bit(c, r, Task(k, r, x)) = 0
  <2>1. ~(k \in KindsOf(c) /\ (c = "pushes" => x \in Disconnect))
    BY DEF Classes, KindsOf, LiveKinds
  <2>2. QED
    BY <2>1, TaskParts DEF Bit
<1>2. \A c \in Classes : n[c] \in Nat
  BY DEF Censuses
<1>3. QED
  BY <1>1, <1>2 DEF More, Less

\* A step of session s that leaves it as it is, but for harmless tasks and
\* operations.
LEMMA HarmlessStep ==
  ASSUME IInv, NEW s \in Sessions, ~Drained, Elsewise(s), s \in holders,
         \A c \in Classes \ {"lives"} : Census(s, posted', stack')[c] = Census(s, posted, stack)[c],
         UNCHANGED <<sstate, queue, told, sessions>>, "write" \in sops'[s] <=> "write" \in sops[s]
  PROVE  IInv'
<1> DEFINE n == Census(s, posted, stack)
           m == Census(s, posted', stack')
<1>1. SessionOK(n, s, sstate[s], queue[s], sops[s], sessions, holders, held, told[s], accepting)
  BY DEF IInv, Fine
<1>2. n \in Censuses
  BY CensusNow
<1>3. m \in Censuses
  BY CensusType DEF Elsewise
<1>4. \A c \in Classes \ {"lives"} : m[c] = n[c]
  OBVIOUS
<1> HIDE DEF n, m
<1>5. SessionOK(m, s, sstate[s], queue[s], sops'[s], sessions, holders, held, told[s], accepting)
  BY <1>1, <1>2, <1>3, <1>4, Harmless
<1>6. Fine(s)'
  BY <1>5 DEF Fine, Elsewise, m
<1>7. QED
  BY <1>6, SessionStep

\* An event is pushed to session s, over the strands P and S.
LEMMA Pushed ==
  ASSUME NEW s \in Sessions, NEW ev \in Events, NEW here \in BOOLEAN, NEW P, Sorted(P), NEW S, Sorted(S),
         PushEvent(s, ev, here, P, S), queue \in [Sessions -> Seq(Events)]
  PROVE  /\ Sorted(posted') /\ Sorted(stack') /\ queue' \in [Sessions -> Seq(Events)]
         /\ \A r \in Sessions \ {s} : queue'[r] = queue[r]
         /\ \A r : r # s => Census(r, posted', stack') = Census(r, P, S)
         /\ \A c \in Classes \ {"pushes", "bodies", "lives"} : Census(s, posted', stack')[c] = Census(s, P, S)[c]
         /\ \/ /\ queue'[s] = Append(queue[s], ev)
               /\ Census(s, posted', stack')["pushes"] = Census(s, P, S)["pushes"]
               /\ Census(s, posted', stack')["bodies"]
                    = Census(s, P, S)["bodies"] + (IF queue[s] = <<>> THEN 1 ELSE 0)
            \/ /\ queue'[s] = queue[s]
               /\ Census(s, posted', stack')["pushes"]
                    = Census(s, P, S)["pushes"] + (IF ev \in Disconnect THEN 1 ELSE 0)
               /\ Census(s, posted', stack')["bodies"] = Census(s, P, S)["bodies"]
<1> DEFINE body == Task("body", s, "-")
           push == Task("push", s, ev)
           h == Home[s]
<1>1. h \in Ios /\ body \in Allowed(h) /\ push \in Allowed(h) /\ push = PushTask(s, ev) /\ body.s = s /\ push.s = s
  <2>1. h \in Ios
    BY IosFinite
  <2>2. "body" \in HomeKinds \ {"push"} /\ "-" \in Args
    BY DEF HomeKinds, Args
  <2>3. body \in Allowed(h)
    BY <2>2, TaskTypes
  <2>4. PushTask(s, ev) \in Allowed(h)
    BY TaskTypes
  <2>5. QED
    BY <2>1, <2>3, <2>4, TaskParts DEF PushTask
<1>2. \A r : Census(r, P, S) \in Censuses
  BY CensusType
<1>3. queue[s] \in Seq(Events)
  OBVIOUS
<1>4. CASE here /\ queue[s] # <<>>
  <2>1. posted' = P /\ stack' = S /\ queue' = [queue EXCEPT ![s] = Append(queue[s], ev)]
    BY <1>4 DEF PushEvent
  <2>2. Census(s, P, S)["bodies"] \in Nat
    BY <1>2, CensusNat
  <2>3. Census(s, P, S)["bodies"] = Census(s, P, S)["bodies"] + (IF queue[s] = <<>> THEN 1 ELSE 0)
    BY <2>2, <1>4
  <2>4. QED
    BY <2>1, <2>3, <1>3
<1>5. CASE here /\ queue[s] = <<>>
  <2>1. posted' = P /\ stack' = Call(S, h, body) /\ queue' = [queue EXCEPT ![s] = Append(queue[s], ev)]
    BY <1>5 DEF PushEvent
  <2> HIDE DEF body, h
  <2>2. Sorted(stack')
    BY <1>1, <2>1, SortedPost
  <2>3. \A r : Census(r, posted', stack') = More(Census(r, P, S), r, body)
    BY <1>1, <2>1, CensusPost
  <2>4. \A r : r # s => Census(r, posted', stack') = Census(r, P, S)
    BY <2>3, <1>1, <1>2, Elsewhere
  <2>5. \A c \in Classes : More(Census(s, P, S), s, body)[c]
          = Census(s, P, S)[c] + (IF "body" \in KindsOf(c) /\ (c = "pushes" => "-" \in Disconnect) THEN 1 ELSE 0)
    BY <1>2, CensusMoves DEF body
  <2>6. \A c \in Classes : Census(s, P, S)[c] \in Nat
    BY <1>2 DEF Censuses
  <2>7. ASSUME NEW c \in Classes \ {"bodies", "lives"}
        PROVE  Census(s, posted', stack')[c] = Census(s, P, S)[c]
    <3>1. "body" \notin KindsOf(c)
      BY KindTable
    <3>2. Census(s, posted', stack')[c] = Census(s, P, S)[c] + 0
      BY <2>3, <2>5, <3>1
    <3>3. Census(s, P, S)[c] \in Nat
      BY <2>6
    <3>4. QED
      BY <3>2, <3>3
  <2>8. Census(s, posted', stack')["bodies"] = Census(s, P, S)["bodies"] + 1
    BY <2>3, <2>5, <2>6, KindTable DEF Classes
  <2>9. "pushes" \in Classes
    BY DEF Classes
  <2>10. QED
    BY <2>1, <2>2, <2>4, <2>7, <2>8, <2>9, <1>3, <1>5
<1>6. CASE ~here
  <2>1. posted' = Post(P, h, push) /\ stack' = S /\ queue' = queue
    BY <1>1, <1>6 DEF PushEvent
  <2> HIDE DEF push, h
  <2>2. Sorted(posted')
    BY <1>1, <2>1, SortedPost
  <2>3. \A r : Census(r, posted', stack') = More(Census(r, P, S), r, push)
    BY <1>1, <2>1, CensusPost
  <2>4. \A r : r # s => Census(r, posted', stack') = Census(r, P, S)
    BY <2>3, <1>1, <1>2, Elsewhere
  <2>5. \A c \in Classes : More(Census(s, P, S), s, push)[c]
          = Census(s, P, S)[c] + (IF "push" \in KindsOf(c) /\ (c = "pushes" => ev \in Disconnect) THEN 1 ELSE 0)
    BY <1>2, CensusMoves DEF push
  <2>6. \A c \in Classes : Census(s, P, S)[c] \in Nat
    BY <1>2 DEF Censuses
  <2>7. ASSUME NEW c \in Classes \ {"pushes", "lives"}
        PROVE  Census(s, posted', stack')[c] = Census(s, P, S)[c]
    <3>1. "push" \notin KindsOf(c)
      BY KindTable
    <3>2. Census(s, posted', stack')[c] = Census(s, P, S)[c] + 0
      BY <2>3, <2>5, <3>1
    <3>3. Census(s, P, S)[c] \in Nat
      BY <2>6
    <3>4. QED
      BY <3>2, <3>3
  <2>8. Census(s, posted', stack')["pushes"] = Census(s, P, S)["pushes"] + (IF ev \in Disconnect THEN 1 ELSE 0)
    BY <2>3, <2>5, <2>6, KindTable DEF Classes
  <2>9. "bodies" \in Classes
    BY DEF Classes
  <2>10. QED
    BY <2>1, <2>2, <2>4, <2>7, <2>8, <2>9, <1>3
<1>7. QED
  BY <1>4, <1>5, <1>6

\* _do_disconnect of a session that is not stopping, over the strands P and S.
LEMMA DisconnectStep ==
  ASSUME IInv, ~Drained, NEW s \in Sessions, sstate[s] \in Disconnect, NEW here \in BOOLEAN,
         NEW P, Sorted(P), NEW S, Sorted(S), DoDisconnect(s, here, P, S),
         \A r \in (Sessions \cup {NoSession}) \ {s} : Census(r, P, S) = Census(r, posted, stack),
         \A c \in {"accepts", "closings", "writes", "pushes", "bodies"} :
           Census(s, P, S)[c] = Census(s, posted, stack)[c],
         \A c \in {"begins", "connects", "joins"} : Census(s, P, S)[c] <= Census(s, posted, stack)[c],
         UNCHANGED <<serverVars, sessions, sopen, sops, user>>
  PROVE  IInv'
<1> DEFINE n == Census(s, posted, stack)
           o == Census(s, P, S)
           m == Census(s, posted', stack')
           ev == sstate[s]
<1>1. PushEvent(s, ev, here, P, S) /\ sstate' = [sstate EXCEPT ![s] = "stopping"] /\ ev \in Disconnect /\ ev \in Events
  BY DEF DoDisconnect, Events
<1>2. queue[s] \in Seq(Events) /\ queue \in [Sessions -> Seq(Events)]
  BY TypesNow
<1>3. n \in Censuses /\ o \in Censuses
  BY CensusNow, CensusType
<1> HIDE DEF ev
<1>4. /\ Sorted(posted') /\ Sorted(stack') /\ queue' \in [Sessions -> Seq(Events)]
      /\ \A r \in Sessions \ {s} : queue'[r] = queue[r]
      /\ \A r : r # s => Census(r, posted', stack') = Census(r, P, S)
      /\ \A c \in Classes \ {"pushes", "bodies", "lives"} : m[c] = o[c]
      /\ \/ /\ queue'[s] = Append(queue[s], ev) /\ m["pushes"] = o["pushes"]
            /\ m["bodies"] = o["bodies"] + (IF queue[s] = <<>> THEN 1 ELSE 0)
         \/ /\ queue'[s] = queue[s] /\ m["pushes"] = o["pushes"] + (IF ev \in Disconnect THEN 1 ELSE 0)
            /\ m["bodies"] = o["bodies"]
  BY <1>1, <1>2, Pushed
<1>5. m \in Censuses
  BY <1>4, CensusType
<1>6. Elsewise(s)
  BY <1>1, <1>4, TypesNow DEF Elsewise, serverVars, user, bounds, States
<1>7. SessionOK(n, s, ev, queue[s], sops[s], sessions, holders, held, told[s], accepting)
  BY DEF IInv, Fine, ev
<1>8. /\ o["accepts"] = n["accepts"] /\ o["closings"] = n["closings"] /\ o["writes"] = n["writes"]
      /\ o["pushes"] = n["pushes"] /\ o["bodies"] = n["bodies"]
      /\ o["begins"] <= n["begins"] /\ o["connects"] <= n["connects"] /\ o["joins"] <= n["joins"]
  OBVIOUS
<1>9. /\ m["accepts"] = o["accepts"] /\ m["closings"] = o["closings"] /\ m["writes"] = o["writes"]
      /\ m["begins"] = o["begins"] /\ m["connects"] = o["connects"] /\ m["joins"] = o["joins"]
  BY <1>4 DEF Classes
<1> DEFINE q2 == queue'[s]
<1>10. \/ /\ q2 = Append(queue[s], ev) /\ m["pushes"] = n["pushes"]
          /\ m["bodies"] = n["bodies"] + (IF queue[s] = <<>> THEN 1 ELSE 0)
       \/ /\ q2 = queue[s] /\ m["pushes"] = n["pushes"] + 1 /\ m["bodies"] = n["bodies"]
  BY <1>1, <1>4, <1>8
<1> HIDE DEF n, o, m, q2
<1>11. \A c \in {"accepts", "closings", "writes"} : m[c] = n[c]
  BY <1>8, <1>9
<1>12. \A c \in {"begins", "connects", "joins"} : m[c] <= n[c]
  BY <1>8, <1>9
<1>13. SessionOK(m, s, "stopping", q2, sops[s], sessions, holders, held, told[s], accepting)
  BY <1>1, <1>2, <1>3, <1>5, <1>7, <1>10, <1>11, <1>12, Disconnected
<1>14. sstate'[s] = "stopping"
  BY <1>1, TypesNow
<1>15. Fine(s)'
  BY <1>13, <1>14 DEF Fine, m, q2, serverVars, user
<1>16. QED
  BY <1>6, <1>15, SessionStep

-----------------------------------------------------------------------------
(* Handlers that come and go.                                              *)

\* The strands without the handler on top of strand i.
LEMMA Popped ==
  ASSUME IInv, NEW i \in Ios, NEW k, At(i, k), NEW s, NEW x, Top(i) = Task(k, s, x)
  PROVE  /\ ~Drained /\ Sorted(posted) /\ Sorted(Below(i))
         /\ \A r : r # s => Census(r, posted, Below(i)) = Census(r, posted, stack)
         /\ \A c \in Classes : Census(s, posted, Below(i))[c] = Census(s, posted, stack)[c]
              - (IF k \in KindsOf(c) /\ (c = "pushes" => x \in Disconnect) THEN 1 ELSE 0)
         /\ \A c \in Classes : Census(s, posted, stack)[c] \in Nat
<1>1. ~Drained /\ Sorted(posted) /\ Sorted(Below(i)) /\ Top(i).s = s
  BY TopIs, TaskParts
<1>2. \A r : /\ Census(r, posted, stack) \in Censuses
             /\ Census(r, posted, Below(i)) = Less(Census(r, posted, stack), r, Top(i))
             /\ r # s => Census(r, posted, Below(i)) = Census(r, posted, stack)
  BY <1>1, CensusTop
<1>3. \A c \in Classes : Census(s, posted, stack)[c] \in Nat
  BY <1>2 DEF Censuses
<1>4. QED
  BY <1>1, <1>2, <1>3, CensusMoves

\* The strands with one more task.
LEMMA Added ==
  ASSUME NEW P, Sorted(P), NEW S, Sorted(S), NEW i \in Ios, NEW k, NEW s, NEW x, Task(k, s, x) \in Allowed(i),
         NEW P2, NEW S2, \/ P2 = Post(P, i, Task(k, s, x)) /\ S2 = S
                         \/ S2 = Call(S, i, Task(k, s, x)) /\ P2 = P
  PROVE  /\ Sorted(P2) /\ Sorted(S2)
         /\ \A r : r # s => Census(r, P2, S2) = Census(r, P, S)
         /\ \A c \in Classes : Census(s, P2, S2)[c] = Census(s, P, S)[c]
              + (IF k \in KindsOf(c) /\ (c = "pushes" => x \in Disconnect) THEN 1 ELSE 0)
<1> DEFINE t == Task(k, s, x)
<1>1. t.s = s /\ \A r : Census(r, P, S) \in Censuses
  BY TaskParts, CensusType
<1>2. t \in Allowed(i) /\ ((P2 = Post(P, i, t) /\ S2 = S) \/ (S2 = Call(S, i, t) /\ P2 = P))
  OBVIOUS
<1> HIDE DEF t
<1>3. Sorted(P2) /\ Sorted(S2)
  BY <1>2, SortedPost
<1>4. \A r : Census(r, P2, S2) = More(Census(r, P, S), r, t)
  BY <1>2, CensusPost
<1>5. \A r : r # s => Census(r, P2, S2) = Census(r, P, S)
  BY <1>1, <1>4, Elsewhere
<1>6. \A c \in Classes : More(Census(s, P, S), s, t)[c] = Census(s, P, S)[c]
              + (IF k \in KindsOf(c) /\ (c = "pushes" => x \in Disconnect) THEN 1 ELSE 0)
  BY <1>1, CensusMoves DEF t
<1>7. QED
  BY <1>3, <1>4, <1>5, <1>6

\* The common case of DisconnectStep: only harmless tasks went before.
LEMMA DisconnectHere ==
  ASSUME IInv, ~Drained, NEW s \in Sessions, sstate[s] \in Disconnect, NEW here \in BOOLEAN,
         NEW S, Sorted(S), DoDisconnect(s, here, posted, S),
         \A r : r # s => Census(r, posted, S) = Census(r, posted, stack),
         \A c \in Classes \ {"lives"} : Census(s, posted, S)[c] = Census(s, posted, stack)[c],
         UNCHANGED <<serverVars, sessions, sopen, sops, user>>
  PROVE  IInv'
<1>1. \A c \in {"accepts", "closings", "writes", "pushes", "bodies"} :
        Census(s, posted, S)[c] = Census(s, posted, stack)[c]
  BY DEF Classes
<1>2. \A c \in {"begins", "connects", "joins"} :
        Census(s, posted, S)[c] = Census(s, posted, stack)[c] /\ Census(s, posted, stack)[c] \in Nat
  BY CensusNow, CensusNat DEF Classes
<1>3. \A c \in {"begins", "connects", "joins"} : Census(s, posted, S)[c] <= Census(s, posted, stack)[c]
  BY <1>2
<1>4. \A r \in (Sessions \cup {NoSession}) \ {s} : Census(r, posted, S) = Census(r, posted, stack)
  OBVIOUS
<1>5. Sorted(posted)
  BY TypesNow
<1>6. QED
  BY <1>1, <1>3, <1>4, <1>5, DisconnectStep

LEMMA StartRecvKeeps ==
  ASSUME IInv, NEW i \in Ios, StartRecv(i)
  PROVE  IInv'
<1>1. At(i, "recv1") /\ "recv1" \in LiveKinds /\ "recv1" \notin OwnKinds \cup {"user"}
  BY DEF StartRecv, LiveKinds, HomeKinds, MapKinds, OwnKinds
<1>2. PICK s \in Sessions, x \in Args : /\ Top(i) = Task("recv1", s, x) /\ Top(i).s = s /\ Top(i).x = x
                                       /\ s \in holders
  BY <1>1, HandlerOf
<1>3. /\ ~Drained /\ Sorted(posted) /\ Sorted(Below(i))
      /\ \A r : r # s => Census(r, posted, Below(i)) = Census(r, posted, stack)
      /\ \A c \in Classes : Census(s, posted, Below(i))[c] = Census(s, posted, stack)[c]
           - (IF "recv1" \in KindsOf(c) /\ (c = "pushes" => x \in Disconnect) THEN 1 ELSE 0)
      /\ \A c \in Classes : Census(s, posted, stack)[c] \in Nat
  BY <1>1, <1>2, Popped
<1>4. posted' = posted /\ stack' = Below(i) /\ UNCHANGED <<serverVars, sessions, sstate, sopen, queue, user>>
  BY DEF StartRecv
<1>5. sops' = [sops EXCEPT ![s] = @ \cup {"silence"} \cup Reads(s)] /\ Reads(s) \subseteq {"recv"}
  BY <1>2 DEF StartRecv, Reads
<1>6. Elsewise(s)
  BY <1>3, <1>4, <1>5, NamesAssumption, TypesNow DEF Elsewise, serverVars, user, bounds
<1>7. \A c \in Classes \ {"lives"} : Census(s, posted', stack')[c] = Census(s, posted, stack)[c]
  BY <1>3, <1>4, KindTable
<1>8. "write" \in sops'[s] <=> "write" \in sops[s]
  BY <1>5, TypesNow
<1>9. QED
  BY <1>2, <1>3, <1>4, <1>6, <1>7, <1>8, HarmlessStep DEF user

LEMMA HandleRecv2Keeps ==
  ASSUME IInv, NEW i \in Ios, HandleRecv2(i)
  PROVE  IInv'
<1>1. At(i, "recv2") /\ "recv2" \in LiveKinds /\ "recv2" \notin OwnKinds \cup {"user"}
  BY DEF HandleRecv2, LiveKinds, HomeKinds, MapKinds, OwnKinds
<1>2. PICK s \in Sessions, x \in Args : /\ Top(i) = Task("recv2", s, x) /\ Top(i).s = s /\ Top(i).x = x
                                       /\ s \in holders
  BY <1>1, HandlerOf
<1>3. /\ ~Drained /\ Sorted(posted) /\ Sorted(Below(i))
      /\ \A r : r # s => Census(r, posted, Below(i)) = Census(r, posted, stack)
      /\ \A c \in Classes : Census(s, posted, Below(i))[c] = Census(s, posted, stack)[c]
           - (IF "recv2" \in KindsOf(c) /\ (c = "pushes" => x \in Disconnect) THEN 1 ELSE 0)
      /\ \A c \in Classes : Census(s, posted, stack)[c] \in Nat
  BY <1>1, <1>2, Popped
<1>4. posted' = posted /\ stack' = Below(i) /\ UNCHANGED <<serverVars, sessions, sstate, sopen, queue, user>>
  BY DEF HandleRecv2
<1>5. sops' = [sops EXCEPT ![s] = @ \cup Reads(s)] /\ Reads(s) \subseteq {"recv"}
  BY <1>2 DEF HandleRecv2, Reads
<1>6. Elsewise(s)
  BY <1>3, <1>4, <1>5, NamesAssumption, TypesNow DEF Elsewise, serverVars, user, bounds
<1>7. \A c \in Classes \ {"lives"} : Census(s, posted', stack')[c] = Census(s, posted, stack)[c]
  BY <1>3, <1>4, KindTable
<1>8. "write" \in sops'[s] <=> "write" \in sops[s]
  BY <1>5, TypesNow
<1>9. QED
  BY <1>2, <1>3, <1>4, <1>6, <1>7, <1>8, HarmlessStep DEF user

LEMMA HandleRecvKeeps ==
  ASSUME IInv, NEW i \in Ios, HandleRecv(i)
  PROVE  IInv'
<1>1. At(i, "recv") /\ "recv" \in LiveKinds /\ "recv" \notin OwnKinds \cup {"user"}
  BY DEF HandleRecv, LiveKinds, HomeKinds, MapKinds, OwnKinds
<1>2. PICK s \in Sessions, x \in Args : /\ Top(i) = Task("recv", s, x) /\ Top(i).s = s /\ Top(i).x = x
                                       /\ s \in holders
  BY <1>1, HandlerOf
<1>3. /\ ~Drained /\ Sorted(posted) /\ Sorted(Below(i))
      /\ \A r : r # s => Census(r, posted, Below(i)) = Census(r, posted, stack)
      /\ \A c \in Classes : Census(s, posted, Below(i))[c] = Census(s, posted, stack)[c]
           - (IF "recv" \in KindsOf(c) /\ (c = "pushes" => x \in Disconnect) THEN 1 ELSE 0)
      /\ \A c \in Classes : Census(s, posted, stack)[c] \in Nat
  BY <1>1, <1>2, Popped
<1>4. UNCHANGED <<serverVars, sessions, sopen, sops, user>>
  BY DEF HandleRecv
<1>5. \A c \in Classes \ {"lives"} : Census(s, posted, Below(i))[c] = Census(s, posted, stack)[c]
  BY <1>3, KindTable
<1>6. CASE sstate[s] \in Disconnect /\ x # "ok"
  <2>1. DoDisconnect(s, TRUE, posted, Below(i))
    BY <1>2, <1>6 DEF HandleRecv
  <2>2. QED
    BY <1>3, <1>4, <1>5, <1>6, <2>1, DisconnectHere
<1>7. CASE sstate[s] \notin Disconnect /\ x # "ok"
  <2>1. posted' = posted /\ stack' = Below(i) /\ UNCHANGED <<sstate, queue>>
    BY <1>2, <1>7 DEF HandleRecv, DoDisconnect
  <2>2. Elsewise(s)
    BY <1>3, <1>4, <2>1, NamesAssumption, TypesNow DEF Elsewise, serverVars, user, bounds
  <2>3. QED
    BY <1>2, <1>3, <1>4, <1>5, <2>1, <2>2, HarmlessStep DEF user
<1>8. CASE x = "ok"
  <2> DEFINE S1 == Call(Below(i), i, Task("recv2", s, "-"))
  <2>1. posted' = posted /\ stack' = Call(S1, i, Task("user", s, "-")) /\ UNCHANGED <<sstate, queue>>
    BY <1>2, <1>8 DEF HandleRecv, User
  <2>2. Task("recv2", s, "-") \in Allowed(i) /\ Task("user", s, "-") \in Allowed(i)
    BY TaskTypes DEF HomeKinds, Args
  <2>3. /\ Sorted(S1) /\ \A r : r # s => Census(r, posted, S1) = Census(r, posted, Below(i))
        /\ \A c \in Classes : Census(s, posted, S1)[c] = Census(s, posted, Below(i))[c]
             + (IF "recv2" \in KindsOf(c) /\ (c = "pushes" => "-" \in Disconnect) THEN 1 ELSE 0)
    BY <1>3, <2>2, Added
  <2> HIDE DEF S1
  <2>4. /\ Sorted(stack') /\ Sorted(posted') /\ \A r : r # s => Census(r, posted', stack') = Census(r, posted, S1)
        /\ \A c \in Classes : Census(s, posted', stack')[c] = Census(s, posted, S1)[c]
             + (IF "user" \in KindsOf(c) /\ (c = "pushes" => "-" \in Disconnect) THEN 1 ELSE 0)
    BY <1>3, <2>1, <2>2, <2>3, Added
  <2>5. Elsewise(s)
    BY <1>3, <1>4, <2>1, <2>3, <2>4, NamesAssumption, TypesNow DEF Elsewise, serverVars, user, bounds
  <2>6. \A c \in Classes \ {"lives"} : Census(s, posted', stack')[c] = Census(s, posted, stack)[c]
    BY <1>3, <1>5, <2>3, <2>4, KindTable
  <2>7. QED
    BY <1>2, <1>3, <1>4, <2>1, <2>5, <2>6, HarmlessStep DEF user
<1>9. QED
  BY <1>6, <1>7, <1>8

LEMMA HandleSilenceKeeps ==
  ASSUME IInv, NEW i \in Ios, HandleSilence(i)
  PROVE  IInv'
<1>1. At(i, "silence") /\ "silence" \in LiveKinds /\ "silence" \notin OwnKinds \cup {"user"}
  BY DEF HandleSilence, LiveKinds, HomeKinds, MapKinds, OwnKinds
<1>2. PICK s \in Sessions, x \in Args : /\ Top(i) = Task("silence", s, x) /\ Top(i).s = s /\ Top(i).x = x
                                       /\ s \in holders
  BY <1>1, HandlerOf
<1>3. /\ ~Drained /\ Sorted(posted) /\ Sorted(Below(i))
      /\ \A r : r # s => Census(r, posted, Below(i)) = Census(r, posted, stack)
      /\ \A c \in Classes : Census(s, posted, Below(i))[c] = Census(s, posted, stack)[c]
           - (IF "silence" \in KindsOf(c) /\ (c = "pushes" => x \in Disconnect) THEN 1 ELSE 0)
      /\ \A c \in Classes : Census(s, posted, stack)[c] \in Nat
  BY <1>1, <1>2, Popped
<1>4. UNCHANGED <<serverVars, sessions, sopen, user>>
  BY DEF HandleSilence
<1>5. \A c \in Classes \ {"lives"} : Census(s, posted, Below(i))[c] = Census(s, posted, stack)[c]
  BY <1>3, KindTable
<1>6. CASE sstate[s] \in Disconnect /\ DoDisconnect(s, TRUE, posted, Below(i)) /\ UNCHANGED sops
  <2>1. DoDisconnect(s, TRUE, posted, Below(i)) /\ UNCHANGED <<serverVars, sessions, sopen, sops, user>>
    BY <1>4, <1>6
  <2>2. QED
    BY <1>3, <1>5, <1>6, <2>1, DisconnectHere
<1>7. CASE /\ posted' = posted /\ stack' = Below(i) /\ UNCHANGED <<sstate, queue>>
           /\ sops' = sops \/ sops' = [sops EXCEPT ![s] = @ \cup {"silence"}]
  <2>1. sops' \in [Sessions -> SUBSET {"recv", "write", "silence"}] /\ \A r \in Sessions \ {s} : sops'[r] = sops[r]
    <3>1. CASE sops' = sops
      BY <3>1, TypesNow
    <3>2. CASE sops' = [sops EXCEPT ![s] = @ \cup {"silence"}]
      BY <3>2, TypesNow
    <3>3. QED
      BY <1>7, <3>1, <3>2
  <2>2. "write" \in sops'[s] <=> "write" \in sops[s]
    BY <1>7, TypesNow
  <2>3. Elsewise(s)
    BY <1>3, <1>4, <1>7, <2>1, NamesAssumption, TypesNow DEF Elsewise, serverVars, user, bounds
  <2>4. QED
    BY <1>2, <1>3, <1>4, <1>5, <1>7, <2>2, <2>3, HarmlessStep DEF user
<1>8. QED
  BY <1>2, <1>6, <1>7 DEF HandleSilence, DoDisconnect

\* No session changes, but who else has its pointer.
LEMMA SessionsKept ==
  ASSUME IInv, UNCHANGED <<sstate, queue, sops, told, sessions>>,
         \A r \in Sessions : /\ Census(r, posted', stack') = Census(r, posted, stack)
                             /\ (r \in holders' <=> r \in holders) /\ (r \in held' => r \in held \cup holders)
                             /\ (accepting' = r => accepting = r)
  PROVE  \A r \in Sessions : Fine(r)'
<1>1. ASSUME NEW r \in Sessions
      PROVE  Fine(r)'
  <2>1. Fine(r) /\ (r \in held => r \in holders)
    BY DEF IInv, Fine, SessionOK, Counted
  <2>2. QED
    BY <2>1, Untouched
<1>2. QED
  BY <1>1

LEMMA CallbackReturnsKeeps ==
  ASSUME IInv, NEW i \in Ios, CallbackReturns(i)
  PROVE  IInv'
<1> DEFINE k == "user"
<1>1. At(i, k) /\ UNCHANGED <<serverVars, sessions, sessionVars, posted, user>> /\ stack' = Below(i)
  BY DEF CallbackReturns
<1>2. PICK s \in Sessions \cup {NoSession}, x \in Args :
        Top(i) = Task(k, s, x) /\ Top(i).s = s /\ (s \in Sessions => s \in holders)
  BY <1>1, TopIs DEF LiveKinds, HomeKinds
<1>3. /\ ~Drained /\ Sorted(posted) /\ Sorted(Below(i))
      /\ \A r : r # s => Census(r, posted, Below(i)) = Census(r, posted, stack)
      /\ \A c \in Classes : Census(s, posted, Below(i))[c] = Census(s, posted, stack)[c]
           - (IF k \in KindsOf(c) /\ (c = "pushes" => x \in Disconnect) THEN 1 ELSE 0)
      /\ \A c \in Classes : Census(s, posted, stack)[c] \in Nat
  BY <1>1, <1>2, Popped
<1>4. \A c \in Classes \ {"lives"} : Census(s, posted', stack')[c] = Census(s, posted, stack)[c]
  BY <1>1, <1>3, KindTable
<1>5. CASE s \in Sessions
  <2>1. Elsewise(s)
    BY <1>1, <1>3, <1>5, NamesAssumption, TypesNow DEF Elsewise, serverVars, sessionVars, user, bounds
  <2>2. QED
    BY <1>1, <1>2, <1>3, <1>4, <1>5, <2>1, HarmlessStep DEF sessionVars, user
<1>6. CASE s = NoSession
  <2>1. \A c \in {"starts", "stops", "execs"} : Census(NoSession, posted', stack')[c] = Own[c]
    BY <1>4, <1>6 DEF Own, Classes
  <2>2. ServerOK' /\ AppOK'
    BY <1>1, <1>3, <2>1, ServerUntouched DEF serverVars, user
  <2>3. \A r \in Sessions : Fine(r)'
    BY <1>1, <1>3, <1>6, NamesAssumption, SessionsKept DEF serverVars, sessionVars, user
  <2>4. Typed'
    BY <1>1, <1>3 DEF IInv, Typed, TypeOK, Sorted, Strands, serverVars, sessionVars, user, bounds
  <2>5. QED
    BY <2>2, <2>3, <2>4 DEF IInv
<1>7. QED
  BY <1>5, <1>6

LEMMA CallbackStopsSessionKeeps ==
  ASSUME IInv, NEW i \in Ios, CallbackStopsSession(i)
  PROVE  IInv'
<1>1. At(i, "user") /\ UNCHANGED <<serverVars, sessions, sopen, sops, user>> /\ ~Drained
  BY TopIs DEF CallbackStopsSession, InCallback
<1>2. PICK s \in Sessions : /\ sstate[s] \in Disconnect
                            /\ DoDisconnect(s, i = Home[s], posted, stack)
  BY <1>1, TopIs DEF CallbackStopsSession
<1>3. PICK here \in BOOLEAN : here = (i = Home[s])
  OBVIOUS
<1>4. DoDisconnect(s, here, posted, stack) /\ Sorted(stack)
  BY <1>2, <1>3, TypesNow
<1>5. QED
  BY <1>1, <1>2, <1>4, DisconnectHere

LEMMA HolderStopsKeeps ==
  ASSUME IInv, NEW s \in Sessions, HolderStops(s)
  PROVE  IInv'
<1>1. /\ sstate[s] \in Disconnect /\ DoDisconnect(s, FALSE, posted, stack) /\ s \in held
      /\ UNCHANGED <<serverVars, sessions, sopen, sops, user>>
  BY DEF HolderStops
<1>2. ~Drained /\ Sorted(stack)
  BY <1>1, DrainedQuiet, TypesNow
<1>3. QED
  BY <1>1, <1>2, DisconnectHere

LEMMA CallbackKeepsKeeps ==
  ASSUME IInv, NEW i \in Ios, CallbackKeeps(i)
  PROVE  IInv'
<1>1. /\ At(i, "user") /\ Top(i).s \in Sessions /\ held' = held \cup {Top(i).s}
      /\ UNCHANGED <<serverVars, sessions, sessionVars, strands, told, app, ioStopped, bounds>>
  BY DEF CallbackKeeps, InCallback
<1>2. Top(i).s \in holders /\ ~Drained
  BY <1>1, TopIs DEF LiveKinds, HomeKinds
<1>3. \A r \in Sessions : Fine(r)'
  BY <1>1, <1>2, SessionsKept DEF serverVars, sessionVars, strands
<1>4. ServerOK' /\ AppOK'
  BY <1>1, <1>2, ServerUntouched DEF Own, serverVars, strands
<1>5. Typed'
  BY <1>1 DEF IInv, Typed, TypeOK, Sorted, Strands, serverVars, sessionVars, strands, bounds
<1>6. QED
  BY <1>3, <1>4, <1>5 DEF IInv

LEMMA HolderDropsKeeps ==
  ASSUME IInv, NEW s \in Sessions, HolderDrops(s)
  PROVE  IInv'
<1>1. /\ s \in held /\ held' = held \ {s}
      /\ UNCHANGED <<serverVars, sessions, sessionVars, strands, told, app, ioStopped, bounds>>
  BY DEF HolderDrops
<1>2. ~Drained
  BY <1>1, DrainedQuiet
<1>3. \A r \in Sessions : Fine(r)'
  BY <1>1, SessionsKept DEF serverVars, sessionVars, strands
<1>4. ServerOK' /\ AppOK'
  BY <1>1, <1>2, ServerUntouched DEF Own, serverVars, strands
<1>5. Typed'
  BY <1>1 DEF IInv, Typed, TypeOK, Sorted, Strands, serverVars, sessionVars, strands, bounds
<1>6. QED
  BY <1>3, <1>4, <1>5 DEF IInv

LEMMA RunNextKeeps ==
  ASSUME IInv, NEW i \in Ios, RunNext(i)
  PROVE  IInv'
<1>1. /\ posted[i] # <<>> /\ stack' = Call(stack, i, Head(posted[i])) /\ posted' = [posted EXCEPT ![i] = Tail(posted[i])]
      /\ UNCHANGED <<serverVars, sessions, sessionVars, user>>
  BY DEF RunNext
<1>2. Sorted(posted) /\ Sorted(stack) /\ ~Drained
  BY <1>1, DrainedQuiet, TypesNow
<1>3. Sorted(posted') /\ Sorted(stack')
  BY <1>1, <1>2, SortedTail, SortedPost
<1>4. \A r : Census(r, posted', stack') = Census(r, posted, stack)
  <2>1. \A r : Census(r, [posted EXCEPT ![i] = Tail(posted[i])], Call(stack, i, Head(posted[i])))
              = Census(r, posted, stack)
    BY <1>1, <1>2, CensusTaken
  <2>2. QED
    BY <2>1, <1>1
<1>5. \A r \in Sessions : Fine(r)'
  BY <1>1, <1>4, SessionsKept DEF serverVars, sessionVars, user
<1>6. ServerOK' /\ AppOK'
  BY <1>1, <1>2, <1>4, ServerUntouched DEF Own, serverVars, user
<1>7. Typed'
  BY <1>1, <1>3 DEF IInv, Typed, TypeOK, Sorted, Strands, serverVars, sessionVars, user, bounds
<1>8. QED
  BY <1>5, <1>6, <1>7 DEF IInv

-----------------------------------------------------------------------------
(* Operations that end, and the events of the queues.                      *)

Operations == {"recv", "write", "silence"}
Results    == {"ok", "err"}

LEMMA EndsKeeps ==
  ASSUME IInv, NEW s \in Sessions, NEW o \in Operations, NEW ec \in Results, Ends(s, o, ec)
  PROVE  IInv'
<1>1. /\ o \in sops[s] /\ sops' = [sops EXCEPT ![s] = @ \ {o}]
      /\ posted' = Post(posted, Home[s], Task(o, s, ec)) /\ stack' = stack
      /\ UNCHANGED <<serverVars, sessions, sstate, sopen, queue, user>>
  BY DEF Ends
<1>2. Home[s] \in Ios /\ Task(o, s, ec) \in Allowed(Home[s])
  <2>1. o \in HomeKinds \ {"push"} /\ ec \in Args
    BY DEF HomeKinds, Args, Operations, Results
  <2>2. QED
    BY <2>1, TaskTypes, IosFinite
<1> DEFINE n == Census(s, posted, stack)
           m == Census(s, posted', stack')
<1>3. /\ Sorted(posted') /\ Sorted(stack') /\ \A r : r # s => Census(r, posted', stack') = Census(r, posted, stack)
      /\ \A c \in Classes : m[c] = n[c] + (IF o \in KindsOf(c) /\ (c = "pushes" => ec \in Disconnect) THEN 1 ELSE 0)
  <2>1. Sorted(posted) /\ Sorted(stack)
    BY TypesNow
  <2> DEFINE t == Task(o, s, ec)
             h == Home[s]
             P2 == posted'
             S2 == stack'
  <2>2. P2 = Post(posted, h, t) /\ S2 = stack /\ h \in Ios /\ t \in Allowed(h)
    BY <1>1, <1>2
  <2> HIDE DEF h, P2, S2
  <2>3. /\ Sorted(P2) /\ Sorted(S2) /\ \A r : r # s => Census(r, P2, S2) = Census(r, posted, stack)
        /\ \A c \in Classes : Census(s, P2, S2)[c] = Census(s, posted, stack)[c]
             + (IF o \in KindsOf(c) /\ (c = "pushes" => ec \in Disconnect) THEN 1 ELSE 0)
    BY <2>1, <2>2, Added
  <2>4. QED
    BY <2>3 DEF P2, S2
<1>4. n \in Censuses /\ m \in Censuses /\ \A c \in Classes : n[c] \in Nat
  BY <1>3, CensusNow, CensusType DEF Censuses
<1>5. ~Drained
  BY <1>1, DrainedQuiet
<1>6. s \in holders
  BY <1>1 DEF IInv, Fine, SessionOK, Counted
<1>7. /\ sops' \in [Sessions -> SUBSET {"recv", "write", "silence"}] /\ \A r \in Sessions \ {s} : sops'[r] = sops[r]
      /\ sops'[s] = sops[s] \ {o}
  BY <1>1, TypesNow
<1>8. Elsewise(s)
  BY <1>1, <1>3, <1>7, NamesAssumption, TypesNow DEF Elsewise, serverVars, user, bounds
<1>9. CASE o # "write"
  <2>1. o \in {"recv", "silence"}
    BY <1>9 DEF Operations
  <2>2. \A c \in Classes \ {"lives"} : m[c] = n[c]
    BY <1>3, <1>4, <2>1, KindTable
  <2>3. "write" \in sops'[s] <=> "write" \in sops[s]
    BY <1>7, <1>9
  <2>4. QED
    BY <1>1, <1>5, <1>6, <1>8, <2>2, <2>3, HarmlessStep DEF user
<1>10. CASE o = "write"
  <2>1. SessionOK(n, s, sstate[s], queue[s], sops[s], sessions, holders, held, told[s], accepting)
    BY DEF IInv, Fine
  <2>2. \A c \in Classes \ {"bodies", "closings", "writes", "lives"} : m[c] = n[c]
    BY <1>3, <1>4, <1>10, KindTable
  <2>3. m["bodies"] = n["bodies"] /\ m["writes"] = n["writes"] + 1 /\ m["closings"] = n["closings"]
    BY <1>3, <1>4, <1>10, KindTable DEF Classes
  <2> HIDE DEF n, m
  <2>4. SessionOK(m, s, sstate[s], queue[s], sops'[s], sessions, holders, held, told[s], accepting)
    BY <1>1, <1>4, <1>7, <1>10, <2>1, <2>2, <2>3, HandedOn
  <2>5. Fine(s)'
    BY <1>1, <2>4 DEF Fine, serverVars, user, m
  <2>6. QED
    BY <1>5, <1>8, <2>5, SessionStep
<1>11. QED
  BY <1>9, <1>10

LEMMA RunPushKeeps ==
  ASSUME IInv, NEW i \in Ios, RunPush(i)
  PROVE  IInv'
<1>1. At(i, "push") /\ "push" \in LiveKinds /\ "push" \notin OwnKinds \cup {"user"}
  BY DEF RunPush, LiveKinds, HomeKinds, MapKinds, OwnKinds
<1>2. PICK s \in Sessions, x \in Args : /\ Top(i) = Task("push", s, x) /\ Top(i).s = s /\ Top(i).x = x
                                       /\ s \in holders /\ x \in Events
  BY <1>1, HandlerOf
<1>3. /\ ~Drained /\ Sorted(posted) /\ Sorted(Below(i))
      /\ \A r : r # s => Census(r, posted, Below(i)) = Census(r, posted, stack)
      /\ \A c \in Classes : Census(s, posted, Below(i))[c] = Census(s, posted, stack)[c]
           - (IF "push" \in KindsOf(c) /\ (c = "pushes" => x \in Disconnect) THEN 1 ELSE 0)
      /\ \A c \in Classes : Census(s, posted, stack)[c] \in Nat
  BY <1>1, <1>2, Popped
<1> DEFINE n == Census(s, posted, stack)
           o == Census(s, posted, Below(i))
           m == Census(s, posted', stack')
<1>4. PushEvent(s, x, TRUE, posted, Below(i)) /\ UNCHANGED <<serverVars, sessions, sstate, sopen, sops, user>>
  BY <1>2 DEF RunPush
<1>5. queue' = [queue EXCEPT ![s] = Append(queue[s], x)] /\ queue'[s] = Append(queue[s], x)
  BY <1>4, TypesNow DEF PushEvent
<1>6. /\ Sorted(posted') /\ Sorted(stack') /\ queue' \in [Sessions -> Seq(Events)]
      /\ \A r \in Sessions \ {s} : queue'[r] = queue[r]
      /\ \A r : r # s => Census(r, posted', stack') = Census(r, posted, Below(i))
      /\ \A c \in Classes \ {"pushes", "bodies", "lives"} : m[c] = o[c]
  <2>1. queue \in [Sessions -> Seq(Events)]
    BY TypesNow
  <2>2. PICK here \in BOOLEAN : here = TRUE
    OBVIOUS
  <2>3. PushEvent(s, x, here, posted, Below(i)) /\ Sorted(posted) /\ Sorted(Below(i)) /\ x \in Events
    BY <1>2, <1>3, <1>4, <2>2
  <2>4. QED
    BY <2>1, <2>3, Pushed
<1>7. m["pushes"] = o["pushes"] /\ m["bodies"] = o["bodies"] + (IF queue[s] = <<>> THEN 1 ELSE 0)
  <2> DEFINE t == Task("body", s, "-")
  <2>1. posted' = posted /\ stack' = IF queue[s] = <<>> THEN Call(Below(i), Home[s], t) ELSE Below(i)
    BY <1>4 DEF PushEvent
  <2>2. CASE queue[s] # <<>>
    BY <1>3, <2>1, <2>2, KindTable DEF Classes
  <2>3. CASE queue[s] = <<>>
    <3>1. Home[s] \in Ios /\ t \in Allowed(Home[s])
      BY IosFinite, TaskTypes DEF HomeKinds, Args
    <3>2. \A c \in Classes : m[c] = o[c] + (IF "body" \in KindsOf(c) /\ (c = "pushes" => "-" \in Disconnect) THEN 1 ELSE 0)
      BY <1>3, <2>1, <2>3, <3>1, Added
    <3>3. QED
      BY <1>3, <2>3, <3>2, KindTable DEF Classes
  <2>4. QED
    BY <2>2, <2>3
<1>8. SessionOK(n, s, sstate[s], queue[s], sops[s], sessions, holders, held, told[s], accepting)
  BY DEF IInv, Fine
<1>9. n \in Censuses /\ m \in Censuses /\ queue[s] \in Seq(Events)
  BY <1>6, CensusNow, CensusType, TypesNow
<1>10. \A c \in Classes \ {"pushes", "bodies", "lives"} : m[c] = n[c]
  BY <1>3, <1>6, KindTable
<1>11. /\ m["pushes"] = n["pushes"] - (IF x \in Disconnect THEN 1 ELSE 0)
       /\ m["bodies"] = n["bodies"] + (IF queue[s] = <<>> THEN 1 ELSE 0)
  BY <1>3, <1>7, KindTable DEF Classes
<1> HIDE DEF n, o, m
<1>12. SessionOK(m, s, sstate[s], Append(queue[s], x), sops[s], sessions, holders, held, told[s], accepting)
  BY <1>2, <1>8, <1>9, <1>10, <1>11, Arrived
<1>13. Fine(s)'
  BY <1>4, <1>5, <1>12 DEF Fine, serverVars, user, m
<1>14. Elsewise(s)
  BY <1>3, <1>4, <1>6, NamesAssumption, TypesNow DEF Elsewise, serverVars, user, bounds
<1>15. QED
  BY <1>3, <1>13, <1>14, SessionStep

LEMMA EventBodyKeeps ==
  ASSUME IInv, NEW i \in Ios, EventBody(i)
  PROVE  IInv'
<1>1. At(i, "body") /\ "body" \in LiveKinds /\ "body" \notin OwnKinds \cup {"user"}
  BY DEF EventBody, LiveKinds, HomeKinds, MapKinds, OwnKinds
<1>2. PICK s \in Sessions, x \in Args : /\ Top(i) = Task("body", s, x) /\ Top(i).s = s /\ Top(i).x = x
                                       /\ s \in holders
  BY <1>1, HandlerOf
<1>3. /\ ~Drained /\ Sorted(posted) /\ Sorted(Below(i))
      /\ \A r : r # s => Census(r, posted, Below(i)) = Census(r, posted, stack)
      /\ \A c \in Classes : Census(s, posted, Below(i))[c] = Census(s, posted, stack)[c]
           - (IF "body" \in KindsOf(c) /\ (c = "pushes" => x \in Disconnect) THEN 1 ELSE 0)
      /\ \A c \in Classes : Census(s, posted, stack)[c] \in Nat
  BY <1>1, <1>2, Popped
<1> DEFINE n == Census(s, posted, stack)
           m == Census(s, posted', stack')
           q == queue[s]
<1>4. UNCHANGED <<serverVars, sessions, sstate, sopen, queue, user>> /\ stack' = Below(i)
  BY DEF EventBody
<1>5. SessionOK(n, s, sstate[s], q, sops[s], sessions, holders, held, told[s], accepting) /\ n \in Censuses
  BY CensusNow DEF IInv, Fine
<1>6. n["bodies"] > 0
  <2>1. Census(s, posted, Below(i)) \in Censuses
    BY <1>3, CensusType
  <2>2. Census(s, posted, Below(i))["bodies"] \in Nat
    BY <2>1, CensusNat
  <2>3. QED
    BY <1>3, <2>2, KindTable DEF Classes
<1>7. Head(q) \in Events /\ q # <<>>
  <2>1. OneGuard(n, q, sops[s]) /\ q \in Seq(Events)
    BY <1>5, TypesNow DEF SessionOK
  <2>2. n["bodies"] \in Nat /\ n["closings"] \in Nat /\ n["writes"] \in Nat
    BY <1>5, CensusNat
  <2> HIDE DEF q, n
  <2>3. n["bodies"] + n["closings"] + n["writes"] + (IF "write" \in sops[s] THEN 1 ELSE 0) = (IF q = <<>> THEN 0 ELSE 1)
    BY <2>1 DEF OneGuard
  <2>4. q # <<>>
    BY <1>6, <2>2, <2>3
  <2>5. QED
    BY <2>1, <2>4
<1>8. CASE Head(q) = "write" /\ s \in sopen
  <2>1. sops' = [sops EXCEPT ![s] = @ \cup {"write"}] /\ posted' = posted
    BY <1>2, <1>8 DEF EventBody
  <2>2. /\ sops' \in [Sessions -> SUBSET {"recv", "write", "silence"}] /\ \A r \in Sessions \ {s} : sops'[r] = sops[r]
        /\ sops'[s] = sops[s] \cup {"write"}
    BY <2>1, TypesNow
  <2>3. Elsewise(s)
    BY <1>3, <1>4, <2>1, <2>2, NamesAssumption, TypesNow DEF Elsewise, serverVars, user, bounds
  <2>4. m \in Censuses /\ \A c \in Classes \ {"bodies", "lives"} : m[c] = n[c]
    BY <1>3, <1>4, <2>1, CensusType, KindTable
  <2>5. m["bodies"] = n["bodies"] - 1 /\ m["writes"] = n["writes"] /\ m["closings"] = n["closings"]
    BY <1>3, <1>4, <2>1, KindTable DEF Classes
  <2> HIDE DEF n, m, q
  <2>6. SessionOK(m, s, sstate[s], q, sops'[s], sessions, holders, held, told[s], accepting)
    BY <1>5, <1>6, <1>8, <2>2, <2>4, <2>5, HandedOn
  <2>7. Fine(s)'
    BY <1>4, <2>6 DEF Fine, serverVars, user, m, q
  <2>8. QED
    BY <1>3, <2>3, <2>7, SessionStep
<1>9. CASE ~(Head(q) = "write" /\ s \in sopen)
  <2> DEFINE k == IF Head(q) = "write" THEN "write" ELSE "disc"
             y == IF Head(q) = "write" THEN "err" ELSE Head(q)
  <2>1. sops' = sops /\ posted' = Post(posted, i, Task(k, s, y))
    BY <1>2, <1>9 DEF EventBody
  <2>2. k \in {"write", "disc"} /\ (k = "write" <=> Head(q) = "write") /\ (k = "disc" => Head(q) \in Disconnect) /\ y \in Args
    BY <1>7 DEF Events, Args
  <2> HIDE DEF k, y, q
  <2>3. Task(k, s, y) \in Allowed(i)
    BY <2>2, TaskTypes DEF HomeKinds
  <2>4. /\ Sorted(posted') /\ Sorted(stack') /\ \A r : r # s => Census(r, posted', stack') = Census(r, posted, Below(i))
        /\ \A c \in Classes : m[c] = Census(s, posted, Below(i))[c]
             + (IF k \in KindsOf(c) /\ (c = "pushes" => y \in Disconnect) THEN 1 ELSE 0)
    BY <1>3, <1>4, <2>1, <2>3, Added
  <2>5. Elsewise(s)
    BY <1>3, <1>4, <2>1, <2>4, NamesAssumption, TypesNow DEF Elsewise, serverVars, user, bounds
  <2>6. m \in Censuses
    BY <2>4, CensusType
  <2>7. \A c \in Classes \ {"bodies", "closings", "writes", "lives"} : m[c] = n[c]
    BY <1>3, <2>2, <2>4, KindTable
  <2>8. /\ m["bodies"] = n["bodies"] - 1
        /\ m["writes"] = n["writes"] + (IF k = "write" THEN 1 ELSE 0)
        /\ m["closings"] = n["closings"] + (IF k = "disc" THEN 1 ELSE 0)
    BY <1>3, <2>2, <2>4, KindTable DEF Classes
  <2>9. n["bodies"] \in Nat /\ n["closings"] \in Nat /\ n["writes"] \in Nat
    BY <1>5, CensusNat
  <2> HIDE DEF n, m
  <2>10. \/ /\ Head(q) = "write" /\ m["bodies"] = n["bodies"] - 1 /\ m["writes"] = n["writes"] + 1 /\ m["closings"] = n["closings"]
         \/ /\ Head(q) \in Disconnect /\ m["bodies"] = n["bodies"] - 1 /\ m["writes"] = n["writes"]
            /\ m["closings"] = n["closings"] + 1
    BY <2>2, <2>8, <2>9
  <2>11. SessionOK(m, s, sstate[s], q, sops[s], sessions, holders, held, told[s], accepting)
    BY <1>5, <1>6, <2>6, <2>7, <2>10, HandedOn
  <2>12. Fine(s)'
    BY <1>4, <2>1, <2>11 DEF Fine, serverVars, user, m, q
  <2>13. QED
    BY <1>3, <2>5, <2>12, SessionStep
<1>10. QED
  BY <1>8, <1>9

-----------------------------------------------------------------------------
(* Handlers that hand on the disconnect event of their session.            *)

\* The handler on top of strand i goes, and another of its session comes.
LEMMA Replaced ==
  ASSUME IInv, NEW i \in Ios, NEW k, At(i, k), NEW s, NEW x, Top(i) = Task(k, s, x),
         NEW j \in Ios, NEW k2, NEW x2, Task(k2, s, x2) \in Allowed(j),
         \/ posted' = Post(posted, j, Task(k2, s, x2)) /\ stack' = Below(i)
         \/ stack' = Call(Below(i), j, Task(k2, s, x2)) /\ posted' = posted
  PROVE  /\ ~Drained /\ Sorted(posted') /\ Sorted(stack')
         /\ \A r : r # s => Census(r, posted', stack') = Census(r, posted, stack)
         /\ \A c \in Classes : Census(s, posted', stack')[c] = Census(s, posted, stack)[c]
              - (IF k \in KindsOf(c) /\ (c = "pushes" => x \in Disconnect) THEN 1 ELSE 0)
              + (IF k2 \in KindsOf(c) /\ (c = "pushes" => x2 \in Disconnect) THEN 1 ELSE 0)
         /\ \A c \in Classes : Census(s, posted, stack)[c] \in Nat
<1> DEFINE P2 == posted'
           S2 == stack'
           B  == Below(i)
<1>1. /\ ~Drained /\ Sorted(posted) /\ Sorted(B)
      /\ \A r : r # s => Census(r, posted, B) = Census(r, posted, stack)
      /\ \A c \in Classes : Census(s, posted, B)[c] = Census(s, posted, stack)[c]
           - (IF k \in KindsOf(c) /\ (c = "pushes" => x \in Disconnect) THEN 1 ELSE 0)
      /\ \A c \in Classes : Census(s, posted, stack)[c] \in Nat
  BY Popped
<1>2. \/ P2 = Post(posted, j, Task(k2, s, x2)) /\ S2 = B
      \/ S2 = Call(B, j, Task(k2, s, x2)) /\ P2 = posted
  OBVIOUS
<1> HIDE DEF P2, S2, B
<1>3. /\ Sorted(P2) /\ Sorted(S2) /\ \A r : r # s => Census(r, P2, S2) = Census(r, posted, B)
      /\ \A c \in Classes : Census(s, P2, S2)[c] = Census(s, posted, B)[c]
           + (IF k2 \in KindsOf(c) /\ (c = "pushes" => x2 \in Disconnect) THEN 1 ELSE 0)
  BY <1>1, <1>2, Added
<1>4. QED
  BY <1>1, <1>3 DEF P2, S2

LEMMA DiscKeeps ==
  ASSUME IInv, NEW i \in Ios, Disc(i)
  PROVE  IInv'
<1>1. At(i, "disc") /\ "disc" \in LiveKinds /\ "disc" \notin OwnKinds \cup {"user"} /\ i \in Ios
  BY IosFinite DEF Disc, LiveKinds, HomeKinds, MapKinds, OwnKinds
<1>2. PICK s \in Sessions, x \in Args : /\ Top(i) = Task("disc", s, x) /\ Top(i).s = s /\ Top(i).x = x
                                       /\ s \in holders
  BY <1>1, HandlerOf
<1>3. Task("erase", s, x) \in Allowed(0) /\ 0 \in Ios
  BY IosFinite, TaskTypes DEF MapKinds
<1>4. UNCHANGED <<serverVars, sessions, sessionVars, user>>
  BY DEF Disc
<1>5. \/ posted' = Post(posted, 0, Task("erase", s, x)) /\ stack' = Below(i)
      \/ stack' = Call(Below(i), 0, Task("erase", s, x)) /\ posted' = posted
  BY <1>2 DEF Disc
<1>6. /\ ~Drained /\ Sorted(posted') /\ Sorted(stack')
      /\ \A r : r # s => Census(r, posted', stack') = Census(r, posted, stack)
      /\ \A c \in Classes : Census(s, posted', stack')[c] = Census(s, posted, stack)[c]
           - (IF "disc" \in KindsOf(c) /\ (c = "pushes" => x \in Disconnect) THEN 1 ELSE 0)
           + (IF "erase" \in KindsOf(c) /\ (c = "pushes" => x \in Disconnect) THEN 1 ELSE 0)
      /\ \A c \in Classes : Census(s, posted, stack)[c] \in Nat
  BY <1>1, <1>2, <1>3, <1>5, Replaced
<1>7. Elsewise(s)
  BY <1>4, <1>6, NamesAssumption, TypesNow DEF Elsewise, serverVars, sessionVars, user, bounds
<1>8. \A c \in Classes \ {"lives"} : Census(s, posted', stack')[c] = Census(s, posted, stack)[c]
  BY <1>6, KindTable
<1>9. QED
  BY <1>2, <1>4, <1>6, <1>7, <1>8, HarmlessStep DEF sessionVars, user

LEMMA Erase2Keeps ==
  ASSUME IInv, Erase2
  PROVE  IInv'
<1>1. At(0, "erase2") /\ "erase2" \in LiveKinds /\ "erase2" \notin OwnKinds \cup {"user"} /\ 0 \in Ios
  BY IosFinite DEF Erase2, LiveKinds, HomeKinds, MapKinds, OwnKinds
<1>2. PICK s \in Sessions, x \in Args : /\ Top(0) = Task("erase2", s, x) /\ Top(0).s = s /\ Top(0).x = x
                                       /\ s \in holders
  BY <1>1, HandlerOf
<1>3. Task("close", s, "-") \in Allowed(Home[s]) /\ Home[s] \in Ios
  BY IosFinite, TaskTypes DEF HomeKinds, Args
<1>4. UNCHANGED <<serverVars, sessions, sessionVars, user>>
  BY DEF Erase2
<1>5. \/ posted' = Post(posted, Home[s], Task("close", s, "-")) /\ stack' = Below(0)
      \/ stack' = Call(Below(0), Home[s], Task("close", s, "-")) /\ posted' = posted
  BY <1>2, TaskParts DEF Erase2
<1>6. /\ ~Drained /\ Sorted(posted') /\ Sorted(stack')
      /\ \A r : r # s => Census(r, posted', stack') = Census(r, posted, stack)
      /\ \A c \in Classes : Census(s, posted', stack')[c] = Census(s, posted, stack)[c]
           - (IF "erase2" \in KindsOf(c) /\ (c = "pushes" => x \in Disconnect) THEN 1 ELSE 0)
           + (IF "close" \in KindsOf(c) /\ (c = "pushes" => "-" \in Disconnect) THEN 1 ELSE 0)
      /\ \A c \in Classes : Census(s, posted, stack)[c] \in Nat
  <2> DEFINE h == Home[s]
  <2>1. h \in Ios /\ Task("close", s, "-") \in Allowed(h)
    BY <1>3
  <2>2. \/ posted' = Post(posted, h, Task("close", s, "-")) /\ stack' = Below(0)
        \/ stack' = Call(Below(0), h, Task("close", s, "-")) /\ posted' = posted
    BY <1>5
  <2> HIDE DEF h
  <2>3. QED
    BY <1>1, <1>2, <2>1, <2>2, Replaced
<1>7. Elsewise(s)
  BY <1>4, <1>6, NamesAssumption, TypesNow DEF Elsewise, serverVars, sessionVars, user, bounds
<1>8. \A c \in Classes \ {"lives"} : Census(s, posted', stack')[c] = Census(s, posted, stack)[c]
  BY <1>6, KindTable
<1>9. QED
  BY <1>2, <1>4, <1>6, <1>7, <1>8, HarmlessStep DEF sessionVars, user

\* A session is greeted, or joins or leaves the map: nothing else of it changes.
LEMMA Progressed ==
  ASSUME NEW n \in Censuses, NEW r, NEW st, NEW q, NEW ops, NEW map, NEW hold, NEW kept, NEW tl, NEW acc,
         SessionOK(n, r, st, q, ops, map, hold, kept, tl, acc), r \in hold,
         NEW m \in Censuses, \A c \in Classes \ {"begins", "connects", "joins", "lives"} : m[c] = n[c],
         NEW st2, st2 = st \/ (st = "starting" /\ st2 = "started"), NEW map2, NEW tl2,
         Greeted(m, r, st2, map2, tl2)
  PROVE  SessionOK(m, r, st2, q, ops, map2, hold, kept, tl2, acc)
<1>1. \A c \in {"accepts", "pushes", "bodies", "closings", "writes"} : m[c] = n[c]
  BY DEF Classes
<1>2. n["accepts"] \in Nat
  BY CensusNat
<1>3. OneEnd(m, st2, q) /\ OneGuard(m, q, ops) /\ Counted(m, r, st2, q, ops, map2, hold, kept)
  BY <1>1 DEF SessionOK, OneEnd, OneGuard, Counted
<1>4. Accepted(m, r, st2, hold, tl2, acc)
  BY <1>1, <1>2 DEF SessionOK, Accepted
<1>5. QED
  BY <1>3, <1>4 DEF SessionOK

\* The session a disconnect event is being carried out for is stopping.
LEMMA ClosingStops ==
  ASSUME NEW n \in Censuses, NEW r, NEW st, NEW q \in Seq(Events), NEW ops, NEW map, NEW hold,
         NEW kept, NEW tl, NEW acc, SessionOK(n, r, st, q, ops, map, hold, kept, tl, acc), n["closings"] > 0
  PROVE  st = "stopping" /\ "write" \notin ops /\ q # <<>>
<1>1. n["pushes"] \in Nat /\ n["bodies"] \in Nat /\ n["closings"] \in Nat /\ n["writes"] \in Nat
  BY CensusNat
<1>2. OneGuard(n, q, ops)
  BY DEF SessionOK
<1>3. "write" \notin ops /\ q # <<>> /\ Head(q) \in Disconnect
  BY <1>1, <1>2 DEF OneGuard, Disconnect
<1>4. Hit(q, Disconnect) \in Nat /\ Hit(q, Disconnect) # 0
  <2>1. Hit(q, Disconnect) = 0 => \A j \in DOMAIN q : q[j] \notin Disconnect
    BY HitsFinite
  <2>2. 1 \in DOMAIN q /\ q[1] \in Disconnect
    BY <1>3
  <2>3. QED
    BY <2>1, <2>2, HitsFinite
<1>5. OneEnd(n, st, q)
  BY DEF SessionOK
<1>6. st = "stopping"
  BY <1>1, <1>4, <1>5 DEF OneEnd
<1>7. QED
  BY <1>3, <1>6

\* A step of session s that greets it, or lets it into the map or out.
LEMMA ProgressStep ==
  ASSUME IInv, NEW s \in Sessions, ~Drained, Elsewise(s), s \in holders,
         \A c \in Classes \ {"begins", "connects", "joins", "lives"} :
           Census(s, posted', stack')[c] = Census(s, posted, stack)[c],
         UNCHANGED <<queue, sops>>,
         sstate'[s] = sstate[s] \/ (sstate[s] = "starting" /\ sstate'[s] = "started"),
         Greeted(Census(s, posted', stack'), s, sstate'[s], sessions', told'[s])
  PROVE  IInv'
<1> DEFINE n == Census(s, posted, stack)
           m == Census(s, posted', stack')
           st2 == sstate'[s]
           map2 == sessions'
           tl2 == told'[s]
<1>1. SessionOK(n, s, sstate[s], queue[s], sops[s], sessions, holders, held, told[s], accepting) /\ n \in Censuses
  BY CensusNow DEF IInv, Fine
<1>2. m \in Censuses
  BY CensusType DEF Elsewise
<1>3. \A c \in Classes \ {"begins", "connects", "joins", "lives"} : m[c] = n[c]
  OBVIOUS
<1>4. Greeted(m, s, st2, map2, tl2) /\ (st2 = sstate[s] \/ (sstate[s] = "starting" /\ st2 = "started"))
  OBVIOUS
<1> HIDE DEF n, m, st2, map2, tl2
<1>5. SessionOK(m, s, st2, queue[s], sops[s], map2, holders, held, tl2, accepting)
  BY <1>1, <1>2, <1>3, <1>4, Progressed
<1>6. Fine(s)'
  BY <1>5 DEF Fine, Elsewise, m, st2, map2, tl2
<1>7. QED
  BY <1>6, SessionStep

LEMMA GreetedNow ==
  ASSUME IInv, NEW s \in Sessions
  PROVE  LET n == Census(s, posted, stack)
         IN /\ Greeted(n, s, sstate[s], sessions, told[s])
            /\ n["begins"] \in Nat /\ n["connects"] \in Nat /\ n["joins"] \in Nat /\ n["closings"] \in Nat
            /\ n["closings"] > 0 => sstate[s] = "stopping"
<1>1. /\ SessionOK(Census(s, posted, stack), s, sstate[s], queue[s], sops[s], sessions, holders, held, told[s], accepting)
      /\ Census(s, posted, stack) \in Censuses /\ queue[s] \in Seq(Events)
  BY CensusNow, TypesNow DEF IInv, Fine
<1>2. QED
  BY <1>1, CensusNat, ClosingStops DEF SessionOK

LEMMA Session2Keeps ==
  ASSUME IInv, Session2
  PROVE  IInv'
<1>1. At(0, "session2") /\ "session2" \in LiveKinds /\ "session2" \notin OwnKinds \cup {"user"} /\ 0 \in Ios
  BY IosFinite DEF Session2, LiveKinds, HomeKinds, MapKinds, OwnKinds
<1>2. PICK s \in Sessions, x \in Args : /\ Top(0) = Task("session2", s, x) /\ Top(0).s = s /\ Top(0).x = x
                                       /\ s \in holders
  BY <1>1, HandlerOf
<1> DEFINE n == Census(s, posted, stack)
           m == Census(s, posted', stack')
<1>3. UNCHANGED <<serverVars, sessions, sopen, sops, queue, posted, user>>
  BY DEF Session2
<1>4. /\ Greeted(n, s, sstate[s], sessions, told[s])
      /\ n["begins"] \in Nat /\ n["connects"] \in Nat /\ n["joins"] \in Nat
  BY GreetedNow
<1>5. CASE sstate[s] = "starting"
  <2>1. Task("session3", s, "-") \in Allowed(0)
    BY TaskTypes DEF MapKinds, Args
  <2>2. sstate' = [sstate EXCEPT ![s] = "started"] /\ stack' = Call(Below(0), 0, Task("session3", s, "-")) /\ posted' = posted
    BY <1>2, <1>3, <1>5 DEF Session2
  <2>3. /\ ~Drained /\ Sorted(posted') /\ Sorted(stack')
        /\ \A r : r # s => Census(r, posted', stack') = Census(r, posted, stack)
        /\ \A c \in Classes : Census(s, posted', stack')[c] = Census(s, posted, stack)[c]
             - (IF "session2" \in KindsOf(c) /\ (c = "pushes" => x \in Disconnect) THEN 1 ELSE 0)
             + (IF "session3" \in KindsOf(c) /\ (c = "pushes" => "-" \in Disconnect) THEN 1 ELSE 0)
        /\ \A c \in Classes : Census(s, posted, stack)[c] \in Nat
    BY <1>1, <1>2, <2>1, <2>2, Replaced
  <2>4. sstate'[s] = "started" /\ sstate' \in [Sessions -> States \cup {"new"}] /\ \A r \in Sessions \ {s} : sstate'[r] = sstate[r]
    BY <2>2, TypesNow DEF States
  <2>5. Elsewise(s)
    BY <1>3, <2>3, <2>4, NamesAssumption, TypesNow DEF Elsewise, serverVars, user, bounds
  <2>6. \A c \in Classes \ {"begins", "connects", "joins", "lives"} : m[c] = n[c]
    BY <2>3, KindTable
  <2>7. m["begins"] = n["begins"] - 1 /\ m["connects"] = n["connects"] + 1 /\ m["joins"] = n["joins"]
    BY <2>3, KindTable DEF Classes
  <2>8. m["begins"] \in Nat
    BY <2>3, CensusType, CensusNat
  <2> HIDE DEF n, m
  <2>9. Greeted(m, s, "started", sessions, told[s])
    BY <1>4, <2>7, <2>8 DEF Greeted
  <2>10. QED
    BY <1>2, <1>3, <1>5, <2>3, <2>4, <2>5, <2>6, <2>9, ProgressStep DEF n, m, user
<1>6. CASE sstate[s] # "starting"
  <2>1. UNCHANGED <<sstate, posted>> /\ stack' = Below(0)
    BY <1>2, <1>3, <1>6 DEF Session2
  <2>2. /\ ~Drained /\ Sorted(posted) /\ Sorted(Below(0))
        /\ \A r : r # s => Census(r, posted, Below(0)) = Census(r, posted, stack)
        /\ \A c \in Classes : Census(s, posted, Below(0))[c] = Census(s, posted, stack)[c]
             - (IF "session2" \in KindsOf(c) /\ (c = "pushes" => x \in Disconnect) THEN 1 ELSE 0)
        /\ \A c \in Classes : Census(s, posted, stack)[c] \in Nat
    BY <1>1, <1>2, Popped
  <2>3. Elsewise(s)
    BY <1>3, <2>1, <2>2, NamesAssumption, TypesNow DEF Elsewise, serverVars, user, bounds
  <2>4. \A c \in Classes \ {"begins", "connects", "joins", "lives"} : m[c] = n[c]
    BY <2>1, <2>2, KindTable
  <2>5. m["begins"] = n["begins"] - 1 /\ m["connects"] = n["connects"] /\ m["joins"] = n["joins"]
    BY <2>1, <2>2, KindTable DEF Classes
  <2>6. m["begins"] \in Nat
    BY <2>1, <2>2, CensusType, CensusNat
  <2> HIDE DEF n, m
  <2>7. Greeted(m, s, sstate[s], sessions, told[s])
    BY <1>4, <1>6, <2>5, <2>6 DEF Greeted
  <2>8. QED
    BY <1>2, <1>3, <2>1, <2>2, <2>3, <2>4, <2>7, ProgressStep DEF n, m, user
<1>7. QED
  BY <1>5, <1>6

\* The handler on top of strand 0 goes, the rest of it and a callback come.
LEMMA Calls2 ==
  ASSUME IInv, NEW k, At(0, k), NEW s \in Sessions, NEW x, Top(0) = Task(k, s, x),
         NEW k2 \in MapKinds \cup {"again"}, posted' = posted,
         stack' = Call(Call(Below(0), 0, Task(k2, s, "-")), 0, User(s))
  PROVE  /\ ~Drained /\ Sorted(posted') /\ Sorted(stack')
         /\ \A r : r # s => Census(r, posted', stack') = Census(r, posted, stack)
         /\ \A c \in Classes \ {"lives"} : Census(s, posted', stack')[c] = Census(s, posted, stack)[c]
              - (IF k \in KindsOf(c) /\ (c = "pushes" => x \in Disconnect) THEN 1 ELSE 0)
              + (IF k2 \in KindsOf(c) THEN 1 ELSE 0)
         /\ \A c \in Classes : Census(s, posted, stack)[c] \in Nat
<1> DEFINE B  == Below(0)
           S1 == Call(B, 0, Task(k2, s, "-"))
           S2 == stack'
<1>1. /\ ~Drained /\ Sorted(posted) /\ Sorted(B)
      /\ \A r : r # s => Census(r, posted, B) = Census(r, posted, stack)
      /\ \A c \in Classes : Census(s, posted, B)[c] = Census(s, posted, stack)[c]
           - (IF k \in KindsOf(c) /\ (c = "pushes" => x \in Disconnect) THEN 1 ELSE 0)
      /\ \A c \in Classes : Census(s, posted, stack)[c] \in Nat
  BY Popped, IosFinite
<1>2. Task(k2, s, "-") \in Allowed(0) /\ Task("user", s, "-") \in Allowed(0) /\ 0 \in Ios
  BY TaskTypes, IosFinite DEF HomeKinds, Args
<1>3. S2 = Call(S1, 0, Task("user", s, "-")) /\ S1 = Call(B, 0, Task(k2, s, "-"))
  BY DEF User
<1>4. k2 \in KindsOf("pushes") => FALSE
  BY KindTable DEF Classes, MapKinds, KindsOf
<1> HIDE DEF B, S1, S2
<1> DEFINE pushed == "-" \in Disconnect
<1>5. /\ Sorted(S1) /\ \A r : r # s => Census(r, posted, S1) = Census(r, posted, B)
      /\ \A c \in Classes : Census(s, posted, S1)[c] = Census(s, posted, B)[c]
           + (IF k2 \in KindsOf(c) /\ (c = "pushes" => pushed) THEN 1 ELSE 0)
  BY <1>1, <1>2, <1>3, Added
<1>6. /\ Sorted(S2) /\ \A r : r # s => Census(r, posted, S2) = Census(r, posted, S1)
      /\ \A c \in Classes : Census(s, posted, S2)[c] = Census(s, posted, S1)[c]
           + (IF "user" \in KindsOf(c) /\ (c = "pushes" => pushed) THEN 1 ELSE 0)
  BY <1>1, <1>2, <1>3, <1>5, Added
<1> HIDE DEF pushed
<1>7. \A c \in Classes \ {"lives"} : Census(s, posted, S2)[c] = Census(s, posted, S1)[c]
  <2>1. \A c \in Classes : Census(s, posted, S1)[c] \in Nat
    <3>1. Census(s, posted, S1) \in Censuses
      BY <1>1, <1>5, CensusType
    <3>2. QED
      BY <3>1 DEF Censuses
  <2>2. QED
    BY <1>6, <2>1, KindTable
<1>8. \A c \in Classes : Census(s, posted, S1)[c] = Census(s, posted, B)[c] + (IF k2 \in KindsOf(c) THEN 1 ELSE 0)
  BY <1>4, <1>5
<1>9. QED
  BY <1>1, <1>5, <1>6, <1>7, <1>8 DEF S2

LEMMA Session3Keeps ==
  ASSUME IInv, Session3
  PROVE  IInv'
<1>1. At(0, "session3") /\ "session3" \in LiveKinds /\ "session3" \notin OwnKinds \cup {"user"} /\ 0 \in Ios
  BY IosFinite DEF Session3, LiveKinds, HomeKinds, MapKinds, OwnKinds
<1>2. PICK s \in Sessions, x \in Args : /\ Top(0) = Task("session3", s, x) /\ Top(0).s = s /\ Top(0).x = x
                                       /\ s \in holders
  BY <1>1, HandlerOf
<1> DEFINE n == Census(s, posted, stack)
           m == Census(s, posted', stack')
<1>3. UNCHANGED <<serverVars, sessions, sessionVars, posted, held, app, ioStopped, bounds>>
  BY DEF Session3
<1>4. /\ Greeted(n, s, sstate[s], sessions, told[s])
      /\ n["begins"] \in Nat /\ n["connects"] \in Nat /\ n["joins"] \in Nat
  BY GreetedNow
<1>5. CASE sstate[s] = "started"
  <2>1. told' = [told EXCEPT ![s] = "connected"] /\ stack' = Call(Call(Below(0), 0, Task("join", s, "-")), 0, User(s))
        /\ posted' = posted
    BY <1>2, <1>3, <1>5 DEF Session3
  <2>2. "join" \in MapKinds
    BY DEF MapKinds
  <2>3. /\ ~Drained /\ Sorted(posted') /\ Sorted(stack')
        /\ \A r : r # s => Census(r, posted', stack') = Census(r, posted, stack)
        /\ \A c \in Classes \ {"lives"} : Census(s, posted', stack')[c] = Census(s, posted, stack)[c]
             - (IF "session3" \in KindsOf(c) /\ (c = "pushes" => x \in Disconnect) THEN 1 ELSE 0)
             + (IF "join" \in KindsOf(c) THEN 1 ELSE 0)
        /\ \A c \in Classes : Census(s, posted, stack)[c] \in Nat
    BY <1>1, <1>2, <2>1, <2>2, Calls2
  <2>4. told'[s] = "connected" /\ told' \in [Sessions -> {"none", "connected", "disconnected"}]
        /\ \A r \in Sessions \ {s} : told'[r] = told[r]
    BY <2>1, TypesNow
  <2>5. Elsewise(s)
    BY <1>3, <2>3, <2>4, NamesAssumption, TypesNow DEF Elsewise, serverVars, sessionVars, bounds
  <2>6. \A c \in Classes \ {"begins", "connects", "joins", "lives"} : m[c] = n[c]
    BY <2>3, KindTable
  <2>7. m["begins"] = n["begins"] /\ m["connects"] = n["connects"] - 1 /\ m["joins"] = n["joins"] + 1
    BY <2>3, KindTable DEF Classes
  <2>8. m["connects"] \in Nat
    BY <2>3, CensusType, CensusNat
  <2> HIDE DEF n, m
  <2>9. Greeted(m, s, sstate[s], sessions, "connected")
    BY <1>4, <1>5, <2>7, <2>8 DEF Greeted
  <2>10. QED
    BY <1>2, <1>3, <2>3, <2>4, <2>5, <2>6, <2>9, ProgressStep DEF n, m, sessionVars
<1>6. CASE sstate[s] # "started"
  <2>1. UNCHANGED <<told, posted>> /\ stack' = Below(0)
    BY <1>2, <1>3, <1>6 DEF Session3
  <2>2. /\ ~Drained /\ Sorted(posted) /\ Sorted(Below(0))
        /\ \A r : r # s => Census(r, posted, Below(0)) = Census(r, posted, stack)
        /\ \A c \in Classes : Census(s, posted, Below(0))[c] = Census(s, posted, stack)[c]
             - (IF "session3" \in KindsOf(c) /\ (c = "pushes" => x \in Disconnect) THEN 1 ELSE 0)
        /\ \A c \in Classes : Census(s, posted, stack)[c] \in Nat
    BY <1>1, <1>2, Popped
  <2>3. Elsewise(s)
    BY <1>3, <2>1, <2>2, NamesAssumption, TypesNow DEF Elsewise, serverVars, sessionVars, bounds
  <2>4. \A c \in Classes \ {"begins", "connects", "joins", "lives"} : m[c] = n[c]
    BY <2>1, <2>2, KindTable
  <2>5. m["begins"] = n["begins"] /\ m["connects"] = n["connects"] - 1 /\ m["joins"] = n["joins"]
    BY <2>1, <2>2, KindTable DEF Classes
  <2>6. m["connects"] \in Nat
    BY <2>1, <2>2, CensusType, CensusNat
  <2> HIDE DEF n, m
  <2>7. Greeted(m, s, sstate[s], sessions, told[s])
    BY <1>4, <1>6, <2>5, <2>6 DEF Greeted
  <2>8. QED
    BY <1>2, <1>3, <2>1, <2>2, <2>3, <2>4, <2>7, ProgressStep DEF n, m, sessionVars
<1>7. QED
  BY <1>5, <1>6

LEMMA JoinSessionKeeps ==
  ASSUME IInv, JoinSession
  PROVE  IInv'
<1>1. At(0, "join") /\ "join" \in LiveKinds /\ "join" \notin OwnKinds \cup {"user"} /\ 0 \in Ios
  BY IosFinite DEF JoinSession, LiveKinds, HomeKinds, MapKinds, OwnKinds
<1>2. PICK s \in Sessions, x \in Args : /\ Top(0) = Task("join", s, x) /\ Top(0).s = s /\ Top(0).x = x
                                       /\ s \in holders
  BY <1>1, HandlerOf
<1> DEFINE n == Census(s, posted, stack)
           m == Census(s, posted', stack')
<1>3. UNCHANGED <<serverVars, sopen, sops, user>>
  BY DEF JoinSession
<1>4. /\ Greeted(n, s, sstate[s], sessions, told[s])
      /\ n["begins"] \in Nat /\ n["connects"] \in Nat /\ n["joins"] \in Nat
  BY GreetedNow
<1>5. CASE sstate[s] = "started" /\ state = "started" /\ sessions' = sessions \cup {s}
  <2>1. Task("recv1", s, "-") \in Allowed(Home[s]) /\ Home[s] \in Ios
    BY IosFinite, TaskTypes DEF HomeKinds, Args
  <2> DEFINE h == Home[s]
  <2>2. /\ \/ posted' = Post(posted, h, Task("recv1", s, "-")) /\ stack' = Below(0)
           \/ stack' = Call(Below(0), h, Task("recv1", s, "-")) /\ posted' = posted
        /\ UNCHANGED <<sstate, queue>>
    BY <1>2, <1>5 DEF JoinSession
  <2>3. h \in Ios /\ Task("recv1", s, "-") \in Allowed(h)
    BY <2>1
  <2> HIDE DEF h
  <2>4. /\ ~Drained /\ Sorted(posted') /\ Sorted(stack')
        /\ \A r : r # s => Census(r, posted', stack') = Census(r, posted, stack)
        /\ \A c \in Classes : Census(s, posted', stack')[c] = Census(s, posted, stack)[c]
             - (IF "join" \in KindsOf(c) /\ (c = "pushes" => x \in Disconnect) THEN 1 ELSE 0)
             + (IF "recv1" \in KindsOf(c) /\ (c = "pushes" => "-" \in Disconnect) THEN 1 ELSE 0)
        /\ \A c \in Classes : Census(s, posted, stack)[c] \in Nat
    BY <1>1, <1>2, <2>2, <2>3, Replaced
  <2>5. Elsewise(s)
    BY <1>3, <1>5, <2>2, <2>4, NamesAssumption, TypesNow DEF Elsewise, serverVars, user, bounds
  <2>6. \A c \in Classes \ {"begins", "connects", "joins", "lives"} : m[c] = n[c]
    BY <2>4, KindTable
  <2>7. m["begins"] = n["begins"] /\ m["connects"] = n["connects"] /\ m["joins"] = n["joins"] - 1
    BY <2>4, KindTable DEF Classes
  <2>8. m["joins"] \in Nat
    BY <2>4, CensusType, CensusNat
  <2> DEFINE map2 == sessions'
  <2>9. s \in map2
    BY <1>5
  <2> HIDE DEF n, m, map2
  <2>10. Greeted(m, s, sstate[s], map2, told[s])
    BY <1>4, <2>7, <2>8, <2>9 DEF Greeted
  <2>11. QED
    BY <1>2, <1>3, <2>2, <2>4, <2>5, <2>6, <2>10, ProgressStep DEF n, m, user, map2
<1>6. CASE sstate[s] = "started" /\ state # "started" /\ DoDisconnect(s, Home[s] = 0, posted, Below(0)) /\ UNCHANGED sessions
  <2>1. PICK here \in BOOLEAN : here = (Home[s] = 0)
    OBVIOUS
  <2>2. DoDisconnect(s, here, posted, Below(0)) /\ sstate[s] \in Disconnect
    BY <1>6, <2>1 DEF Disconnect
  <2>3. /\ ~Drained /\ Sorted(posted) /\ Sorted(Below(0))
        /\ \A r : r # s => Census(r, posted, Below(0)) = Census(r, posted, stack)
        /\ \A c \in Classes : Census(s, posted, Below(0))[c] = Census(s, posted, stack)[c]
             - (IF "join" \in KindsOf(c) /\ (c = "pushes" => x \in Disconnect) THEN 1 ELSE 0)
        /\ \A c \in Classes : Census(s, posted, stack)[c] \in Nat
    BY <1>1, <1>2, Popped
  <2>4. \A c \in {"accepts", "closings", "writes", "pushes", "bodies", "begins", "connects"} :
          Census(s, posted, Below(0))[c] = n[c] /\ n[c] \in Nat
    BY <2>3, KindTable DEF Classes
  <2>5. Census(s, posted, Below(0))["joins"] = n["joins"] - 1
    BY <2>3, KindTable DEF Classes
  <2>6. \A c \in {"begins", "connects", "joins"} : Census(s, posted, Below(0))[c] <= n[c]
    BY <1>4, <2>4, <2>5
  <2>7. \A c \in {"accepts", "closings", "writes", "pushes", "bodies"} : Census(s, posted, Below(0))[c] = n[c]
    BY <2>4
  <2>8. \A r \in (Sessions \cup {NoSession}) \ {s} : Census(r, posted, Below(0)) = Census(r, posted, stack)
    BY <2>3
  <2>9. UNCHANGED <<serverVars, sessions, sopen, sops, user>>
    BY <1>3, <1>6
  <2>10. QED
    BY <2>2, <2>3, <2>6, <2>7, <2>8, <2>9, DisconnectStep
<1>7. CASE sstate[s] # "started"
  <2>1. UNCHANGED <<sessions, sstate, queue, posted>> /\ stack' = Below(0)
    BY <1>2, <1>7 DEF JoinSession
  <2>2. /\ ~Drained /\ Sorted(posted) /\ Sorted(Below(0))
        /\ \A r : r # s => Census(r, posted, Below(0)) = Census(r, posted, stack)
        /\ \A c \in Classes : Census(s, posted, Below(0))[c] = Census(s, posted, stack)[c]
             - (IF "join" \in KindsOf(c) /\ (c = "pushes" => x \in Disconnect) THEN 1 ELSE 0)
        /\ \A c \in Classes : Census(s, posted, stack)[c] \in Nat
    BY <1>1, <1>2, Popped
  <2>3. Elsewise(s)
    BY <1>3, <2>1, <2>2, NamesAssumption, TypesNow DEF Elsewise, serverVars, user, bounds
  <2>4. \A c \in Classes \ {"begins", "connects", "joins", "lives"} : m[c] = n[c]
    BY <2>1, <2>2, KindTable
  <2>5. m["begins"] = n["begins"] /\ m["connects"] = n["connects"] /\ m["joins"] = n["joins"] - 1
    BY <2>1, <2>2, KindTable DEF Classes
  <2>6. m["joins"] \in Nat
    BY <2>1, <2>2, CensusType, CensusNat
  <2> HIDE DEF n, m
  <2>7. Greeted(m, s, sstate[s], sessions, told[s])
    <3>1. /\ m["joins"] > 0 => n["joins"] > 0
          /\ m["begins"] + m["connects"] + m["joins"] <= n["begins"] + n["connects"] + n["joins"]
      BY <1>4, <2>5, <2>6
    <3>2. m["begins"] \in Nat /\ m["connects"] \in Nat
      BY <1>4, <2>5
    <3> DEFINE map1 == IF s \in sessions THEN 1 ELSE 0
    <3>3. map1 \in Nat /\ n["begins"] + n["connects"] + n["joins"] + map1 <= 1
      BY <1>4 DEF Greeted
    <3> HIDE DEF map1
    <3>4. m["begins"] + m["connects"] + m["joins"] + map1 <= 1
      BY <1>4, <2>6, <3>1, <3>2, <3>3
    <3>5. QED
      BY <1>4, <1>7, <2>5, <3>1, <3>4 DEF Greeted, map1
  <2>8. QED
    BY <1>2, <1>3, <2>1, <2>2, <2>3, <2>4, <2>7, ProgressStep DEF n, m, user
<1>8. QED
  BY <1>2, <1>5, <1>6, <1>7 DEF JoinSession

LEMMA EraseKeeps ==
  ASSUME IInv, Erase
  PROVE  IInv'
<1>1. At(0, "erase") /\ "erase" \in LiveKinds /\ "erase" \notin OwnKinds \cup {"user"} /\ 0 \in Ios
  BY IosFinite DEF Erase, LiveKinds, HomeKinds, MapKinds, OwnKinds
<1>2. PICK s \in Sessions, x \in Args : /\ Top(0) = Task("erase", s, x) /\ Top(0).s = s /\ Top(0).x = x
                                       /\ s \in holders
  BY <1>1, HandlerOf
<1> DEFINE n == Census(s, posted, stack)
           m == Census(s, posted', stack')
<1> DEFINE tell == sstate[s] = "stopping" /\ x = "started" /\ s \in sessions
<1>3. /\ UNCHANGED <<serverVars, sessionVars, posted, held, app, ioStopped, bounds>> /\ sessions' = sessions \ {s}
      /\ told' = IF tell THEN [told EXCEPT ![s] = "disconnected"] ELSE told
      /\ stack' = IF tell THEN Call(Call(Below(0), 0, Task("erase2", s, "-")), 0, User(s))
                          ELSE Call(Below(0), 0, Task("erase2", s, "-"))
  BY <1>2 DEF Erase
<1>4. /\ Greeted(n, s, sstate[s], sessions, told[s])
      /\ n["begins"] \in Nat /\ n["connects"] \in Nat /\ n["joins"] \in Nat /\ n["closings"] \in Nat
      /\ n["closings"] > 0 => sstate[s] = "stopping"
  BY GreetedNow
<1>5. /\ ~Drained /\ Sorted(posted') /\ Sorted(stack')
      /\ \A r : r # s => Census(r, posted', stack') = Census(r, posted, stack)
      /\ \A c \in Classes \ {"lives"} : Census(s, posted', stack')[c] = Census(s, posted, stack)[c]
  <2>1. CASE tell
    <3>1. posted' = posted /\ stack' = Call(Call(Below(0), 0, Task("erase2", s, "-")), 0, User(s))
      BY <1>3, <2>1
    <3>2. "erase2" \in MapKinds
      BY DEF MapKinds
    <3>3. /\ ~Drained /\ Sorted(posted') /\ Sorted(stack')
          /\ \A r : r # s => Census(r, posted', stack') = Census(r, posted, stack)
          /\ \A c \in Classes \ {"lives"} : Census(s, posted', stack')[c] = Census(s, posted, stack)[c]
               - (IF "erase" \in KindsOf(c) /\ (c = "pushes" => x \in Disconnect) THEN 1 ELSE 0)
               + (IF "erase2" \in KindsOf(c) THEN 1 ELSE 0)
          /\ \A c \in Classes : Census(s, posted, stack)[c] \in Nat
      BY <1>1, <1>2, <3>1, <3>2, Calls2
    <3>4. QED
      BY <3>3, KindTable
  <2>2. CASE ~tell
    <3>1. Task("erase2", s, "-") \in Allowed(0) /\ 0 \in Ios
      BY IosFinite, TaskTypes DEF MapKinds, Args
    <3>2. stack' = Call(Below(0), 0, Task("erase2", s, "-")) /\ posted' = posted
      BY <1>3, <2>2
    <3>3. /\ ~Drained /\ Sorted(posted') /\ Sorted(stack')
          /\ \A r : r # s => Census(r, posted', stack') = Census(r, posted, stack)
          /\ \A c \in Classes : Census(s, posted', stack')[c] = Census(s, posted, stack)[c]
               - (IF "erase" \in KindsOf(c) /\ (c = "pushes" => x \in Disconnect) THEN 1 ELSE 0)
               + (IF "erase2" \in KindsOf(c) /\ (c = "pushes" => "-" \in Disconnect) THEN 1 ELSE 0)
          /\ \A c \in Classes : Census(s, posted, stack)[c] \in Nat
      BY <1>1, <1>2, <3>1, <3>2, Replaced
    <3>4. QED
      BY <3>3, KindTable
  <2>3. QED
    BY <2>1, <2>2
<1>6. n["closings"] > 0
  <2>1. /\ ~Drained /\ Sorted(posted) /\ Sorted(Below(0))
        /\ \A r : r # s => Census(r, posted, Below(0)) = Census(r, posted, stack)
        /\ \A c \in Classes : Census(s, posted, Below(0))[c] = Census(s, posted, stack)[c]
             - (IF "erase" \in KindsOf(c) /\ (c = "pushes" => x \in Disconnect) THEN 1 ELSE 0)
        /\ \A c \in Classes : Census(s, posted, stack)[c] \in Nat
    BY <1>1, <1>2, Popped
  <2>2. Census(s, posted, Below(0))["closings"] \in Nat
    BY <2>1, CensusType, CensusNat
  <2>3. QED
    BY <2>1, <2>2, KindTable DEF Classes
<1>7. /\ told' \in [Sessions -> {"none", "connected", "disconnected"}] /\ \A r \in Sessions \ {s} : told'[r] = told[r]
      /\ (tell => told'[s] = "disconnected") /\ (~tell => told'[s] = told[s])
  <2>1. CASE tell
    BY <2>1, <1>3, TypesNow
  <2>2. CASE ~tell
    BY <2>2, <1>3, TypesNow
  <2>3. QED
    BY <2>1, <2>2
<1>8. Elsewise(s)
  <2> HIDE DEF tell
  <2>1. QED
    BY <1>3, <1>5, <1>7, NamesAssumption, TypesNow DEF Elsewise, serverVars, sessionVars, bounds
<1> DEFINE map2 == sessions'
           tl2 == told'[s]
<1>9. m["begins"] = n["begins"] /\ m["connects"] = n["connects"] /\ m["joins"] = n["joins"]
  BY <1>5 DEF Classes
<1>10. s \notin map2 /\ (tell => s \in sessions)
  BY <1>3
<1>11. (tell => tl2 = "disconnected") /\ (~tell => tl2 = told[s])
  BY <1>7
<1> HIDE DEF n, m, map2, tl2, tell
<1>12. Greeted(m, s, sstate[s], map2, tl2)
  <2>1. sstate[s] = "stopping"
    BY <1>4, <1>6
  <2>2. CASE tell
    BY <1>4, <1>9, <1>10, <1>11, <2>1, <2>2 DEF Greeted
  <2>3. CASE ~tell
    BY <1>4, <1>9, <1>10, <1>11, <2>1, <2>3 DEF Greeted
  <2>4. QED
    BY <2>2, <2>3
<1>13. QED
  BY <1>2, <1>3, <1>5, <1>8, <1>12, ProgressStep DEF n, m, sessionVars, map2, tl2

-----------------------------------------------------------------------------
(* Handlers that destroy a guard.                                          *)

\* The queue of session s is left with q2, and over the strands P and S the body
\* of its front event comes.
Freed(s, q2, P, S) ==
  /\ Sorted(stack') /\ queue' \in [Sessions -> Seq(Events)] /\ queue'[s] = q2
  /\ \A r \in Sessions \ {s} : queue'[r] = queue[r]
  /\ \A r : r # s => Census(r, P, stack') = Census(r, P, S)
  /\ \A c \in Classes \ {"bodies", "lives"} : Census(s, P, stack')[c] = Census(s, P, S)[c]
  /\ Census(s, P, stack')["bodies"] = Census(s, P, S)["bodies"] + (IF q2 = <<>> THEN 0 ELSE 1)

LEMMA BodyCalled ==
  ASSUME NEW s \in Sessions, NEW P, Sorted(P), NEW S, Sorted(S), NEW S2, S2 = Call(S, Home[s], Task("body", s, "-"))
  PROVE  /\ Sorted(S2) /\ \A r : r # s => Census(r, P, S2) = Census(r, P, S)
         /\ \A c \in Classes \ {"bodies", "lives"} : Census(s, P, S2)[c] = Census(s, P, S)[c]
         /\ Census(s, P, S2)["bodies"] = Census(s, P, S)["bodies"] + 1
<1> DEFINE h == Home[s]
           x == "-"
<1>1. S2 = Call(S, h, Task("body", s, x)) /\ h \in Ios /\ Task("body", s, x) \in Allowed(h)
  BY IosFinite, TaskTypes DEF HomeKinds, Args
<1>2. \A c \in Classes : Census(s, P, S)[c] \in Nat
  BY CensusType DEF Censuses
<1> HIDE DEF h, x
<1>3. /\ Sorted(S2) /\ \A r : r # s => Census(r, P, S2) = Census(r, P, S)
      /\ \A c \in Classes : Census(s, P, S2)[c] = Census(s, P, S)[c]
           + (IF "body" \in KindsOf(c) /\ (c = "pushes" => x \in Disconnect) THEN 1 ELSE 0)
  BY <1>1, Added
<1>4. \A c \in Classes \ {"bodies", "lives"} : Census(s, P, S2)[c] = Census(s, P, S)[c]
  BY <1>2, <1>3, KindTable
<1>5. Census(s, P, S2)["bodies"] = Census(s, P, S)["bodies"] + 1
  BY <1>3, KindTable DEF Classes
<1>6. QED
  BY <1>3, <1>4, <1>5

LEMMA Released ==
  ASSUME NEW s \in Sessions, NEW Q, NEW P, Sorted(P), NEW S, Sorted(S), Release(s, Q, S),
         queue \in [Sessions -> Seq(Events)], Tail(Q) \in Seq(Events)
  PROVE  Freed(s, Tail(Q), P, S)
<1> DEFINE q2 == Tail(Q)
<1>1. /\ queue' = [queue EXCEPT ![s] = q2]
      /\ stack' = IF q2 = <<>> THEN S ELSE Call(S, Home[s], Task("body", s, "-"))
  BY DEF Release
<1> HIDE DEF q2
<1>2. queue' \in [Sessions -> Seq(Events)] /\ queue'[s] = q2 /\ \A r \in Sessions \ {s} : queue'[r] = queue[r]
  BY <1>1 DEF q2
<1>3. CASE q2 = <<>>
  <2>1. stack' = S
    BY <1>1, <1>3
  <2>2. Census(s, P, S)["bodies"] \in Nat
    BY CensusType, CensusNat
  <2>3. Freed(s, q2, P, S)
    BY <1>2, <1>3, <2>1, <2>2 DEF Freed
  <2>4. QED
    BY <2>3 DEF q2
<1>4. CASE q2 # <<>>
  <2> DEFINE S2 == stack'
  <2>1. S2 = Call(S, Home[s], Task("body", s, "-"))
    BY <1>1, <1>4
  <2> HIDE DEF S2
  <2>2. /\ Sorted(S2) /\ \A r : r # s => Census(r, P, S2) = Census(r, P, S)
        /\ \A c \in Classes \ {"bodies", "lives"} : Census(s, P, S2)[c] = Census(s, P, S)[c]
        /\ Census(s, P, S2)["bodies"] = Census(s, P, S)["bodies"] + 1
    <3>1. Sorted(P) /\ Sorted(S)
      OBVIOUS
    <3> HIDE DEF Release
    <3>2. QED
      BY <2>1, <3>1, BodyCalled, SMTT(30)
  <2>3. Freed(s, q2, P, S)
    BY <1>2, <1>4, <2>2 DEF Freed, S2
  <2>4. QED
    BY <2>3 DEF q2
<1>5. QED
  BY <1>3, <1>4


LEMMA HandleSendKeeps ==
  ASSUME IInv, NEW i \in Ios, HandleSend(i)
  PROVE  IInv'
<1>1. At(i, "write") /\ "write" \in LiveKinds /\ "write" \notin OwnKinds \cup {"user"} /\ i \in Ios
  BY IosFinite DEF HandleSend, LiveKinds, HomeKinds, MapKinds, OwnKinds
<1>2. PICK s \in Sessions, x \in Args : /\ Top(i) = Task("write", s, x) /\ Top(i).s = s /\ Top(i).x = x
                                       /\ s \in holders
  BY <1>1, HandlerOf
<1> DEFINE n == Census(s, posted, stack)
           o == Census(s, posted, Below(i))
           m == Census(s, posted', stack')
           q == queue[s]
           ends == x # "ok" /\ sstate[s] \in Disconnect
           st == IF ends THEN "stopping" ELSE sstate[s]
           Q == IF ends THEN Append(q, sstate[s]) ELSE q
<1>3. /\ UNCHANGED <<serverVars, sessions, sopen, sops, posted, user>>
      /\ sstate' = IF ends THEN [sstate EXCEPT ![s] = "stopping"] ELSE sstate
      /\ Release(s, Q, Below(i))
  BY <1>2 DEF HandleSend
<1>4. /\ ~Drained /\ Sorted(posted) /\ Sorted(Below(i))
      /\ \A r : r # s => Census(r, posted, Below(i)) = Census(r, posted, stack)
      /\ \A c \in Classes : Census(s, posted, Below(i))[c] = Census(s, posted, stack)[c]
           - (IF "write" \in KindsOf(c) /\ (c = "pushes" => x \in Disconnect) THEN 1 ELSE 0)
      /\ \A c \in Classes : Census(s, posted, stack)[c] \in Nat
  BY <1>1, <1>2, Popped
<1>5. /\ SessionOK(n, s, sstate[s], q, sops[s], sessions, holders, held, told[s], accepting)
      /\ n \in Censuses /\ o \in Censuses /\ q \in Seq(Events)
  BY <1>4, CensusNow, CensusType, TypesNow DEF IInv, Fine
<1>6. o["writes"] = n["writes"] - 1 /\ n["writes"] > 0 /\ \A c \in Classes \ {"writes", "lives"} : o[c] = n[c]
  <2>1. o["writes"] = n["writes"] - 1 /\ \A c \in Classes \ {"writes", "lives"} : o[c] = n[c]
    BY <1>4, KindTable DEF Classes
  <2>2. o["writes"] \in Nat /\ n["writes"] \in Nat
    BY <1>5, CensusNat
  <2>3. QED
    BY <2>1, <2>2
<1>7. q # <<>> /\ Head(q) = "write"
  <2>1. OneGuard(n, q, sops[s])
    BY <1>5 DEF SessionOK
  <2>2. n["bodies"] \in Nat /\ n["closings"] \in Nat /\ n["writes"] \in Nat
    BY <1>5, CensusNat
  <2> HIDE DEF q, n
  <2>3. QED
    BY <1>6, <2>1, <2>2 DEF OneGuard
<1> HIDE DEF n
<1>8. sstate' \in [Sessions -> States \cup {"new"}] /\ sstate'[s] = st /\ \A r \in Sessions \ {s} : sstate'[r] = sstate[r]
  <2>1. CASE ends
    BY <2>1, <1>3, TypesNow DEF States
  <2>2. CASE ~ends
    BY <2>2, <1>3, TypesNow
  <2>3. QED
    BY <2>1, <2>2
<1> HIDE DEF q, o
<1>9. Q \in Seq(Events) /\ Q # <<>> /\ Tail(Q) \in Seq(Events)
      /\ SessionOK(n, s, st, Q, sops[s], sessions, holders, held, told[s], accepting)
  <2>1. CASE ends
    <3>1. Q = Append(q, sstate[s]) /\ sstate[s] \in Events /\ sstate[s] \in Disconnect /\ st = "stopping"
      BY <2>1 DEF Events
    <3> DEFINE z == sstate[s]
    <3> HIDE DEF ends, st, Q, z
    <3>2. Q = Append(q, z) /\ z \in Events /\ z \in Disconnect
      BY <3>1 DEF z
    <3>3. Q \in Seq(Events) /\ Q # <<>> /\ Tail(Q) \in Seq(Events)
      BY <1>5, <3>2
    <3>4. n["bodies"] = n["bodies"] + (IF q = <<>> THEN 1 ELSE 0)
      BY <1>5, <1>7, CensusNat
    <3>5. \A c \in {"begins", "connects", "joins"} : n[c] <= n[c]
      BY <1>5, CensusNat
    <3>6. SessionOK(n, s, z, q, sops[s], sessions, holders, held, told[s], accepting)
      BY <1>5 DEF z
    <3>7. SessionOK(n, s, "stopping", Q, sops[s], sessions, holders, held, told[s], accepting)
      BY <1>5, <3>2, <3>4, <3>5, <3>6, Disconnected
    <3>8. QED
      BY <3>1, <3>3, <3>7
  <2>2. CASE ~ends
    BY <2>2, <1>5, <1>7
  <2>3. QED
    BY <2>1, <2>2
<1> HIDE DEF ends, st, Q
<1> DEFINE B == Below(i)
<1>10. Release(s, Q, B) /\ Sorted(B) /\ Sorted(posted) /\ queue \in [Sessions -> Seq(Events)] /\ Tail(Q) \in Seq(Events)
  BY <1>3, <1>4, <1>9, TypesNow
<1> HIDE DEF B
<1> DEFINE q2 == Tail(Q)
<1>0. Freed(s, q2, posted, B)
  BY <1>10, Released
<1> HIDE DEF q2
<1>11. /\ Sorted(stack') /\ queue' \in [Sessions -> Seq(Events)] /\ queue'[s] = q2
       /\ \A r \in Sessions \ {s} : queue'[r] = queue[r]
       /\ \A r : r # s => Census(r, posted, stack') = Census(r, posted, B)
       /\ \A c \in Classes \ {"bodies", "lives"} : Census(s, posted, stack')[c] = Census(s, posted, B)[c]
       /\ Census(s, posted, stack')["bodies"] = Census(s, posted, B)["bodies"] + (IF q2 = <<>> THEN 0 ELSE 1)
  BY <1>0 DEF Freed
<1>12. posted' = posted
  BY <1>3
<1>13. /\ \A c \in Classes \ {"bodies", "lives"} : m[c] = o[c]
       /\ m["bodies"] = o["bodies"] + (IF q2 = <<>> THEN 0 ELSE 1)
  BY <1>11, <1>12 DEF o, B
<1>14. m \in Censuses
  BY <1>4, <1>11, <1>12, CensusType
<1>15. Elsewise(s)
  BY <1>3, <1>4, <1>8, <1>11, <1>12, NamesAssumption, TypesNow DEF Elsewise, serverVars, user, bounds, B
<1> HIDE DEF m
<1>16. /\ \A c \in Classes \ {"writes", "bodies", "lives"} : m[c] = n[c]
       /\ m["writes"] = n["writes"] - 1
       /\ m["bodies"] = n["bodies"] + (IF q2 = <<>> THEN 0 ELSE 1)
  BY <1>6, <1>13 DEF Classes
<1>17. SessionOK(m, s, st, q2, sops[s], sessions, holders, held, told[s], accepting)
  BY <1>5, <1>6, <1>9, <1>14, <1>16, WriteReleased DEF q2
<1>18. Fine(s)'
  BY <1>3, <1>8, <1>11, <1>17 DEF Fine, serverVars, user, m
<1>19. QED
  BY <1>4, <1>15, <1>18, SessionStep

\* Tasks behind those of a strand.
Behind(P, i, q) == [P EXCEPT ![i] = P[i] \o q]
NoBits(q, c, r) == \A j \in DOMAIN q : Bit(c, r, q[j]) = 0

LEMMA CensusConcat ==
  ASSUME NEW P, Sorted(P), NEW S, Sorted(S), NEW i \in Ios, NEW q, q \in Seq(Allowed(i)),
         NEW P2, P2 = Behind(P, i, q)
  PROVE  /\ Sorted(P2)
         /\ \A r : \A c \in Classes : NoBits(q, c, r) => Census(r, P2, S)[c] = Census(r, P, S)[c]
<1> DEFINE w == P[i] \o q
<1>1. P[i] \in Seq(Allowed(i)) /\ P \in Strands
  BY SortedAt
<1>2. w \in Seq(Allowed(i))
  BY <1>1, ConcatProperties
<1>3. Sorted(P2)
  <2>1. P2 = [P EXCEPT ![i] = w]
    BY DEF Behind
  <2> HIDE DEF w
  <2>2. Sorted([P EXCEPT ![i] = w])
    BY <1>2, SortedExcept
  <2>3. QED
    BY <2>1, <2>2
<1>4. P[i] \in Seq(Tasks) /\ q \in Seq(Tasks) /\ w \in Seq(Tasks)
  BY <1>1, <1>2, TaskTypes
<1>5. ASSUME NEW r, NEW c \in Classes, NoBits(q, c, r)
      PROVE  Census(r, P2, S)[c] = Census(r, P, S)[c]
  <2> DEFINE G == Class(c, r)
             e == P[i]
  <2>1. \A j \in DOMAIN q : q[j] \notin G
    <3>1. ASSUME NEW j \in DOMAIN q
          PROVE  q[j] \notin G
      <4>1. q[j] \in Tasks
        BY <1>4
      <4>2. Is(q[j], G) = 0
        BY <4>1, <1>5, ClassBit DEF NoBits
      <4>3. QED
        BY <4>2 DEF Is
    <3>2. QED
      BY <3>1
  <2> HIDE DEF G
  <2>2. Hit(e \o q, G) = Hit(e, G)
    <3>1. e \in Seq(Tasks)
      BY <1>4
    <3> HIDE DEF e
    <3>2. QED
      BY <1>4, <2>1, <3>1, HitConcat
  <2>3. HowMany(P2, G) = HowMany(P, G) - Hit(P[i], G) + Hit(w, G)
    <3>1. P2 = [P EXCEPT ![i] = w]
      BY DEF Behind
    <3> HIDE DEF w
    <3>2. HowMany([P EXCEPT ![i] = w], G) = HowMany(P, G) - Hit(P[i], G) + Hit(w, G)
      BY <1>1, <1>4, HowManyExcept
    <3>3. QED
      BY <3>1, <3>2
  <2>4. HowMany(P, G) \in Nat /\ Hit(P[i], G) \in Nat
    BY <1>1, <1>4, PlacesFinite, HitsFinite
  <2>5. HowMany(P2, G) = HowMany(P, G)
    BY <2>2, <2>3, <2>4
  <2>6. Count(P2, S, G) = Count(P, S, G)
    BY <2>5 DEF Count
  <2>7. QED
    BY <2>6 DEF Census, G
<1>6. QED
  BY <1>3, <1>5

\* The operations of session s that closing its socket ends, which no write is one of.
Ending == {"recv", "silence"}

LEMMA EndedIs ==
  ASSUME NEW s \in Sessions, NEW i \in Ios, NEW D \in SUBSET Ending
  PROVE  LET q == InOrder([o \in D |-> Task(o, s, "aborted")])
         IN /\ q \in Seq(Allowed(i))
            /\ \A j \in DOMAIN q : \E o \in Ending : q[j] = Task(o, s, "aborted")
<1> DEFINE T == [o \in D |-> Task(o, s, "aborted")]
           q == InOrder(T)
<1>1. IsFiniteSet(D)
  <2>1. IsFiniteSet({"recv"}) /\ IsFiniteSet({"silence"})
    BY FS_Singleton
  <2>2. IsFiniteSet({"recv"} \cup {"silence"})
    BY <2>1, FS_Union
  <2>3. D \subseteq {"recv"} \cup {"silence"}
    BY DEF Ending
  <2>4. QED
    BY <2>2, <2>3, FS_Subset
<1>2. T \in [D -> Allowed(i)]
  <2>1. \A o \in D : Task(o, s, "aborted") \in Allowed(i)
    <3>1. "recv" \in HomeKinds \ {"push"} /\ "silence" \in HomeKinds \ {"push"} /\ "aborted" \in Args
      BY DEF HomeKinds, Args
    <3>2. QED
      BY <3>1, TaskTypes DEF Ending
  <2>2. QED
    BY <2>1
<1>3. \A d \in D : T[d] = Task(d, s, "aborted")
  OBVIOUS
<1> HIDE DEF T
<1>4. q \in Seq(Allowed(i)) /\ \A j \in DOMAIN q : \E e \in D : q[j] = T[e]
  <2> DEFINE A == Allowed(i)
  <2>1. T \in [D -> A]
    BY <1>2
  <2> HIDE DEF A
  <2>2. InOrder(T) \in Seq(A) /\ \A j \in DOMAIN InOrder(T) : \E e \in D : InOrder(T)[j] = T[e]
    BY <1>1, <2>1, InOrderIs
  <2>3. QED
    BY <2>2 DEF A
<1>5. \A j \in DOMAIN q : \E o \in Ending : q[j] = Task(o, s, "aborted")
  <2> HIDE DEF q
  <2>1. QED
    BY <1>3, <1>4
<1>6. QED
  BY <1>4, <1>5 DEF q, T


LEMMA HandleDisconnectKeeps ==
  ASSUME IInv, NEW i \in Ios, HandleDisconnect(i)
  PROVE  IInv'
<1>1. At(i, "close") /\ "close" \in LiveKinds /\ "close" \notin OwnKinds \cup {"user"} /\ i \in Ios
  BY IosFinite DEF HandleDisconnect, LiveKinds, HomeKinds, MapKinds, OwnKinds
<1>2. PICK s \in Sessions, x \in Args : /\ Top(i) = Task("close", s, x) /\ Top(i).s = s /\ Top(i).x = x
                                       /\ s \in holders
  BY <1>1, HandlerOf
<1> DEFINE n == Census(s, posted, stack)
           o == Census(s, posted, Below(i))
           m == Census(s, posted', stack')
           Q == queue[s]
           D == sops[s]
           w == InOrder([e \in D |-> Task(e, s, "aborted")])
<1>3. /\ UNCHANGED <<serverVars, sessions, user>> /\ sopen' = sopen \ {s}
      /\ sstate' = [sstate EXCEPT ![s] = IF @ = "stopping" THEN "stopped" ELSE @]
      /\ sops' = [sops EXCEPT ![s] = {}]
      /\ posted' = [posted EXCEPT ![i] = posted[i] \o w]
      /\ Release(s, Q, Below(i))
  BY <1>2 DEF HandleDisconnect
<1>4. /\ ~Drained /\ Sorted(posted) /\ Sorted(Below(i))
      /\ \A r : r # s => Census(r, posted, Below(i)) = Census(r, posted, stack)
      /\ \A c \in Classes : Census(s, posted, Below(i))[c] = Census(s, posted, stack)[c]
           - (IF "close" \in KindsOf(c) /\ (c = "pushes" => x \in Disconnect) THEN 1 ELSE 0)
      /\ \A c \in Classes : Census(s, posted, stack)[c] \in Nat
  BY <1>1, <1>2, Popped
<1>5. /\ SessionOK(n, s, sstate[s], Q, sops[s], sessions, holders, held, told[s], accepting)
      /\ n \in Censuses /\ o \in Censuses /\ Q \in Seq(Events)
  BY <1>4, CensusNow, CensusType, TypesNow DEF IInv, Fine
<1>6. o["closings"] = n["closings"] - 1 /\ n["closings"] > 0 /\ \A c \in Classes \ {"closings", "lives"} : o[c] = n[c]
  <2>1. o["closings"] = n["closings"] - 1 /\ \A c \in Classes \ {"closings", "lives"} : o[c] = n[c]
    BY <1>4, KindTable DEF Classes
  <2>2. o["closings"] \in Nat /\ n["closings"] \in Nat
    BY <1>5, CensusNat
  <2>3. QED
    BY <2>1, <2>2
<1> HIDE DEF n, o, Q
<1>7. sstate[s] = "stopping" /\ "write" \notin sops[s] /\ Q # <<>>
  BY <1>5, <1>6, ClosingStops
<1>8. Tail(Q) \in Seq(Events)
  BY <1>5, <1>7
<1>9. sstate' \in [Sessions -> States \cup {"new"}] /\ sstate'[s] = "stopped" /\ \A r \in Sessions \ {s} : sstate'[r] = sstate[r]
  BY <1>3, <1>7, TypesNow DEF States
<1>10. sops' \in [Sessions -> SUBSET {"recv", "write", "silence"}] /\ sops'[s] = {} /\ \A r \in Sessions \ {s} : sops'[r] = sops[r]
  BY <1>3, TypesNow
<1>11. w \in Seq(Allowed(i)) /\ \A j \in DOMAIN w : \E e \in Ending : w[j] = Task(e, s, "aborted")
  <2>1. D \in SUBSET Ending
    <3>1. D \subseteq {"recv", "write", "silence"}
      BY TypesNow
    <3>2. QED
      BY <3>1, <1>7 DEF Ending
  <2> HIDE DEF D
  <2>2. QED
    BY <2>1, EndedIs
<1> DEFINE B == Below(i)
           P2 == posted'
<1>12. Release(s, Q, B) /\ Sorted(B) /\ queue \in [Sessions -> Seq(Events)] /\ P2 = Behind(posted, i, w)
  BY <1>3, <1>4, TypesNow DEF Behind
<1>13. /\ \A r : r # s => \A c \in Classes : NoBits(w, c, r)
       /\ \A c \in Classes \ {"lives"} : NoBits(w, c, s)
  <2>1. ASSUME NEW j \in DOMAIN w
        PROVE  /\ \A r : r # s => \A c \in Classes : Bit(c, r, w[j]) = 0
               /\ \A c \in Classes \ {"lives"} : Bit(c, s, w[j]) = 0
    <3>1. PICK e \in Ending : w[j] = Task(e, s, "aborted")
      BY <1>11
    <3>2. w[j].k = e /\ w[j].s = s
      BY <3>1, TaskParts
    <3>3. \A c \in Classes \ {"lives"} : e \notin KindsOf(c)
      BY KindTable DEF Ending
    <3>4. QED
      BY <3>2, <3>3 DEF Bit
  <2>2. QED
    BY <2>1 DEF NoBits
<1> HIDE DEF B, P2, w
<1>14. /\ Sorted(P2)
       /\ \A r : \A c \in Classes : NoBits(w, c, r) => Census(r, P2, B)[c] = Census(r, posted, B)[c]
  <2>1. Sorted(posted) /\ Sorted(B) /\ w \in Seq(Allowed(i)) /\ P2 = Behind(posted, i, w)
    BY <1>4, <1>11, <1>12
  <2>2. QED
    BY <2>1, CensusConcat
<1>15. /\ \A r : r # s => Census(r, P2, B) = Census(r, posted, B)
       /\ \A c \in Classes \ {"lives"} : Census(s, P2, B)[c] = Census(s, posted, B)[c]
  <2>1. ASSUME NEW r, r # s
        PROVE  Census(r, P2, B) = Census(r, posted, B)
    <3>1. \A c \in Classes : Census(r, P2, B)[c] = Census(r, posted, B)[c]
      BY <1>13, <1>14, <2>1
    <3>2. Census(r, P2, B) \in Censuses /\ Census(r, posted, B) \in Censuses
      BY <1>4, <1>12, <1>14, CensusType
    <3>3. QED
      BY <3>1, <3>2 DEF Censuses
  <2>2. QED
    BY <1>13, <1>14, <2>1
<1> DEFINE q2 == Tail(Q)
<1>0. Freed(s, q2, P2, B)
  BY <1>8, <1>12, <1>14, Released
<1> HIDE DEF q2
<1>16. /\ Sorted(stack') /\ queue' \in [Sessions -> Seq(Events)] /\ queue'[s] = q2
       /\ \A r \in Sessions \ {s} : queue'[r] = queue[r]
       /\ \A r : r # s => Census(r, P2, stack') = Census(r, P2, B)
       /\ \A c \in Classes \ {"bodies", "lives"} : Census(s, P2, stack')[c] = Census(s, P2, B)[c]
       /\ Census(s, P2, stack')["bodies"] = Census(s, P2, B)["bodies"] + (IF q2 = <<>> THEN 0 ELSE 1)
  BY <1>0 DEF Freed
<1>17. /\ \A c \in Classes \ {"bodies", "lives"} : m[c] = o[c]
       /\ m["bodies"] = o["bodies"] + (IF q2 = <<>> THEN 0 ELSE 1)
  BY <1>15, <1>16 DEF o, B, P2, Classes
<1>18. m \in Censuses
  BY <1>14, <1>16, CensusType DEF P2
<1>19. Elsewise(s)
  <2>1. \A r : r # s => Census(r, P2, stack') = Census(r, posted, stack)
    BY <1>4, <1>15, <1>16 DEF B
  <2>2. UNCHANGED <<state, acceptor, accepting, ctimer, holders, held, app, ioStopped, starts, stops, sends, told, sessions>>
    BY <1>3 DEF serverVars, user, bounds
  <2>3. sopen' \subseteq Sessions /\ \A r \in (Sessions \cup {NoSession}) \ {s} : r # s
    BY <1>3, TypesNow
  <2>4. QED
    BY <1>9, <1>10, <1>14, <1>16, <2>1, <2>2, <2>3, TypesNow DEF Elsewise, P2
<1> HIDE DEF m
<1>20. /\ \A c \in Classes \ {"closings", "bodies", "lives"} : m[c] = n[c]
       /\ m["closings"] = n["closings"] - 1
       /\ m["bodies"] = n["bodies"] + (IF q2 = <<>> THEN 0 ELSE 1)
  BY <1>6, <1>17 DEF Classes
<1>21. SessionOK(m, s, "stopped", q2, {}, sessions, holders, held, told[s], accepting)
  BY <1>5, <1>6, <1>18, <1>20, CloseReleased DEF q2
<1>22. Fine(s)'
  BY <1>3, <1>9, <1>10, <1>16, <1>21 DEF Fine, serverVars, user, m
<1>23. QED
  BY <1>4, <1>19, <1>22, SessionStep

-----------------------------------------------------------------------------
(* Accepting.                                                              *)

\* What a session has of any other class than "accepts" is alive.
LEMMA Alive ==
  ASSUME NEW P, Sorted(P), NEW S, Sorted(S), NEW r,
         NEW c \in {"begins", "connects", "joins", "pushes", "bodies", "closings", "writes"},
         Census(r, P, S)["lives"] = 0
  PROVE  Census(r, P, S)[c] = 0
<1> DEFINE G == Class(c, r)
           L == Class("lives", r)
<1>1. P \in Strands /\ S \in Strands /\ c \in Classes /\ "lives" \in Classes
  BY SortedAt, IosFinite DEF Classes
<1>2. \A t \in Tasks : t \in G => t \in L
  <2>1. ASSUME NEW t \in Tasks
        PROVE  t \in G => t \in L
    <3>1. Is(t, G) = Bit(c, r, t) /\ Is(t, L) = Bit("lives", r, t)
      BY ClassBit
    <3>2. t.k \in KindsOf(c) => t.k \in KindsOf("lives")
      BY DEF KindsOf, LiveKinds, HomeKinds, MapKinds
    <3>3. QED
      BY <3>1, <3>2 DEF Bit, Is
  <2>2. QED
    BY <2>1
<1> HIDE DEF G, L
<1>3. \A F \in Strands : HowMany(F, L) = 0 => HowMany(F, G) = 0
  <2>1. ASSUME NEW F \in Strands, HowMany(F, L) = 0
        PROVE  HowMany(F, G) = 0
    <3>1. \A i \in Ios : \A j \in DOMAIN F[i] : F[i][j] \notin L
      BY <2>1, HowManyNone
    <3>2. \A i \in Ios : \A j \in DOMAIN F[i] : F[i][j] \in Tasks
      BY StrandIsSeq
    <3>3. \A i \in Ios : \A j \in DOMAIN F[i] : F[i][j] \notin G
      BY <1>2, <3>1, <3>2
    <3>4. QED
      BY <3>3, HowManyNone
  <2>2. QED
    BY <2>1
<1>4. HowMany(P, L) \in Nat /\ HowMany(S, L) \in Nat
  BY <1>1, PlacesFinite
<1>5. HowMany(P, L) + HowMany(S, L) = 0
  BY <1>1 DEF Census, Count, L
<1>6. HowMany(P, G) = 0 /\ HowMany(S, G) = 0
  BY <1>1, <1>3, <1>4, <1>5
<1>7. QED
  BY <1>1, <1>6 DEF Census, Count, G

\* Session r, accepted, is started.
LEMMA Begun ==
  ASSUME NEW n \in Censuses, NEW r, NEW st, NEW q, NEW ops, NEW map, NEW hold, NEW kept, NEW tl, NEW acc,
         SessionOK(n, r, st, q, ops, map, hold, kept, tl, acc), n["accepts"] > 0,
         n["lives"] = 0 => n["begins"] = 0 /\ n["connects"] = 0 /\ n["joins"] = 0,
         NEW m \in Censuses, \A c \in Classes \ {"accepts", "begins", "lives"} : m[c] = n[c],
         m["accepts"] = n["accepts"] - 1, m["begins"] = n["begins"] + 1, NEW hold2, r \in hold2
  PROVE  SessionOK(m, r, "starting", q, ops, map, hold2, kept, tl, acc)
<1>1. \A c \in {"connects", "joins", "pushes", "bodies", "closings", "writes"} : m[c] = n[c]
  BY DEF Classes
<1>2. n["accepts"] \in Nat /\ n["lives"] \in Nat
  BY CensusNat
<1>3. r \notin hold /\ tl = "none" /\ st = "stopped" /\ n["accepts"] = 1 /\ acc # r
  BY <1>2 DEF SessionOK, Accepted
<1>4. n["lives"] = 0 /\ r \notin map
  BY <1>2, <1>3 DEF SessionOK, Counted
<1>5. m["begins"] = 1 /\ m["connects"] = 0 /\ m["joins"] = 0 /\ m["accepts"] = 0
  BY <1>1, <1>3, <1>4
<1>6. OneEnd(m, "starting", q) /\ OneGuard(m, q, ops) /\ Counted(m, r, "starting", q, ops, map, hold2, kept)
  BY <1>1, <1>3 DEF SessionOK, OneEnd, OneGuard, Counted
<1>7. Accepted(m, r, "starting", hold2, tl, acc) /\ Greeted(m, r, "starting", map, tl)
  BY <1>3, <1>4, <1>5 DEF Accepted, Greeted
<1>8. QED
  BY <1>6, <1>7 DEF SessionOK

\* Session r is taken for the next connection, or accepted, or dropped.
LEMMA Accepts ==
  ASSUME NEW n \in Censuses, NEW r, NEW st, NEW q, NEW ops, NEW map, NEW hold, NEW kept, NEW tl, NEW acc,
         SessionOK(n, r, st, q, ops, map, hold, kept, tl, acc),
         NEW m \in Censuses, \A c \in Classes \ {"accepts"} : m[c] = n[c], NEW acc2, NEW st2,
         \/ st2 = st /\ acc = r /\ m["accepts"] = n["accepts"] + 1 /\ acc2 # r
         \/ st2 = st /\ n["accepts"] > 0 /\ m["accepts"] = n["accepts"] - 1 /\ acc2 = acc
         \/ st = "new" /\ st2 = "stopped" /\ m["accepts"] = n["accepts"]
  PROVE  SessionOK(m, r, st2, q, ops, map, hold, kept, tl, acc2)
<1>1. \A c \in {"begins", "connects", "joins", "pushes", "bodies", "closings", "writes", "lives"} : m[c] = n[c]
  BY DEF Classes
<1>2. n["accepts"] \in Nat /\ m["accepts"] \in Nat
  BY CensusNat
<1>3. st2 = st \/ (st = "new" /\ st2 = "stopped")
  OBVIOUS
<1>4. OneEnd(m, st2, q) /\ OneGuard(m, q, ops) /\ Counted(m, r, st2, q, ops, map, hold, kept) /\ Greeted(m, r, st2, map, tl)
  BY <1>1, <1>3 DEF SessionOK, OneEnd, OneGuard, Counted, Greeted
<1>5. Accepted(n, r, st, hold, tl, acc)
  BY DEF SessionOK
<1>6. Accepted(m, r, st2, hold, tl, acc2)
  BY <1>2, <1>5 DEF Accepted
<1>7. QED
  BY <1>4, <1>6 DEF SessionOK

\* _post_accept keeps what holds of the sessions.
LEMMA PostAcceptFine ==
  ASSUME IInv, PostAccept, UNCHANGED <<queue, sops, told, sessions, holders, held>>,
         \A r \in Sessions : Census(r, posted', stack') = Census(r, posted, stack)
  PROVE  /\ \A r \in Sessions : Fine(r)'
         /\ accepting' \in Sessions \cup {NoSession} /\ sstate' \in [Sessions -> States \cup {"new"}]
<1>1. CASE UNCHANGED <<accepting, sstate>>
  <2>1. \A r \in Sessions : Fine(r)'
    BY <1>1, SessionsKept
  <2>2. QED
    BY <1>1, <2>1 DEF IInv, Typed, TypeOK
<1>2. ASSUME NEW s \in Sessions, sstate[s] = "new", accepting' = s, sstate' = [sstate EXCEPT ![s] = "stopped"]
      PROVE  \A r \in Sessions : Fine(r)'
  <2>1. ASSUME NEW r \in Sessions, r # s
        PROVE  Fine(r)'
    <3>1. Fine(r) /\ (r \in held => r \in holders) /\ sstate'[r] = sstate[r]
      BY <1>2, <2>1, TypesNow DEF IInv, Fine, SessionOK, Counted
    <3>2. QED
      BY <1>2, <2>1, <3>1, Untouched
  <2>2. Fine(s)'
    <3> DEFINE n == Census(s, posted, stack)
    <3>1. /\ SessionOK(n, s, "new", queue[s], sops[s], sessions, holders, held, told[s], accepting)
          /\ n \in Censuses
      BY <1>2, CensusNow DEF IInv, Fine
    <3> HIDE DEF n
    <3>2. SessionOK(n, s, "stopped", queue[s], sops[s], sessions, holders, held, told[s], s)
      BY <3>1, Accepts
    <3>3. Census(s, posted', stack') = n /\ sstate'[s] = "stopped"
      BY <1>2, TypesNow DEF n
    <3>4. QED
      BY <1>2, <3>2, <3>3 DEF Fine
  <2>3. QED
    BY <2>1, <2>2
<1>3. CASE ~UNCHANGED <<accepting, sstate>>
  <2>1. PICK s \in Sessions : sstate[s] = "new" /\ accepting' = s /\ sstate' = [sstate EXCEPT ![s] = "stopped"]
    BY <1>3 DEF PostAccept
  <2>2. QED
    BY <1>2, <2>1, TypesNow DEF States
<1>4. QED
  BY <1>1, <1>3

LEMMA AcceptAgainKeeps ==
  ASSUME IInv, AcceptAgain
  PROVE  IInv'
<1>1. At(0, "again") /\ "again" \notin OwnKinds \cup {"user"} /\ 0 \in Ios
  BY IosFinite DEF AcceptAgain, OwnKinds
<1>2. PICK s \in Sessions, x \in Args : Top(0) = Task("again", s, x)
  BY <1>1, HandlerOf
<1>3. /\ PostAccept /\ stack' = Below(0) /\ posted' = posted
      /\ UNCHANGED <<state, acceptor, ctimer, holders, sessions, sopen, sops, queue, user>>
  BY DEF AcceptAgain
<1>4. /\ ~Drained /\ Sorted(posted) /\ Sorted(Below(0))
      /\ \A r : r # s => Census(r, posted, Below(0)) = Census(r, posted, stack)
      /\ \A c \in Classes : Census(s, posted, Below(0))[c] = Census(s, posted, stack)[c]
           - (IF "again" \in KindsOf(c) /\ (c = "pushes" => x \in Disconnect) THEN 1 ELSE 0)
      /\ \A c \in Classes : Census(s, posted, stack)[c] \in Nat
  BY <1>1, <1>2, Popped
<1>5. Census(s, posted, Below(0)) = Census(s, posted, stack)
  <2>1. \A c \in Classes : Census(s, posted, Below(0))[c] = Census(s, posted, stack)[c]
    BY <1>4, KindTable
  <2>2. Census(s, posted, Below(0)) \in Censuses /\ Census(s, posted, stack) \in Censuses
    BY <1>4, CensusType, CensusNow
  <2>3. QED
    BY <2>1, <2>2 DEF Censuses
<1>6. \A r : Census(r, posted', stack') = Census(r, posted, stack)
  BY <1>3, <1>4, <1>5
<1>7. UNCHANGED <<queue, sops, told, sessions, holders, held>> /\ PostAccept
  BY <1>3 DEF user
<1>8. /\ \A r \in Sessions : Fine(r)'
      /\ accepting' \in Sessions \cup {NoSession} /\ sstate' \in [Sessions -> States \cup {"new"}]
  BY <1>6, <1>7, PostAcceptFine
<1>9. ServerOK' /\ AppOK'
  BY <1>3, <1>4, <1>6, ServerUntouched DEF Own, user
<1>10. Typed'
  BY <1>3, <1>4, <1>8 DEF IInv, Typed, TypeOK, Sorted, Strands, user, bounds
<1>11. QED
  BY <1>8, <1>9, <1>10 DEF IInv

LEMMA HandleAcceptKeeps ==
  ASSUME IInv, HandleAccept
  PROVE  IInv'
<1>1. At(0, "accept") /\ "accept" \notin OwnKinds \cup {"user"} /\ 0 \in Ios
  BY IosFinite DEF HandleAccept, OwnKinds
<1>2. PICK s \in Sessions, x \in Args : Top(0) = Task("accept", s, x) /\ Top(0).s = s /\ Top(0).x = x
  BY <1>1, HandlerOf
<1>3. UNCHANGED <<state, acceptor, accepting, ctimer, sessions, sops, queue, posted, user>>
  BY DEF HandleAccept
<1>4. /\ ~Drained /\ Sorted(posted) /\ Sorted(Below(0))
      /\ \A r : r # s => Census(r, posted, Below(0)) = Census(r, posted, stack)
      /\ \A c \in Classes : Census(s, posted, Below(0))[c] = Census(s, posted, stack)[c]
           - (IF "accept" \in KindsOf(c) /\ (c = "pushes" => x \in Disconnect) THEN 1 ELSE 0)
      /\ \A c \in Classes : Census(s, posted, stack)[c] \in Nat
  BY <1>1, <1>2, Popped
<1> DEFINE n == Census(s, posted, stack)
           m == Census(s, posted', stack')
           B == Below(0)
           S1 == Call(B, 0, Task("again", s, "-"))
           y == "-"
<1>5. /\ SessionOK(n, s, sstate[s], queue[s], sops[s], sessions, holders, held, told[s], accepting)
      /\ n \in Censuses
  BY CensusNow DEF IInv, Fine
<1>6. n["accepts"] > 0
  <2>1. Census(s, posted, Below(0)) \in Censuses
    BY <1>4, CensusType
  <2>2. Census(s, posted, Below(0))["accepts"] \in Nat
    BY <2>1, CensusNat
  <2>3. QED
    BY <1>4, <2>2, KindTable DEF Classes
<1>7. /\ Task("again", s, y) \in Allowed(0) /\ Task("session2", s, y) \in Allowed(0) /\ Task("user", s, y) \in Allowed(0)
      /\ User(s) = Task("user", s, y)
  BY TaskTypes DEF MapKinds, HomeKinds, Args, User
<1>8. S1 = Call(B, 0, Task("again", s, y))
  OBVIOUS
<1>9. Sorted(B) /\ Sorted(posted) /\ \A c \in Classes : Census(s, posted, B)[c] \in Nat
  BY <1>4, CensusType DEF Censuses
<1>10. (\A c \in Classes \ {"accepts"} : Census(s, posted, B)[c] = n[c]) /\ Census(s, posted, B)["accepts"] = n["accepts"] - 1
  <2>1. \A c \in Classes \ {"accepts"} : Census(s, posted, B)[c] = n[c]
    BY <1>4, KindTable
  <2>2. Census(s, posted, B)["accepts"] = n["accepts"] - 1
    BY <1>4, KindTable DEF Classes
  <2>3. QED
    BY <2>1, <2>2
<1> HIDE DEF B, S1, y
<1>11. /\ Sorted(S1) /\ \A r : r # s => Census(r, posted, S1) = Census(r, posted, B)
       /\ \A c \in Classes : Census(s, posted, S1)[c] = Census(s, posted, B)[c]
            + (IF "again" \in KindsOf(c) /\ (c = "pushes" => y \in Disconnect) THEN 1 ELSE 0)
  BY <1>1, <1>7, <1>8, <1>9, Added
<1>12. \A c \in Classes : Census(s, posted, S1)[c] = Census(s, posted, B)[c]
  BY <1>9, <1>11, KindTable
<1>13. CASE x = "ok" /\ state = "started" /\ acceptor
  <2> DEFINE S2 == Call(S1, 0, Task("session2", s, y))
             S3 == stack'
  <2>1. /\ holders' = holders \cup {s} /\ sstate' = [sstate EXCEPT ![s] = "starting"] /\ sopen' = sopen
        /\ S3 = Call(S2, 0, Task("user", s, y))
    BY <1>2, <1>13 DEF HandleAccept, B, S1, y, User
  <2>2. S2 = Call(S1, 0, Task("session2", s, y)) /\ Sorted(S1) /\ Sorted(posted)
    BY <1>9, <1>11
  <2> HIDE DEF S2, S3
  <2>3. /\ Sorted(S2) /\ \A r : r # s => Census(r, posted, S2) = Census(r, posted, S1)
        /\ \A c \in Classes : Census(s, posted, S2)[c] = Census(s, posted, S1)[c]
             + (IF "session2" \in KindsOf(c) /\ (c = "pushes" => y \in Disconnect) THEN 1 ELSE 0)
    BY <1>1, <1>7, <2>2, Added
  <2>4. /\ Sorted(S3) /\ \A r : r # s => Census(r, posted, S3) = Census(r, posted, S2)
        /\ \A c \in Classes : Census(s, posted, S3)[c] = Census(s, posted, S2)[c]
             + (IF "user" \in KindsOf(c) /\ (c = "pushes" => y \in Disconnect) THEN 1 ELSE 0)
    BY <1>1, <1>7, <2>1, <2>2, <2>3, Added
  <2>5. \A c \in Classes : Census(s, posted, S1)[c] \in Nat /\ Census(s, posted, S2)[c] \in Nat
    BY <2>2, <2>3, CensusType DEF Censuses
  <2>6. \A c \in Classes \ {"lives"} : Census(s, posted, S3)[c] = Census(s, posted, S2)[c]
    BY <2>4, <2>5, KindTable
  <2>7. \A c \in Classes \ {"lives", "begins"} : Census(s, posted, S2)[c] = Census(s, posted, S1)[c]
    BY <2>3, <2>5, KindTable
  <2>8. Census(s, posted, S2)["begins"] = Census(s, posted, S1)["begins"] + 1
    BY <2>3, KindTable DEF Classes
  <2>9. posted' = posted /\ m = Census(s, posted, S3)
    BY <1>3 DEF S3
  <2>10. /\ \A c \in Classes \ {"accepts", "begins", "lives"} : m[c] = n[c]
         /\ m["accepts"] = n["accepts"] - 1 /\ m["begins"] = n["begins"] + 1
    <3>1. \A c \in Classes \ {"accepts", "begins", "lives"} : m[c] = n[c]
      BY <1>10, <1>12, <2>6, <2>7, <2>9
    <3>2. m["accepts"] = n["accepts"] - 1
      BY <1>10, <1>12, <2>6, <2>7, <2>9 DEF Classes
    <3>3. m["begins"] = n["begins"] + 1
      BY <1>10, <1>12, <2>6, <2>8, <2>9 DEF Classes
    <3>4. QED
      BY <3>1, <3>2, <3>3
  <2>11. m \in Censuses
    BY <1>9, <2>4, <2>9, CensusType
  <2>12. n["lives"] = 0 => n["begins"] = 0 /\ n["connects"] = 0 /\ n["joins"] = 0
    BY TypesNow, Alive
  <2> DEFINE hold2 == holders \cup {s}
  <2>13. s \in hold2
    OBVIOUS
  <2> HIDE DEF n, m, hold2
  <2>14. SessionOK(m, s, "starting", queue[s], sops[s], sessions, hold2, held, told[s], accepting)
    BY <1>5, <1>6, <2>10, <2>11, <2>12, <2>13, Begun
  <2>15. sstate'[s] = "starting" /\ sstate' \in [Sessions -> States \cup {"new"}] /\ \A r \in Sessions \ {s} : sstate'[r] = sstate[r]
    BY <2>1, TypesNow DEF States
  <2>16. Fine(s)'
    BY <1>3, <2>1, <2>14, <2>15 DEF Fine, user, m, hold2
  <2>17. \A r : r # s => Census(r, posted', stack') = Census(r, posted, stack)
    BY <1>4, <1>11, <2>3, <2>4, <2>9 DEF S3, B
  <2>18. ASSUME NEW r \in Sessions
         PROVE  Fine(r)'
    <3>1. CASE r # s
      <4>1. Fine(r) /\ (r \in held => r \in holders)
        BY DEF IInv, Fine, SessionOK, Counted
      <4>2. QED
        BY <1>3, <2>1, <2>15, <2>17, <3>1, <4>1, Untouched DEF user
    <3>2. QED
      BY <3>1, <2>16
  <2>19. ServerOK' /\ AppOK'
    <3>1. NoSession # s /\ Server # s
      BY NamesAssumption
    <3>2. Census(NoSession, posted', stack') = Own
      BY <2>17, <3>1 DEF Own
    <3>3. QED
      BY <1>3, <1>4, <1>13, <2>1, <3>1, <3>2 DEF IInv, ServerOK, AppOK, Own, Drained, user
  <2>20. Typed'
    BY <1>3, <1>9, <2>1, <2>4, <2>9, <2>15 DEF IInv, Typed, TypeOK, Sorted, Strands, user, bounds, S3
  <2>21. QED
    BY <2>18, <2>19, <2>20 DEF IInv
<1>14. CASE ~(x = "ok" /\ state = "started" /\ acceptor)
  <2>1. /\ (stack' = B \/ stack' = S1) /\ sopen' = sopen \ {s} /\ UNCHANGED <<holders, sstate>> /\ posted' = posted
    BY <1>2, <1>3, <1>14 DEF HandleAccept, B, S1, y
  <2>2. Sorted(stack') /\ \A r : r # s => Census(r, posted', stack') = Census(r, posted, stack)
    BY <1>4, <1>9, <1>11, <2>1 DEF B
  <2>3. \A c \in Classes : m[c] = Census(s, posted, B)[c]
    BY <1>12, <2>1
  <2>4. m \in Censuses
    BY <1>9, <2>1, <2>2, CensusType
  <2>5. (\A c \in Classes \ {"accepts"} : m[c] = n[c]) /\ m["accepts"] = n["accepts"] - 1
    BY <1>10, <2>3 DEF Classes
  <2> HIDE DEF n, m
  <2>6. SessionOK(m, s, sstate[s], queue[s], sops[s], sessions, holders, held, told[s], accepting)
    BY <1>5, <1>6, <2>4, <2>5, Accepts
  <2>7. Fine(s)'
    BY <1>3, <2>1, <2>6 DEF Fine, user, m
  <2>8. Elsewise(s)
    BY <1>3, <1>9, <2>1, <2>2, NamesAssumption, TypesNow DEF Elsewise, user, bounds
  <2>9. QED
    BY <1>4, <2>7, <2>8, SessionStep
<1>15. QED
  BY <1>13, <1>14

LEMMA AcceptEndsKeeps ==
  ASSUME IInv, AcceptEnds
  PROVE  IInv'
<1>1. PICK s \in Sessions, ec \in Results :
        /\ accepting = s /\ posted' = Post(posted, 0, Task("accept", s, ec))
        /\ sopen' = IF ec = "ok" THEN sopen \cup {s} ELSE sopen
  BY DEF AcceptEnds, Results, IInv, Typed, TypeOK
<1>2. accepting' = NoSession /\ UNCHANGED <<state, acceptor, ctimer, holders, sessions, sstate, sops, queue, stack, user>>
  BY DEF AcceptEnds
<1>3. ~Drained
  BY <1>1, DrainedQuiet, NamesAssumption
<1>4. Task("accept", s, ec) \in Allowed(0) /\ 0 \in Ios
  BY IosFinite, TaskTypes DEF Results, Args
<1> DEFINE P2 == posted'
           n == Census(s, posted, stack)
           m == Census(s, posted', stack')
<1>5. P2 = Post(posted, 0, Task("accept", s, ec)) /\ Sorted(posted) /\ Sorted(stack)
  BY <1>1, TypesNow
<1> HIDE DEF P2
<1>6. /\ Sorted(P2) /\ \A r : r # s => Census(r, P2, stack) = Census(r, posted, stack)
      /\ \A c \in Classes : Census(s, P2, stack)[c] = Census(s, posted, stack)[c]
           + (IF "accept" \in KindsOf(c) /\ (c = "pushes" => ec \in Disconnect) THEN 1 ELSE 0)
  BY <1>4, <1>5, Added
<1>7. Sorted(posted') /\ Sorted(stack') /\ \A r : r # s => Census(r, posted', stack') = Census(r, posted, stack)
  BY <1>2, <1>5, <1>6 DEF P2
<1>8. n \in Censuses /\ m \in Censuses /\ \A c \in Classes : n[c] \in Nat
  BY <1>7, CensusType, CensusNow DEF Censuses
<1>9. (\A c \in Classes \ {"accepts"} : m[c] = n[c]) /\ m["accepts"] = n["accepts"] + 1
  <2>1. \A c \in Classes : m[c] = Census(s, P2, stack)[c]
    BY <1>2 DEF P2
  <2>2. \A c \in Classes \ {"accepts"} : m[c] = n[c]
    BY <1>6, <1>8, <2>1, KindTable
  <2>3. m["accepts"] = n["accepts"] + 1
    BY <1>6, <1>8, <2>1, KindTable DEF Classes
  <2>4. QED
    BY <2>2, <2>3
<1>10. SessionOK(n, s, sstate[s], queue[s], sops[s], sessions, holders, held, told[s], s)
  BY <1>1 DEF IInv, Fine
<1> HIDE DEF n, m
<1>11. NoSession # s
  BY NamesAssumption
<1>12. SessionOK(m, s, sstate[s], queue[s], sops[s], sessions, holders, held, told[s], NoSession)
  BY <1>8, <1>9, <1>10, <1>11, Accepts
<1>13. Fine(s)'
  BY <1>2, <1>12 DEF Fine, user, m
<1>14. ASSUME NEW r \in Sessions
       PROVE  Fine(r)'
  <2>1. CASE r # s
    <3>1. Fine(r) /\ (r \in held => r \in holders) /\ accepting' # r
      BY <1>2, NamesAssumption DEF IInv, Fine, SessionOK, Counted
    <3>2. QED
      BY <1>2, <1>7, <2>1, <3>1, Untouched DEF user
  <2>2. QED
    BY <1>13, <2>1
<1>15. ServerOK' /\ AppOK'
  <2>1. Census(NoSession, posted', stack') = Own
    BY <1>7, <1>11 DEF Own
  <2>2. QED
    BY <1>2, <1>3, <2>1, ServerUntouched DEF user
<1>16. Typed'
  BY <1>1, <1>2, <1>7 DEF IInv, Typed, TypeOK, Sorted, Strands, user, bounds
<1>17. QED
  BY <1>14, <1>15, <1>16 DEF IInv

-----------------------------------------------------------------------------
(* Steps of several sessions.                                              *)

\* One more task of each session of D.
LEMMA CensusAdd ==
  ASSUME NEW P, Sorted(P), NEW S, Sorted(S), NEW D \in SUBSET Sessions, NEW T \in [D -> HomeTasks],
         \A d \in D : T[d].s = d,
         NEW P2, NEW S2, (P2 = AddAll(P, T) /\ S2 = S) \/ (S2 = AddAll(S, T) /\ P2 = P)
  PROVE  /\ Sorted(P2) /\ Sorted(S2)
         /\ \A r : r \notin D => Census(r, P2, S2) = Census(r, P, S)
         /\ \A d \in D : Census(d, P2, S2) = More(Census(d, P, S), d, T[d])
<1>1. Sorted(P2) /\ Sorted(S2)
  BY SortedAddAll
<1>2. \A d \in D : T[d] \in Tasks
  BY DEF HomeTasks, AllTasks
<1>3. ASSUME NEW r, NEW c \in Classes
      PROVE  /\ r \notin D => Count(P2, S2, Class(c, r)) = Count(P, S, Class(c, r))
             /\ r \in D => Count(P2, S2, Class(c, r)) = Count(P, S, Class(c, r)) + Bit(c, r, T[r])
  <2> DEFINE G == Class(c, r)
  <2>1. \A d \in D : T[d] \in G <=> Bit(c, r, T[d]) = 1
    BY <1>2, ClassBit DEF Is
  <2>2. \A d \in D : d # r => T[d] \notin G
    BY <2>1 DEF Bit
  <2> HIDE DEF G
  <2>3. Count(P, S, G) \in Nat
    BY CountNat
  <2>4. CASE \A d \in D : T[d] \notin G
    <3>1. Count(AddAll(P, T), S, G) = Count(P, S, G) /\ Count(P, AddAll(S, T), G) = Count(P, S, G)
      BY <2>4, CountAddNone
    <3>2. r \in D => Bit(c, r, T[r]) = 0
      BY <2>1, <2>4 DEF Bit
    <3>3. QED
      BY <2>3, <3>1, <3>2 DEF G
  <2>5. CASE r \in D /\ T[r] \in G
    <3>1. \A e \in D \ {r} : T[e] \notin G
      BY <2>2
    <3>2. Count(AddAll(P, T), S, G) = Count(P, S, G) + 1 /\ Count(P, AddAll(S, T), G) = Count(P, S, G) + 1
      BY <2>5, <3>1, CountAddOne
    <3>3. Bit(c, r, T[r]) = 1
      BY <2>1, <2>5
    <3>4. QED
      BY <2>5, <3>2, <3>3 DEF G
  <2>6. QED
    BY <2>2, <2>4, <2>5
<1>4. QED
  BY <1>1, <1>3 DEF Census, More

LEMMA AppSendsKeeps ==
  ASSUME IInv, AppSends
  PROVE  IInv'
<1> DEFINE to == {s \in sessions : sstate[s] = "started" /\ s \in sopen}
           T == [s \in to |-> PushTask(s, "write")]
           P2 == posted'
<1>1. /\ P2 = AddAll(posted, T) /\ app = "free" /\ sends < MaxSends /\ sends' = sends + 1
      /\ UNCHANGED <<serverVars, sessions, sessionVars, stack, told, held, app, ioStopped, starts, stops>>
  BY DEF AppSends
<1>2. to \in SUBSET Sessions /\ T \in [to -> HomeTasks] /\ \A d \in to : T[d] = Task("push", d, "write") /\ T[d].s = d
  <2>1. to \in SUBSET Sessions
    BY TypesNow
  <2>2. \A d \in Sessions : PushTask(d, "write") \in HomeTasks
    BY TaskTypes DEF Events
  <2> HIDE DEF to
  <2>3. QED
    BY <2>1, <2>2, TaskParts DEF PushTask
<1>3. Sorted(posted) /\ Sorted(stack) /\ to \subseteq sessions
  BY TypesNow
<1> HIDE DEF to, T, P2
<1>4. /\ Sorted(P2) /\ \A r : r \notin to => Census(r, P2, stack) = Census(r, posted, stack)
      /\ \A d \in to : Census(d, P2, stack) = More(Census(d, posted, stack), d, T[d])
  BY <1>1, <1>2, <1>3, CensusAdd
<1>5. ASSUME NEW r \in Sessions
      PROVE  Fine(r)'
  <2>1. CASE r \notin to
    <3>1. Fine(r) /\ (r \in held => r \in holders)
      BY DEF IInv, Fine, SessionOK, Counted
    <3>2. Census(r, posted', stack') = Census(r, posted, stack)
      BY <1>1, <1>4, <2>1 DEF P2
    <3>3. QED
      BY <1>1, <3>1, <3>2, Untouched DEF serverVars, sessionVars
  <2>2. CASE r \in to
    <3> DEFINE n == Census(r, posted, stack)
               m == Census(r, posted', stack')
    <3>1. /\ SessionOK(n, r, sstate[r], queue[r], sops[r], sessions, holders, held, told[r], accepting) /\ n \in Censuses
          /\ r \in holders
      BY <1>3, <2>2, CensusNow DEF IInv, Fine, SessionOK, Counted
    <3>2. m = More(n, r, Task("push", r, "write"))
      BY <1>1, <1>2, <1>4, <2>2 DEF P2
    <3>3. m \in Censuses
      BY <1>1, <1>3, <1>4, CensusType DEF P2
    <3> HIDE DEF n, m
    <3>4. "write" \notin Disconnect
      BY DEF Disconnect
    <3>5. \A c \in Classes \ {"lives"} : m[c] = n[c]
      BY <3>1, <3>2, <3>4, HarmlessKinds
    <3>6. SessionOK(m, r, sstate[r], queue[r], sops[r], sessions, holders, held, told[r], accepting)
      BY <3>1, <3>3, <3>5, Harmless
    <3>7. QED
      BY <1>1, <3>6 DEF Fine, serverVars, sessionVars, m
  <2>3. QED
    BY <2>1, <2>2
<1>6. ServerOK' /\ AppOK'
  <2>1. NoSession \notin to
    BY <1>2, NamesAssumption
  <2>2. Census(NoSession, posted', stack') = Own
    BY <1>1, <1>4, <2>1 DEF Own, P2
  <2>3. ~Drained
    BY <1>1 DEF Drained
  <2>4. QED
    BY <1>1, <2>2, <2>3, ServerUntouched DEF serverVars
<1>7. Typed'
  <2>1. sends' \in 0 .. MaxSends
    BY <1>1, BoundsAssumption DEF IInv, Typed, TypeOK
  <2>2. QED
    BY <1>1, <1>4, <2>1 DEF IInv, Typed, TypeOK, Sorted, Strands, serverVars, sessionVars, P2
<1>8. QED
  BY <1>5, <1>6, <1>7 DEF IInv

-----------------------------------------------------------------------------
(* _do_stop of the server, over the stacks S.                              *)

Stopped == {s \in sessions : sstate[s] \in Disconnect}
Here    == {s \in Stopped : Home[s] = 0}
Alone   == {s \in Here : queue[s] = <<>>}
Bodies  == [s \in Alone |-> Task("body", s, "-")]
Pushes  == [s \in Stopped \ Here |-> PushTask(s, sstate[s])]

LEMMA StopTasks ==
  ASSUME IInv
  PROVE  /\ Stopped \in SUBSET Sessions /\ Stopped \subseteq sessions /\ Alone \subseteq Here /\ Here \subseteq Stopped
         /\ Alone \in SUBSET Sessions /\ Stopped \ Here \in SUBSET Sessions
         /\ Bodies \in [Alone -> HomeTasks] /\ \A d \in Alone : Bodies[d] = Task("body", d, "-") /\ Bodies[d].s = d
         /\ Pushes \in [Stopped \ Here -> HomeTasks]
         /\ \A d \in Stopped \ Here : Pushes[d] = Task("push", d, sstate[d]) /\ Pushes[d].s = d
         /\ \A d \in Stopped : sstate[d] \in Disconnect /\ sstate[d] \in Events
<1>1. Stopped \in SUBSET Sessions /\ Stopped \subseteq sessions /\ Alone \subseteq Here /\ Here \subseteq Stopped
  BY TypesNow DEF Stopped, Here, Alone
<1>2. \A d \in Stopped : sstate[d] \in Disconnect /\ sstate[d] \in Events
  BY DEF Stopped, Events
<1>3. \A d \in Alone : Task("body", d, "-") \in HomeTasks /\ Task("body", d, "-").s = d
  <2>1. "body" \in HomeKinds \ {"push"} /\ "-" \in Args
    BY DEF HomeKinds, Args
  <2>2. QED
    BY <1>1, <2>1, TaskTypes, TaskParts
<1>4. \A d \in Stopped \ Here : PushTask(d, sstate[d]) \in HomeTasks /\ PushTask(d, sstate[d]) = Task("push", d, sstate[d])
        /\ PushTask(d, sstate[d]).s = d
  BY <1>1, <1>2, TaskTypes, TaskParts DEF PushTask
<1>5. Bodies \in [Alone -> HomeTasks] /\ \A d \in Alone : Bodies[d] = Task("body", d, "-") /\ Bodies[d].s = d
  BY <1>3 DEF Bodies
<1>6. /\ Pushes \in [Stopped \ Here -> HomeTasks]
      /\ \A d \in Stopped \ Here : Pushes[d] = Task("push", d, sstate[d]) /\ Pushes[d].s = d
  BY <1>4 DEF Pushes
<1>7. QED
  BY <1>1, <1>2, <1>5, <1>6

\* What DoStop does where it does something, by session.
LEMMA DoStopIs ==
  ASSUME IInv, NEW S, DoStop(S), state \in {"starting", "started"}
  PROVE  /\ state' = "stopping" /\ ctimer' = TRUE /\ holders' = holders \ {Server}
         /\ stack' = AddAll(S, Bodies)
         /\ posted' = IF holders' = {} THEN Post(AddAll(posted, Pushes), 0, Task("exec", NoSession, "-"))
                                       ELSE AddAll(posted, Pushes)
         /\ sstate' \in [Sessions -> States \cup {"new"}] /\ queue' \in [Sessions -> Seq(Events)]
         /\ \A r \in Stopped : sstate'[r] = "stopping"
         /\ \A r \in Sessions \ Stopped : sstate'[r] = sstate[r]
         /\ \A r \in Here : queue'[r] = Append(queue[r], sstate[r])
         /\ \A r \in Sessions \ Here : queue'[r] = queue[r]
<1>1. /\ state' = "stopping" /\ ctimer' = TRUE
      /\ sstate' = [s \in Sessions |-> IF s \in Stopped THEN "stopping" ELSE sstate[s]]
      /\ queue' = [s \in Sessions |-> IF s \in Here THEN Append(queue[s], sstate[s]) ELSE queue[s]]
      /\ stack' = AddAll(S, Bodies)
      /\ Drop(Server, AddAll(posted, Pushes))
  BY DEF DoStop, Stopped, Here, Alone, Bodies, Pushes
<1>2. Server \in holders
  BY DEF IInv, ServerOK
<1>3. /\ holders' = holders \ {Server}
      /\ posted' = IF holders' = {} THEN Post(AddAll(posted, Pushes), 0, Task("exec", NoSession, "-"))
                                    ELSE AddAll(posted, Pushes)
  BY <1>1, <1>2 DEF Drop
<1>4. sstate' \in [Sessions -> States \cup {"new"}]
  <2>1. \A s \in Sessions : (IF s \in Stopped THEN "stopping" ELSE sstate[s]) \in States \cup {"new"}
    BY TypesNow DEF States
  <2>2. QED
    BY <1>1, <2>1
<1>5. queue' \in [Sessions -> Seq(Events)]
  <2>1. \A s \in Sessions : (IF s \in Here THEN Append(queue[s], sstate[s]) ELSE queue[s]) \in Seq(Events)
    BY TypesNow, StopTasks
  <2>2. QED
    BY <1>1, <2>1
<1>6. \A r \in Here : r \in Sessions /\ \A q \in Stopped : q \in Sessions
  BY StopTasks
<1>7. QED
  BY <1>1, <1>3, <1>4, <1>5, <1>6, StopTasks

\* The census of session r then.
LEMMA StopCensus ==
  ASSUME IInv, NEW S, Sorted(S), DoStop(S), state \in {"starting", "started"}, NEW n, n = Census(NoSession, posted, S)
  PROVE  /\ Sorted(posted') /\ Sorted(stack')
         /\ \A r \in Sessions : /\ r \notin Stopped => Census(r, posted', stack') = Census(r, posted, S)
                                /\ r \in Alone => Census(r, posted', stack')
                                                    = More(Census(r, posted, S), r, Task("body", r, "-"))
                                /\ r \in Here \ Alone => Census(r, posted', stack') = Census(r, posted, S)
                                /\ r \in Stopped \ Here => Census(r, posted', stack')
                                                    = More(Census(r, posted, S), r, Task("push", r, sstate[r]))
         /\ Census(NoSession, posted', stack')
              = IF holders' = {} THEN More(n, NoSession, Task("exec", NoSession, "-")) ELSE n
<1> DEFINE P1 == AddAll(posted, Pushes)
           S2 == stack'
           P2 == posted'
           t == Task("exec", NoSession, "-")
<1>1. P1 = AddAll(posted, Pushes) /\ S2 = AddAll(S, Bodies) /\ P2 = IF holders' = {} THEN Post(P1, 0, t) ELSE P1
  BY DoStopIs
<1>2. Sorted(posted) /\ 0 \in Ios /\ t \in Allowed(0) /\ t.s = NoSession
  BY TypesNow, IosFinite, TaskTypes, TaskParts DEF OwnKinds, Args
<1> HIDE DEF P1, S2, P2, t
<1>3. /\ Stopped \ Here \in SUBSET Sessions /\ Pushes \in [Stopped \ Here -> HomeTasks]
      /\ \A d \in Stopped \ Here : Pushes[d] = Task("push", d, sstate[d]) /\ Pushes[d].s = d
      /\ Alone \in SUBSET Sessions /\ Bodies \in [Alone -> HomeTasks]
      /\ \A d \in Alone : Bodies[d] = Task("body", d, "-") /\ Bodies[d].s = d
      /\ Alone \subseteq Here /\ Here \subseteq Stopped
  BY StopTasks
<1> DEFINE Away == Stopped \ Here
<1>4. Away \in SUBSET Sessions /\ Pushes \in [Away -> HomeTasks] /\ \A d \in Away : Pushes[d].s = d
  BY <1>3
<1> HIDE DEF Away
<1>5. /\ Sorted(P1) /\ \A r : r \notin Away => Census(r, P1, S) = Census(r, posted, S)
      /\ \A d \in Away : Census(d, P1, S) = More(Census(d, posted, S), d, Pushes[d])
  BY <1>1, <1>2, <1>4, CensusAdd
<1>6. Alone \in SUBSET Sessions /\ Bodies \in [Alone -> HomeTasks] /\ \A d \in Alone : Bodies[d].s = d
  BY <1>3
<1>7. /\ Sorted(S2) /\ \A r : r \notin Alone => Census(r, P1, S2) = Census(r, P1, S)
      /\ \A d \in Alone : Census(d, P1, S2) = More(Census(d, P1, S), d, Bodies[d])
  BY <1>1, <1>5, <1>6, CensusAdd
<1>8. Sorted(P2) /\ \A r \in Sessions : Census(r, P2, S2) = Census(r, P1, S2)
  <2>1. CASE holders' = {}
    <3>1. P2 = Post(P1, 0, t)
      BY <1>1, <2>1
    <3>2. Sorted(P2)
      BY <1>2, <1>5, <3>1, SortedPost
    <3>3. \A r : Census(r, P2, S2) = More(Census(r, P1, S2), r, t)
      BY <1>2, <1>5, <1>7, <3>1, CensusPost
    <3>4. \A r : Census(r, P1, S2) \in Censuses
      BY <1>5, <1>7, CensusType
    <3>5. \A r \in Sessions : t.s # r
      BY <1>2, NamesAssumption
    <3>6. QED
      BY <3>2, <3>3, <3>4, <3>5, Elsewhere
  <2>2. CASE holders' # {}
    BY <1>1, <1>5, <2>2
  <2>3. QED
    BY <2>1, <2>2
<1>9. ASSUME NEW r \in Sessions
      PROVE  /\ r \notin Stopped => Census(r, P2, S2) = Census(r, posted, S)
             /\ r \in Alone => Census(r, P2, S2) = More(Census(r, posted, S), r, Task("body", r, "-"))
             /\ r \in Here \ Alone => Census(r, P2, S2) = Census(r, posted, S)
             /\ r \in Stopped \ Here => Census(r, P2, S2) = More(Census(r, posted, S), r, Task("push", r, sstate[r]))
  <2>1. CASE r \in Alone
    <3>1. r \notin Away /\ r \in Here /\ r \in Stopped
      BY <1>3, <2>1 DEF Away
    <3>2. QED
      BY <1>3, <1>5, <1>7, <1>8, <2>1, <3>1
  <2>2. CASE r \in Away
    <3>1. r \notin Alone /\ r \notin Here /\ r \in Stopped
      BY <1>3, <2>2 DEF Away
    <3>2. QED
      BY <1>3, <1>5, <1>7, <1>8, <2>2, <3>1
  <2>3. CASE r \notin Alone /\ r \notin Away
    <3>1. r \in Stopped => r \in Here
      BY <2>3 DEF Away
    <3>2. QED
      BY <1>3, <1>5, <1>7, <1>8, <2>3, <3>1
  <2>4. QED
    BY <2>1, <2>2, <2>3
<1>10. Census(NoSession, P2, S2) = IF holders' = {} THEN More(n, NoSession, t) ELSE n
  <2>1. NoSession \notin Away /\ NoSession \notin Alone
    BY <1>4, <1>6, NamesAssumption
  <2>2. Census(NoSession, P1, S2) = n
    BY <1>5, <1>7, <2>1
  <2>3. CASE holders' = {}
    <3>1. P2 = Post(P1, 0, t)
      BY <1>1, <2>3
    <3>2. Census(NoSession, P2, S2) = More(Census(NoSession, P1, S2), NoSession, t)
      BY <1>2, <1>5, <1>7, <3>1, CensusPost
    <3>3. QED
      BY <2>2, <2>3, <3>2
  <2>4. CASE holders' # {}
    BY <1>1, <2>2, <2>4
  <2>5. QED
    BY <2>3, <2>4
<1>11. QED
  BY <1>7, <1>8, <1>9, <1>10 DEF P2, S2, t

\* The sessions then.
LEMMA StopFine ==
  ASSUME IInv, NEW S, Sorted(S), DoStop(S), state \in {"starting", "started"},
         \A r \in Sessions : Census(r, posted, S) = Census(r, posted, stack),
         UNCHANGED <<sessions, sops, told, held, accepting>>
  PROVE  \A r \in Sessions : Fine(r)'
<1>1. Sorted(posted') /\ Sorted(stack')
  BY StopCensus
<1>2. ASSUME NEW r \in Sessions
      PROVE  Fine(r)'
  <2> DEFINE n == Census(r, posted, stack)
             m == Census(r, posted', stack')
             q == queue[r]
             q2 == queue'[r]
             st == sstate[r]
             hold2 == holders'
  <2>1. /\ r \notin Stopped => m = n
        /\ r \in Alone => m = More(n, r, Task("body", r, "-"))
        /\ r \in Here \ Alone => m = n
        /\ r \in Stopped \ Here => m = More(n, r, Task("push", r, st))
    BY StopCensus
  <2>2. /\ SessionOK(n, r, st, q, sops[r], sessions, holders, held, told[r], accepting) /\ n \in Censuses
        /\ m \in Censuses /\ q \in Seq(Events)
    BY <1>1, CensusNow, CensusType, TypesNow DEF IInv, Fine
  <2>3. r \in hold2 <=> r \in holders
    BY DoStopIs, NamesAssumption
  <2>4. /\ r \in Stopped => sstate'[r] = "stopping" /\ st \in Disconnect
        /\ r \notin Stopped => sstate'[r] = st
        /\ r \in Here => q2 = Append(q, st)
        /\ r \notin Here => q2 = q
        /\ r \in Here => (r \in Alone <=> q = <<>>)
        /\ Alone \subseteq Here /\ Here \subseteq Stopped
    BY DoStopIs, StopTasks DEF Alone
  <2>5. CASE r \notin Stopped
    <3>1. Fine(r) /\ (r \in held => r \in holders)
      BY DEF IInv, Fine, SessionOK, Counted
    <3>2. QED
      BY <2>1, <2>3, <2>4, <2>5, <3>1, Untouched
  <2>6. CASE r \in Stopped
    <3>1. m["accepts"] = n["accepts"] /\ m["closings"] = n["closings"] /\ m["writes"] = n["writes"]
          /\ m["begins"] = n["begins"] /\ m["connects"] = n["connects"] /\ m["joins"] = n["joins"]
          /\ \/ /\ q2 = Append(q, st) /\ m["pushes"] = n["pushes"]
                /\ m["bodies"] = n["bodies"] + (IF q = <<>> THEN 1 ELSE 0)
             \/ /\ q2 = q /\ m["pushes"] = n["pushes"] + 1 /\ m["bodies"] = n["bodies"]
      <4>0. \A c \in Classes : n[c] \in Nat
        BY <2>2 DEF Censuses
      <4>1. CASE r \in Alone
        <5> DEFINE y == "-"
        <5>1. m = More(n, r, Task("body", r, y)) /\ q2 = Append(q, st) /\ q = <<>>
          BY <2>1, <2>4, <4>1
        <5> HIDE DEF n, m, q2, q, st, y
        <5>2. \A c \in Classes : m[c] = n[c] + (IF "body" \in KindsOf(c) /\ (c = "pushes" => y \in Disconnect) THEN 1 ELSE 0)
          BY <2>2, <5>1, CensusMoves
        <5>3. \A c \in Classes \ {"bodies", "lives"} : m[c] = n[c]
          BY <4>0, <5>2, KindTable
        <5>4. m["bodies"] = n["bodies"] + 1
          BY <4>0, <5>2, KindTable DEF Classes
        <5>5. QED
          BY <5>1, <5>3, <5>4 DEF Classes
      <4>2. CASE r \in Here \ Alone
        <5>1. m = n /\ q2 = Append(q, st) /\ q # <<>>
          BY <2>1, <2>4, <4>2
        <5>2. n["bodies"] + 0 = n["bodies"]
          BY <4>0 DEF Classes
        <5> HIDE DEF n, m, q2, q, st
        <5>3. QED
          BY <5>1, <5>2
      <4>3. CASE r \in Stopped \ Here
        <5>1. m = More(n, r, Task("push", r, st)) /\ q2 = q /\ st \in Disconnect
          BY <2>1, <2>4, <4>3
        <5> HIDE DEF n, m, q2, q, st
        <5>2. \A c \in Classes : m[c] = n[c] + (IF "push" \in KindsOf(c) /\ (c = "pushes" => st \in Disconnect) THEN 1 ELSE 0)
          BY <2>2, <5>1, CensusMoves
        <5>3. \A c \in Classes \ {"pushes", "lives"} : m[c] = n[c]
          BY <4>0, <5>2, KindTable
        <5>4. m["pushes"] = n["pushes"] + 1
          BY <4>0, <5>1, <5>2, KindTable DEF Classes
        <5>5. QED
          BY <5>1, <5>3, <5>4 DEF Classes
      <4>4. QED
        BY <2>4, <2>6, <4>1, <4>2, <4>3
    <3>2. st \in Disconnect /\ sstate'[r] = "stopping"
      BY <2>4, <2>6
    <3> HIDE DEF n, m, q, q2, st, hold2
    <3>3. n["begins"] \in Nat /\ n["connects"] \in Nat /\ n["joins"] \in Nat
      BY <2>2, CensusNat
    <3>4. /\ \A c \in {"accepts", "closings", "writes"} : m[c] = n[c]
          /\ \A c \in {"begins", "connects", "joins"} : m[c] <= n[c]
      BY <3>1, <3>3
    <3>5. SessionOK(m, r, "stopping", q2, sops[r], sessions, holders, held, told[r], accepting)
      BY <2>2, <3>1, <3>2, <3>4, Disconnected
    <3>6. SessionOK(m, r, "stopping", q2, sops[r], sessions, hold2, held, told[r], accepting)
      BY <2>3, <3>5 DEF SessionOK, Counted, Accepted
    <3>7. QED
      BY <3>2, <3>6 DEF Fine, m, q2, hold2
  <2>7. QED
    BY <2>5, <2>6
<1>3. QED
  BY <1>2

LEMMA DoStopKeeps ==
  ASSUME IInv, NEW S, Sorted(S), DoStop(S),
         \A r \in Sessions : Census(r, posted, S) = Census(r, posted, stack),
         Census(NoSession, posted, S)["execs"] = Own["execs"],
         UNCHANGED <<sessions, sops, told, held, accepting>>
  PROVE  /\ \A r \in Sessions : Fine(r)'
         /\ ServerOK' /\ state' \in {"stopping", "stopped"}
         /\ Sorted(posted') /\ Sorted(stack')
         /\ sstate' \in [Sessions -> States \cup {"new"}] /\ queue' \in [Sessions -> Seq(Events)]
         /\ ctimer' \in BOOLEAN /\ holders' \subseteq Sessions \cup {Server}
         /\ \A c \in {"starts", "stops"} : Census(NoSession, posted', stack')[c] = Census(NoSession, posted, S)[c]
<1>0. TypeOK /\ Sorted(posted)
  BY DEF IInv, Typed
<1>1. CASE state \in {"starting", "started"}
  <2> DEFINE n == Census(NoSession, posted, S)
             m == Census(NoSession, posted', stack')
  <2>1. \A r \in Sessions : Fine(r)'
    BY <1>1, StopFine
  <2>2. Sorted(posted') /\ Sorted(stack') /\ m = IF holders' = {} THEN More(n, NoSession, Task("exec", NoSession, "-")) ELSE n
    BY <1>1, StopCensus
  <2>3. /\ state' = "stopping" /\ ctimer' = TRUE /\ holders' = holders \ {Server}
        /\ sstate' \in [Sessions -> States \cup {"new"}] /\ queue' \in [Sessions -> Seq(Events)]
    BY <1>1, DoStopIs
  <2>4. n \in Censuses
    BY <1>0, CensusType
  <2>5. n["execs"] = 0
    <3>1. Own["execs"] = (IF state = "stopping" /\ holders = {} THEN 1 ELSE 0)
      BY DEF IInv, ServerOK
    <3>2. QED
      BY <1>1, <3>1
  <2> HIDE DEF n, m
  <2>6. m["execs"] = (IF holders' = {} THEN 1 ELSE 0) /\ m["starts"] = n["starts"] /\ m["stops"] = n["stops"]
    <3>1. CASE holders' = {}
      <4> DEFINE y == "-"
      <4>1. m = More(n, NoSession, Task("exec", NoSession, y))
        BY <2>2, <3>1
      <4> HIDE DEF y
      <4>2. \A c \in Classes : m[c] = n[c] + (IF "exec" \in KindsOf(c) /\ (c = "pushes" => y \in Disconnect) THEN 1 ELSE 0)
        BY <2>4, <4>1, CensusMoves
      <4>3. m["execs"] = n["execs"] + 1
        BY <4>2, KindTable DEF Classes
      <4>4. n["starts"] \in Nat /\ n["stops"] \in Nat
        BY <2>4, CensusNat
      <4>5. m["starts"] = n["starts"] /\ m["stops"] = n["stops"]
        BY <4>2, <4>4, KindTable DEF Classes
      <4>6. QED
        BY <2>5, <3>1, <4>3, <4>5
    <3>2. CASE holders' # {}
      BY <2>2, <2>5, <3>2
    <3>3. QED
      BY <3>1, <3>2
  <2>7. ServerOK'
    BY <2>3, <2>6 DEF ServerOK, Own, m
  <2>8. \A c \in {"starts", "stops"} : Census(NoSession, posted', stack')[c] = Census(NoSession, posted, S)[c]
    BY <2>6 DEF m, n
  <2>9. QED
    BY <1>0, <2>1, <2>2, <2>3, <2>7, <2>8 DEF TypeOK
<1>2. CASE state \notin {"starting", "started"}
  <2>1. stack' = S /\ UNCHANGED <<state, ctimer, holders, sstate, queue, posted>>
    BY <1>2 DEF DoStop
  <2>2. state \in {"stopping", "stopped"}
    BY <1>0, <1>2 DEF TypeOK, States
  <2>3. \A r \in Sessions : Fine(r)'
    BY <2>1, SessionsKept
  <2>4. ServerOK'
    BY <2>1 DEF IInv, ServerOK, Own
  <2>5. QED
    BY <1>0, <2>1, <2>2, <2>3, <2>4 DEF TypeOK
<1>3. QED
  BY <1>1, <1>2

-----------------------------------------------------------------------------
(* Handlers of the server.                                                 *)

LEMMA OwnPopped ==
  ASSUME IInv, 0 \in Ios, NEW k, At(0, k), NEW x, Top(0) = Task(k, NoSession, x)
  PROVE  /\ ~Drained /\ Sorted(posted) /\ Sorted(Below(0))
         /\ \A r : r # NoSession => Census(r, posted, Below(0)) = Census(r, posted, stack)
         /\ \A c \in Classes : Census(NoSession, posted, Below(0))[c] = Own[c]
              - (IF k \in KindsOf(c) /\ (c = "pushes" => x \in Disconnect) THEN 1 ELSE 0)
         /\ \A c \in Classes : Own[c] \in Nat /\ Census(NoSession, posted, Below(0))[c] \in Nat
<1>1. /\ ~Drained /\ Sorted(posted) /\ Sorted(Below(0))
      /\ \A r : r # NoSession => Census(r, posted, Below(0)) = Census(r, posted, stack)
      /\ \A c \in Classes : Census(NoSession, posted, Below(0))[c] = Census(NoSession, posted, stack)[c]
           - (IF k \in KindsOf(c) /\ (c = "pushes" => x \in Disconnect) THEN 1 ELSE 0)
      /\ \A c \in Classes : Census(NoSession, posted, stack)[c] \in Nat
  BY Popped
<1>2. \A c \in Classes : Census(NoSession, posted, Below(0))[c] \in Nat
  BY <1>1, CensusType DEF Censuses
<1>3. QED
  BY <1>1, <1>2 DEF Own

\* A handler of the server goes, the rest of it and a callback come.
LEMMA OwnCalls2 ==
  ASSUME IInv, 0 \in Ios, NEW k, At(0, k), NEW x, Top(0) = Task(k, NoSession, x),
         NEW k2 \in OwnKinds, NEW x2 \in Args, posted' = posted,
         stack' = Call(Call(Below(0), 0, Task(k2, NoSession, x2)), 0, User(NoSession))
  PROVE  /\ ~Drained /\ Sorted(posted') /\ Sorted(stack')
         /\ \A r : r # NoSession => Census(r, posted', stack') = Census(r, posted, stack)
         /\ \A c \in {"starts", "stops", "execs"} : Own'[c] = Own[c]
              - (IF k \in KindsOf(c) THEN 1 ELSE 0) + (IF k2 \in KindsOf(c) THEN 1 ELSE 0)
         /\ \A c \in {"starts", "stops", "execs"} : Own[c] \in Nat
<1> DEFINE B  == Below(0)
           S1 == Call(B, 0, Task(k2, NoSession, x2))
           S2 == stack'
           y  == "-"
<1>1. /\ ~Drained /\ Sorted(posted) /\ Sorted(B)
      /\ \A r : r # NoSession => Census(r, posted, B) = Census(r, posted, stack)
      /\ \A c \in Classes : Census(NoSession, posted, B)[c] = Own[c]
           - (IF k \in KindsOf(c) /\ (c = "pushes" => x \in Disconnect) THEN 1 ELSE 0)
      /\ \A c \in Classes : Own[c] \in Nat /\ Census(NoSession, posted, B)[c] \in Nat
  BY OwnPopped
<1>2. Task(k2, NoSession, x2) \in Allowed(0) /\ Task("user", NoSession, y) \in Allowed(0)
  BY TaskTypes DEF User
<1>3. S2 = Call(S1, 0, Task("user", NoSession, y)) /\ S1 = Call(B, 0, Task(k2, NoSession, x2))
  BY DEF User
<1> HIDE DEF B, S1, S2, y
<1>4. /\ Sorted(S1) /\ \A r : r # NoSession => Census(r, posted, S1) = Census(r, posted, B)
      /\ \A c \in Classes : Census(NoSession, posted, S1)[c] = Census(NoSession, posted, B)[c]
           + (IF k2 \in KindsOf(c) /\ (c = "pushes" => x2 \in Disconnect) THEN 1 ELSE 0)
  BY <1>1, <1>2, <1>3, Added
<1>5. /\ Sorted(S2) /\ \A r : r # NoSession => Census(r, posted, S2) = Census(r, posted, S1)
      /\ \A c \in Classes : Census(NoSession, posted, S2)[c] = Census(NoSession, posted, S1)[c]
           + (IF "user" \in KindsOf(c) /\ (c = "pushes" => y \in Disconnect) THEN 1 ELSE 0)
  <2> DEFINE k3 == "user"
  <2>1. /\ Sorted(posted) /\ Sorted(S1) /\ Task(k3, NoSession, y) \in Allowed(0)
        /\ S2 = Call(S1, 0, Task(k3, NoSession, y)) /\ 0 \in Ios
    BY <1>1, <1>2, <1>3, <1>4
  <2> HIDE DEF k3
  <2>2. /\ Sorted(S2) /\ \A r : r # NoSession => Census(r, posted, S2) = Census(r, posted, S1)
        /\ \A c \in Classes : Census(NoSession, posted, S2)[c] = Census(NoSession, posted, S1)[c]
             + (IF k3 \in KindsOf(c) /\ (c = "pushes" => y \in Disconnect) THEN 1 ELSE 0)
    BY <2>1, Added
  <2>3. QED
    BY <2>2 DEF k3
<1>6. \A c \in Classes : Census(NoSession, posted, S1)[c] \in Nat
  BY <1>1, <1>4, CensusType DEF Censuses
<1>7. \A c \in Classes \ {"lives"} : Census(NoSession, posted, S2)[c] = Census(NoSession, posted, S1)[c]
  BY <1>5, <1>6, KindTable
<1>8. \A c \in {"starts", "stops", "execs"} : c \in Classes \ {"lives"} /\ c # "pushes"
  BY DEF Classes
<1>9. \A c \in {"starts", "stops", "execs"} : Census(NoSession, posted, S2)[c] = Own[c]
        - (IF k \in KindsOf(c) THEN 1 ELSE 0) + (IF k2 \in KindsOf(c) THEN 1 ELSE 0)
  BY <1>1, <1>4, <1>7, <1>8
<1>10. Own' = Census(NoSession, posted, S2)
  BY DEF Own, S2
<1>11. QED
  BY <1>1, <1>4, <1>5, <1>8, <1>9, <1>10 DEF S2

LEMMA StartKeeps ==
  ASSUME IInv, Start
  PROVE  IInv'
<1>1. At(0, "start") /\ "start" \in OwnKinds /\ 0 \in Ios
  BY IosFinite DEF Start, OwnKinds
<1>2. PICK x \in Args : Top(0) = Task("start", NoSession, x) /\ Top(0).x = x
  BY <1>1, TopIs
<1>3. /\ ~Drained /\ Sorted(posted) /\ Sorted(Below(0))
      /\ \A r : r # NoSession => Census(r, posted, Below(0)) = Census(r, posted, stack)
      /\ \A c \in Classes : Census(NoSession, posted, Below(0))[c] = Own[c]
           - (IF "start" \in KindsOf(c) /\ (c = "pushes" => x \in Disconnect) THEN 1 ELSE 0)
      /\ \A c \in Classes : Own[c] \in Nat /\ Census(NoSession, posted, Below(0))[c] \in Nat
  BY <1>1, <1>2, OwnPopped
<1>4. UNCHANGED <<accepting, ctimer, sessions, sessionVars, posted, told, held, ioStopped, bounds>>
  BY DEF Start
<1>5. Own["starts"] = 1 /\ app = "waiting"
  <2>1. Own["starts"] > 0
    BY <1>3, KindTable DEF Classes
  <2>2. Own["starts"] = (IF app = "waiting" THEN 1 ELSE 0)
    BY DEF IInv, AppOK
  <2>3. QED
    BY <2>1, <2>2
<1>6. \A r \in Sessions : r # NoSession /\ r # Server
  BY NamesAssumption
<1>7. CASE state = "stopped"
  <2>1. /\ state' = "starting" /\ acceptor' = TRUE /\ holders' = {Server} /\ UNCHANGED app
        /\ stack' = Call(Call(Below(0), 0, Task("start2", NoSession, "-")), 0, User(NoSession))
    BY <1>7 DEF Start
  <2>2. "start2" \in OwnKinds /\ "-" \in Args
    BY DEF OwnKinds, Args
  <2>3. /\ ~Drained /\ Sorted(posted') /\ Sorted(stack')
        /\ \A r : r # NoSession => Census(r, posted', stack') = Census(r, posted, stack)
        /\ \A c \in {"starts", "stops", "execs"} : Own'[c] = Own[c]
             - (IF "start" \in KindsOf(c) THEN 1 ELSE 0) + (IF "start2" \in KindsOf(c) THEN 1 ELSE 0)
        /\ \A c \in {"starts", "stops", "execs"} : Own[c] \in Nat
    BY <1>1, <1>2, <1>4, <2>1, <2>2, OwnCalls2
  <2>4. \A c \in {"starts", "stops", "execs"} : Own'[c] = Own[c]
    BY <2>3, KindTable DEF Classes
  <2>5. holders = {}
    BY <1>7, NobodyLeft
  <2>6. \A r \in Sessions : Fine(r)'
    BY <1>4, <1>6, <2>1, <2>3, <2>5, SessionsKept DEF sessionVars
  <2>7. ServerOK'
    <3>1. Own["execs"] = 0
      BY <1>7 DEF IInv, ServerOK
    <3>2. QED
      BY <2>1, <2>4, <3>1 DEF ServerOK
  <2>8. AppOK'
    BY <1>4, <1>5, <2>1, <2>4 DEF AppOK, Drained
  <2>9. Typed'
    BY <1>4, <2>1, <2>3 DEF IInv, Typed, TypeOK, States, Sorted, Strands, sessionVars, bounds
  <2>10. QED
    BY <2>6, <2>7, <2>8, <2>9 DEF IInv
<1>8. CASE state # "stopped"
  <2>1. stack' = Below(0) /\ app' = "free" /\ UNCHANGED <<state, acceptor, holders>>
    BY <1>8 DEF Start
  <2>2. \A r : r # NoSession => Census(r, posted', stack') = Census(r, posted, stack)
    BY <1>3, <1>4, <2>1
  <2>3. Own' = Census(NoSession, posted, Below(0))
    BY <1>4, <2>1 DEF Own
  <2>4. Own'["starts"] = Own["starts"] - 1 /\ Own'["execs"] = Own["execs"]
    BY <1>3, <2>3, KindTable DEF Classes
  <2>5. \A r \in Sessions : Fine(r)'
    BY <1>4, <1>6, <2>1, <2>2, SessionsKept DEF sessionVars
  <2>6. ServerOK'
    BY <1>4, <2>1, <2>4 DEF IInv, ServerOK
  <2>7. AppOK'
    BY <1>5, <2>1, <2>4 DEF AppOK, Drained
  <2>8. Typed'
    BY <1>3, <1>4, <2>1 DEF IInv, Typed, TypeOK, Sorted, Strands, sessionVars, bounds
  <2>9. QED
    BY <2>5, <2>6, <2>7, <2>8 DEF IInv
<1>9. QED
  BY <1>7, <1>8

LEMMA Start2Keeps ==
  ASSUME IInv, Start2
  PROVE  IInv'
<1>1. At(0, "start2") /\ "start2" \in OwnKinds /\ 0 \in Ios
  BY IosFinite DEF Start2, OwnKinds
<1>2. PICK x \in Args : Top(0) = Task("start2", NoSession, x) /\ Top(0).x = x
  BY <1>1, TopIs
<1>3. /\ ~Drained /\ Sorted(posted) /\ Sorted(Below(0))
      /\ \A r : r # NoSession => Census(r, posted, Below(0)) = Census(r, posted, stack)
      /\ \A c \in Classes : Census(NoSession, posted, Below(0))[c] = Own[c]
           - (IF "start2" \in KindsOf(c) /\ (c = "pushes" => x \in Disconnect) THEN 1 ELSE 0)
      /\ \A c \in Classes : Own[c] \in Nat /\ Census(NoSession, posted, Below(0))[c] \in Nat
  BY <1>1, <1>2, OwnPopped
<1>4. PICK ok \in BOOLEAN :
        /\ ok => state = "starting"
        /\ state' = IF ok THEN "started" ELSE state
        /\ stack' = Call(Call(Below(0), 0, Task("start3", NoSession, IF ok THEN "ok" ELSE "err")), 0, User(NoSession))
  <2>1. PICK bound \in BOOLEAN :
          LET ok == bound /\ state = "starting"
          IN /\ state' = IF ok THEN "started" ELSE state
             /\ stack' = Call(Call(Below(0), 0, Task("start3", NoSession, IF ok THEN "ok" ELSE "err")), 0, User(NoSession))
    BY DEF Start2
  <2>2. CASE bound /\ state = "starting"
    BY <2>1, <2>2
  <2>3. CASE ~(bound /\ state = "starting")
    BY <2>1, <2>3
  <2>4. QED
    BY <2>2, <2>3
<1>5. UNCHANGED <<acceptor, accepting, ctimer, holders, sessions, sessionVars, posted, user>>
  BY DEF Start2
<1> DEFINE y == IF ok THEN "ok" ELSE "err"
<1>6. y \in Args /\ "start3" \in OwnKinds
  BY DEF Args, OwnKinds
<1>7. stack' = Call(Call(Below(0), 0, Task("start3", NoSession, y)), 0, User(NoSession)) /\ posted' = posted
  BY <1>4, <1>5
<1> HIDE DEF y
<1>8. /\ ~Drained /\ Sorted(posted') /\ Sorted(stack')
      /\ \A r : r # NoSession => Census(r, posted', stack') = Census(r, posted, stack)
      /\ \A c \in {"starts", "stops", "execs"} : Own'[c] = Own[c]
           - (IF "start2" \in KindsOf(c) THEN 1 ELSE 0) + (IF "start3" \in KindsOf(c) THEN 1 ELSE 0)
      /\ \A c \in {"starts", "stops", "execs"} : Own[c] \in Nat
  BY <1>1, <1>2, <1>6, <1>7, OwnCalls2
<1>9. \A c \in {"starts", "stops", "execs"} : Own'[c] = Own[c]
  BY <1>8, KindTable DEF Classes
<1>10. \A r \in Sessions : r # NoSession /\ r # Server
  BY NamesAssumption
<1>11. \A r \in Sessions : Fine(r)'
  BY <1>5, <1>8, <1>10, SessionsKept DEF sessionVars, user
<1>12. state' = state \/ (state = "starting" /\ state' = "started")
  BY <1>4
<1>13. ServerOK'
  BY <1>5, <1>9, <1>12 DEF IInv, ServerOK
<1>14. AppOK'
  <2>1. app = "waiting"
    <3>1. Own["starts"] > 0
      BY <1>3, KindTable DEF Classes
    <3>2. QED
      BY <3>1 DEF IInv, AppOK
  <2>2. QED
    BY <1>5, <1>9, <2>1 DEF IInv, AppOK, Drained, user
<1>15. Typed'
  BY <1>5, <1>8, <1>12 DEF IInv, Typed, TypeOK, States, Sorted, Strands, sessionVars, user, bounds
<1>16. QED
  BY <1>11, <1>13, <1>14, <1>15 DEF IInv

\* Strand 0 without a handler of the server: who stops the server over it.
LEMMA StopOver ==
  ASSUME IInv, NEW S, Sorted(S), DoStop(S), \A r : r # NoSession => Census(r, posted, S) = Census(r, posted, stack),
         Census(NoSession, posted, S)["execs"] = Own["execs"],
         UNCHANGED <<sessions, sops, told, held, accepting, acceptor, sopen, ioStopped, starts, sends>>,
         stops' \in 0 .. MaxStops, app' \in {"free", "waiting", "draining"},
         Census(NoSession, posted, S)["starts"] = (IF app' = "waiting" THEN 1 ELSE 0),
         ~(app' = "draining" /\ 0 \in ioStopped)
  PROVE  IInv'
<1>1. \A r \in Sessions : Census(r, posted, S) = Census(r, posted, stack)
  BY NamesAssumption
<1>2. UNCHANGED <<sessions, sops, told, held, accepting>>
  OBVIOUS
<1>3. /\ \A r \in Sessions : Fine(r)'
      /\ ServerOK' /\ state' \in {"stopping", "stopped"}
      /\ Sorted(posted') /\ Sorted(stack')
      /\ sstate' \in [Sessions -> States \cup {"new"}] /\ queue' \in [Sessions -> Seq(Events)]
      /\ ctimer' \in BOOLEAN /\ holders' \subseteq Sessions \cup {Server}
      /\ \A c \in {"starts", "stops"} : Census(NoSession, posted', stack')[c] = Census(NoSession, posted, S)[c]
  BY <1>1, <1>2, DoStopKeeps
<1>4. AppOK'
  BY <1>3 DEF AppOK, Own, Drained
<1>5. Typed'
  BY <1>3 DEF IInv, Typed, TypeOK, States, Sorted, Strands
<1>6. QED
  BY <1>3, <1>4, <1>5 DEF IInv

LEMMA Start3Keeps ==
  ASSUME IInv, Start3
  PROVE  IInv'
<1>1. At(0, "start3") /\ "start3" \in OwnKinds /\ 0 \in Ios
  BY IosFinite DEF Start3, OwnKinds
<1>2. PICK x \in Args : Top(0) = Task("start3", NoSession, x) /\ Top(0).x = x
  BY <1>1, TopIs
<1>3. /\ ~Drained /\ Sorted(posted) /\ Sorted(Below(0))
      /\ \A r : r # NoSession => Census(r, posted, Below(0)) = Census(r, posted, stack)
      /\ \A c \in Classes : Census(NoSession, posted, Below(0))[c] = Own[c]
           - (IF "start3" \in KindsOf(c) /\ (c = "pushes" => x \in Disconnect) THEN 1 ELSE 0)
      /\ \A c \in Classes : Own[c] \in Nat /\ Census(NoSession, posted, Below(0))[c] \in Nat
  BY <1>1, <1>2, OwnPopped
<1>4. app' = "free" /\ UNCHANGED <<acceptor, sessions, sopen, sops, told, held, ioStopped, bounds>>
  BY DEF Start3
<1>5. Own["starts"] = 1 /\ app = "waiting"
  <2>1. Own["starts"] > 0
    BY <1>3, KindTable DEF Classes
  <2>2. Own["starts"] = (IF app = "waiting" THEN 1 ELSE 0)
    BY DEF IInv, AppOK
  <2>3. QED
    BY <2>1, <2>2
<1> DEFINE B == Below(0)
<1>6. Census(NoSession, posted, B)["starts"] = 0 /\ Census(NoSession, posted, B)["execs"] = Own["execs"]
  BY <1>3, <1>5, KindTable DEF Classes
<1>7. CASE PostAccept /\ stack' = B /\ UNCHANGED <<state, ctimer, holders, queue, posted>>
  <2>1. \A r \in Sessions : Census(r, posted', stack') = Census(r, posted, stack)
    BY <1>3, <1>7, NamesAssumption
  <2>2. UNCHANGED <<queue, sops, told, sessions, holders, held>> /\ PostAccept
    BY <1>4, <1>7
  <2>3. /\ \A r \in Sessions : Fine(r)'
        /\ accepting' \in Sessions \cup {NoSession} /\ sstate' \in [Sessions -> States \cup {"new"}]
    BY <2>1, <2>2, PostAcceptFine
  <2>4. ServerOK' /\ AppOK'
    <3>1. Own' = Census(NoSession, posted, B)
      BY <1>7 DEF Own
    <3>2. QED
      BY <1>4, <1>6, <1>7, <3>1 DEF IInv, ServerOK, AppOK, Drained
  <2>5. Typed'
    BY <1>3, <1>4, <1>7, <2>3 DEF IInv, Typed, TypeOK, Sorted, Strands, bounds
  <2>6. QED
    BY <2>3, <2>4, <2>5 DEF IInv
<1>8. CASE DoStop(B) /\ UNCHANGED accepting
  <2>1. UNCHANGED <<sessions, sops, told, held, accepting, acceptor, sopen, ioStopped, starts, sends, stops>>
    BY <1>4, <1>8 DEF bounds
  <2>2. stops' \in 0 .. MaxStops
    BY <2>1 DEF IInv, Typed, TypeOK
  <2>3. Census(NoSession, posted, B)["starts"] = (IF app' = "waiting" THEN 1 ELSE 0)
    BY <1>4, <1>6
  <2> HIDE DEF B
  <2>4. Sorted(B) /\ \A r : r # NoSession => Census(r, posted, B) = Census(r, posted, stack)
    BY <1>3 DEF B
  <2>5. QED
    BY <1>4, <1>6, <1>8, <2>1, <2>2, <2>3, <2>4, StopOver
<1>9. QED
  BY <1>7, <1>8 DEF Start3

LEMMA RunStopKeeps ==
  ASSUME IInv, RunStop
  PROVE  IInv'
<1>1. At(0, "stop") /\ "stop" \in OwnKinds /\ 0 \in Ios
  BY IosFinite DEF RunStop, OwnKinds
<1>2. PICK x \in Args : Top(0) = Task("stop", NoSession, x) /\ Top(0).x = x
  BY <1>1, TopIs
<1>3. /\ ~Drained /\ Sorted(posted) /\ Sorted(Below(0))
      /\ \A r : r # NoSession => Census(r, posted, Below(0)) = Census(r, posted, stack)
      /\ \A c \in Classes : Census(NoSession, posted, Below(0))[c] = Own[c]
           - (IF "stop" \in KindsOf(c) /\ (c = "pushes" => x \in Disconnect) THEN 1 ELSE 0)
      /\ \A c \in Classes : Own[c] \in Nat /\ Census(NoSession, posted, Below(0))[c] \in Nat
  BY <1>1, <1>2, OwnPopped
<1>4. DoStop(Below(0)) /\ UNCHANGED <<acceptor, accepting, sessions, sopen, sops, user>>
  BY DEF RunStop
<1> DEFINE B == Below(0)
<1>5. Census(NoSession, posted, B)["starts"] = Own["starts"] /\ Census(NoSession, posted, B)["execs"] = Own["execs"]
  BY <1>3, KindTable DEF Classes
<1>6. UNCHANGED <<sessions, sops, told, held, accepting, acceptor, sopen, ioStopped, starts, sends, stops, app>>
  BY <1>4 DEF user, bounds
<1>7. stops' \in 0 .. MaxStops /\ app' \in {"free", "waiting", "draining"}
  BY <1>6 DEF IInv, Typed, TypeOK
<1>8. Census(NoSession, posted, B)["starts"] = (IF app' = "waiting" THEN 1 ELSE 0)
  BY <1>5, <1>6 DEF IInv, AppOK
<1>9. ~(app' = "draining" /\ 0 \in ioStopped)
  BY <1>3, <1>6 DEF Drained
<1> HIDE DEF B
<1>10. Sorted(B) /\ DoStop(B) /\ \A r : r # NoSession => Census(r, posted, B) = Census(r, posted, stack)
  BY <1>3, <1>4 DEF B
<1>11. QED
  BY <1>5, <1>6, <1>7, <1>8, <1>9, <1>10, StopOver

LEMMA ExecStopKeeps ==
  ASSUME IInv, ExecStop
  PROVE  IInv'
<1>1. At(0, "exec") /\ "exec" \in OwnKinds /\ 0 \in Ios
  BY IosFinite DEF ExecStop, OwnKinds
<1>2. PICK x \in Args : Top(0) = Task("exec", NoSession, x) /\ Top(0).x = x
  BY <1>1, TopIs
<1>3. /\ ~Drained /\ Sorted(posted) /\ Sorted(Below(0))
      /\ \A r : r # NoSession => Census(r, posted, Below(0)) = Census(r, posted, stack)
      /\ \A c \in Classes : Census(NoSession, posted, Below(0))[c] = Own[c]
           - (IF "exec" \in KindsOf(c) /\ (c = "pushes" => x \in Disconnect) THEN 1 ELSE 0)
      /\ \A c \in Classes : Own[c] \in Nat /\ Census(NoSession, posted, Below(0))[c] \in Nat
  BY <1>1, <1>2, OwnPopped
<1>4. UNCHANGED <<serverVars, sessions, sessionVars, posted, user>>
  BY DEF ExecStop
<1>5. state = "stopping"
  <2>1. Own["execs"] > 0
    BY <1>3, KindTable DEF Classes
  <2>2. QED
    BY <2>1 DEF IInv, ServerOK
<1>6. stack' = Call(Call(Below(0), 0, Task("exec2", NoSession, "-")), 0, User(NoSession)) /\ posted' = posted
  BY <1>4, <1>5 DEF ExecStop
<1>7. "exec2" \in OwnKinds /\ "-" \in Args
  BY DEF OwnKinds, Args
<1>8. /\ ~Drained /\ Sorted(posted') /\ Sorted(stack')
      /\ \A r : r # NoSession => Census(r, posted', stack') = Census(r, posted, stack)
      /\ \A c \in {"starts", "stops", "execs"} : Own'[c] = Own[c]
           - (IF "exec" \in KindsOf(c) THEN 1 ELSE 0) + (IF "exec2" \in KindsOf(c) THEN 1 ELSE 0)
      /\ \A c \in {"starts", "stops", "execs"} : Own[c] \in Nat
  BY <1>1, <1>2, <1>6, <1>7, OwnCalls2
<1>9. \A c \in {"starts", "stops", "execs"} : Census(NoSession, posted', stack')[c] = Own[c]
  BY <1>8, KindTable DEF Classes, Own
<1>10. ServerOK' /\ AppOK'
  BY <1>3, <1>4, <1>9, ServerUntouched DEF serverVars, user
<1>11. \A r \in Sessions : r # NoSession
  BY NamesAssumption
<1>12. \A r \in Sessions : Fine(r)'
  BY <1>4, <1>8, <1>11, SessionsKept DEF serverVars, sessionVars, user
<1>13. Typed'
  BY <1>4, <1>8 DEF IInv, Typed, TypeOK, Sorted, Strands, serverVars, sessionVars, user, bounds
<1>14. QED
  BY <1>10, <1>12, <1>13 DEF IInv

LEMMA HandleStopKeeps ==
  ASSUME IInv, HandleStop
  PROVE  IInv'
<1>1. At(0, "exec2") /\ "exec2" \in OwnKinds /\ 0 \in Ios
  BY IosFinite DEF HandleStop, OwnKinds
<1>2. PICK x \in Args : Top(0) = Task("exec2", NoSession, x) /\ Top(0).x = x
  BY <1>1, TopIs
<1>3. /\ ~Drained /\ Sorted(posted) /\ Sorted(Below(0))
      /\ \A r : r # NoSession => Census(r, posted, Below(0)) = Census(r, posted, stack)
      /\ \A c \in Classes : Census(NoSession, posted, Below(0))[c] = Own[c]
           - (IF "exec2" \in KindsOf(c) /\ (c = "pushes" => x \in Disconnect) THEN 1 ELSE 0)
      /\ \A c \in Classes : Own[c] \in Nat /\ Census(NoSession, posted, Below(0))[c] \in Nat
  BY <1>1, <1>2, OwnPopped
<1>4. /\ ctimer' = FALSE /\ acceptor' = FALSE /\ accepting' = NoSession /\ stack' = Below(0)
      /\ posted' = IF accepting = NoSession THEN posted
                     ELSE Post(posted, 0, Task("accept", accepting, "aborted"))
      /\ state' = (IF state = "stopping" THEN "stopped" ELSE state)
      /\ UNCHANGED <<holders, sessions, sessionVars, user>>
  BY DEF HandleStop
<1> DEFINE B == Below(0)
           N == Census(NoSession, posted, B)
<1>5. Own["execs"] = 1 /\ state = "stopping" /\ holders = {}
  <2>1. Own["execs"] > 0
    BY <1>3, KindTable DEF Classes
  <2>2. QED
    BY <2>1 DEF IInv, ServerOK
<1>6. N["execs"] = 0 /\ N["starts"] = Own["starts"]
  BY <1>3, <1>5, KindTable DEF Classes
<1>7. \A r \in Sessions : r # NoSession
  BY NamesAssumption
<1>8. /\ Sorted(posted') /\ Sorted(stack') /\ Census(NoSession, posted', stack') = N
      /\ \A r \in Sessions : Fine(r)'
  <2>1. CASE accepting = NoSession
    <3>1. \A r \in Sessions : Census(r, posted', stack') = Census(r, posted, stack)
      BY <1>3, <1>4, <1>7, <2>1
    <3>2. \A r \in Sessions : Fine(r)'
      BY <1>4, <1>7, <2>1, <3>1, SessionsKept DEF sessionVars, user
    <3>3. QED
      BY <1>3, <1>4, <2>1, <3>2
  <2>2. CASE accepting # NoSession
    <3>1. PICK s \in Sessions : accepting = s
      BY <2>2 DEF IInv, Typed, TypeOK
    <3> DEFINE P2 == posted'
               k  == "accept"
               y  == "aborted"
    <3>2. P2 = Post(posted, 0, Task(k, s, y)) /\ Task(k, s, y) \in Allowed(0) /\ Sorted(posted) /\ Sorted(B)
      BY <1>3, <1>4, <2>2, <3>1, TaskTypes DEF Args
    <3> HIDE DEF P2, k, y, B, N
    <3>3. /\ Sorted(P2) /\ \A r : r # s => Census(r, P2, B) = Census(r, posted, B)
          /\ \A c \in Classes : Census(s, P2, B)[c] = Census(s, posted, B)[c]
               + (IF k \in KindsOf(c) /\ (c = "pushes" => y \in Disconnect) THEN 1 ELSE 0)
      BY <1>1, <3>2, Added
    <3>4. \A r : r # s => Census(r, posted', stack') = Census(r, posted, B)
      BY <1>4, <3>3 DEF P2, B
    <3> DEFINE n == Census(s, posted, stack)
               m == Census(s, posted', stack')
    <3>5. n = Census(s, posted, B) /\ m = Census(s, P2, B)
      BY <1>3, <1>4, <1>7 DEF P2, B
    <3>6. n \in Censuses /\ m \in Censuses
      BY <3>2, <3>3, <3>5, CensusType, CensusNow
    <3> HIDE DEF n, m
    <3>7. (\A c \in Classes \ {"accepts"} : m[c] = n[c]) /\ m["accepts"] = n["accepts"] + 1
      <4>1. \A c \in Classes : n[c] \in Nat
        BY <3>6 DEF Censuses
      <4>2. \A c \in Classes \ {"accepts"} : m[c] = n[c]
        BY <3>3, <3>5, <4>1, KindTable DEF k
      <4>3. m["accepts"] = n["accepts"] + 1
        BY <3>3, <3>5, <4>1, KindTable DEF Classes, k
      <4>4. QED
        BY <4>2, <4>3
    <3>8. SessionOK(n, s, sstate[s], queue[s], sops[s], sessions, holders, held, told[s], s)
      BY <3>1 DEF IInv, Fine, n
    <3>9. SessionOK(m, s, sstate[s], queue[s], sops[s], sessions, holders, held, told[s], NoSession)
      BY <1>7, <3>6, <3>7, <3>8, Accepts
    <3>10. Fine(s)'
      BY <1>4, <3>9 DEF Fine, user, sessionVars, m
    <3>11. ASSUME NEW r \in Sessions, r # s
           PROVE  Fine(r)'
      <4>1. Fine(r) /\ (r \in held => r \in holders) /\ accepting' # r
        BY <1>4, <1>7 DEF IInv, Fine, SessionOK, Counted
      <4>2. Census(r, posted', stack') = Census(r, posted, stack)
        BY <1>3, <1>7, <3>4, <3>11 DEF B
      <4>3. QED
        BY <1>4, <4>1, <4>2, Untouched DEF user, sessionVars
    <3>12. \A r \in Sessions : Fine(r)'
      BY <3>10, <3>11
    <3>13. Sorted(posted') /\ Sorted(stack')
      BY <1>4, <3>2, <3>3 DEF P2, B
    <3>14. QED
      BY <1>7, <3>4, <3>12, <3>13 DEF N
  <2>3. QED
    BY <2>1, <2>2
<1>9. ServerOK'
  <2>1. Server \notin holders'
    BY <1>4, <1>5
  <2>2. Own'["execs"] = 0
    BY <1>6, <1>8 DEF Own
  <2>3. QED
    BY <1>4, <1>5, <2>1, <2>2 DEF ServerOK
<1>10. AppOK'
  <2>1. Own'["starts"] = Own["starts"]
    BY <1>6, <1>8 DEF Own
  <2>2. QED
    BY <1>3, <1>4, <1>5, <2>1 DEF IInv, AppOK, Drained, user
<1>11. Typed'
  BY <1>4, <1>5, <1>8 DEF IInv, Typed, TypeOK, States, Sorted, Strands, sessionVars, user, bounds
<1>12. QED
  BY <1>8, <1>9, <1>10, <1>11 DEF IInv

\* The server posts a task to itself.
LEMMA OwnPosted ==
  ASSUME IInv, NEW k \in OwnKinds, posted' = Post(posted, 0, Task(k, NoSession, "-")), stack' = stack
  PROVE  /\ Sorted(posted') /\ Sorted(stack')
         /\ \A r \in Sessions : Census(r, posted', stack') = Census(r, posted, stack)
         /\ \A c \in {"starts", "stops", "execs"} : /\ Own'[c] = Own[c] + (IF k \in KindsOf(c) THEN 1 ELSE 0)
                                                    /\ Own[c] \in Nat
<1> DEFINE P2 == posted'
           y  == "-"
<1>1. /\ P2 = Post(posted, 0, Task(k, NoSession, y)) /\ Task(k, NoSession, y) \in Allowed(0)
      /\ Sorted(posted) /\ Sorted(stack) /\ 0 \in Ios
  BY TaskTypes, TypesNow, IosFinite DEF Args
<1> HIDE DEF P2, y
<1>2. /\ Sorted(P2) /\ \A r : r # NoSession => Census(r, P2, stack) = Census(r, posted, stack)
      /\ \A c \in Classes : Census(NoSession, P2, stack)[c] = Census(NoSession, posted, stack)[c]
           + (IF k \in KindsOf(c) /\ (c = "pushes" => y \in Disconnect) THEN 1 ELSE 0)
  BY <1>1, Added
<1>3. \A c \in {"starts", "stops", "execs"} : c \in Classes /\ c # "pushes"
  BY DEF Classes
<1>4. \A c \in Classes : Own[c] \in Nat
  BY CensusNow DEF Own, Censuses
<1>5. Own' = Census(NoSession, P2, stack) /\ Own = Census(NoSession, posted, stack)
  BY DEF Own, P2
<1>6. QED
  BY <1>1, <1>2, <1>3, <1>4, <1>5, NamesAssumption DEF P2

LEMMA CallbackStopsServerKeeps ==
  ASSUME IInv, NEW i \in Ios, CallbackStopsServer(i)
  PROVE  IInv'
<1>1. /\ ~Drained /\ stops < MaxStops /\ stops' = stops + 1
      /\ UNCHANGED <<acceptor, accepting, sessions, sopen, sops, told, held, app, ioStopped, starts, sends>>
  BY TopIs DEF CallbackStopsServer, InCallback
<1>2. stops' \in 0 .. MaxStops /\ app' \in {"free", "waiting", "draining"}
  BY <1>1, BoundsAssumption DEF IInv, Typed, TypeOK
<1>3. CASE i = 0
  <2>1. DoStop(stack) /\ Sorted(stack)
    BY <1>3, TypesNow DEF CallbackStopsServer
  <2>2. /\ Census(NoSession, posted, stack)["execs"] = Own["execs"]
        /\ Census(NoSession, posted, stack)["starts"] = (IF app' = "waiting" THEN 1 ELSE 0)
    BY <1>1 DEF IInv, AppOK, Own
  <2>3. ~(app' = "draining" /\ 0 \in ioStopped)
    BY <1>1 DEF Drained
  <2>4. \A r : r # NoSession => Census(r, posted, stack) = Census(r, posted, stack)
    OBVIOUS
  <2>5. QED
    BY <1>1, <1>2, <2>1, <2>2, <2>3, <2>4, StopOver
<1>4. CASE i # 0
  <2>1. /\ posted' = Post(posted, 0, Task("stop", NoSession, "-")) /\ stack' = stack /\ "stop" \in OwnKinds
        /\ UNCHANGED <<state, ctimer, holders, sstate, queue>>
    BY <1>4 DEF CallbackStopsServer, OwnKinds
  <2>2. /\ Sorted(posted') /\ Sorted(stack')
        /\ \A r \in Sessions : Census(r, posted', stack') = Census(r, posted, stack)
        /\ \A c \in {"starts", "stops", "execs"} : /\ Own'[c] = Own[c] + (IF "stop" \in KindsOf(c) THEN 1 ELSE 0)
                                                   /\ Own[c] \in Nat
    BY <2>1, OwnPosted
  <2>3. Own'["starts"] = Own["starts"] /\ Own'["execs"] = Own["execs"] /\ Own'["stops"] > 0
    BY <2>2, KindTable DEF Classes
  <2>4. \A r \in Sessions : Fine(r)'
    BY <1>1, <2>1, <2>2, SessionsKept
  <2>5. ServerOK' /\ AppOK'
    BY <1>1, <2>1, <2>3 DEF IInv, ServerOK, AppOK, Drained
  <2>6. Typed'
    BY <1>1, <1>2, <2>1, <2>2 DEF IInv, Typed, TypeOK, Sorted, Strands
  <2>7. QED
    BY <2>4, <2>5, <2>6 DEF IInv
<1>5. QED
  BY <1>3, <1>4

LEMMA AppStartsKeeps ==
  ASSUME IInv, AppStarts
  PROVE  IInv'
<1>1. /\ app = "free" /\ app' = "waiting" /\ starts < MaxStarts /\ starts' = starts + 1 /\ ioStopped' = {}
      /\ posted' = Post(posted, 0, Task("start", NoSession, "-")) /\ stack' = stack /\ "start" \in OwnKinds
      /\ UNCHANGED <<serverVars, sessions, sessionVars, told, held, stops, sends>>
  BY DEF AppStarts, OwnKinds
<1>2. /\ Sorted(posted') /\ Sorted(stack')
      /\ \A r \in Sessions : Census(r, posted', stack') = Census(r, posted, stack)
      /\ \A c \in {"starts", "stops", "execs"} : /\ Own'[c] = Own[c] + (IF "start" \in KindsOf(c) THEN 1 ELSE 0)
                                                 /\ Own[c] \in Nat
  BY <1>1, OwnPosted
<1>3. Own["starts"] = 0
  BY <1>1 DEF IInv, AppOK
<1>4. Own'["starts"] = 1 /\ Own'["execs"] = Own["execs"]
  BY <1>2, <1>3, KindTable DEF Classes
<1>5. \A r \in Sessions : Fine(r)'
  BY <1>1, <1>2, SessionsKept DEF serverVars, sessionVars
<1>6. ServerOK' /\ AppOK'
  BY <1>1, <1>4 DEF IInv, ServerOK, AppOK, Drained, serverVars
<1>7. Typed'
  <2>1. starts' \in 0 .. MaxStarts
    BY <1>1, BoundsAssumption DEF IInv, Typed, TypeOK
  <2>2. QED
    BY <1>1, <1>2, <2>1 DEF IInv, Typed, TypeOK, Sorted, Strands, serverVars, sessionVars
<1>8. QED
  BY <1>5, <1>6, <1>7 DEF IInv

LEMMA AppStopsKeeps ==
  ASSUME IInv, AppStops
  PROVE  IInv'
<1>1. /\ app = "free" /\ app' = "draining" /\ stops < MaxStops /\ stops' = stops + 1 /\ ioStopped = {}
      /\ posted' = Post(posted, 0, Task("stop", NoSession, "-")) /\ stack' = stack /\ "stop" \in OwnKinds
      /\ UNCHANGED <<serverVars, sessions, sessionVars, told, held, ioStopped, starts, sends>>
  BY DEF AppStops, OwnKinds
<1>2. /\ Sorted(posted') /\ Sorted(stack')
      /\ \A r \in Sessions : Census(r, posted', stack') = Census(r, posted, stack)
      /\ \A c \in {"starts", "stops", "execs"} : /\ Own'[c] = Own[c] + (IF "stop" \in KindsOf(c) THEN 1 ELSE 0)
                                                 /\ Own[c] \in Nat
  BY <1>1, OwnPosted
<1>3. Own["starts"] = 0
  BY <1>1 DEF IInv, AppOK
<1>4. Own'["starts"] = 0 /\ Own'["execs"] = Own["execs"] /\ Own'["stops"] > 0
  BY <1>2, <1>3, KindTable DEF Classes
<1>5. \A r \in Sessions : Fine(r)'
  BY <1>1, <1>2, SessionsKept DEF serverVars, sessionVars
<1>6. ServerOK' /\ AppOK'
  BY <1>1, <1>4 DEF IInv, ServerOK, AppOK, Drained, serverVars
<1>7. Typed'
  <2>1. stops' \in 0 .. MaxStops
    BY <1>1, BoundsAssumption DEF IInv, Typed, TypeOK
  <2>2. QED
    BY <1>1, <1>2, <2>1 DEF IInv, Typed, TypeOK, Sorted, Strands, serverVars, sessionVars
<1>8. QED
  BY <1>5, <1>6, <1>7 DEF IInv

LEMMA IoStopsKeeps ==
  ASSUME IInv, NEW i \in Ios, IoStops(i)
  PROVE  IInv'
<1>1. /\ app = "draining" /\ (i # 0 => 0 \in ioStopped) /\ stack[i] = <<>> /\ posted[i] = <<>> /\ ~Works(i)
      /\ ioStopped' = ioStopped \cup {i}
      /\ UNCHANGED <<serverVars, sessions, sessionVars, strands, told, held, app, bounds>>
  BY DEF IoStops, Idle
<1>2. Own' = Own /\ \A r \in Sessions : Census(r, posted', stack') = Census(r, posted, stack)
  BY <1>1 DEF Own, strands
<1>3. \A r \in Sessions : Fine(r)'
  BY <1>1, <1>2, SessionsKept DEF serverVars, sessionVars
<1>4. ServerOK'
  BY <1>1, <1>2 DEF IInv, ServerOK, serverVars
<1>5. state = "stopped" /\ posted[0] = <<>> /\ stack[0] = <<>> /\ accepting = NoSession
  <2>1. CASE i # 0
    BY <1>1, <2>1 DEF IInv, AppOK, Drained
  <2>2. CASE i = 0
    <3>1. accepting = NoSession /\ ~ctimer
      BY <1>1, <2>2 DEF Works
    <3>2. ~(Own["stops"] > 0)
      <4> DEFINE G == Class("stops", NoSession)
      <4>1. posted \in Strands /\ stack \in Strands /\ Sorted(posted) /\ Sorted(stack)
        BY TypesNow, SortedAt, IosFinite
      <4>2. ASSUME NEW F, Sorted(F), F[0] = <<>>
            PROVE  HowMany(F, G) = 0
        <5>1. F \in Strands
          BY <4>2, SortedAt, IosFinite
        <5>2. ASSUME NEW l \in Ios, NEW j \in DOMAIN F[l]
              PROVE  F[l][j] \notin G
          <6>1. l # 0
            BY <4>2, <5>2
          <6>2. F[l] \in Seq(Allowed(l))
            BY <4>2, SortedAt
          <6>3. F[l][j] \in Allowed(l)
            BY <5>2, <6>2
          <6>4. F[l][j].s \in Sessions /\ F[l][j] \in Tasks
            BY <6>1, <6>3, AllowedIs
          <6>5. Bit("stops", NoSession, F[l][j]) = 0
            BY <6>4, NamesAssumption DEF Bit
          <6>6. QED
            BY <6>4, <6>5, ClassBit DEF Is
        <5>3. QED
          BY <5>1, <5>2, HowManyNone
      <4>3. HowMany(posted, G) = 0 /\ HowMany(stack, G) = 0
        BY <1>1, <2>2, <4>1, <4>2
      <4>4. Count(posted, stack, G) = 0
        BY <4>3 DEF Count
      <4>5. QED
        BY <4>4 DEF Own, Census, Classes
    <3>3. state \in {"stopping", "stopped"} /\ state # "stopping"
      BY <1>1, <3>1, <3>2 DEF IInv, AppOK, ServerOK
    <3>4. QED
      BY <1>1, <2>2, <3>1, <3>3
  <2>3. QED
    BY <2>1, <2>2
<1>6. AppOK'
  BY <1>1, <1>2, <1>5 DEF IInv, AppOK, Drained, serverVars, strands
<1>7. Typed'
  BY <1>1 DEF IInv, Typed, TypeOK, Sorted, Strands, serverVars, sessionVars, strands, bounds
<1>8. QED
  BY <1>3, <1>4, <1>6, <1>7 DEF IInv

LEMMA AppStoppedKeeps ==
  ASSUME IInv, AppStopped
  PROVE  IInv'
<1>1. /\ app = "draining" /\ app' = "free"
      /\ UNCHANGED <<serverVars, sessions, sessionVars, strands, told, held, ioStopped, bounds>>
  BY DEF AppStopped
<1>2. Own' = Own /\ \A r \in Sessions : Census(r, posted', stack') = Census(r, posted, stack)
  BY <1>1 DEF Own, strands
<1>3. \A r \in Sessions : Fine(r)'
  BY <1>1, <1>2, SessionsKept DEF serverVars, sessionVars
<1>4. ServerOK' /\ AppOK'
  BY <1>1, <1>2 DEF IInv, ServerOK, AppOK, Drained, serverVars
<1>5. Typed'
  BY <1>1 DEF IInv, Typed, TypeOK, Sorted, Strands, serverVars, sessionVars, strands, bounds
<1>6. QED
  BY <1>3, <1>4, <1>5 DEF IInv

\* A session nobody points to has no task, no operation and no event, and is
\* stopped.
LEMMA Unreferenced ==
  ASSUME IInv, NEW s \in Sessions, ~Referenced(s)
  PROVE  /\ s \notin sessions /\ s \notin held /\ accepting # s /\ sops[s] = {} /\ queue[s] = <<>>
         /\ \A c \in Classes : Census(s, posted, stack)[c] = 0
         /\ sstate[s] \in {"new", "stopped"}
<1>1. /\ s \notin sessions /\ s \notin held /\ accepting # s /\ sops[s] = {} /\ queue[s] = <<>>
      /\ \A i \in Ios : \A t \in ToSet(posted[i]) \cup ToSet(stack[i]) : t.s # s
  BY DEF Referenced
<1>2. Sorted(posted) /\ Sorted(stack)
  BY TypesNow
<1>3. ASSUME NEW F, Sorted(F), \A i \in Ios : \A t \in ToSet(F[i]) : t.s # s, NEW c \in Classes
      PROVE  HowMany(F, Class(c, s)) = 0
  <2> DEFINE G == Class(c, s)
  <2>1. F \in Strands
    BY <1>3, SortedAt, IosFinite
  <2>2. ASSUME NEW i \in Ios, NEW j \in DOMAIN F[i]
        PROVE  F[i][j] \notin G
    <3>1. F[i][j].s # s
      BY <1>3, <2>2 DEF ToSet
    <3>2. F[i][j] \in Tasks
      BY <2>1, <2>2, StrandIsSeq
    <3>3. Bit(c, s, F[i][j]) = 0
      BY <3>1 DEF Bit
    <3>4. QED
      BY <3>2, <3>3, ClassBit DEF Is
  <2>3. QED
    BY <2>1, <2>2, HowManyNone
<1>4. ASSUME NEW c \in Classes
      PROVE  Census(s, posted, stack)[c] = 0
  <2>1. HowMany(posted, Class(c, s)) = 0 /\ HowMany(stack, Class(c, s)) = 0
    BY <1>1, <1>2, <1>3
  <2>2. QED
    BY <2>1 DEF Census, Count
<1>5. sstate[s] \in {"new", "stopped"}
  <2> DEFINE n == Census(s, posted, stack)
  <2>1. n["begins"] = 0 /\ n["connects"] = 0 /\ n["joins"] = 0 /\ n["pushes"] = 0
    BY <1>4 DEF Classes
  <2>2. Hit(<<>>, Disconnect) = 0
    BY HitEmpty
  <2>3. SessionOK(n, s, sstate[s], <<>>, {}, sessions, holders, held, told[s], accepting)
    BY <1>1 DEF IInv, Fine
  <2>4. sstate[s] \in States \cup {"new"}
    BY TypesNow
  <2> HIDE DEF n
  <2>5. QED
    BY <1>1, <2>1, <2>2, <2>3, <2>4 DEF SessionOK, OneEnd, Greeted, States
<1>6. QED
  BY <1>1, <1>4, <1>5

LEMMA DestroyKeeps ==
  ASSUME IInv, NEW s \in Sessions, Destroy(s)
  PROVE  IInv'
<1>1. /\ s \in holders /\ ~Referenced(s) /\ holders' = holders \ {s}
      /\ posted' = (IF holders' = {} THEN Post(posted, 0, Task("exec", NoSession, "-")) ELSE posted)
      /\ sopen' = sopen \ {s} /\ stack' = stack /\ "exec" \in OwnKinds
      /\ UNCHANGED <<state, acceptor, accepting, ctimer, sessions, sstate, sops, queue, user>>
  BY DEF Destroy, Drop, OwnKinds
<1>2. ~Drained
  BY <1>1, DrainedQuiet
<1>3. s # Server /\ state # "starting" /\ state # "stopped"
  BY <1>1, NamesAssumption DEF IInv, ServerOK
<1>4. /\ Sorted(posted') /\ Sorted(stack')
      /\ \A r \in Sessions : Census(r, posted', stack') = Census(r, posted, stack)
      /\ Own'["starts"] = Own["starts"] /\ Own'["stops"] = Own["stops"]
      /\ Own'["execs"] = Own["execs"] + (IF holders' = {} THEN 1 ELSE 0)
  <2>1. CASE holders' = {}
    <3>1. /\ Sorted(posted') /\ Sorted(stack')
          /\ \A r \in Sessions : Census(r, posted', stack') = Census(r, posted, stack)
          /\ \A c \in {"starts", "stops", "execs"} : /\ Own'[c] = Own[c] + (IF "exec" \in KindsOf(c) THEN 1 ELSE 0)
                                                     /\ Own[c] \in Nat
      BY <1>1, <2>1, OwnPosted
    <3>2. QED
      BY <2>1, <3>1, KindTable DEF Classes
  <2>2. CASE holders' # {}
    <3>1. posted' = posted /\ stack' = stack
      BY <1>1, <2>2
    <3>2. Own' = Own /\ Own["execs"] \in Nat
      BY <3>1, CensusNow, CensusNat DEF Own, Censuses, Classes
    <3>3. QED
      BY <2>2, <3>1, <3>2, TypesNow
  <2>3. QED
    BY <2>1, <2>2
<1>5. ASSUME NEW r \in Sessions
      PROVE  Fine(r)'
  <2>1. CASE r # s
    <3>1. Fine(r) /\ (r \in held => r \in holders)
      BY DEF IInv, Fine, SessionOK, Counted
    <3>2. QED
      BY <1>1, <1>4, <2>1, <3>1, Untouched DEF user
  <2>2. CASE r = s
    <3> DEFINE n == Census(s, posted, stack)
               h == holders'
    <3>1. /\ s \notin sessions /\ s \notin held /\ sops[s] = {} /\ queue[s] = <<>> /\ n["lives"] = 0
          /\ sstate[s] \in {"new", "stopped"} /\ n["accepts"] = 0 /\ accepting # s
      BY <1>1, Unreferenced DEF Classes
    <3>2. SessionOK(n, s, sstate[s], queue[s], sops[s], sessions, holders, held, told[s], accepting)
      BY DEF IInv, Fine
    <3> HIDE DEF n, h
    <3>3. SessionOK(n, s, sstate[s], queue[s], sops[s], sessions, h, held, told[s], accepting)
      <4>1. s \notin h
        BY <1>1 DEF h
      <4>2. Counted(n, s, sstate[s], queue[s], sops[s], sessions, h, held)
        BY <3>1 DEF Counted
      <4>3. Accepted(n, s, sstate[s], h, told[s], accepting)
        BY <3>1, <3>2, <4>1 DEF SessionOK, Accepted
      <4>4. QED
        BY <3>2, <4>2, <4>3 DEF SessionOK
    <3>4. Census(s, posted', stack') = n
      BY <1>4 DEF n
    <3>5. QED
      BY <1>1, <2>2, <3>3, <3>4 DEF Fine, user, h
  <2>3. QED
    BY <2>1, <2>2
<1>6. ServerOK'
  <2>1. Own["execs"] = 0
    BY <1>1 DEF IInv, ServerOK
  <2>2. holders' = {} => state = "stopping"
    <3>1. holders' = {} => Server \notin holders
      BY <1>1, <1>3
    <3>2. state \in States
      BY DEF IInv, Typed, TypeOK
    <3>3. QED
      BY <1>3, <3>1, <3>2 DEF IInv, ServerOK, States
  <2>3. Server \in holders' <=> Server \in holders
    BY <1>1, <1>3
  <2>4. QED
    BY <1>1, <1>3, <1>4, <2>1, <2>2, <2>3 DEF IInv, ServerOK
<1>7. AppOK'
  BY <1>1, <1>2, <1>4 DEF IInv, AppOK, Drained, user
<1>8. Typed'
  BY <1>1, <1>4 DEF IInv, Typed, TypeOK, Sorted, Strands, user, bounds
<1>9. QED
  BY <1>5, <1>6, <1>7, <1>8 DEF IInv

-----------------------------------------------------------------------------
(* The invariant holds.                                                    *)

LEMMA InitHolds ==
  ASSUME Init
  PROVE  IInv
<1>1. /\ posted = [i \in Ios |-> <<>>] /\ stack = [i \in Ios |-> <<>>] /\ state = "stopped" /\ holders = {}
      /\ app = "free" /\ accepting = NoSession /\ ctimer = FALSE /\ sessions = {} /\ held = {}
      /\ \A r \in Sessions : sstate[r] = "new" /\ sops[r] = {} /\ queue[r] = <<>> /\ told[r] = "none"
  BY DEF Init
<1>2. Typed
  <2>1. posted \in [Ios -> Seq(Tasks)] /\ stack \in [Ios -> Seq(Tasks)] /\ queue \in [Sessions -> Seq(Events)]
    BY DEF Init
  <2>2. starts \in 0 .. MaxStarts /\ stops \in 0 .. MaxStops /\ sends \in 0 .. MaxSends
    BY BoundsAssumption DEF Init
  <2>3. /\ sstate \in [Sessions -> States \cup {"new"}]
        /\ sops \in [Sessions -> SUBSET {"recv", "write", "silence"}]
        /\ told \in [Sessions -> {"none", "connected", "disconnected"}]
    BY DEF Init
  <2>4. TypeOK
    BY <2>1, <2>2, <2>3 DEF Init, TypeOK, States
  <2>5. QED
    BY <1>1, <2>4 DEF Typed, Sorted, Strands
<1>3. ASSUME NEW r, NEW c \in Classes
      PROVE  Census(r, posted, stack)[c] = 0
  <2> DEFINE G == Class(c, r)
  <2>1. posted \in Strands /\ stack \in Strands
    BY <1>1 DEF Strands
  <2>2. HowMany(posted, G) = 0 /\ HowMany(stack, G) = 0
    <3>1. ASSUME NEW F \in Strands, \A i \in Ios : F[i] = <<>>
          PROVE  HowMany(F, G) = 0
      <4>1. \A i \in Ios : \A j \in DOMAIN F[i] : F[i][j] \notin G
        BY <3>1
      <4>2. QED
        BY <4>1, HowManyNone
    <3>2. QED
      BY <1>1, <2>1, <3>1
  <2>3. QED
    BY <2>2 DEF Census, Count
<1>4. ServerOK /\ AppOK
  <2>1. Own["execs"] = 0 /\ Own["starts"] = 0
    BY <1>3 DEF Own, Classes
  <2>2. QED
    BY <1>1, <2>1 DEF ServerOK, AppOK, Drained
<1>5. ASSUME NEW r \in Sessions
      PROVE  Fine(r)
  <2> DEFINE n == Census(r, posted, stack)
  <2>1. /\ n["accepts"] = 0 /\ n["begins"] = 0 /\ n["connects"] = 0 /\ n["joins"] = 0 /\ n["pushes"] = 0
        /\ n["bodies"] = 0 /\ n["closings"] = 0 /\ n["writes"] = 0 /\ n["lives"] = 0
    BY <1>3 DEF Classes
  <2>2. Hit(<<>>, Disconnect) = 0
    BY HitEmpty
  <2> HIDE DEF n
  <2>3. NoSession # r
    BY NamesAssumption
  <2>4. SessionOK(n, r, "new", <<>>, {}, {}, {}, {}, "none", NoSession)
    BY <2>1, <2>2, <2>3 DEF SessionOK, OneEnd, OneGuard, Counted, Accepted, Greeted
  <2>5. QED
    BY <1>1, <2>4 DEF Fine, n
<1>6. QED
  BY <1>2, <1>4, <1>5 DEF IInv

\* An action of one of the strands.
LEMMA StrandStepKeeps ==
  ASSUME IInv, NEW i \in Ios, StrandStep(i)
  PROVE  IInv'
<1>1. CASE RunNext(i)
  BY <1>1, RunNextKeeps
<1>2. CASE SessionTask(i)
  BY <1>2, RunPushKeeps, EventBodyKeeps, DiscKeeps, HandleDisconnectKeeps, StartRecvKeeps, HandleRecvKeeps,
     HandleRecv2Keeps, HandleSendKeeps, HandleSilenceKeeps DEF SessionTask
<1>3. CASE CallbackReturns(i)
  BY <1>3, CallbackReturnsKeeps
<1>4. CASE ServerTask
  BY <1>4, StartKeeps, Start2Keeps, Start3Keeps, HandleAcceptKeeps, AcceptAgainKeeps, Session2Keeps, Session3Keeps,
     JoinSessionKeeps, RunStopKeeps, ExecStopKeeps, HandleStopKeeps, EraseKeeps, Erase2Keeps DEF ServerTask
<1>5. QED
  BY <1>1, <1>2, <1>3, <1>4 DEF StrandStep

LEMMA NextKeeps ==
  ASSUME IInv, Next
  PROVE  IInv'
<1>1. CASE Forgotten # {}
  <2>1. PICK s \in Forgotten : Destroy(s)
    BY <1>1 DEF Next
  <2>2. s \in Sessions
    BY <2>1 DEF Forgotten, IInv, Typed, TypeOK
  <2>3. QED
    BY <2>1, <2>2, DestroyKeeps
<1>2. ASSUME NEW i \in Ios, StrandStep(i)
      PROVE  IInv'
  BY <1>2, StrandStepKeeps
<1>3. CASE Calls
  <2>1. ASSUME NEW i \in Ios, CallbackStopsServer(i) \/ CallbackStopsSession(i) \/ CallbackKeeps(i)
        PROVE  IInv'
    BY <2>1, CallbackStopsServerKeeps, CallbackStopsSessionKeeps, CallbackKeepsKeeps
  <2>2. ASSUME NEW s \in Sessions, HolderStops(s)
        PROVE  IInv'
    BY <2>2, HolderStopsKeeps
  <2>3. QED
    BY <1>3, <2>1, <2>2, AppStartsKeeps, AppStopsKeeps, AppSendsKeeps DEF Calls
<1>4. CASE Pool
  BY <1>4, IoStopsKeeps, AppStoppedKeeps DEF Pool
<1>5. CASE World
  <2>1. ASSUME NEW s \in Sessions, NEW o \in Operations, NEW ec \in Results, Ends(s, o, ec)
        PROVE  IInv'
    BY <2>1, EndsKeeps
  <2>2. ASSUME NEW s \in Sessions, RecvEnds(s) \/ WriteEnds(s) \/ SilenceEnds(s)
        PROVE  IInv'
    BY <2>1, <2>2 DEF RecvEnds, WriteEnds, SilenceEnds, Operations, Results
  <2>3. QED
    BY <1>5, <2>2, AcceptEndsKeeps DEF World
<1>6. ASSUME NEW s \in Sessions, HolderDrops(s)
      PROVE  IInv'
  BY <1>6, HolderDropsKeeps
<1>7. QED
  BY <1>1, <1>2, <1>3, <1>4, <1>5, <1>6 DEF Next

LEMMA StutterKeeps ==
  ASSUME IInv, UNCHANGED vars
  PROVE  IInv'
<1>1. /\ UNCHANGED <<state, acceptor, accepting, ctimer, holders>> /\ UNCHANGED <<sstate, sopen, sops, queue>>
      /\ UNCHANGED <<sessions, posted, stack, told, held, app, ioStopped>> /\ UNCHANGED <<starts, stops, sends>>
  BY DEF vars, serverVars, sessionVars, strands, bounds
<1>2. Own' = Own /\ \A r \in Sessions : Census(r, posted', stack') = Census(r, posted, stack)
  BY <1>1 DEF Own
<1>3. \A r \in Sessions : Fine(r)'
  BY <1>1, <1>2, SessionsKept
<1>4. ServerOK' /\ AppOK'
  BY <1>1, <1>2 DEF IInv, ServerOK, AppOK, Drained
<1>5. Typed'
  BY <1>1 DEF IInv, Typed, TypeOK, Sorted, Strands
<1>6. QED
  BY <1>3, <1>4, <1>5 DEF IInv

THEOREM Inductive == Spec => []IInv
<1>1. Init => IInv
  BY InitHolds
<1>2. IInv /\ [Next]_vars => IInv'
  BY NextKeeps, StutterKeeps
<1>3. QED
  BY <1>1, <1>2, PTL DEF Spec

\* Every variable keeps its type (tcp_server.hpp, tcp_session.hpp).
THEOREM TypeCorrect == Spec => []TypeOK
<1>1. IInv => TypeOK
  BY DEF IInv, Typed
<1>2. QED
  BY <1>1, Inductive, PTL

\* A server that is stopped has no session left, in the map or started
\* (session_mgr.hpp, tcp_server.hpp:499-522).
THEOREM SessionsFirst == Spec => []SessionsStopFirst
<1>1. IInv => SessionsStopFirst
  BY NobodyLeft DEF SessionsStopFirst
<1>2. QED
  BY <1>1, Inductive, PTL

\* Once io_context 0 has stopped under stop, the server is stopped and nothing
\* is left that would post to it (iopool.hpp:293, tcp_server.hpp:149).
THEOREM DrainedOnce == Spec => []DrainedForGood
<1>1. IInv => DrainedForGood
  BY DrainedQuiet, IosFinite DEF DrainedForGood, Drained
<1>2. QED
  BY <1>1, Inductive, PTL

-----------------------------------------------------------------------------
(* One disconnect event, one guard.                                        *)

LEMMA HowManyUnion ==
  ASSUME NEW F \in Strands, NEW A, NEW B, \A t \in Tasks : ~(t \in A /\ t \in B)
  PROVE  HowMany(F, A \cup B) = HowMany(F, A) + HowMany(F, B)
<1>1. IsFiniteSet(Places(F, A)) /\ IsFiniteSet(Places(F, B)) /\ HowMany(F, A) \in Nat /\ HowMany(F, B) \in Nat
  BY PlacesFinite
<1>2. Places(F, A \cup B) = Places(F, A) \cup Places(F, B)
  BY DEF Places
<1>3. Places(F, A) \cap Places(F, B) = {}
  <2>1. ASSUME NEW p \in Places(F, A), p \in Places(F, B)
        PROVE  FALSE
    <3>1. PICK i \in Ios : \E j \in Hits(F[i], A) : p = <<i, j>>
      BY PlacesPairs
    <3>2. PICK j \in Hits(F[i], A) : p = <<i, j>>
      BY <3>1
    <3>3. j \in Hits(F[i], B)
      BY <2>1, <3>2, PlacesOf
    <3>4. F[i][j] \in Tasks
      BY <3>2, StrandIsSeq DEF Hits
    <3>5. QED
      BY <3>2, <3>3, <3>4 DEF Hits
  <2>2. QED
    BY <2>1
<1> DEFINE X == Places(F, A)
           Y == Places(F, B)
<1>4. HowMany(F, A) = Cardinality(X) /\ HowMany(F, B) = Cardinality(Y) /\ HowMany(F, A \cup B) = Cardinality(X \cup Y)
  BY <1>2 DEF HowMany
<1> HIDE DEF X, Y
<1>5. Cardinality(X \cap Y) = 0
  BY <1>3, FS_EmptySet DEF X, Y
<1>6. Cardinality(X \cup Y) = Cardinality(X) + Cardinality(Y) - Cardinality(X \cap Y)
  BY <1>1, FS_Union DEF X, Y
<1>7. QED
  BY <1>1, <1>4, <1>5, <1>6

LEMMA CountUnion ==
  ASSUME NEW P, Sorted(P), NEW S, Sorted(S), NEW A, NEW B, \A t \in Tasks : ~(t \in A /\ t \in B)
  PROVE  Count(P, S, A \cup B) = Count(P, S, A) + Count(P, S, B)
<1>1. P \in Strands /\ S \in Strands
  BY SortedAt, IosFinite
<1>2. /\ HowMany(P, A) \in Nat /\ HowMany(P, B) \in Nat /\ HowMany(S, A) \in Nat /\ HowMany(S, B) \in Nat
  BY <1>1, PlacesFinite
<1>3. HowMany(P, A \cup B) = HowMany(P, A) + HowMany(P, B) /\ HowMany(S, A \cup B) = HowMany(S, A) + HowMany(S, B)
  BY <1>1, HowManyUnion
<1>4. QED
  BY <1>2, <1>3 DEF Count

LEMMA GuardsAre ==
  ASSUME IInv, NEW s \in Sessions
  PROVE  Count(posted, stack, Of(s, {"body", "disc", "erase", "erase2", "close", "write"}))
           = Census(s, posted, stack)["bodies"] + Census(s, posted, stack)["closings"]
               + Census(s, posted, stack)["writes"]
<1> DEFINE A == Class("bodies", s)
           B == Class("closings", s)
           C == Class("writes", s)
<1>1. /\ A = [k : {"body"}, s : {s}, x : Args] /\ B = [k : {"disc", "erase", "erase2", "close"}, s : {s}, x : Args]
      /\ C = [k : {"write"}, s : {s}, x : Args]
  BY DEF Class, KindsOf
<1>2. Of(s, {"body", "disc", "erase", "erase2", "close", "write"}) = (A \cup B) \cup C
  <2>1. Of(s, {"body", "disc", "erase", "erase2", "close", "write"})
          = [k : {"body", "disc", "erase", "erase2", "close", "write"}, s : {s}, x : Args]
    BY DEF Of, Args
  <2> HIDE DEF A, B, C
  <2>2. QED
    BY <1>1, <2>1
<1>3. \A t : ~(t \in A /\ t \in B) /\ ~(t \in A \cup B /\ t \in C)
  <2> HIDE DEF A, B, C
  <2>1. QED
    BY <1>1
<1>4. /\ Census(s, posted, stack)["bodies"] = Count(posted, stack, A)
      /\ Census(s, posted, stack)["closings"] = Count(posted, stack, B)
      /\ Census(s, posted, stack)["writes"] = Count(posted, stack, C)
  BY DEF Census, Classes
<1> HIDE DEF A, B, C
<1>5. Sorted(posted) /\ Sorted(stack)
  BY TypesNow
<1>6. /\ Count(posted, stack, A \cup B) = Count(posted, stack, A) + Count(posted, stack, B)
      /\ Count(posted, stack, (A \cup B) \cup C) = Count(posted, stack, A \cup B) + Count(posted, stack, C)
  BY <1>3, <1>5, CountUnion
<1>7. QED
  BY <1>2, <1>4, <1>6

LEMMA OneOfEach == IInv => OneDisconnection
<1> SUFFICES ASSUME IInv, NEW s \in Sessions
             PROVE  LET coming == Count(posted, stack, [k : {"push"}, s : {s}, x : Disconnect])
                        queued == {j \in DOMAIN queue[s] : queue[s][j] \in Disconnect}
                        guards == Count(posted, stack, Of(s, {"body", "disc", "erase", "erase2", "close", "write"}))
                    IN /\ coming + Cardinality(queued) = (IF sstate[s] = "stopping" THEN 1 ELSE 0)
                       /\ guards + Cardinality(sops[s] \cap {"write"}) = (IF queue[s] = <<>> THEN 0 ELSE 1)
  BY DEF OneDisconnection
<1> DEFINE n == Census(s, posted, stack)
<1>1. /\ n["pushes"] + Hit(queue[s], Disconnect) = (IF sstate[s] = "stopping" THEN 1 ELSE 0)
      /\ n["bodies"] + n["closings"] + n["writes"] + (IF "write" \in sops[s] THEN 1 ELSE 0)
           = (IF queue[s] = <<>> THEN 0 ELSE 1)
  BY DEF IInv, Fine, SessionOK, OneEnd, OneGuard
<1>2. n["pushes"] = Count(posted, stack, [k : {"push"}, s : {s}, x : Disconnect])
  BY DEF Census, Class, KindsOf, Classes
<1>3. Hit(queue[s], Disconnect) = Cardinality({j \in DOMAIN queue[s] : queue[s][j] \in Disconnect})
  BY DEF Hit, Hits
<1>4. Cardinality(sops[s] \cap {"write"}) = (IF "write" \in sops[s] THEN 1 ELSE 0)
  <2>1. CASE "write" \in sops[s]
    <3>1. sops[s] \cap {"write"} = {"write"}
      BY <2>1
    <3>2. QED
      BY <2>1, <3>1, FS_Singleton
  <2>2. CASE "write" \notin sops[s]
    <3>1. sops[s] \cap {"write"} = {}
      BY <2>2
    <3>2. QED
      BY <2>2, <3>1, FS_EmptySet
  <2>3. QED
    BY <2>1, <2>2
<1>5. Count(posted, stack, Of(s, {"body", "disc", "erase", "erase2", "close", "write"}))
        = n["bodies"] + n["closings"] + n["writes"]
  BY GuardsAre
<1> HIDE DEF n
<1>6. QED
  BY <1>1, <1>2, <1>3, <1>4, <1>5

\* A session that is stopping has one disconnect event and no other session has
\* any; somebody holds the guard of every queue that is not empty, and nobody
\* else does (disconnect_cp.hpp:191-229).
THEOREM OneDisconnect == Spec => []OneDisconnection
  BY OneOfEach, Inductive, PTL

-----------------------------------------------------------------------------
(* The promise of ServerLife is kept.                                      *)

LifeMoves == [Life!Next]_(Life!lifeVars)

LEMMA LifeQuiet ==
  ASSUME state' = state, told' = told
  PROVE  LifeMoves
BY DEF LifeMoves, Life!lifeVars

\* While somebody holds a session the server is started or stopping.
LEMMA HeldRuns ==
  ASSUME IInv, NEW s \in Sessions, s \in holders
  PROVE  Life!Running
<1>1. s # Server /\ state \in States
  BY NamesAssumption DEF IInv, Typed, TypeOK
<1>2. QED
  BY <1>1 DEF IInv, ServerOK, States, Life!Running

LEMMA DoStopMoves ==
  ASSUME NEW S, DoStop(S), told' = told
  PROVE  LifeMoves
<1>1. CASE state \in {"starting", "started"}
  <2>1. state' = "stopping"
    BY <1>1 DEF DoStop
  <2>2. Life!Stop
    BY <1>1, <2>1 DEF Life!Stop
  <2>3. QED
    BY <2>2 DEF LifeMoves, Life!Next
<1>2. CASE state \notin {"starting", "started"}
  <2>1. state' = state
    BY <1>2 DEF DoStop
  <2>2. QED
    BY <2>1, LifeQuiet
<1>3. QED
  BY <1>1, <1>2

LEMMA StartMoves ==
  ASSUME IInv, Start \/ Start2 \/ Start3 \/ RunStop \/ HandleStop
  PROVE  LifeMoves
<1>1. CASE Start
  <2>1. told' = told /\ ((state = "stopped" /\ state' = "starting") \/ state' = state)
    BY <1>1 DEF Start
  <2>2. QED
    BY <2>1, LifeQuiet DEF LifeMoves, Life!Next, Life!Start
<1>2. CASE Start2
  <2>1. told' = told /\ ((state = "starting" /\ state' = "started") \/ state' = state)
    BY <1>2 DEF Start2, user
  <2>2. QED
    BY <2>1, LifeQuiet DEF LifeMoves, Life!Next, Life!Started
<1>3. CASE Start3
  <2>1. told' = told /\ (state' = state \/ DoStop(Below(0)))
    BY <1>3 DEF Start3
  <2>2. QED
    BY <2>1, LifeQuiet, DoStopMoves
<1>4. CASE RunStop
  <2>1. told' = told /\ DoStop(Below(0))
    BY <1>4 DEF RunStop, user
  <2>2. QED
    BY <2>1, DoStopMoves
<1>5. CASE HandleStop
  <2>1. told' = told /\ ((state = "stopping" /\ state' = "stopped") \/ state' = state)
    BY <1>5 DEF HandleStop, user
  <2>2. QED
    BY <2>1, LifeQuiet DEF LifeMoves, Life!Next, Life!Stopped
<1>6. QED
  BY <1>1, <1>2, <1>3, <1>4, <1>5

\* A connection is announced of a session nothing was said of.
LEMMA Session3Moves ==
  ASSUME IInv, Session3
  PROVE  LifeMoves
<1>1. At(0, "session3") /\ "session3" \in LiveKinds /\ "session3" \notin OwnKinds \cup {"user"} /\ 0 \in Ios
  BY IosFinite DEF Session3, LiveKinds, HomeKinds, MapKinds, OwnKinds
<1>2. PICK s \in Sessions, x \in Args : /\ Top(0) = Task("session3", s, x) /\ Top(0).s = s /\ Top(0).x = x
                                       /\ s \in holders
  BY <1>1, HandlerOf
<1>3. state' = state /\ (told' = told \/ told' = [told EXCEPT ![s] = "connected"])
  BY <1>2 DEF Session3, serverVars
<1>4. told[s] = "none"
  <2> DEFINE n == Census(s, posted, stack)
             b == Census(s, posted, Below(0))
  <2>1. /\ \A c \in Classes : b[c] = n[c]
             - (IF "session3" \in KindsOf(c) /\ (c = "pushes" => x \in Disconnect) THEN 1 ELSE 0)
        /\ Sorted(posted) /\ Sorted(Below(0))
    BY <1>1, <1>2, Popped
  <2>2. b \in Censuses /\ n \in Censuses
    BY <2>1, CensusType, CensusNow
  <2>3. Greeted(n, s, sstate[s], sessions, told[s])
    BY GreetedNow
  <2> HIDE DEF n, b
  <2>4. n["connects"] > 0
    <3>1. b["connects"] = n["connects"] - 1
      BY <2>1, KindTable DEF Classes
    <3>2. QED
      BY <2>2, <3>1, CensusNat
  <2>5. QED
    BY <2>3, <2>4 DEF Greeted
<1>5. Life!Running
  BY <1>2, HeldRuns
<1>6. CASE told' = told
  BY <1>3, <1>6, LifeQuiet
<1>7. CASE told' = [told EXCEPT ![s] = "connected"]
  <2>1. Life!Connect(s)
    BY <1>3, <1>4, <1>5, <1>7 DEF Life!Connect
  <2>2. QED
    BY <2>1 DEF LifeMoves, Life!Next
<1>8. QED
  BY <1>3, <1>6, <1>7

\* A loss is announced of a session whose connection was, and not its loss.
LEMMA EraseMoves ==
  ASSUME IInv, Erase
  PROVE  LifeMoves
<1>1. At(0, "erase") /\ "erase" \in LiveKinds /\ "erase" \notin OwnKinds \cup {"user"} /\ 0 \in Ios
  BY IosFinite DEF Erase, LiveKinds, HomeKinds, MapKinds, OwnKinds
<1>2. PICK s \in Sessions, x \in Args : /\ Top(0) = Task("erase", s, x) /\ Top(0).s = s /\ Top(0).x = x
                                       /\ s \in holders
  BY <1>1, HandlerOf
<1>3. state' = state /\ (told' = told \/ (s \in sessions /\ told' = [told EXCEPT ![s] = "disconnected"]))
  BY <1>2 DEF Erase, serverVars
<1>4. s \in sessions => told[s] = "connected"
  BY GreetedNow DEF Greeted
<1>5. Life!Running
  BY <1>2, HeldRuns
<1>6. CASE told' = told
  BY <1>3, <1>6, LifeQuiet
<1>7. CASE s \in sessions /\ told' = [told EXCEPT ![s] = "disconnected"]
  <2>1. Life!Disconnect(s)
    BY <1>3, <1>4, <1>5, <1>7 DEF Life!Disconnect
  <2>2. QED
    BY <2>1 DEF LifeMoves, Life!Next
<1>8. QED
  BY <1>3, <1>6, <1>7

LEMMA StrandMoves ==
  ASSUME IInv, NEW i \in Ios, StrandStep(i)
  PROVE  LifeMoves
<1>1. CASE RunNext(i) \/ CallbackReturns(i)
  BY <1>1, LifeQuiet DEF RunNext, CallbackReturns, serverVars, user
<1>2. CASE SessionTask(i)
  BY <1>2, LifeQuiet DEF SessionTask, RunPush, EventBody, Disc, HandleDisconnect, StartRecv, HandleRecv, HandleRecv2,
     HandleSend, HandleSilence, serverVars, user
<1>3. CASE ServerTask
  <2>1. CASE HandleAccept \/ AcceptAgain \/ Session2 \/ JoinSession \/ ExecStop \/ Erase2
    BY <2>1, LifeQuiet DEF HandleAccept, AcceptAgain, Session2, JoinSession, ExecStop, Erase2, serverVars, user
  <2>2. QED
    BY <1>3, <2>1, StartMoves, Session3Moves, EraseMoves DEF ServerTask
<1>4. QED
  BY <1>1, <1>2, <1>3 DEF StrandStep

LEMMA NextMoves ==
  ASSUME IInv, Next
  PROVE  LifeMoves
<1>1. CASE Forgotten # {}
  <2>1. PICK s \in Forgotten : Destroy(s)
    BY <1>1 DEF Next
  <2>2. QED
    BY <2>1, LifeQuiet DEF Destroy, user
<1>2. CASE Calls
  <2>1. ASSUME NEW i \in Ios, CallbackStopsServer(i)
        PROVE  LifeMoves
    <3>1. told' = told /\ (DoStop(stack) \/ state' = state)
      BY <2>1 DEF CallbackStopsServer
    <3>2. QED
      BY <3>1, DoStopMoves, LifeQuiet
  <2>2. ASSUME NEW i \in Ios, CallbackStopsSession(i) \/ CallbackKeeps(i)
        PROVE  LifeMoves
    BY <2>2, LifeQuiet DEF CallbackStopsSession, CallbackKeeps, serverVars, user
  <2>3. ASSUME NEW s \in Sessions, HolderStops(s)
        PROVE  LifeMoves
    BY <2>3, LifeQuiet DEF HolderStops, serverVars, user
  <2>4. CASE AppStarts \/ AppStops \/ AppSends
    BY <2>4, LifeQuiet DEF AppStarts, AppStops, AppSends, serverVars
  <2>5. QED
    BY <1>2, <2>1, <2>2, <2>3, <2>4 DEF Calls
<1>3. CASE Pool
  BY <1>3, LifeQuiet DEF Pool, IoStops, AppStopped, serverVars
<1>4. CASE World
  BY <1>4, LifeQuiet DEF World, AcceptEnds, RecvEnds, WriteEnds, SilenceEnds, Ends, serverVars, user
<1>5. ASSUME NEW s \in Sessions, HolderDrops(s)
      PROVE  LifeMoves
  BY <1>5, LifeQuiet DEF HolderDrops, serverVars
<1>6. QED
  BY <1>1, <1>2, <1>3, <1>4, <1>5, StrandMoves DEF Next

\* Every server, with any sessions and any calls, keeps the promise of
\* ServerLife: its state moves in a circle, a session is announced at most once,
\* its loss at most once and after that, and neither once the server is stopped.
THEOREM ImplementsLife == Spec => LifeSpec
<1>1. Init => Life!Init
  BY DEF Init, Life!Init
<1>2. IInv /\ [Next]_vars => [Life!Next]_(Life!lifeVars)
  <2>1. IInv /\ Next => LifeMoves
    BY NextMoves
  <2>2. UNCHANGED vars => LifeMoves
    BY LifeQuiet DEF vars, serverVars
  <2>3. QED
    BY <2>1, <2>2 DEF LifeMoves
<1>3. QED
  BY <1>1, <1>2, Inductive, PTL DEF Spec, LifeSpec, Life!Spec

-----------------------------------------------------------------------------
(* The notifications of a session when callbacks call nothing.  A session  *)
(* is greeted (Session2, Session3, JoinSession) on strand 0 with nothing   *)
(* but the callback it called above, and nobody else knows it meanwhile:   *)
(* the server stays started, and the session gets into the map.            *)

Greeters    == {"session2", "session3", "join"}
StrandKinds == HomeKinds \ {"user"}
\* The kinds of tasks that a session has none of while it is greeted.
Others      == StrandKinds \cup {"erase", "erase2"}

\* Task t lies in strand i; a task of kind k of session r stands on strand 0.
Lies(F, i, t) == \E j \in DOMAIN F[i] : F[i][j] = t
Has(S, k, r)  == \E j \in DOMAIN S[0] : S[0][j].k = k /\ S[0][j].s = r
Greets(S, r)  == \E k \in Greeters : Has(S, k, r)
NoGreeter(q)  == \A j \in DOMAIN q : q[j].k \notin Greeters

\* Above a task that greets there is only the callback it called.
Calm(q) == \A j, m \in DOMAIN q : j < m /\ q[j].k \in Greeters => q[m].k = "user"

\* What holds of a task t of strand i, with S the stacks, tl what was told of
\* the sessions and so the open ones.
Proper(i, t, S, tl, so) ==
  /\ t.k \in StrandKinds => Home[t.s] = i
  /\ t.k \in {"disc", "erase"} => t.x = "started"
  /\ t.k = "push" => t.x # "starting"
  /\ t.k \in {"erase2", "close"} => tl[t.s] # "connected"
  /\ t.k = "accept" /\ t.x = "ok" => t.s \in so
  /\ t.k \in Others => ~Greets(S, t.s)

Placed(P, S, tl, so) ==
  /\ Calm(S[0])
  /\ \A i \in Ios, t \in Tasks :
       /\ Lies(P, i, t) => t.k \notin Greeters
       /\ Lies(P, i, t) \/ Lies(S, i, t) => Proper(i, t, S, tl, so)

\* A session that is greeted is alone with the server, which is started.
Secluded(r, st, S, ss, q, ops, so) ==
  /\ Greets(S, r) => st = "started" /\ r \in so /\ ops = {} /\ q = <<>>
  /\ Has(S, "session2", r) => ss = "starting"
  /\ Has(S, "session3", r) \/ Has(S, "join", r) => ss = "started"

\* A session whose connection was told of is open, and in the map or about to be.
Noted(r, S, tl, so, map) ==
  tl = "connected" => r \in so /\ (r \in map \/ Has(S, "join", r))

\* No session is disconnected before it was started.
NeverStarting(q) == \A j \in DOMAIN q : q[j] # "starting"

TellInv ==
  /\ held = {}
  /\ Placed(posted, stack, told, sopen)
  /\ \A r \in Sessions :
       /\ Secluded(r, state, stack, sstate[r], queue[r], sops[r], sopen)
       /\ Noted(r, stack, told[r], sopen, sessions)
       /\ NeverStarting(queue[r])

LEMMA KindSets ==
  /\ Greeters \cap Others = {} /\ "user" \notin Greeters \cup Others /\ StrandKinds \subseteq Others
  /\ Greeters \subseteq MapKinds /\ Others \subseteq LiveKinds
  /\ \A k \in {"body", "disc", "close", "recv1", "recv", "recv2", "write", "silence", "push"} : k \in StrandKinds
  /\ \A k \in {"body", "disc", "close", "recv1", "recv", "recv2", "write", "silence", "push", "erase", "erase2"} :
       k \in Others /\ k \notin Greeters
  /\ \A k \in {"user", "start", "stop", "exec", "accept", "start2", "start3", "exec2", "again",
               "session2", "session3", "join"} : k \notin Others /\ k \notin StrandKinds
  /\ \A k \in {"user", "start", "stop", "exec", "accept", "start2", "start3", "exec2", "again"} : k \notin Greeters
BY DEF Greeters, StrandKinds, Others, HomeKinds, MapKinds, LiveKinds

LEMMA AppendIs ==
  ASSUME NEW A, NEW q \in Seq(A), NEW t \in A
  PROVE  /\ \A j \in DOMAIN q : j \in DOMAIN Append(q, t) /\ Append(q, t)[j] = q[j] /\ j < Len(q) + 1
         /\ Len(q) + 1 \in DOMAIN Append(q, t) /\ Append(q, t)[Len(q) + 1] = t
         /\ \A j \in DOMAIN Append(q, t) : j \in DOMAIN q \/ j = Len(q) + 1
OBVIOUS

LEMMA FrontIs ==
  ASSUME NEW A, NEW q \in Seq(A), q # <<>>
  PROVE  /\ \A j \in DOMAIN Front(q) : j \in DOMAIN q /\ Front(q)[j] = q[j] /\ j < Len(q)
         /\ Len(q) \in DOMAIN q /\ Last(q) = q[Len(q)]
         /\ \A j \in DOMAIN q : j \in DOMAIN Front(q) \/ j = Len(q)
         /\ \A j \in DOMAIN q : j \in Nat
BY DEF Front, Last

LEMMA TailIs ==
  ASSUME NEW A, NEW q \in Seq(A), q # <<>>
  PROVE  /\ \A j \in DOMAIN Tail(q) : j + 1 \in DOMAIN q /\ Tail(q)[j] = q[j + 1]
         /\ 1 \in DOMAIN q /\ Head(q) = q[1]
BY HeadTailProperties

\* Moves of tasks, and where the tasks lie.
LEMMA LiesAdded ==
  ASSUME NEW F, Sorted(F), NEW i \in Ios, NEW t, t \in Allowed(i), NEW E, E = Post(F, i, t) \/ E = Call(F, i, t)
  PROVE  /\ \A k \in Ios : \A u : Lies(E, k, u) <=> Lies(F, k, u) \/ (k = i /\ u = t)
         /\ \A k, r : Has(E, k, r) <=> Has(F, k, r) \/ (i = 0 /\ t.k = k /\ t.s = r)
         /\ NoGreeter(E[0]) <=> NoGreeter(F[0]) /\ (i = 0 => t.k \notin Greeters)
         /\ Calm(F[0]) /\ (i # 0 \/ t.k = "user" \/ NoGreeter(F[0])) => Calm(E[0])
<1> DEFINE q == F[i]
           c == Append(q, t)
<1>1. q \in Seq(Allowed(i)) /\ 0 \in Ios
  BY SortedAt, IosFinite
<1>2. E = [F EXCEPT ![i] = c]
  BY DEF Post, Call
<1>3. E[i] = c /\ \A k \in Ios : k # i => E[k] = F[k]
  BY <1>2, SortedAt
<1>4. /\ \A j \in DOMAIN q : j \in DOMAIN c /\ c[j] = q[j] /\ j < Len(q) + 1
      /\ Len(q) + 1 \in DOMAIN c /\ c[Len(q) + 1] = t
      /\ \A j \in DOMAIN c : j \in DOMAIN q \/ j = Len(q) + 1
  BY <1>1, AppendIs
<1>5. Len(q) + 1 \in Nat /\ \A j \in DOMAIN q : j \in Nat
  BY <1>1
<1> DEFINE n == Len(q) + 1
<1> HIDE DEF c, n
<1>6. \A k \in Ios : \A u : Lies(E, k, u) <=> Lies(F, k, u) \/ (k = i /\ u = t)
  BY <1>3, <1>4 DEF Lies, n
<1>7. \A k, r : Has(E, k, r) <=> Has(F, k, r) \/ (i = 0 /\ t.k = k /\ t.s = r)
  BY <1>1, <1>3, <1>4 DEF Has, n
<1>8. NoGreeter(E[0]) <=> NoGreeter(F[0]) /\ (i = 0 => t.k \notin Greeters)
  <2>1. CASE i = 0
    BY <2>1, <1>3, <1>4 DEF NoGreeter, n
  <2>2. CASE i # 0
    BY <2>2, <1>1, <1>3
  <2>3. QED
    BY <2>1, <2>2
<1>9. Calm(F[0]) /\ (i # 0 \/ t.k = "user" \/ NoGreeter(F[0])) => Calm(E[0])
  <2>1. CASE i = 0
    <3>1. SUFFICES ASSUME Calm(q), t.k = "user" \/ NoGreeter(q), NEW j \in DOMAIN c, NEW m \in DOMAIN c,
                          j < m, c[j].k \in Greeters
                   PROVE  c[m].k = "user"
      BY <2>1, <1>3 DEF Calm
    <3>2. j \in DOMAIN q
      <4>1. j = n => m \in DOMAIN q \/ m = n
        BY <1>4 DEF n
      <4>2. j = n => FALSE
        BY <4>1, <3>1, <1>4, <1>5 DEF n
      <4>3. QED
        BY <4>2, <1>4 DEF n
    <3>3. CASE m \in DOMAIN q
      BY <3>1, <3>2, <3>3, <1>4 DEF Calm
    <3>4. CASE m = n
      BY <3>1, <3>2, <3>4, <1>4 DEF NoGreeter, n
    <3>5. QED
      BY <3>3, <3>4, <1>4 DEF n
  <2>2. CASE i # 0
    BY <2>2, <1>1, <1>3
  <2>3. QED
    BY <2>1, <2>2
<1>10. QED
  BY <1>6, <1>7, <1>8, <1>9

LEMMA LiesBelow ==
  ASSUME Sorted(stack), NEW i \in Ios, ~Idle(i)
  PROVE  /\ \A k \in Ios : \A u : Lies(stack, k, u) <=> Lies(Below(i), k, u) \/ (k = i /\ u = Top(i))
         /\ \A k, r : Has(stack, k, r) <=> Has(Below(i), k, r) \/ (i = 0 /\ Top(i).k = k /\ Top(i).s = r)
         /\ NoGreeter(stack[0]) => NoGreeter(Below(i)[0])
         /\ Calm(stack[0]) => Calm(Below(i)[0])
         /\ Calm(stack[0]) /\ i = 0 /\ Top(i).k # "user" => NoGreeter(Below(i)[0])
<1> DEFINE q == stack[i]
           c == Front(q)
<1>1. q \in Seq(Allowed(i)) /\ 0 \in Ios /\ q # <<>>
  BY SortedAt, IosFinite DEF Idle
<1>2. Below(i) = [stack EXCEPT ![i] = c] /\ Top(i) = Last(q)
  BY DEF Below, Top
<1>3. Below(i)[i] = c /\ \A k \in Ios : k # i => Below(i)[k] = stack[k]
  BY <1>2, SortedAt
<1>4. /\ \A j \in DOMAIN c : j \in DOMAIN q /\ c[j] = q[j] /\ j < Len(q)
      /\ Len(q) \in DOMAIN q /\ Last(q) = q[Len(q)]
      /\ \A j \in DOMAIN q : j \in DOMAIN c \/ j = Len(q)
      /\ \A j \in DOMAIN q : j \in Nat
  BY <1>1, FrontIs
<1> DEFINE n == Len(q)
           t == Top(i)
           B == Below(i)
<1>5. /\ \A j \in DOMAIN c : j \in DOMAIN q /\ c[j] = q[j] /\ j < n
      /\ n \in DOMAIN q /\ t = q[n]
      /\ \A j \in DOMAIN q : j \in DOMAIN c \/ j = n
  BY <1>2, <1>4
<1>6. B[i] = c /\ \A k \in Ios : k # i => B[k] = stack[k]
  BY <1>3
<1> HIDE DEF c, n, t, B
<1>7. \A k \in Ios : \A u : Lies(stack, k, u) <=> Lies(B, k, u) \/ (k = i /\ u = t)
  BY <1>5, <1>6 DEF Lies
<1>8. \A k, r : Has(stack, k, r) <=> Has(B, k, r) \/ (i = 0 /\ t.k = k /\ t.s = r)
  BY <1>1, <1>5, <1>6 DEF Has
<1>9. NoGreeter(stack[0]) => NoGreeter(B[0])
  BY <1>1, <1>5, <1>6 DEF NoGreeter
<1>10. Calm(stack[0]) => Calm(B[0])
  BY <1>1, <1>5, <1>6 DEF Calm
<1>11. Calm(stack[0]) /\ i = 0 /\ t.k # "user" => NoGreeter(B[0])
  BY <1>1, <1>5, <1>6 DEF Calm, NoGreeter
<1>12. QED
  BY <1>7, <1>8, <1>9, <1>10, <1>11 DEF B, t

LEMMA LiesTail ==
  ASSUME NEW F, Sorted(F), NEW i \in Ios, F[i] # <<>>
  PROVE  /\ \A k \in Ios : \A u : Lies([F EXCEPT ![i] = Tail(F[i])], k, u) => Lies(F, k, u)
         /\ Lies(F, i, Head(F[i]))
<1> DEFINE q == F[i]
           E == [F EXCEPT ![i] = Tail(q)]
<1>1. q \in Seq(Allowed(i)) /\ q # <<>>
  BY SortedAt
<1>2. E[i] = Tail(q) /\ \A k \in Ios : k # i => E[k] = F[k]
  BY SortedAt
<1>3. /\ \A j \in DOMAIN Tail(q) : j + 1 \in DOMAIN q /\ Tail(q)[j] = q[j + 1]
      /\ 1 \in DOMAIN q /\ Head(q) = q[1]
  BY <1>1, TailIs
<1> HIDE DEF E
<1>4. \A k \in Ios : \A u : Lies(E, k, u) => Lies(F, k, u)
  <2>1. SUFFICES ASSUME NEW k \in Ios, NEW u, NEW j \in DOMAIN E[k], E[k][j] = u
                 PROVE  \E m \in DOMAIN F[k] : F[k][m] = u
    BY DEF Lies
  <2>2. CASE k = i
    <3>1. j + 1 \in DOMAIN F[k] /\ F[k][j + 1] = u
      BY <2>1, <2>2, <1>2, <1>3
    <3>2. QED
      BY <3>1
  <2>3. CASE k # i
    BY <2>1, <2>3, <1>2
  <2>4. QED
    BY <2>2, <2>3
<1>5. Lies(F, i, Head(F[i]))
  BY <1>3 DEF Lies
<1>6. QED
  BY <1>4, <1>5 DEF E

\* What AddAll adds: to each strand the tasks of the sessions that live there.
LEMMA LiesAll ==
  ASSUME NEW F, Sorted(F), NEW D \in SUBSET Sessions, NEW T \in [D -> HomeTasks]
  PROVE  /\ \A k \in Ios : \A u : Lies(AddAll(F, T), k, u) =>
              Lies(F, k, u) \/ \E d \in D : Home[d] = k /\ u = T[d]
         /\ (\A d \in D : T[d].k \notin Greeters) =>
              /\ \A k, r : k \in Greeters => (Has(AddAll(F, T), k, r) <=> Has(F, k, r))
              /\ NoGreeter(F[0]) => NoGreeter(AddAll(F, T)[0])
<1> DEFINE E == AddAll(F, T)
<1>1. ASSUME NEW k \in Ios
      PROVE  \E c \in Seq(HomeTasks) : /\ E[k] = F[k] \o c
                                       /\ \A j \in DOMAIN c : \E d \in D : Home[d] = k /\ c[j] = T[d]
  <2>1. AddedAt(AddAll(F, T)[k], F[k], T, D, k, HomeTasks)
    BY <1>1, AddAllAt
  <2>2. QED
    BY <2>1 DEF AddedAt
<1> HIDE DEF E
<1>2. ASSUME NEW k \in Ios
      PROVE  /\ \A j \in DOMAIN F[k] : j \in DOMAIN E[k] /\ E[k][j] = F[k][j]
             /\ \A j \in DOMAIN E[k] : \/ j \in DOMAIN F[k] /\ E[k][j] = F[k][j]
                                       \/ \E d \in D : Home[d] = k /\ E[k][j] = T[d]
  <2>1. PICK c \in Seq(HomeTasks) : /\ E[k] = F[k] \o c
                                    /\ \A j \in DOMAIN c : \E d \in D : Home[d] = k /\ c[j] = T[d]
    BY <1>1, <1>2
  <2>2. F[k] \in Seq(Allowed(k))
    BY SortedAt
  <2>3. F[k] \in Seq(Tasks) /\ c \in Seq(Tasks)
    BY <2>2, TaskTypes DEF HomeTasks, AllTasks
  <2>4. /\ \A j \in DOMAIN F[k] : j \in DOMAIN (F[k] \o c) /\ (F[k] \o c)[j] = F[k][j]
        /\ \A j \in DOMAIN (F[k] \o c) : \/ j \in DOMAIN F[k] /\ (F[k] \o c)[j] = F[k][j]
                                         \/ j - Len(F[k]) \in DOMAIN c /\ (F[k] \o c)[j] = c[j - Len(F[k])]
    BY <2>3
  <2>5. QED
    BY <2>1, <2>4
<1>3. \A k \in Ios : \A u : Lies(E, k, u) => Lies(F, k, u) \/ \E d \in D : Home[d] = k /\ u = T[d]
  BY <1>2 DEF Lies
<1>4. ASSUME \A d \in D : T[d].k \notin Greeters
      PROVE  /\ \A k, r : k \in Greeters => (Has(E, k, r) <=> Has(F, k, r))
             /\ NoGreeter(F[0]) => NoGreeter(E[0])
  <2>1. 0 \in Ios
    BY IosFinite
  <2>2. /\ \A j \in DOMAIN F[0] : j \in DOMAIN E[0] /\ E[0][j] = F[0][j]
        /\ \A j \in DOMAIN E[0] : \/ j \in DOMAIN F[0] /\ E[0][j] = F[0][j]
                                  \/ E[0][j].k \notin Greeters
    BY <2>1, <1>2, <1>4
  <2>3. \A k, r : k \in Greeters => (Has(E, k, r) <=> Has(F, k, r))
    BY <2>2 DEF Has
  <2>4. NoGreeter(F[0]) => NoGreeter(E[0])
    BY <2>2 DEF NoGreeter
  <2>5. QED
    BY <2>3, <2>4
<1>5. QED
  BY <1>3, <1>4 DEF E

LEMMA CalmWithout == ASSUME NEW q, NoGreeter(q) PROVE Calm(q)
BY DEF NoGreeter, Calm

\* Nobody is greeted on a strand without such a task.
LEMMA Ungreeted ==
  ASSUME NEW S
  PROVE  NoGreeter(S[0]) <=> \A k \in Greeters : \A r : ~Has(S, k, r)
BY DEF NoGreeter, Has

\* Fewer are greeted, more is open, and nobody else is told of a connection.
LEMMA ProperKept ==
  ASSUME NEW i, NEW t, NEW S, NEW tl, NEW so, Proper(i, t, S, tl, so),
         NEW S2, Greets(S2, t.s) => Greets(S, t.s),
         NEW tl2, t.k \in {"erase2", "close"} /\ tl2[t.s] = "connected" => tl[t.s] = "connected",
         NEW so2, t.k = "accept" /\ t.s \in so => t.s \in so2
  PROVE  Proper(i, t, S2, tl2, so2)
BY DEF Proper

LEMMA PlacedBelow ==
  ASSUME Sorted(posted), Sorted(stack), NEW i \in Ios, ~Idle(i), NEW tl, NEW so, Placed(posted, stack, tl, so)
  PROVE  /\ Placed(posted, Below(i), tl, so) /\ Proper(i, Top(i), stack, tl, so)
         /\ \A r : Greets(Below(i), r) => Greets(stack, r)
<1>1. /\ \A k \in Ios : \A u : Lies(stack, k, u) <=> Lies(Below(i), k, u) \/ (k = i /\ u = Top(i))
      /\ \A k, r : Has(stack, k, r) <=> Has(Below(i), k, r) \/ (i = 0 /\ Top(i).k = k /\ Top(i).s = r)
      /\ Calm(stack[0]) => Calm(Below(i)[0])
  BY LiesBelow
<1>2. Top(i) \in Tasks
  BY SortedBelow
<1>3. \A r : Greets(Below(i), r) => Greets(stack, r)
  BY <1>1 DEF Greets
<1>4. ASSUME NEW k \in Ios, NEW t \in Tasks, Lies(posted, k, t) \/ Lies(Below(i), k, t)
      PROVE  Proper(k, t, Below(i), tl, so)
  <2>1. Proper(k, t, stack, tl, so)
    BY <1>1, <1>4 DEF Placed
  <2>2. QED
    BY <2>1, <1>3 DEF Proper
<1>5. QED
  BY <1>1, <1>2, <1>3, <1>4 DEF Placed

LEMMA PlacedTail ==
  ASSUME NEW P, Sorted(P), NEW S, NEW i \in Ios, P[i] # <<>>, NEW tl, NEW so, Placed(P, S, tl, so)
  PROVE  /\ Placed([P EXCEPT ![i] = Tail(P[i])], S, tl, so)
         /\ Proper(i, Head(P[i]), S, tl, so) /\ Head(P[i]).k \notin Greeters
<1>1. /\ \A k \in Ios : \A u : Lies([P EXCEPT ![i] = Tail(P[i])], k, u) => Lies(P, k, u)
      /\ Lies(P, i, Head(P[i]))
  BY LiesTail
<1>2. Head(P[i]) \in Tasks
  BY SortedTail
<1>3. QED
  BY <1>1, <1>2 DEF Placed

\* A task is posted.
LEMMA PlacedPost ==
  ASSUME NEW P, Sorted(P), NEW S, NEW i \in Ios, NEW t, t \in Allowed(i), NEW tl, NEW so, Placed(P, S, tl, so),
         t.k \notin Greeters, Proper(i, t, S, tl, so)
  PROVE  Placed(Post(P, i, t), S, tl, so)
<1>1. \A k \in Ios : \A u : Lies(Post(P, i, t), k, u) <=> Lies(P, k, u) \/ (k = i /\ u = t)
  BY LiesAdded
<1>2. QED
  BY <1>1 DEF Placed

\* A task that greets nobody is called.
LEMMA PlacedCall ==
  ASSUME NEW P, NEW S, Sorted(S), NEW i \in Ios, NEW t, t \in Allowed(i), NEW tl, NEW so, Placed(P, S, tl, so),
         t.k \notin Greeters, Proper(i, t, S, tl, so), i # 0 \/ t.k = "user" \/ NoGreeter(S[0])
  PROVE  /\ Placed(P, Call(S, i, t), tl, so)
         /\ \A k \in Greeters : \A r : Has(Call(S, i, t), k, r) <=> Has(S, k, r)
         /\ \A r : Greets(Call(S, i, t), r) <=> Greets(S, r)
         /\ NoGreeter(S[0]) => NoGreeter(Call(S, i, t)[0])
<1> DEFINE S2 == Call(S, i, t)
<1>1. /\ \A k \in Ios : \A u : Lies(S2, k, u) <=> Lies(S, k, u) \/ (k = i /\ u = t)
      /\ \A k, r : Has(S2, k, r) <=> Has(S, k, r) \/ (i = 0 /\ t.k = k /\ t.s = r)
      /\ NoGreeter(S2[0]) <=> NoGreeter(S[0]) /\ (i = 0 => t.k \notin Greeters)
      /\ Calm(S[0]) /\ (i # 0 \/ t.k = "user" \/ NoGreeter(S[0])) => Calm(S2[0])
  BY LiesAdded
<1> HIDE DEF S2
<1>2. \A k \in Greeters : \A r : Has(S2, k, r) <=> Has(S, k, r)
  BY <1>1
<1>3. \A r : Greets(S2, r) <=> Greets(S, r)
  BY <1>2 DEF Greets
<1>4. Calm(S2[0])
  BY <1>1 DEF Placed
<1>5. ASSUME NEW k \in Ios, NEW u \in Tasks, Lies(P, k, u) \/ Lies(S2, k, u)
      PROVE  Proper(k, u, S2, tl, so)
  <2>1. Proper(k, u, S, tl, so)
    BY <1>1, <1>5 DEF Placed
  <2>2. QED
    BY <2>1, <1>3 DEF Proper
<1>6. Placed(P, S2, tl, so)
  BY <1>4, <1>5 DEF Placed
<1>7. QED
  BY <1>1, <1>2, <1>3, <1>6 DEF S2

\* The only task that greets is one of kind k of s.
Only(S, k, s) == \A c \in Greeters : \A r : Has(S, c, r) <=> c = k /\ r = s

\* A session that nobody else has a task of is greeted, and nobody but it.
LEMMA PlacedGreeter ==
  ASSUME NEW P, NEW S, Sorted(S), NEW k \in Greeters, NEW s \in Sessions, NEW tl, NEW so, Placed(P, S, tl, so),
         NoGreeter(S[0]),
         \A i \in Ios, t \in Tasks : (Lies(P, i, t) \/ Lies(S, i, t)) /\ t.s = s => t.k \notin Others
  PROVE  /\ Placed(P, Call(S, 0, Task(k, s, "-")), tl, so)
         /\ Sorted(Call(S, 0, Task(k, s, "-")))
         /\ Only(Call(S, 0, Task(k, s, "-")), k, s)
<1> DEFINE t == Task(k, s, "-")
           S2 == Call(S, 0, t)
<1>1. /\ 0 \in Ios /\ t \in Allowed(0) /\ t.k = k /\ t.s = s /\ t \in Tasks
  <2>1. "-" \in Args /\ k \in MapKinds
    BY KindSets DEF Args
  <2>2. Task(k, s, "-") \in Allowed(0)
    BY <2>1, TaskTypes
  <2>3. QED
    BY <2>2, IosFinite, TaskTypes, TaskParts
<1> HIDE DEF t
<1>2. /\ \A i \in Ios : \A u : Lies(S2, i, u) <=> Lies(S, i, u) \/ (i = 0 /\ u = t)
      /\ \A c, r : Has(S2, c, r) <=> Has(S, c, r) \/ (0 = 0 /\ t.k = c /\ t.s = r)
      /\ Calm(S[0]) /\ (0 # 0 \/ t.k = "user" \/ NoGreeter(S[0])) => Calm(S2[0])
  BY <1>1, LiesAdded
<1>3. Sorted(S2)
  BY <1>1, SortedPost
<1> HIDE DEF S2
<1>4. \A c \in Greeters : \A r : Has(S2, c, r) <=> c = k /\ r = s
  BY <1>1, <1>2, Ungreeted
<1>5. \A r : Greets(S2, r) <=> r = s
  BY <1>4 DEF Greets
<1>6. Calm(S2[0])
  BY <1>2 DEF Placed
<1>7. t.k \notin Others /\ \A c : c \in Others => c \notin Greeters
  BY <1>1, KindSets
<1>8. ASSUME NEW i \in Ios, NEW u \in Tasks, Lies(P, i, u) \/ Lies(S2, i, u)
      PROVE  Proper(i, u, S2, tl, so)
  <2>1. CASE u = t /\ i = 0
    <3>1. t.k \in Greeters /\ \A c \in Greeters : c \notin StrandKinds
                                                 /\ c \notin {"disc", "erase", "push", "erase2", "close", "accept"}
      BY <1>1, KindSets DEF Greeters
    <3>2. QED
      BY <2>1, <3>1, <1>7 DEF Proper
  <2>2. CASE ~(u = t /\ i = 0)
    <3>1. Lies(P, i, u) \/ Lies(S, i, u)
      BY <2>2, <1>2, <1>8
    <3>2. Proper(i, u, S, tl, so)
      BY <3>1 DEF Placed
    <3>3. u.k \in Others => ~Greets(S2, u.s)
      BY <3>1, <1>5
    <3>4. QED
      BY <3>2, <3>3 DEF Proper
  <2>3. QED
    BY <2>1, <2>2
<1>9. Placed(P, S2, tl, so)
  BY <1>6, <1>8 DEF Placed
<1>10. QED
  BY <1>3, <1>4, <1>9 DEF Only, S2, t

\* The same sessions are greeted on the stacks S2 as on S.
Same(S, S2) == \A c \in Greeters : \A r : Has(S2, c, r) <=> Has(S, c, r)

LEMMA SameGreets ==
  ASSUME NEW S, NEW S2, Same(S, S2)
  PROVE  /\ \A r : Greets(S2, r) <=> Greets(S, r)
         /\ NoGreeter(S[0]) <=> NoGreeter(S2[0])
BY Ungreeted DEF Same, Greets

LEMMA SameTwice ==
  ASSUME NEW S, NEW S2, NEW S3, Same(S, S2), Same(S2, S3)
  PROVE  Same(S, S3)
BY DEF Same

\* A step that greets nobody: whoever is greeted is left alone, and whoever was
\* told of a connection keeps what it needs.
LEMMA QuietStep ==
  ASSUME TellInv, held' = {}, Placed(posted', stack', told', sopen'), Same(stack, stack'),
         \A r \in Sessions : Greets(stack, r) =>
           /\ state' = state /\ sstate'[r] = sstate[r] /\ queue'[r] = queue[r] /\ sops'[r] = sops[r]
           /\ r \in sopen => r \in sopen',
         \A r \in Sessions : told'[r] = "connected" =>
           told[r] = "connected" /\ (r \in sopen => r \in sopen') /\ (r \in sessions => r \in sessions'),
         \A r \in Sessions : NeverStarting(queue'[r])
  PROVE  TellInv'
<1>1. \A r : Greets(stack', r) <=> Greets(stack, r)
  BY SameGreets
<1>2. ASSUME NEW r \in Sessions
      PROVE  /\ Secluded(r, state', stack', sstate'[r], queue'[r], sops'[r], sopen')
             /\ Noted(r, stack', told'[r], sopen', sessions')
  <2>1. /\ Secluded(r, state, stack, sstate[r], queue[r], sops[r], sopen)
        /\ Noted(r, stack, told[r], sopen, sessions)
    BY DEF TellInv
  <2>2. /\ Has(stack', "session2", r) <=> Has(stack, "session2", r)
        /\ Has(stack', "session3", r) <=> Has(stack, "session3", r)
        /\ Has(stack', "join", r) <=> Has(stack, "join", r)
    BY DEF Same, Greeters
  <2>3. Has(stack, "session2", r) \/ Has(stack, "session3", r) \/ Has(stack, "join", r) => Greets(stack, r)
    BY DEF Greets, Greeters
  <2>4. Secluded(r, state', stack', sstate'[r], queue'[r], sops'[r], sopen')
    <3>1. CASE Greets(stack, r)
      BY <3>1, <1>1, <2>1, <2>2 DEF Secluded
    <3>2. CASE ~Greets(stack, r)
      BY <3>2, <1>1, <2>2, <2>3 DEF Secluded
    <3>3. QED
      BY <3>1, <3>2
  <2>5. Noted(r, stack', told'[r], sopen', sessions')
    BY <2>1, <2>2 DEF Noted
  <2>6. QED
    BY <2>4, <2>5
<1>3. QED
  BY <1>2 DEF TellInv

\* A handler on top of strand i, of a kind that does not greet.
LEMMA TellTop ==
  ASSUME IInv, TellInv, NEW i \in Ios, NEW k, At(i, k)
  PROVE  /\ Sorted(posted) /\ Sorted(Below(i)) /\ Placed(posted, Below(i), told, sopen)
         /\ Top(i).k = k /\ Proper(i, Top(i), stack, told, sopen)
         /\ i # 0 \/ k = "user" \/ NoGreeter(Below(i)[0])
         /\ k \notin Greeters => Same(stack, Below(i))
         /\ k \in Others => ~Greets(stack, Top(i).s)
         /\ i = 0 /\ k \notin Greeters \cup {"user"} => \A r : ~Greets(stack, r)
<1>1. Sorted(posted) /\ Sorted(stack) /\ Sorted(Below(i)) /\ ~Idle(i) /\ Top(i).k = k
  BY TopIs DEF At
<1>2. Placed(posted, stack, told, sopen)
  BY DEF TellInv
<1>3. /\ Placed(posted, Below(i), told, sopen) /\ Proper(i, Top(i), stack, told, sopen)
  BY <1>1, <1>2, PlacedBelow
<1>4. /\ \A c, r : Has(stack, c, r) <=> Has(Below(i), c, r) \/ (i = 0 /\ Top(i).k = c /\ Top(i).s = r)
      /\ Calm(stack[0]) /\ i = 0 /\ Top(i).k # "user" => NoGreeter(Below(i)[0])
  BY <1>1, LiesBelow
<1>5. i # 0 \/ k = "user" \/ NoGreeter(Below(i)[0])
  BY <1>1, <1>2, <1>4 DEF Placed
<1>6. k \notin Greeters => Same(stack, Below(i))
  BY <1>1, <1>4 DEF Same
<1>7. k \in Others => ~Greets(stack, Top(i).s)
  BY <1>1, <1>3 DEF Proper
<1>8. ASSUME i = 0, k \notin Greeters \cup {"user"}
      PROVE  \A r : ~Greets(stack, r)
  <2>1. NoGreeter(Below(i)[0]) /\ Same(stack, Below(i))
    BY <1>5, <1>6, <1>8
  <2>2. NoGreeter(stack[0])
    BY <2>1, SameGreets
  <2>3. QED
    BY <2>2, Ungreeted DEF Greets
<1>9. QED
  BY <1>1, <1>3, <1>5, <1>6, <1>7, <1>8

\* Who is starting is greeted, and who is in the map is not.
LEMMA StartingGreets ==
  ASSUME IInv, TellInv, NEW s \in Sessions
  PROVE  /\ sstate[s] = "starting" => Greets(stack, s)
         /\ s \in sessions => ~Greets(stack, s)
         /\ Greets(stack, s) => s \notin sessions
<1>1. Sorted(posted) /\ Sorted(stack) /\ posted \in Strands /\ stack \in Strands /\ 0 \in Ios
  BY SortedAt, IosFinite DEF IInv, Typed
<1>2. /\ Greeted(Census(s, posted, stack), s, sstate[s], sessions, told[s])
      /\ Census(s, posted, stack)["begins"] \in Nat /\ Census(s, posted, stack)["connects"] \in Nat
      /\ Census(s, posted, stack)["joins"] \in Nat
  BY GreetedNow
<1>3. ASSUME sstate[s] = "starting"
      PROVE  Greets(stack, s)
  <2> DEFINE G == Class("begins", s)
  <2>1. Count(posted, stack, G) > 0
    BY <1>2, <1>3 DEF Greeted, Census, Classes
  <2>2. \A t \in G : t.k = "session2" /\ t.s = s
    BY DEF Class, KindsOf
  <2> HIDE DEF G
  <2>3. HowMany(posted, G) \in Nat /\ HowMany(stack, G) \in Nat
    BY <1>1, PlacesFinite
  <2>4. HowMany(posted, G) # 0 \/ HowMany(stack, G) # 0
    BY <2>1, <2>3 DEF Count
  <2>5. \/ \E i \in Ios : \E j \in DOMAIN posted[i] : posted[i][j] \in G
        \/ \E i \in Ios : \E j \in DOMAIN stack[i] : stack[i][j] \in G
    BY <1>1, <2>4, HowManyNone
  <2>6. "session2" \in Greeters /\ "session2" \in MapKinds
    BY DEF Greeters, MapKinds
  <2>7. ASSUME NEW i \in Ios, NEW j \in DOMAIN posted[i], posted[i][j] \in G
        PROVE  FALSE
    <3>1. posted[i][j] \in Tasks
      BY <1>1, StrandIsSeq
    <3>2. Lies(posted, i, posted[i][j])
      BY <2>7 DEF Lies
    <3>3. posted[i][j].k \notin Greeters
      BY <3>1, <3>2 DEF TellInv, Placed
    <3>4. QED
      BY <3>3, <2>2, <2>6, <2>7
  <2>8. PICK i \in Ios : \E j \in DOMAIN stack[i] : stack[i][j] \in G
    BY <2>5, <2>7
  <2>9. PICK j \in DOMAIN stack[i] : stack[i][j] \in G
    BY <2>8
  <2>10. stack[i][j] \in Allowed(i) /\ stack[i][j].k = "session2" /\ stack[i][j].s = s
    <3>1. stack[i] \in Seq(Allowed(i))
      BY <1>1, SortedAt
    <3>2. QED
      BY <3>1, <2>2, <2>9
  <2>11. i = 0
    BY <2>6, <2>10, AllowedIs
  <2>12. Has(stack, "session2", s)
    BY <2>9, <2>10, <2>11 DEF Has
  <2>13. QED
    BY <2>6, <2>12 DEF Greets
<1>4. ASSUME s \in sessions, Greets(stack, s)
      PROVE  FALSE
  <2>1. PICK k \in Greeters : Has(stack, k, s)
    BY <1>4 DEF Greets
  <2>2. PICK j \in DOMAIN stack[0] : stack[0][j].k = k /\ stack[0][j].s = s
    BY <2>1 DEF Has
  <2>3. PICK c \in {"begins", "connects", "joins"} : k \in KindsOf(c) /\ c \in Classes /\ c # "pushes"
    <3>1. /\ "session2" \in KindsOf("begins") /\ "session3" \in KindsOf("connects") /\ "join" \in KindsOf("joins")
          /\ "begins" \in Classes /\ "connects" \in Classes /\ "joins" \in Classes
      BY DEF KindsOf, Classes
    <3>2. QED
      BY <3>1 DEF Greeters
  <2>4. Bit(c, stack[0][j].s, stack[0][j]) = 1
    BY <2>2, <2>3 DEF Bit
  <2>5. Census(s, posted, stack)[c] > 0
    BY <1>1, <2>2, <2>3, <2>4, Counts
  <2>6. Census(s, posted, stack)["begins"] + Census(s, posted, stack)["connects"]
          + Census(s, posted, stack)["joins"] + 1 <= 1
    BY <1>2, <1>4 DEF Greeted
  <2>7. QED
    BY <1>2, <2>3, <2>5, <2>6
<1>5. QED
  BY <1>3, <1>4

\* A step of session s, which is not greeted.
LEMMA TouchStep ==
  ASSUME TellInv, UNCHANGED <<state, told, sopen, sessions, held>>, Placed(posted', stack', told, sopen),
         Same(stack, stack'), NEW s, ~Greets(stack, s),
         \A r \in Sessions : r # s => sstate'[r] = sstate[r] /\ queue'[r] = queue[r] /\ sops'[r] = sops[r],
         s \in Sessions => NeverStarting(queue'[s])
  PROVE  TellInv'
<1>1. held' = {} /\ \A r \in Sessions : NeverStarting(queue[r])
  BY DEF TellInv
<1>2. \A r \in Sessions : NeverStarting(queue'[r])
  BY <1>1
<1>3. Placed(posted', stack', told', sopen')
  OBVIOUS
<1>4. QED
  BY <1>1, <1>2, <1>3, QuietStep

LEMMA NeverMoves ==
  ASSUME NEW q \in Seq(Events), NeverStarting(q), NEW ev \in Events, ev # "starting"
  PROVE  NeverStarting(Append(q, ev)) /\ (q # <<>> => NeverStarting(Tail(q)) /\ Head(q) # "starting")
BY DEF NeverStarting

\* An event is pushed to session s, which is not greeted.
LEMMA TellPushed ==
  ASSUME IInv, TellInv, NEW P, Sorted(P), NEW S, Sorted(S), Placed(P, S, told, sopen), Same(stack, S),
         NEW s \in Sessions, NEW ev \in Events, ev # "starting", NEW here \in BOOLEAN,
         ~Greets(stack, s), here => Home[s] # 0 \/ NoGreeter(S[0]), PushEvent(s, ev, here, P, S)
  PROVE  /\ Placed(posted', stack', told, sopen) /\ Same(stack, stack')
         /\ \A r \in Sessions : r # s => queue'[r] = queue[r]
         /\ \A r \in Sessions : NeverStarting(queue'[r])
<1>1. queue \in [Sessions -> Seq(Events)] /\ Home[s] \in Ios /\ queue[s] \in Seq(Events)
  BY TypesNow, IosFinite
<1>2. ~Greets(S, s)
  BY SameGreets
<1>3. \A r \in Sessions : NeverStarting(queue[r])
  BY DEF TellInv
<1>4. CASE here
  <2> DEFINE t == Task("body", s, "-")
  <2>1. queue' = [queue EXCEPT ![s] = Append(queue[s], ev)]
    BY <1>4 DEF PushEvent
  <2>2. /\ \A r \in Sessions : r # s => queue'[r] = queue[r]
        /\ queue'[s] = Append(queue[s], ev)
    BY <1>1, <2>1
  <2>3. NeverStarting(queue'[s])
    BY <1>1, <1>3, <2>2, NeverMoves
  <2>4. posted' = P /\ (stack' = S \/ stack' = Call(S, Home[s], t))
    BY <1>4 DEF PushEvent
  <2>5. t \in Allowed(Home[s]) /\ t.k = "body" /\ t.s = s
    <3>1. "body" \in HomeKinds \ {"push"} /\ "-" \in Args
      BY DEF HomeKinds, Args
    <3>2. QED
      BY <3>1, TaskTypes, TaskParts
  <2> HIDE DEF t
  <2>6. t.k \notin Greeters /\ Proper(Home[s], t, S, told, sopen)
    BY <1>2, <2>5, KindSets DEF Proper
  <2>7. Home[s] # 0 \/ NoGreeter(S[0])
    BY <1>4
  <2>8. /\ Placed(P, Call(S, Home[s], t), told, sopen)
        /\ \A k \in Greeters : \A r : Has(Call(S, Home[s], t), k, r) <=> Has(S, k, r)
    BY <1>1, <2>5, <2>6, <2>7, PlacedCall
  <2>9. Placed(posted', stack', told, sopen) /\ Same(S, stack')
    <3>1. CASE stack' = S
      BY <2>4, <3>1 DEF Same
    <3>2. CASE stack' = Call(S, Home[s], t)
      BY <2>4, <2>8, <3>2 DEF Same
    <3>3. QED
      BY <2>4, <3>1, <3>2
  <2>10. Same(stack, stack')
    BY <2>9, SameTwice
  <2>11. QED
    BY <1>3, <2>2, <2>3, <2>9, <2>10
<1>5. CASE ~here
  <2> DEFINE t == PushTask(s, ev)
  <2>1. posted' = Post(P, Home[s], t) /\ stack' = S /\ queue' = queue
    BY <1>5 DEF PushEvent
  <2>2. t \in Allowed(Home[s]) /\ t.k = "push" /\ t.s = s /\ t.x = ev
    BY TaskTypes, TaskParts DEF PushTask
  <2> HIDE DEF t
  <2>3. t.k \notin Greeters /\ Proper(Home[s], t, S, told, sopen)
    BY <1>2, <2>2, KindSets DEF Proper
  <2>4. Placed(Post(P, Home[s], t), S, told, sopen)
    BY <1>1, <2>2, <2>3, PlacedPost
  <2>5. QED
    BY <1>3, <2>1, <2>4
<1>6. QED
  BY <1>4, <1>5

\* Session s, which is not greeted, is disconnected.
LEMMA TellDisconnects ==
  ASSUME IInv, TellInv, NEW P, Sorted(P), NEW S, Sorted(S), Placed(P, S, told, sopen), Same(stack, S),
         NEW s \in Sessions, NEW here \in BOOLEAN,
         ~Greets(stack, s), here => Home[s] # 0 \/ NoGreeter(S[0]), DoDisconnect(s, here, P, S)
  PROVE  /\ Placed(posted', stack', told, sopen) /\ Same(stack, stack')
         /\ \A r \in Sessions : r # s => queue'[r] = queue[r] /\ sstate'[r] = sstate[r]
         /\ \A r \in Sessions : NeverStarting(queue'[r])
<1>1. sstate[s] # "starting" /\ \A r \in Sessions : NeverStarting(queue[r])
  BY StartingGreets DEF TellInv
<1>2. CASE sstate[s] \in Disconnect
  <2>1. sstate' = [sstate EXCEPT ![s] = "stopping"] /\ PushEvent(s, sstate[s], here, P, S) /\ sstate[s] \in Events
    BY <1>2 DEF DoDisconnect, Events
  <2>2. \A r \in Sessions : r # s => sstate'[r] = sstate[r]
    BY <2>1, TypesNow
  <2>3. QED
    BY <1>1, <2>1, <2>2, TellPushed
<1>3. CASE sstate[s] \notin Disconnect
  BY <1>1, <1>3 DEF DoDisconnect
<1>4. QED
  BY <1>2, <1>3

\* A handler that only returns, or calls nothing that matters here.
LEMMA TellReturns ==
  ASSUME IInv, TellInv, NEW i \in Ios, CallbackReturns(i)
  PROVE  TellInv'
<1>1. /\ At(i, "user") /\ stack' = Below(i) /\ posted' = posted
      /\ UNCHANGED <<state, told, sopen, sessions, held>> /\ UNCHANGED <<sstate, queue, sops>>
  BY DEF CallbackReturns, serverVars, sessionVars, user
<1>2. Placed(posted', stack', told, sopen) /\ Same(stack, stack')
  BY <1>1, TellTop, KindSets
<1>3. held' = {} /\ \A r \in Sessions : NeverStarting(queue'[r])
  BY <1>1 DEF TellInv
<1>4. QED
  BY <1>1, <1>2, <1>3, QuietStep

LEMMA TellRunNext ==
  ASSUME IInv, TellInv, NEW i \in Ios, RunNext(i)
  PROVE  TellInv'
<1> DEFINE t == Head(posted[i])
           P == [posted EXCEPT ![i] = Tail(posted[i])]
<1>1. /\ Idle(i) /\ posted[i] # <<>> /\ stack' = Call(stack, i, t) /\ posted' = P
      /\ UNCHANGED <<state, told, sopen, sessions, held>> /\ UNCHANGED <<sstate, queue, sops>>
  BY DEF RunNext, serverVars, sessionVars, user
<1>2. Sorted(posted) /\ Sorted(stack) /\ Placed(posted, stack, told, sopen)
  BY TypesNow DEF TellInv
<1>3. Placed(P, stack, told, sopen) /\ Proper(i, t, stack, told, sopen) /\ t.k \notin Greeters
  BY <1>1, <1>2, PlacedTail
<1>4. t \in Allowed(i)
  BY <1>1, <1>2, SortedTail
<1>5. i # 0 \/ NoGreeter(stack[0])
  BY <1>1 DEF Idle, NoGreeter
<1> HIDE DEF t, P
<1>6. /\ Placed(P, Call(stack, i, t), told, sopen)
      /\ \A k \in Greeters : \A r : Has(Call(stack, i, t), k, r) <=> Has(stack, k, r)
  BY <1>2, <1>3, <1>4, <1>5, PlacedCall
<1>7. Placed(posted', stack', told, sopen) /\ Same(stack, stack')
  BY <1>1, <1>6 DEF Same
<1>8. held' = {} /\ \A r \in Sessions : NeverStarting(queue'[r])
  BY <1>1 DEF TellInv
<1>9. QED
  BY <1>1, <1>7, <1>8, QuietStep

\* What a handler of session s on strand i has below it.
LEMMA TellHandler ==
  ASSUME IInv, TellInv, NEW i \in Ios, NEW k, At(i, k), k \in Others
  PROVE  \E s \in Sessions, x \in Args :
           /\ Top(i) = Task(k, s, x) /\ Top(i).s = s /\ Top(i).x = x /\ s \in holders
           /\ k = "push" => x \in Events
           /\ k \in StrandKinds => Home[s] = i /\ (Home[s] # 0 \/ NoGreeter(Below(i)[0]))
           /\ ~Greets(stack, s) /\ Proper(i, Top(i), stack, told, sopen)
           /\ Placed(posted, Below(i), told, sopen) /\ Same(stack, Below(i))
           /\ Sorted(posted) /\ Sorted(Below(i)) /\ (i # 0 \/ NoGreeter(Below(i)[0]))
           /\ \A r \in Sessions : NeverStarting(queue[r])
<1>1. k \notin OwnKinds \cup {"user"} /\ k \in LiveKinds /\ k \notin Greeters /\ k # "user"
  BY KindSets, Kinds DEF Others, StrandKinds
<1>2. PICK s \in Sessions, x \in Args :
        Top(i) = Task(k, s, x) /\ Top(i).s = s /\ Top(i).x = x /\ s \in holders /\ (k = "push" => x \in Events)
  BY <1>1, HandlerOf
<1>3. /\ Proper(i, Top(i), stack, told, sopen) /\ Placed(posted, Below(i), told, sopen) /\ Same(stack, Below(i))
      /\ Top(i).k = k /\ ~Greets(stack, s) /\ (i # 0 \/ NoGreeter(Below(i)[0]))
      /\ Sorted(posted) /\ Sorted(Below(i))
  BY <1>1, <1>2, TellTop
<1>4. k \in StrandKinds => Home[s] = i
  BY <1>2, <1>3 DEF Proper
<1>5. \A r \in Sessions : NeverStarting(queue[r])
  BY DEF TellInv
<1>6. QED
  BY <1>2, <1>3, <1>4, <1>5

\* A task that greets nobody is called, or posted.
LEMMA TellCalled ==
  ASSUME NEW P, Sorted(P), NEW S, Sorted(S), Placed(P, S, told, sopen), NEW i \in Ios, NEW k, NEW s, NEW x,
         Task(k, s, x) \in Allowed(i), i # 0 \/ k = "user" \/ NoGreeter(S[0]), k \notin Greeters,
         Proper(i, Task(k, s, x), S, told, sopen)
  PROVE  /\ Placed(P, Call(S, i, Task(k, s, x)), told, sopen) /\ Same(S, Call(S, i, Task(k, s, x)))
         /\ Placed(Post(P, i, Task(k, s, x)), S, told, sopen)
         /\ Sorted(Call(S, i, Task(k, s, x))) /\ Sorted(Post(P, i, Task(k, s, x)))
         /\ NoGreeter(S[0]) => NoGreeter(Call(S, i, Task(k, s, x))[0])
<1> DEFINE t == Task(k, s, x)
<1>1. t.k = k /\ t \in Allowed(i) /\ Proper(i, t, S, told, sopen)
  BY TaskParts
<1> HIDE DEF t
<1>2. /\ Placed(P, Call(S, i, t), told, sopen)
      /\ \A c \in Greeters : \A r : Has(Call(S, i, t), c, r) <=> Has(S, c, r)
      /\ NoGreeter(S[0]) => NoGreeter(Call(S, i, t)[0])
  BY <1>1, PlacedCall
<1>3. Placed(Post(P, i, t), S, told, sopen) /\ Sorted(Call(S, i, t)) /\ Sorted(Post(P, i, t))
  BY <1>1, PlacedPost, SortedPost
<1>4. QED
  BY <1>2, <1>3 DEF Same, t

LEMMA TellRunPush ==
  ASSUME IInv, TellInv, NEW i \in Ios, RunPush(i)
  PROVE  TellInv'
<1>1. At(i, "push") /\ "push" \in Others /\ "push" \in StrandKinds
  BY KindSets DEF RunPush
<1>2. PushEvent(Top(i).s, Top(i).x, TRUE, posted, Below(i)) /\ UNCHANGED <<state, told, sopen, sessions, held>>
      /\ UNCHANGED <<sstate, sops>>
  BY DEF RunPush, serverVars, user
<1>3. PICK s \in Sessions, x \in Args :
           /\ Top(i) = Task("push", s, x) /\ Top(i).s = s /\ Top(i).x = x /\ x \in Events
           /\ Home[s] # 0 \/ NoGreeter(Below(i)[0])
           /\ ~Greets(stack, s) /\ Proper(i, Top(i), stack, told, sopen)
           /\ Placed(posted, Below(i), told, sopen) /\ Same(stack, Below(i))
           /\ Sorted(posted) /\ Sorted(Below(i))
  BY <1>1, TellHandler
<1>4. x # "starting"
  BY <1>3, TaskParts DEF Proper
<1>5. PushEvent(s, x, TRUE, posted, Below(i))
  BY <1>2, <1>3
<1>6. /\ Placed(posted', stack', told, sopen) /\ Same(stack, stack')
      /\ \A r \in Sessions : r # s => queue'[r] = queue[r]
      /\ \A r \in Sessions : NeverStarting(queue'[r])
  BY <1>3, <1>4, <1>5, TellPushed
<1>7. QED
  BY <1>2, <1>3, <1>6, TouchStep

\* A handler that ends with a new set of operations, or with none.
LEMMA TellOperates ==
  ASSUME IInv, TellInv, NEW i \in Ios, NEW k, At(i, k), k \in Others, stack' = Below(i), posted' = posted,
         UNCHANGED <<state, told, sopen, sessions, held, sstate, queue>>,
         \A r \in Sessions : r # Top(i).s => sops'[r] = sops[r]
  PROVE  TellInv'
<1>1. PICK s \in Sessions, x \in Args :
           /\ Top(i).s = s /\ ~Greets(stack, s)
           /\ Placed(posted, Below(i), told, sopen) /\ Same(stack, Below(i))
           /\ \A r \in Sessions : NeverStarting(queue[r])
  BY TellHandler
<1>2. QED
  BY <1>1, TouchStep

LEMMA TellStartRecv ==
  ASSUME IInv, TellInv, NEW i \in Ios, StartRecv(i) \/ HandleRecv2(i)
  PROVE  TellInv'
<1>1. PICK k \in {"recv1", "recv2"} : At(i, k)
  BY DEF StartRecv, HandleRecv2
<1>2. k \in Others
  BY KindSets
<1>3. /\ stack' = Below(i) /\ posted' = posted
      /\ UNCHANGED <<state, told, sopen, sessions, held, sstate, queue>>
      /\ \E ops : sops' = [sops EXCEPT ![Top(i).s] = ops]
  BY DEF StartRecv, HandleRecv2, serverVars, user
<1>4. \A r \in Sessions : r # Top(i).s => sops'[r] = sops[r]
  BY <1>3, TypesNow
<1>5. QED
  BY <1>1, <1>2, <1>3, <1>4, TellOperates

LEMMA TellHandleRecv ==
  ASSUME IInv, TellInv, NEW i \in Ios, HandleRecv(i)
  PROVE  TellInv'
<1>1. At(i, "recv") /\ "recv" \in Others /\ "recv" \in StrandKinds
  BY KindSets DEF HandleRecv
<1>2. UNCHANGED <<state, told, sopen, sessions, held, sops>>
  BY DEF HandleRecv, serverVars, user
<1>3. PICK s \in Sessions, x \in Args :
           /\ Top(i) = Task("recv", s, x) /\ Top(i).s = s /\ Top(i).x = x
           /\ Home[s] = i /\ (Home[s] # 0 \/ NoGreeter(Below(i)[0]))
           /\ ~Greets(stack, s)
           /\ Placed(posted, Below(i), told, sopen) /\ Same(stack, Below(i))
           /\ Sorted(posted) /\ Sorted(Below(i)) /\ (i # 0 \/ NoGreeter(Below(i)[0]))
           /\ \A r \in Sessions : NeverStarting(queue[r])
  BY <1>1, TellHandler
<1>4. CASE x = "ok"
  <2> DEFINE S == Call(Below(i), i, Task("recv2", s, "-"))
  <2>1. /\ stack' = Call(S, i, Task("user", s, "-")) /\ UNCHANGED <<sstate, queue, posted>>
    BY <1>3, <1>4 DEF HandleRecv, User
  <2>2. /\ Task("recv2", s, "-") \in Allowed(i) /\ Task("user", s, "-") \in Allowed(i)
        /\ "recv2" \notin Greeters /\ "user" \notin Greeters
    <3>1. /\ "recv2" \in HomeKinds \ {"push"} /\ "user" \in HomeKinds \ {"push"} /\ "-" \in Args
      BY DEF HomeKinds, Args
    <3>2. QED
      BY <1>3, <3>1, TaskTypes, KindSets
  <2>3. ~Greets(Below(i), s)
    BY <1>3, SameGreets
  <2>4. Proper(i, Task("recv2", s, "-"), Below(i), told, sopen)
    BY <1>3, <2>3, TaskParts, KindSets DEF Proper
  <2>5. /\ Placed(posted, S, told, sopen) /\ Same(Below(i), S) /\ Sorted(S)
    BY <1>3, <2>2, <2>4, TellCalled
  <2>6. Proper(i, Task("user", s, "-"), S, told, sopen)
    BY TaskParts, KindSets DEF Proper
  <2> HIDE DEF S
  <2>7. Placed(posted, stack', told, sopen) /\ Same(S, stack')
    BY <1>3, <2>1, <2>2, <2>5, <2>6, TellCalled
  <2>8. Same(stack, stack')
    <3>1. Same(stack, S)
      BY <1>3, <2>5, SameTwice
    <3>2. QED
      BY <3>1, <2>7, SameTwice
  <2>9. Placed(posted', stack', told, sopen)
    BY <2>1, <2>7
  <2>10. /\ \A r \in Sessions : r # s => sstate'[r] = sstate[r] /\ queue'[r] = queue[r] /\ sops'[r] = sops[r]
         /\ NeverStarting(queue'[s])
    BY <1>2, <1>3, <2>1
  <2>11. QED
    BY <1>2, <1>3, <2>8, <2>9, <2>10, TouchStep
<1>5. CASE x # "ok"
  <2>1. DoDisconnect(s, TRUE, posted, Below(i))
    BY <1>3, <1>5 DEF HandleRecv
  <2>2. /\ Placed(posted', stack', told, sopen) /\ Same(stack, stack')
        /\ \A r \in Sessions : r # s => queue'[r] = queue[r] /\ sstate'[r] = sstate[r]
        /\ \A r \in Sessions : NeverStarting(queue'[r])
    BY <1>3, <2>1, TellDisconnects
  <2>3. QED
    BY <1>2, <1>3, <2>2, TouchStep
<1>6. QED
  BY <1>4, <1>5

LEMMA TellSilence ==
  ASSUME IInv, TellInv, NEW i \in Ios, HandleSilence(i)
  PROVE  TellInv'
<1>1. At(i, "silence") /\ "silence" \in Others /\ "silence" \in StrandKinds
  BY KindSets DEF HandleSilence
<1>2. UNCHANGED <<state, told, sopen, sessions, held>>
  BY DEF HandleSilence, serverVars, user
<1>3. PICK s \in Sessions, x \in Args :
           /\ Top(i) = Task("silence", s, x) /\ Top(i).s = s /\ Top(i).x = x
           /\ Home[s] # 0 \/ NoGreeter(Below(i)[0])
           /\ ~Greets(stack, s)
           /\ Placed(posted, Below(i), told, sopen) /\ Same(stack, Below(i))
           /\ Sorted(posted) /\ Sorted(Below(i))
           /\ \A r \in Sessions : NeverStarting(queue[r])
  BY <1>1, TellHandler
<1>4. CASE UNCHANGED <<sstate, queue, posted>> /\ stack' = Below(i) /\ \E ops : sops' = [sops EXCEPT ![s] = ops]
  <2>1. \A r \in Sessions : r # s => sops'[r] = sops[r]
    BY <1>4, TypesNow
  <2>2. QED
    BY <1>1, <1>2, <1>3, <1>4, <2>1, TellOperates
<1>5. CASE DoDisconnect(s, TRUE, posted, Below(i)) /\ UNCHANGED sops
  <2>1. /\ Placed(posted', stack', told, sopen) /\ Same(stack, stack')
        /\ \A r \in Sessions : r # s => queue'[r] = queue[r] /\ sstate'[r] = sstate[r]
        /\ \A r \in Sessions : NeverStarting(queue'[r])
    BY <1>3, <1>5, TellDisconnects
  <2>2. QED
    BY <1>2, <1>3, <1>5, <2>1, TouchStep
<1>6. CASE UNCHANGED <<sstate, queue, posted, sops>> /\ stack' = Below(i)
  BY <1>1, <1>2, <1>6, TellOperates
<1>7. QED
  BY <1>3, <1>4, <1>5, <1>6 DEF HandleSilence

\* The guard of the front event of s is destroyed, over the stacks S.
LEMMA TellReleased ==
  ASSUME IInv, NEW P, NEW S, Sorted(S), NEW tl, NEW so, Placed(P, S, tl, so), NEW s \in Sessions,
         NEW q \in Seq(Events), q # <<>>,
         ~Greets(S, s), Home[s] # 0 \/ NoGreeter(S[0]), NeverStarting(q), Release(s, q, S),
         \A r \in Sessions : NeverStarting(queue[r])
  PROVE  /\ Placed(P, stack', tl, so) /\ Same(S, stack')
         /\ \A r \in Sessions : r # s => queue'[r] = queue[r]
         /\ \A r \in Sessions : NeverStarting(queue'[r])
<1> DEFINE t == Task("body", s, "-")
<1>1. Home[s] \in Ios /\ t \in Allowed(Home[s]) /\ t.k = "body" /\ t.s = s
  <2>1. "body" \in HomeKinds \ {"push"} /\ "-" \in Args
    BY DEF HomeKinds, Args
  <2>2. QED
    BY <2>1, TaskTypes, TaskParts, IosFinite
<1>2. queue' = [queue EXCEPT ![s] = Tail(q)] /\ (stack' = S \/ stack' = Call(S, Home[s], t))
  BY DEF Release
<1>3. queue'[s] = Tail(q) /\ \A r \in Sessions : r # s => queue'[r] = queue[r]
  BY <1>2, TypesNow
<1>4. NeverStarting(Tail(q))
  BY DEF NeverStarting
<1> HIDE DEF t
<1>5. t.k \notin Greeters /\ Proper(Home[s], t, S, tl, so)
  BY <1>1, KindSets DEF Proper
<1>6. /\ Placed(P, Call(S, Home[s], t), tl, so)
      /\ \A k \in Greeters : \A r : Has(Call(S, Home[s], t), k, r) <=> Has(S, k, r)
  BY <1>1, <1>5, PlacedCall
<1>7. Placed(P, stack', tl, so) /\ Same(S, stack')
  <2>1. CASE stack' = S
    BY <2>1 DEF Same
  <2>2. CASE stack' = Call(S, Home[s], t)
    BY <1>6, <2>2 DEF Same
  <2>3. QED
    BY <1>2, <2>1, <2>2
<1>8. QED
  BY <1>3, <1>4, <1>7

LEMMA TellHandleSend ==
  ASSUME IInv, TellInv, NEW i \in Ios, HandleSend(i)
  PROVE  TellInv'
<1>1. At(i, "write") /\ "write" \in Others /\ "write" \in StrandKinds
  BY KindSets DEF HandleSend
<1>2. PICK s \in Sessions, x \in Args :
           /\ Top(i) = Task("write", s, x) /\ Top(i).s = s /\ Top(i).x = x
           /\ Home[s] # 0 \/ NoGreeter(Below(i)[0])
           /\ ~Greets(stack, s)
           /\ Placed(posted, Below(i), told, sopen) /\ Same(stack, Below(i))
           /\ Sorted(posted) /\ Sorted(Below(i))
           /\ \A r \in Sessions : NeverStarting(queue[r])
  BY <1>1, TellHandler
<1> DEFINE ends == x # "ok" /\ sstate[s] \in Disconnect
           q == IF ends THEN Append(queue[s], sstate[s]) ELSE queue[s]
<1>3. /\ sstate' = IF ends THEN [sstate EXCEPT ![s] = "stopping"] ELSE sstate
      /\ Release(s, q, Below(i)) /\ posted' = posted
      /\ UNCHANGED <<state, told, sopen, sessions, held, sops>>
  BY <1>2 DEF HandleSend, serverVars, user
<1>4. \A r \in Sessions : r # s => sstate'[r] = sstate[r]
  BY <1>3, TypesNow
<1>5. queue[s] \in Seq(Events) /\ queue[s] # <<>>
  <2>1. OneGuard(Census(s, posted, stack), queue[s], sops[s]) /\ Census(s, posted, stack) \in Censuses
    BY CensusNow DEF IInv, Fine, SessionOK
  <2>2. Census(s, posted, stack)["writes"] > 0
    <3>1. /\ \A c \in Classes : Census(s, posted, Below(i))[c] = Census(s, posted, stack)[c]
               - (IF "write" \in KindsOf(c) /\ (c = "pushes" => x \in Disconnect) THEN 1 ELSE 0)
      BY <1>1, <1>2, Popped
    <3>2. "writes" \in Classes /\ "write" \in KindsOf("writes")
      BY DEF Classes, KindsOf
    <3>3. Census(s, posted, Below(i)) \in Censuses
      BY <1>1, CensusTop
    <3>4. Census(s, posted, Below(i))["writes"] \in Nat /\ Census(s, posted, stack)["writes"] \in Nat
      BY <2>1, <3>3, CensusNat
    <3>5. QED
      BY <3>1, <3>2, <3>4
  <2>3. queue[s] # <<>>
    BY <2>1, <2>2, CensusNat DEF OneGuard
  <2>4. QED
    BY <2>3, TypesNow
<1>6. q \in Seq(Events) /\ q # <<>> /\ NeverStarting(q)
  <2>1. CASE ends
    <3>1. sstate[s] # "starting" /\ sstate[s] \in Events
      BY <1>2, <2>1, StartingGreets DEF Events
    <3>2. QED
      BY <1>2, <1>5, <2>1, <3>1, NeverMoves
  <2>2. CASE ~ends
    BY <1>2, <1>5, <2>2
  <2>3. QED
    BY <2>1, <2>2
<1> HIDE DEF q, ends
<1>7. ~Greets(Below(i), s)
  BY <1>2, SameGreets
<1>8. /\ Placed(posted, stack', told, sopen) /\ Same(Below(i), stack')
      /\ \A r \in Sessions : r # s => queue'[r] = queue[r]
      /\ \A r \in Sessions : NeverStarting(queue'[r])
  <2> DEFINE B == Below(i)
  <2>1. /\ Sorted(B) /\ Placed(posted, B, told, sopen) /\ ~Greets(B, s) /\ (Home[s] # 0 \/ NoGreeter(B[0]))
        /\ Release(s, q, B) /\ \A r \in Sessions : NeverStarting(queue[r])
    BY <1>2, <1>3, <1>7
  <2> HIDE DEF B
  <2>2. /\ Placed(posted, stack', told, sopen) /\ Same(B, stack')
        /\ \A r \in Sessions : r # s => queue'[r] = queue[r]
        /\ \A r \in Sessions : NeverStarting(queue'[r])
    BY <1>6, <2>1, TellReleased
  <2>3. QED
    BY <2>2 DEF B
<1>9. Same(stack, stack')
  BY <1>2, <1>8, SameTwice
<1>10. QED
  BY <1>2, <1>3, <1>4, <1>8, <1>9, TouchStep

\* The body of the front event.
LEMMA TellEventBody ==
  ASSUME IInv, TellInv, NEW i \in Ios, EventBody(i)
  PROVE  TellInv'
<1>1. At(i, "body") /\ "body" \in Others /\ "body" \in StrandKinds
  BY KindSets DEF EventBody
<1>2. PICK s \in Sessions, x \in Args :
           /\ Top(i) = Task("body", s, x) /\ Top(i).s = s
           /\ Home[s] = i /\ ~Greets(stack, s)
           /\ Placed(posted, Below(i), told, sopen) /\ Same(stack, Below(i))
           /\ Sorted(posted) /\ Sorted(Below(i))
           /\ \A r \in Sessions : NeverStarting(queue[r])
  BY <1>1, TellHandler
<1> DEFINE ev == Head(queue[s])
           k == IF ev = "write" THEN "write" ELSE "disc"
           x2 == IF ev = "write" THEN "err" ELSE ev
<1>3. stack' = Below(i) /\ UNCHANGED <<state, told, sopen, sessions, held, sstate, queue>>
  BY DEF EventBody, serverVars, user
<1>4. \/ /\ \E ops : sops' = [sops EXCEPT ![s] = ops]
         /\ posted' = posted
      \/ posted' = Post(posted, i, Task(k, s, x2)) /\ sops' = sops
  BY <1>2 DEF EventBody
<1>5. CASE posted' = posted /\ \E ops : sops' = [sops EXCEPT ![s] = ops]
  <2>1. \A r \in Sessions : r # s => sops'[r] = sops[r]
    BY <1>5, TypesNow
  <2>2. QED
    BY <1>1, <1>2, <1>3, <1>5, <2>1, TellOperates
<1>6. CASE posted' = Post(posted, i, Task(k, s, x2)) /\ sops' = sops
  <2>1. queue[s] \in Seq(Events) /\ queue[s] # <<>>
    <3>1. OneGuard(Census(s, posted, stack), queue[s], sops[s]) /\ Census(s, posted, stack) \in Censuses
      BY CensusNow DEF IInv, Fine, SessionOK
    <3>2. Census(s, posted, stack)["bodies"] > 0
      <4>1. /\ \A c \in Classes : Census(s, posted, Below(i))[c] = Census(s, posted, stack)[c]
                 - (IF "body" \in KindsOf(c) /\ (c = "pushes" => x \in Disconnect) THEN 1 ELSE 0)
        BY <1>1, <1>2, Popped
      <4>2. "bodies" \in Classes /\ "body" \in KindsOf("bodies")
        BY DEF Classes, KindsOf
      <4>3. Census(s, posted, Below(i)) \in Censuses
        BY <1>1, CensusTop
      <4>4. Census(s, posted, Below(i))["bodies"] \in Nat /\ Census(s, posted, stack)["bodies"] \in Nat
        BY <3>1, <4>3, CensusNat
      <4>5. QED
        BY <4>1, <4>2, <4>4
    <3>3. queue[s] # <<>>
      BY <3>1, <3>2, CensusNat DEF OneGuard
    <3>4. QED
      BY <3>3, TypesNow
  <2>2. ev \in Events /\ ev # "starting"
    BY <1>2, <2>1 DEF NeverStarting
  <2>3. k \in HomeKinds \ {"push"} /\ x2 \in Args /\ k \notin Greeters /\ k \in StrandKinds
    <3>1. /\ "write" \in HomeKinds \ {"push"} /\ "disc" \in HomeKinds \ {"push"} /\ "err" \in Args /\ Events \subseteq Args
      BY DEF HomeKinds, Args
    <3>2. QED
      BY <2>2, <3>1, KindSets
  <2>4. Task(k, s, x2) \in Allowed(i) /\ ~Greets(Below(i), s)
    BY <1>2, <2>3, TaskTypes, SameGreets
  <2>5. k \in {"write", "disc"} /\ (k = "disc" => x2 = "started")
    BY <2>2 DEF Events, Disconnect
  <2> HIDE DEF k, x2
  <2>6. Proper(i, Task(k, s, x2), Below(i), told, sopen)
    BY <1>2, <2>4, <2>5, TaskParts DEF Proper
  <2>7. Placed(posted', stack', told, sopen)
    <3>1. Task(k, s, x2).k \notin Greeters
      BY <2>3, TaskParts
    <3>2. Placed(Post(posted, i, Task(k, s, x2)), Below(i), told, sopen)
      BY <1>2, <2>4, <2>6, <3>1, PlacedPost
    <3>3. QED
      BY <1>3, <1>6, <3>2
  <2>8. QED
    BY <1>2, <1>3, <1>6, <2>7, TouchStep
<1>7. QED
  BY <1>4, <1>5, <1>6

\* A task that goes on to the next strand.
LEMMA TellDisc ==
  ASSUME IInv, TellInv, NEW i \in Ios, Disc(i)
  PROVE  TellInv'
<1>1. At(i, "disc") /\ "disc" \in Others
  BY KindSets DEF Disc
<1>2. PICK s \in Sessions, x \in Args :
           /\ Top(i) = Task("disc", s, x) /\ Top(i).s = s /\ Top(i).x = x
           /\ ~Greets(stack, s) /\ Proper(i, Top(i), stack, told, sopen)
           /\ Placed(posted, Below(i), told, sopen) /\ Same(stack, Below(i))
           /\ Sorted(posted) /\ Sorted(Below(i)) /\ (i # 0 \/ NoGreeter(Below(i)[0]))
           /\ \A r \in Sessions : NeverStarting(queue[r])
  BY <1>1, TellHandler
<1> DEFINE t == Task("erase", s, x)
<1>3. UNCHANGED <<state, told, sopen, sessions, held, sstate, queue, sops>>
  BY DEF Disc, serverVars, sessionVars, user
<1>4. \/ i = 0 /\ stack' = Call(Below(i), 0, t) /\ posted' = posted
      \/ stack' = Below(i) /\ posted' = Post(posted, 0, t)
  BY <1>2 DEF Disc
<1>5. 0 \in Ios /\ t \in Allowed(0) /\ "erase" \notin Greeters
  BY <1>2, IosFinite, TaskTypes, KindSets DEF MapKinds
<1>6. ~Greets(Below(i), s)
  BY <1>2, SameGreets
<1>7. Proper(0, t, Below(i), told, sopen)
  <2>1. x = "started"
    BY <1>2, TaskParts DEF Proper
  <2>2. "erase" \notin StrandKinds
    BY DEF StrandKinds, HomeKinds
  <2>3. QED
    BY <1>6, <2>1, <2>2, TaskParts DEF Proper
<1>8. Placed(posted', stack', told, sopen) /\ Same(Below(i), stack')
  <2>1. CASE i = 0 /\ stack' = Call(Below(i), 0, t) /\ posted' = posted
    BY <1>2, <1>5, <1>7, <2>1, TellCalled
  <2>2. CASE stack' = Below(i) /\ posted' = Post(posted, 0, t)
    <3>1. t.k \notin Greeters
      BY <1>5, TaskParts
    <3>2. Placed(Post(posted, 0, t), Below(i), told, sopen)
      BY <1>2, <1>5, <1>7, <3>1, PlacedPost
    <3>3. QED
      BY <2>2, <3>2 DEF Same
  <2>3. QED
    BY <1>4, <2>1, <2>2
<1>9. Same(stack, stack')
  BY <1>2, <1>8, SameTwice
<1>10. QED
  BY <1>2, <1>3, <1>8, <1>9, TouchStep

LEMMA TellErase2 ==
  ASSUME IInv, TellInv, Erase2
  PROVE  TellInv'
<1>1. At(0, "erase2") /\ "erase2" \in Others /\ 0 \in Ios
  BY KindSets, IosFinite DEF Erase2
<1>2. PICK s \in Sessions, x \in Args :
           /\ Top(0) = Task("erase2", s, x) /\ Top(0).s = s
           /\ ~Greets(stack, s) /\ Proper(0, Top(0), stack, told, sopen)
           /\ Placed(posted, Below(0), told, sopen) /\ Same(stack, Below(0))
           /\ Sorted(posted) /\ Sorted(Below(0)) /\ NoGreeter(Below(0)[0])
           /\ \A r \in Sessions : NeverStarting(queue[r])
  BY <1>1, TellHandler
<1> DEFINE t == Task("close", s, "-")
<1>3. UNCHANGED <<state, told, sopen, sessions, held, sstate, queue, sops>>
  BY DEF Erase2, serverVars, sessionVars, user
<1>4. \/ Home[s] = 0 /\ stack' = Call(Below(0), 0, t) /\ posted' = posted
      \/ stack' = Below(0) /\ posted' = Post(posted, Home[s], t)
  BY <1>2, TaskParts DEF Erase2
<1>5. Home[s] \in Ios /\ t \in Allowed(Home[s]) /\ "close" \notin Greeters
  <2>1. "close" \in HomeKinds \ {"push"} /\ "-" \in Args
    BY DEF HomeKinds, Args
  <2>2. QED
    BY <1>2, <2>1, IosFinite, TaskTypes, KindSets
<1>6. ~Greets(Below(0), s)
  BY <1>2, SameGreets
<1>7. Proper(Home[s], t, Below(0), told, sopen)
  <2>1. told[s] # "connected"
    BY <1>2, TaskParts DEF Proper
  <2>2. QED
    BY <1>6, <2>1, TaskParts DEF Proper
<1>8. Placed(posted', stack', told, sopen) /\ Same(Below(0), stack')
  <2>1. CASE Home[s] = 0 /\ stack' = Call(Below(0), 0, t) /\ posted' = posted
    BY <1>1, <1>2, <1>5, <1>7, <2>1, TellCalled
  <2>2. CASE stack' = Below(0) /\ posted' = Post(posted, Home[s], t)
    <3>1. t.k \notin Greeters
      BY <1>5, TaskParts
    <3>2. Placed(Post(posted, Home[s], t), Below(0), told, sopen)
      BY <1>2, <1>5, <1>7, <3>1, PlacedPost
    <3>3. QED
      BY <2>2, <3>2 DEF Same
  <2>3. QED
    BY <1>4, <2>1, <2>2
<1>9. Same(stack, stack')
  BY <1>2, <1>8, SameTwice
<1>10. QED
  BY <1>2, <1>3, <1>8, <1>9, TouchStep

\* Whoever is disconnected is told, if the connection was told of.
LEMMA TellErase ==
  ASSUME IInv, TellInv, Erase
  PROVE  TellInv'
<1>1. At(0, "erase") /\ "erase" \in Others /\ 0 \in Ios
  BY KindSets, IosFinite DEF Erase
<1>2. PICK s \in Sessions, x \in Args :
           /\ Top(0) = Task("erase", s, x) /\ Top(0).s = s /\ Top(0).x = x
           /\ ~Greets(stack, s) /\ Proper(0, Top(0), stack, told, sopen)
           /\ Placed(posted, Below(0), told, sopen) /\ Same(stack, Below(0))
           /\ Sorted(posted) /\ Sorted(Below(0)) /\ NoGreeter(Below(0)[0])
           /\ \A r \in Sessions : NeverStarting(queue[r])
  BY <1>1, TellHandler
<1> DEFINE tell == sstate[s] = "stopping" /\ x = "started" /\ s \in sessions
           t == Task("erase2", s, "-")
           S == Call(Below(0), 0, t)
<1>3. /\ sessions' = sessions \ {s}
      /\ told' = IF tell THEN [told EXCEPT ![s] = "disconnected"] ELSE told
      /\ stack' = IF tell THEN Call(S, 0, Task("user", s, "-")) ELSE S
      /\ posted' = posted /\ UNCHANGED <<state, sopen, held, sstate, queue, sops>>
  BY <1>2 DEF Erase, User, serverVars, sessionVars
<1>4. x = "started" /\ sstate[s] = "stopping"
  <2>1. x = "started"
    BY <1>2, TaskParts DEF Proper
  <2>2. Census(s, posted, stack)["closings"] > 0
    <3>1. /\ \A c \in Classes : Census(s, posted, Below(0))[c] = Census(s, posted, stack)[c]
               - (IF "erase" \in KindsOf(c) /\ (c = "pushes" => x \in Disconnect) THEN 1 ELSE 0)
      BY <1>1, <1>2, Popped
    <3>2. "closings" \in Classes /\ "erase" \in KindsOf("closings") /\ "closings" # "pushes"
      BY DEF Classes, KindsOf
    <3>3. Census(s, posted, Below(0)) \in Censuses /\ Census(s, posted, stack) \in Censuses
      BY <1>1, CensusTop
    <3>4. Census(s, posted, Below(0))["closings"] \in Nat /\ Census(s, posted, stack)["closings"] \in Nat
      BY <3>3, CensusNat
    <3>5. Census(s, posted, Below(0))["closings"] = Census(s, posted, stack)["closings"] - 1
      BY <3>1, <3>2
    <3>6. QED
      BY <3>4, <3>5
  <2>3. QED
    BY <2>1, <2>2, GreetedNow
<1>5. told'[s] # "connected" /\ \A r \in Sessions : r # s => told'[r] = told[r]
  <2>1. told[s] = "connected" => s \in sessions
    <3>1. Noted(s, stack, told[s], sopen, sessions)
      BY <1>2 DEF TellInv
    <3>2. Has(stack, "join", s) => Greets(stack, s)
      BY DEF Greets, Greeters
    <3>3. QED
      BY <1>2, <3>1, <3>2 DEF Noted
  <2>2. CASE tell
    BY <1>3, <2>2, TypesNow
  <2>3. CASE ~tell
    BY <1>3, <1>4, <2>1, <2>3
  <2>4. QED
    BY <2>2, <2>3
<1>6. /\ t \in Allowed(0) /\ Task("user", s, "-") \in Allowed(0) /\ "erase2" \notin Greeters /\ "user" \notin Greeters
  <2>1. /\ "erase2" \in MapKinds /\ "user" \in HomeKinds \ {"push"} /\ "-" \in Args
    BY DEF MapKinds, HomeKinds, Args
  <2>2. QED
    BY <1>2, <2>1, TaskTypes, KindSets
<1>7. ~Greets(Below(0), s)
  BY <1>2, SameGreets
<1> DEFINE tl == told'
<1>8. Placed(posted, Below(0), tl, sopen)
  <2>1. ASSUME NEW j \in Ios, NEW u \in Tasks, Lies(posted, j, u) \/ Lies(Below(0), j, u)
        PROVE  Proper(j, u, Below(0), tl, sopen)
    <3>1. Proper(j, u, Below(0), told, sopen)
      BY <1>2, <2>1 DEF Placed
    <3>2. u.k \in {"erase2", "close"} /\ tl[u.s] = "connected" => told[u.s] = "connected"
      <4>1. tl[u.s] = "connected" => u.s # s
        BY <1>5
      <4>2. u.k \in {"erase2", "close"} => u.s \in Sessions
        <5>1. u \in Allowed(j)
          <6>1. posted[j] \in Seq(Allowed(j)) /\ Below(0)[j] \in Seq(Allowed(j))
            BY <1>2, SortedAt
          <6>2. QED
            BY <2>1, <6>1 DEF Lies
        <5>2. "erase2" \notin OwnKinds \cup {"user"} /\ "close" \notin OwnKinds \cup {"user"}
          BY DEF OwnKinds
        <5>3. QED
          BY <5>1, <5>2, AllowedIs
      <4>3. QED
        BY <4>1, <4>2, <1>5
    <3>3. QED
      BY <3>1, <3>2 DEF Proper
  <2>2. QED
    BY <1>2, <2>1 DEF Placed
<1>9. Proper(0, t, Below(0), tl, sopen)
  <2>1. "erase2" \notin StrandKinds
    BY DEF StrandKinds, HomeKinds
  <2>2. QED
    BY <1>5, <1>7, <2>1, TaskParts DEF Proper
<1>10. 0 \in Ios /\ t.k = "erase2"
  BY IosFinite, TaskParts
<1> HIDE DEF t, tl, tell
<1>11. /\ Placed(posted, S, tl, sopen) /\ Same(Below(0), S) /\ Sorted(S)
  <2>1. t.k \notin Greeters
    BY <1>6, <1>10
  <2>2. /\ Placed(posted, Call(Below(0), 0, t), tl, sopen)
        /\ \A k \in Greeters : \A r : Has(Call(Below(0), 0, t), k, r) <=> Has(Below(0), k, r)
    BY <1>2, <1>6, <1>8, <1>9, <1>10, <2>1, PlacedCall
  <2>3. Sorted(S)
    BY <1>2, <1>6, <1>10, SortedPost
  <2>4. QED
    BY <2>2, <2>3 DEF Same
<1> HIDE DEF S
<1>12. Placed(posted, stack', tl, sopen) /\ Same(S, stack')
  <2> DEFINE u == Task("user", s, "-")
  <2>1. u.k = "user" /\ u \in Allowed(0) /\ u.k \notin Greeters
    BY <1>6, TaskParts
  <2>2. Proper(0, u, S, tl, sopen)
    BY <2>1, KindSets DEF Proper
  <2> HIDE DEF u
  <2>3. /\ Placed(posted, Call(S, 0, u), tl, sopen)
        /\ \A k \in Greeters : \A r : Has(Call(S, 0, u), k, r) <=> Has(S, k, r)
    BY <1>10, <1>11, <2>1, <2>2, PlacedCall
  <2>4. CASE tell
    BY <1>3, <2>3, <2>4 DEF Same, u
  <2>5. CASE ~tell
    BY <1>3, <1>11, <2>5 DEF Same
  <2>6. QED
    BY <2>4, <2>5
<1>13. Same(stack, stack')
  <2>1. Same(stack, S)
    BY <1>2, <1>11, SameTwice
  <2>2. QED
    BY <2>1, <1>12, SameTwice
<1>14. Placed(posted', stack', told', sopen') /\ held' = {}
  BY <1>3, <1>12 DEF tl, TellInv
<1>15. \A r \in Sessions : told'[r] = "connected" =>
         told[r] = "connected" /\ (r \in sopen => r \in sopen') /\ (r \in sessions => r \in sessions')
  BY <1>3, <1>5
<1>16. \A r \in Sessions : NeverStarting(queue'[r])
  BY <1>2, <1>3
<1>17. \A r \in Sessions : Greets(stack, r) =>
           /\ state' = state /\ sstate'[r] = sstate[r] /\ queue'[r] = queue[r] /\ sops'[r] = sops[r]
           /\ r \in sopen => r \in sopen'
  BY <1>3
<1>18. QED
  BY <1>13, <1>14, <1>15, <1>16, <1>17, QuietStep

\* Tasks behind those of a strand.
LEMMA PlacedBehind ==
  ASSUME NEW P, Sorted(P), NEW S, NEW tl, NEW so, Placed(P, S, tl, so), NEW i \in Ios, NEW q, q \in Seq(Allowed(i)),
         \A j \in DOMAIN q : q[j].k \notin Greeters /\ Proper(i, q[j], S, tl, so)
  PROVE  Placed(Behind(P, i, q), S, tl, so)
<1> DEFINE E == Behind(P, i, q)
<1>1. P[i] \in Seq(Allowed(i)) /\ E[i] = P[i] \o q /\ \A k \in Ios : k # i => E[k] = P[k]
  BY SortedAt DEF Behind
<1>2. \A j \in DOMAIN (P[i] \o q) : \/ j \in DOMAIN P[i] /\ (P[i] \o q)[j] = P[i][j]
                                    \/ j - Len(P[i]) \in DOMAIN q /\ (P[i] \o q)[j] = q[j - Len(P[i])]
  BY <1>1
<1> HIDE DEF E
<1>3. \A k \in Ios : \A u : Lies(E, k, u) => Lies(P, k, u) \/ (k = i /\ \E j \in DOMAIN q : q[j] = u)
  <2>1. SUFFICES ASSUME NEW k \in Ios, NEW u, NEW j \in DOMAIN E[k], E[k][j] = u
                 PROVE  (\E m \in DOMAIN P[k] : P[k][m] = u) \/ (k = i /\ \E m \in DOMAIN q : q[m] = u)
    BY DEF Lies
  <2>2. CASE k = i
    BY <1>1, <1>2, <2>1, <2>2
  <2>3. CASE k # i
    BY <1>1, <2>1, <2>3
  <2>4. QED
    BY <2>2, <2>3
<1>4. ASSUME NEW k \in Ios, NEW u \in Tasks
      PROVE  /\ Lies(E, k, u) => u.k \notin Greeters
             /\ Lies(E, k, u) \/ Lies(S, k, u) => Proper(k, u, S, tl, so)
  BY <1>3, <1>4 DEF Placed
<1>5. QED
  BY <1>4 DEF Placed, E

\* A socket is closed that no accept is to give to its session.
LEMMA PlacedClosed ==
  ASSUME NEW P, NEW S, NEW tl, NEW so, Placed(P, S, tl, so), NEW s,
         \A i \in Ios, t \in Tasks : (Lies(P, i, t) \/ Lies(S, i, t)) /\ t.k = "accept" => t.s # s
  PROVE  Placed(P, S, tl, so \ {s})
<1>1. ASSUME NEW i \in Ios, NEW t \in Tasks, Lies(P, i, t) \/ Lies(S, i, t)
      PROVE  Proper(i, t, S, tl, so \ {s})
  <2>1. Proper(i, t, S, tl, so) /\ (t.k = "accept" => t.s # s)
    BY <1>1 DEF Placed
  <2>2. QED
    BY <2>1 DEF Proper
<1>2. QED
  BY <1>1 DEF Placed

\* A session has no task of a class that counts none.
LEMMA NoneLies ==
  ASSUME NEW P, Sorted(P), NEW S, Sorted(S), NEW s, NEW c \in Classes \ {"pushes"}, Census(s, P, S)[c] = 0
  PROVE  \A i \in Ios, t \in Tasks : (Lies(P, i, t) \/ Lies(S, i, t)) /\ t.k \in KindsOf(c) => t.s # s
<1> DEFINE G == Class(c, s)
<1>1. P \in Strands /\ S \in Strands
  BY SortedAt, IosFinite
<1>2. \A t \in Tasks : t \in G <=> t.k \in KindsOf(c) /\ t.s = s
  <2>1. SUFFICES ASSUME NEW t \in Tasks PROVE t \in G <=> t.k \in KindsOf(c) /\ t.s = s
    OBVIOUS
  <2>2. Is(t, G) = Bit(c, s, t)
    BY ClassBit
  <2>3. QED
    BY <2>2 DEF Is, Bit
<1>3. HowMany(P, G) + HowMany(S, G) = 0
  BY DEF Census, Count
<1> HIDE DEF G
<1>4. HowMany(P, G) \in Nat /\ HowMany(S, G) \in Nat
  BY <1>1, PlacesFinite
<1>5. HowMany(P, G) = 0 /\ HowMany(S, G) = 0
  BY <1>3, <1>4
<1>6. \A i \in Ios : (\A j \in DOMAIN P[i] : P[i][j] \notin G) /\ \A j \in DOMAIN S[i] : S[i][j] \notin G
  BY <1>1, <1>5, HowManyNone
<1>7. QED
  BY <1>2, <1>6 DEF Lies

\* Who is to be accepted is known to nobody else yet, and who is known is not
\* to be accepted.
LEMMA Unknown ==
  ASSUME IInv, TellInv, NEW s \in Sessions
  PROVE  /\ s \notin holders => /\ sops[s] = {} /\ queue[s] = <<>>
                                /\ \A i \in Ios, t \in Tasks : (Lies(posted, i, t) \/ Lies(stack, i, t)) /\ t.s = s
                                     => t.k \notin Others /\ t.k \notin Greeters
                                /\ ~Greets(stack, s)
         /\ s \in holders => \A i \in Ios, t \in Tasks :
                               (Lies(posted, i, t) \/ Lies(stack, i, t)) /\ t.k = "accept" => t.s # s
         /\ \/ \E i \in Ios, t \in Tasks : (Lies(posted, i, t) \/ Lies(stack, i, t)) /\ t.k = "accept" /\ t.s = s
            \/ accepting = s
            => s \notin holders /\ told[s] = "none"
<1> DEFINE n == Census(s, posted, stack)
<1>1. /\ Counted(n, s, sstate[s], queue[s], sops[s], sessions, holders, held)
      /\ Accepted(n, s, sstate[s], holders, told[s], accepting) /\ n \in Censuses
      /\ Sorted(posted) /\ Sorted(stack)
  BY CensusNow, TypesNow DEF IInv, Fine, SessionOK
<1>2. n["lives"] \in Nat /\ n["accepts"] \in Nat
  BY <1>1 DEF Censuses, Classes
<1>3. ASSUME s \notin holders
      PROVE  /\ sops[s] = {} /\ queue[s] = <<>>
             /\ \A i \in Ios, t \in Tasks : (Lies(posted, i, t) \/ Lies(stack, i, t)) /\ t.s = s
                  => t.k \notin Others /\ t.k \notin Greeters
             /\ ~Greets(stack, s)
  <2>1. sops[s] = {} /\ queue[s] = <<>> /\ n["lives"] = 0
    BY <1>1, <1>2, <1>3 DEF Counted
  <2>2. "lives" \in Classes \ {"pushes"} /\ KindsOf("lives") = LiveKinds
    BY DEF Classes, KindsOf
  <2>3. \A i \in Ios, t \in Tasks : (Lies(posted, i, t) \/ Lies(stack, i, t)) /\ t.k \in LiveKinds => t.s # s
    BY <1>1, <2>1, <2>2, NoneLies
  <2>4. Others \subseteq LiveKinds /\ Greeters \subseteq LiveKinds
    BY KindSets, Kinds
  <2>5. ~Greets(stack, s)
    <3>1. ASSUME NEW k \in Greeters, NEW j \in DOMAIN stack[0], stack[0][j].k = k, stack[0][j].s = s
          PROVE  FALSE
      <4>1. stack[0] \in Seq(Tasks) /\ 0 \in Ios
        BY <1>1, SortedAt, StrandIsSeq, IosFinite
      <4>2. stack[0][j] \in Tasks /\ Lies(stack, 0, stack[0][j])
        BY <3>1, <4>1 DEF Lies
      <4>3. QED
        BY <2>3, <2>4, <3>1, <4>1, <4>2
    <3>2. QED
      BY <3>1 DEF Greets, Has
  <2>6. QED
    BY <2>1, <2>3, <2>4, <2>5
<1>4. ASSUME s \in holders
      PROVE  \A i \in Ios, t \in Tasks : (Lies(posted, i, t) \/ Lies(stack, i, t)) /\ t.k = "accept" => t.s # s
  <2>1. n["accepts"] = 0
    BY <1>1, <1>2, <1>4 DEF Accepted
  <2>2. "accepts" \in Classes \ {"pushes"} /\ "accept" \in KindsOf("accepts")
    BY DEF Classes, KindsOf
  <2>3. QED
    BY <1>1, <2>1, <2>2, NoneLies
<1>5. ASSUME told[s] # "none"
      PROVE  /\ accepting # s
             /\ \A i \in Ios, t \in Tasks : (Lies(posted, i, t) \/ Lies(stack, i, t)) /\ t.k = "accept" => t.s # s
  <2>1. n["accepts"] = 0 /\ accepting # s
    BY <1>1, <1>2, <1>5 DEF Accepted
  <2>2. "accepts" \in Classes \ {"pushes"} /\ "accept" \in KindsOf("accepts")
    BY DEF Classes, KindsOf
  <2>3. QED
    BY <1>1, <2>1, <2>2, NoneLies
<1>6. accepting = s => s \notin holders
  BY <1>1 DEF Accepted
<1>7. QED
  BY <1>3, <1>4, <1>5, <1>6

\* The socket that is closed is of a session nobody has to tell any more.
LEMMA TellHandleDisconnect ==
  ASSUME IInv, TellInv, NEW i \in Ios, HandleDisconnect(i)
  PROVE  TellInv'
<1>1. At(i, "close") /\ "close" \in Others /\ "close" \in StrandKinds
  BY KindSets DEF HandleDisconnect
<1>2. PICK s \in Sessions, x \in Args :
           /\ Top(i) = Task("close", s, x) /\ Top(i).s = s /\ s \in holders
           /\ Home[s] = i /\ (Home[s] # 0 \/ NoGreeter(Below(i)[0]))
           /\ ~Greets(stack, s) /\ Proper(i, Top(i), stack, told, sopen)
           /\ Placed(posted, Below(i), told, sopen) /\ Same(stack, Below(i))
           /\ Sorted(posted) /\ Sorted(Below(i))
           /\ \A r \in Sessions : NeverStarting(queue[r])
  BY <1>1, TellHandler
<1> DEFINE D == sops[s]
           w == InOrder([e \in D |-> Task(e, s, "aborted")])
           B == Below(i)
           so == sopen \ {s}
           q == queue[s]
<1>3. /\ UNCHANGED <<state, told, sessions, held>> /\ sopen' = so
      /\ sstate' = [sstate EXCEPT ![s] = IF @ = "stopping" THEN "stopped" ELSE @]
      /\ sops' = [sops EXCEPT ![s] = {}]
      /\ posted' = Behind(posted, i, w)
      /\ Release(s, q, B)
  BY <1>2 DEF HandleDisconnect, Behind, serverVars, user
<1>4. told[s] # "connected"
  BY <1>2, TaskParts DEF Proper
<1>5. "write" \notin sops[s] /\ q # <<>> /\ q \in Seq(Events)
  <2>1. Census(s, posted, stack)["closings"] > 0
    <3>1. /\ \A c \in Classes : Census(s, posted, Below(i))[c] = Census(s, posted, stack)[c]
               - (IF "close" \in KindsOf(c) /\ (c = "pushes" => x \in Disconnect) THEN 1 ELSE 0)
      BY <1>1, <1>2, Popped
    <3>2. "closings" \in Classes /\ "close" \in KindsOf("closings") /\ "closings" # "pushes"
      BY DEF Classes, KindsOf
    <3>3. Census(s, posted, Below(i)) \in Censuses /\ Census(s, posted, stack) \in Censuses
      BY <1>1, CensusTop
    <3>4. Census(s, posted, Below(i))["closings"] \in Nat /\ Census(s, posted, stack)["closings"] \in Nat
      BY <3>3, CensusNat
    <3>5. Census(s, posted, Below(i))["closings"] = Census(s, posted, stack)["closings"] - 1
      BY <3>1, <3>2
    <3>6. QED
      BY <3>4, <3>5
  <2>2. /\ SessionOK(Census(s, posted, stack), s, sstate[s], q, sops[s], sessions, holders, held, told[s], accepting)
        /\ Census(s, posted, stack) \in Censuses /\ q \in Seq(Events)
    BY CensusNow, TypesNow DEF IInv, Fine
  <2>3. QED
    BY <2>1, <2>2, ClosingStops
<1>6. w \in Seq(Allowed(i)) /\ \A j \in DOMAIN w : \E e \in Ending : w[j] = Task(e, s, "aborted")
  <2>1. D \in SUBSET Ending
    <3>1. D \subseteq {"recv", "write", "silence"}
      BY TypesNow
    <3>2. QED
      BY <3>1, <1>5 DEF Ending
  <2> HIDE DEF D
  <2>2. QED
    BY <2>1, EndedIs
<1>7. ~Greets(B, s)
  BY <1>2, SameGreets
<1> HIDE DEF w, B
<1>8. Placed(posted, B, told, so)
  <2>1. \A j \in Ios, t \in Tasks : (Lies(posted, j, t) \/ Lies(B, j, t)) /\ t.k = "accept" => t.s # s
    <3>1. \A j \in Ios, t \in Tasks : (Lies(posted, j, t) \/ Lies(stack, j, t)) /\ t.k = "accept" => t.s # s
      BY <1>2, Unknown
    <3>2. \A k \in Ios : \A u : Lies(B, k, u) => Lies(stack, k, u)
      BY <1>1, LiesBelow, TypesNow DEF B, At
    <3>3. QED
      BY <3>1, <3>2
  <2>2. Placed(posted, B, told, sopen)
    BY <1>2 DEF B
  <2>3. QED
    BY <2>1, <2>2, PlacedClosed
<1> HIDE DEF so
<1>9. Placed(posted', B, told, so)
  <2>1. ASSUME NEW j \in DOMAIN w
        PROVE  w[j].k \notin Greeters /\ Proper(i, w[j], B, told, so)
    <3>1. PICK e \in Ending : w[j] = Task(e, s, "aborted")
      BY <1>6
    <3>2. w[j].k = e /\ w[j].s = s /\ e \in StrandKinds /\ e \notin Greeters
      BY <3>1, TaskParts, KindSets DEF Ending
    <3>3. QED
      BY <1>2, <1>7, <3>2 DEF Proper, Ending
  <2>2. Placed(Behind(posted, i, w), B, told, so)
    BY <1>2, <1>6, <1>8, <2>1, PlacedBehind
  <2>3. QED
    BY <1>3, <2>2
<1> DEFINE P2 == posted'
<1>10. Placed(P2, B, told, so) /\ Sorted(B) /\ (Home[s] # 0 \/ NoGreeter(B[0])) /\ NeverStarting(q)
       /\ Release(s, q, B) /\ ~Greets(B, s) /\ q \in Seq(Events) /\ q # <<>>
       /\ \A r \in Sessions : NeverStarting(queue[r])
  BY <1>2, <1>3, <1>5, <1>7, <1>9 DEF B
<1> HIDE DEF P2, q
<1>11. /\ Placed(P2, stack', told, so) /\ Same(B, stack')
       /\ \A r \in Sessions : r # s => queue'[r] = queue[r]
       /\ \A r \in Sessions : NeverStarting(queue'[r])
  BY <1>10, TellReleased
<1>12. Same(stack, stack')
  BY <1>2, <1>11, SameTwice DEF B
<1>13. Placed(posted', stack', told', sopen') /\ held' = {}
  BY <1>3, <1>11 DEF P2, TellInv
<1>14. \A r \in Sessions : r # s => sstate'[r] = sstate[r] /\ sops'[r] = sops[r] /\ (r \in sopen => r \in sopen')
  BY <1>3, TypesNow DEF so
<1>15. \A r \in Sessions : Greets(stack, r) =>
           /\ state' = state /\ sstate'[r] = sstate[r] /\ queue'[r] = queue[r] /\ sops'[r] = sops[r]
           /\ r \in sopen => r \in sopen'
  BY <1>2, <1>3, <1>11, <1>14
<1>16. \A r \in Sessions : told'[r] = "connected" =>
         told[r] = "connected" /\ (r \in sopen => r \in sopen') /\ (r \in sessions => r \in sessions')
  BY <1>3, <1>4, <1>14
<1>17. QED
  BY <1>11, <1>12, <1>13, <1>15, <1>16, QuietStep

\* An operation of a session ends.
LEMMA TellEnds ==
  ASSUME IInv, TellInv, NEW s \in Sessions, NEW o \in Operations, NEW ec \in Results, Ends(s, o, ec)
  PROVE  TellInv'
<1> DEFINE t == Task(o, s, ec)
<1>1. /\ o \in sops[s] /\ sops' = [sops EXCEPT ![s] = @ \ {o}] /\ posted' = Post(posted, Home[s], t)
      /\ stack' = stack /\ UNCHANGED <<state, told, sopen, sessions, held, sstate, queue>>
  BY DEF Ends, serverVars, user
<1>2. ~Greets(stack, s) /\ Placed(posted, stack, told, sopen) /\ NeverStarting(queue[s])
  BY <1>1 DEF TellInv, Secluded
<1>3. Home[s] \in Ios /\ t \in Allowed(Home[s]) /\ t.k = o /\ t.s = s /\ o \notin Greeters
  <2>1. o \in HomeKinds \ {"push"} /\ ec \in Args
    BY DEF Operations, Results, HomeKinds, Args
  <2>2. QED
    BY <2>1, TaskTypes, TaskParts, IosFinite, KindSets DEF Operations
<1>4. Proper(Home[s], t, stack, told, sopen)
  BY <1>2, <1>3 DEF Proper, Operations
<1> HIDE DEF t
<1>5. Placed(posted', stack', told, sopen)
  BY <1>1, <1>2, <1>3, <1>4, TypesNow, PlacedPost
<1>6. \A r \in Sessions : r # s => sops'[r] = sops[r]
  BY <1>1, TypesNow
<1>7. Same(stack, stack')
  BY <1>1 DEF Same
<1>8. QED
  BY <1>1, <1>2, <1>5, <1>6, <1>7, TouchStep

\* More is open.
LEMMA PlacedOpened ==
  ASSUME NEW P, NEW S, NEW tl, NEW so, Placed(P, S, tl, so), NEW so2, so \subseteq so2
  PROVE  Placed(P, S, tl, so2)
<1>1. ASSUME NEW i \in Ios, NEW t \in Tasks, Lies(P, i, t) \/ Lies(S, i, t)
      PROVE  Proper(i, t, S, tl, so2)
  <2>1. Proper(i, t, S, tl, so)
    BY <1>1 DEF Placed
  <2>2. QED
    BY <2>1 DEF Proper
<1>2. QED
  BY <1>1 DEF Placed

LEMMA TellAcceptEnds ==
  ASSUME IInv, TellInv, AcceptEnds
  PROVE  TellInv'
<1> DEFINE s == accepting
<1>1. PICK ec \in {"ok", "err"} :
        /\ posted' = Post(posted, 0, Task("accept", s, ec))
        /\ sopen' = IF ec = "ok" THEN sopen \cup {s} ELSE sopen
  BY DEF AcceptEnds
<1>2. s \in Sessions /\ stack' = stack /\ UNCHANGED <<state, told, sessions, held, sstate, sops, queue>>
  BY DEF AcceptEnds, user, IInv, Typed, TypeOK
<1> DEFINE t == Task("accept", s, ec)
           so == sopen'
<1>3. 0 \in Ios /\ t \in Allowed(0) /\ t.k = "accept" /\ t.s = s /\ t.x = ec
  BY <1>2, IosFinite, TaskTypes, TaskParts DEF Args
<1>4. sopen \subseteq so /\ (ec = "ok" => s \in so)
  BY <1>1
<1> HIDE DEF so, s, t
<1>5. "accept" \notin Greeters /\ Proper(0, t, stack, told, so)
  BY <1>3, <1>4, KindSets DEF Proper
<1>6. Placed(posted, stack, told, so)
  BY <1>4, PlacedOpened DEF TellInv
<1>7. Placed(Post(posted, 0, t), stack, told, so)
  BY <1>3, <1>5, <1>6, TypesNow, PlacedPost
<1>8. Placed(posted', stack', told', sopen') /\ Same(stack, stack') /\ held' = {}
  BY <1>1, <1>2, <1>7 DEF Same, TellInv, so, t, s
<1>9. \A r \in Sessions : r \in sopen => r \in sopen'
  BY <1>4 DEF so
<1>10. \A r \in Sessions : NeverStarting(queue'[r])
  BY <1>2 DEF TellInv
<1>11. \A r \in Sessions : Greets(stack, r) =>
           /\ state' = state /\ sstate'[r] = sstate[r] /\ queue'[r] = queue[r] /\ sops'[r] = sops[r]
           /\ r \in sopen => r \in sopen'
  BY <1>2, <1>9
<1>12. QED
  BY <1>2, <1>8, <1>9, <1>10, <1>11, QuietStep

\* A task of the server on its strand: nobody is greeted meanwhile.
LEMMA TellOwn ==
  ASSUME IInv, TellInv, NEW k, At(0, k), k \notin Greeters \cup {"user"}
  PROVE  /\ Sorted(posted) /\ Sorted(Below(0)) /\ Placed(posted, Below(0), told, sopen) /\ Same(stack, Below(0))
         /\ NoGreeter(Below(0)[0]) /\ 0 \in Ios
         /\ \A r : ~Greets(stack, r) /\ ~Greets(Below(0), r)
         /\ Top(0).k = k /\ Proper(0, Top(0), stack, told, sopen)
         /\ held = {} /\ \A r \in Sessions : NeverStarting(queue[r])
<1>1. 0 \in Ios
  BY IosFinite
<1>2. /\ Sorted(posted) /\ Sorted(Below(0)) /\ Placed(posted, Below(0), told, sopen)
      /\ Top(0).k = k /\ Proper(0, Top(0), stack, told, sopen)
      /\ 0 # 0 \/ k = "user" \/ NoGreeter(Below(0)[0])
      /\ Same(stack, Below(0)) /\ \A r : ~Greets(stack, r)
  BY <1>1, TellTop
<1>3. QED
  BY <1>1, <1>2, SameGreets DEF TellInv

\* A step of the server that nobody is told by, while nobody is greeted.
LEMMA OwnStep ==
  ASSUME TellInv, UNCHANGED <<told, sopen, sessions, held>>, Placed(posted', stack', told, sopen),
         Same(stack, stack'), \A r : ~Greets(stack, r), \A r \in Sessions : NeverStarting(queue'[r])
  PROVE  TellInv'
<1>1. Placed(posted', stack', told', sopen') /\ held' = {}
  BY DEF TellInv
<1>2. QED
  BY <1>1, QuietStep

\* Two tasks called, the second of them code of the application.
LEMMA TellCalls2 ==
  ASSUME NEW P, Sorted(P), NEW S, Sorted(S), NEW tl, NEW so, Placed(P, S, tl, so), NoGreeter(S[0]),
         NEW t, t \in Allowed(0), t.k \notin Greeters, Proper(0, t, S, tl, so),
         NEW s \in Sessions \cup {NoSession}
  PROVE  /\ Placed(P, Call(Call(S, 0, t), 0, User(s)), tl, so)
         /\ Same(S, Call(Call(S, 0, t), 0, User(s)))
<1> DEFINE u == User(s)
           S2 == Call(S, 0, t)
<1>1. 0 \in Ios /\ u \in Allowed(0) /\ u.k = "user" /\ u.k \notin Greeters
  BY IosFinite, TaskTypes, TaskParts, KindSets DEF User
<1>2. /\ Placed(P, S2, tl, so) /\ Sorted(S2)
      /\ \A c \in Greeters : \A r : Has(S2, c, r) <=> Has(S, c, r)
  BY <1>1, PlacedCall, SortedPost
<1>3. Proper(0, u, S2, tl, so)
  BY <1>1, KindSets DEF Proper
<1> HIDE DEF u, S2
<1>4. /\ Placed(P, Call(S2, 0, u), tl, so)
      /\ \A c \in Greeters : \A r : Has(Call(S2, 0, u), c, r) <=> Has(S2, c, r)
  BY <1>1, <1>2, <1>3, PlacedCall
<1>5. QED
  BY <1>2, <1>4 DEF Same, S2, u

\* The tasks of the server are proper anywhere on its strand.
LEMMA OwnProper ==
  ASSUME NEW k \in OwnKinds \cup {"again"}, NEW s, NEW x, NEW S, NEW tl, NEW so
  PROVE  Proper(0, Task(k, s, x), S, tl, so) /\ k \notin Greeters
<1>1. k \notin Others /\ k \notin StrandKinds /\ k \notin Greeters
  BY KindSets DEF OwnKinds
<1>2. k \notin {"disc", "erase", "push", "erase2", "close", "accept"}
  BY DEF OwnKinds
<1>3. QED
  BY <1>1, <1>2, TaskParts DEF Proper

LEMMA TellStart ==
  ASSUME IInv, TellInv, Start \/ Start2 \/ ExecStop
  PROVE  TellInv'
<1>1. PICK k \in {"start", "start2", "exec"} : At(0, k)
  BY DEF Start, Start2, ExecStop
<1>2. UNCHANGED <<told, sopen, sessions, held>> /\ posted' = posted /\ queue' = queue
  BY DEF Start, Start2, ExecStop, serverVars, sessionVars, user
<1>3. \/ stack' = Below(0)
      \/ \E c \in {"start2", "start3", "exec2"}, x \in {"-", "ok", "err"} :
           stack' = Call(Call(Below(0), 0, Task(c, NoSession, x)), 0, User(NoSession))
  <2>1. CASE Start
    BY <2>1 DEF Start
  <2>2. CASE Start2
    <3>1. PICK bound \in BOOLEAN :
            stack' = Call(Call(Below(0), 0, Task("start3", NoSession, IF bound /\ state = "starting" THEN "ok" ELSE "err")),
                          0, User(NoSession))
      BY <2>2 DEF Start2
    <3>2. (IF bound /\ state = "starting" THEN "ok" ELSE "err") \in {"-", "ok", "err"}
      OBVIOUS
    <3>3. QED
      BY <3>1, <3>2
  <2>3. CASE ExecStop
    BY <2>3 DEF ExecStop
  <2>4. QED
    BY <2>1, <2>2, <2>3
<1>4. /\ Sorted(posted) /\ Sorted(Below(0)) /\ Placed(posted, Below(0), told, sopen) /\ Same(stack, Below(0))
      /\ NoGreeter(Below(0)[0]) /\ \A r : ~Greets(stack, r)
      /\ \A r \in Sessions : NeverStarting(queue[r])
  BY <1>1, KindSets, TellOwn
<1>5. Placed(posted', stack', told, sopen) /\ Same(Below(0), stack')
  <2>1. CASE stack' = Below(0)
    BY <1>2, <1>4, <2>1 DEF Same
  <2>2. ASSUME NEW c \in {"start2", "start3", "exec2"}, NEW x \in {"-", "ok", "err"},
               stack' = Call(Call(Below(0), 0, Task(c, NoSession, x)), 0, User(NoSession))
        PROVE  Placed(posted', stack', told, sopen) /\ Same(Below(0), stack')
    <3> DEFINE t == Task(c, NoSession, x)
    <3>1. c \in OwnKinds /\ x \in Args
      BY DEF OwnKinds, Args
    <3>2. t \in Allowed(0) /\ t.k \notin Greeters /\ Proper(0, t, Below(0), told, sopen)
      BY <3>1, TaskTypes, TaskParts, OwnProper
    <3> HIDE DEF t
    <3>3. /\ Placed(posted, Call(Call(Below(0), 0, t), 0, User(NoSession)), told, sopen)
          /\ Same(Below(0), Call(Call(Below(0), 0, t), 0, User(NoSession)))
      BY <1>4, <3>2, TellCalls2
    <3>4. QED
      BY <1>2, <2>2, <3>3 DEF t
  <2>3. QED
    BY <1>3, <2>1, <2>2
<1>6. Same(stack, stack')
  BY <1>4, <1>5, SameTwice
<1>7. QED
  BY <1>2, <1>4, <1>5, <1>6, OwnStep

\* Tasks for some of the sessions.
LEMMA PlacedAll ==
  ASSUME NEW P, Sorted(P), NEW S, Sorted(S), NEW tl, NEW so, Placed(P, S, tl, so),
         NEW D \in SUBSET Sessions, NEW T \in [D -> HomeTasks],
         \A d \in D : T[d].k \notin Greeters /\ Proper(Home[d], T[d], S, tl, so)
  PROVE  /\ Placed(AddAll(P, T), S, tl, so)
         /\ NoGreeter(S[0]) => /\ Placed(P, AddAll(S, T), tl, so) /\ Same(S, AddAll(S, T))
                               /\ NoGreeter(AddAll(S, T)[0])
<1>1. Placed(AddAll(P, T), S, tl, so)
  <2> DEFINE E == AddAll(P, T)
  <2>1. \A k \in Ios : \A u : Lies(E, k, u) => Lies(P, k, u) \/ \E d \in D : Home[d] = k /\ u = T[d]
    BY LiesAll
  <2> HIDE DEF E
  <2>2. ASSUME NEW k \in Ios, NEW u \in Tasks
        PROVE  /\ Lies(E, k, u) => u.k \notin Greeters
               /\ Lies(E, k, u) \/ Lies(S, k, u) => Proper(k, u, S, tl, so)
    BY <2>1, <2>2 DEF Placed
  <2>3. QED
    BY <2>2 DEF Placed, E
<1>2. ASSUME NoGreeter(S[0])
      PROVE  /\ Placed(P, AddAll(S, T), tl, so) /\ Same(S, AddAll(S, T))
             /\ NoGreeter(AddAll(S, T)[0])
  <2> DEFINE E == AddAll(S, T)
  <2>1. /\ \A k \in Ios : \A u : Lies(E, k, u) => Lies(S, k, u) \/ \E d \in D : Home[d] = k /\ u = T[d]
        /\ \A k, r : k \in Greeters => (Has(E, k, r) <=> Has(S, k, r))
        /\ NoGreeter(E[0])
    BY <1>2, LiesAll
  <2> HIDE DEF E
  <2>2. Same(S, E)
    BY <2>1 DEF Same
  <2>3. \A r : Greets(E, r) <=> Greets(S, r)
    BY <2>2, SameGreets
  <2>4. Calm(E[0])
    BY <2>1, CalmWithout
  <2>5. ASSUME NEW k \in Ios, NEW u \in Tasks, Lies(P, k, u) \/ Lies(E, k, u)
        PROVE  Proper(k, u, E, tl, so)
    <3>1. Proper(k, u, S, tl, so)
      BY <2>1, <2>5 DEF Placed
    <3>2. QED
      BY <2>3, <3>1 DEF Proper
  <2>6. Placed(P, E, tl, so)
    BY <2>4, <2>5 DEF Placed
  <2>7. QED
    BY <2>1, <2>2, <2>6 DEF E
<1>3. QED
  BY <1>1, <1>2

\* _do_stop, while nobody is greeted.
LEMMA TellStops ==
  ASSUME IInv, TellInv, NEW S, Sorted(S), Placed(posted, S, told, sopen), Same(stack, S), NoGreeter(S[0]),
         \A r : ~Greets(stack, r), DoStop(S)
  PROVE  /\ Placed(posted', stack', told, sopen) /\ Same(stack, stack')
         /\ \A r \in Sessions : NeverStarting(queue'[r])
<1>1. \A r \in Sessions : NeverStarting(queue[r]) /\ sstate[r] # "starting" /\ queue[r] \in Seq(Events)
  BY StartingGreets, TypesNow DEF TellInv
<1>2. CASE state \notin {"starting", "started"}
  <2>1. stack' = S /\ posted' = posted /\ queue' = queue
    BY <1>2 DEF DoStop
  <2>2. QED
    BY <1>1, <2>1
<1>3. CASE state \in {"starting", "started"}
  <2>1. /\ stack' = AddAll(S, Bodies)
        /\ posted' = IF holders' = {} THEN Post(AddAll(posted, Pushes), 0, Task("exec", NoSession, "-"))
                                       ELSE AddAll(posted, Pushes)
        /\ \A r \in Here : queue'[r] = Append(queue[r], sstate[r])
        /\ \A r \in Sessions \ Here : queue'[r] = queue[r]
    BY <1>3, DoStopIs
  <2>2. /\ Here \in SUBSET Sessions /\ Here \subseteq Stopped
        /\ Alone \subseteq Here /\ Alone \in SUBSET Sessions /\ Stopped \ Here \in SUBSET Sessions
        /\ Bodies \in [Alone -> HomeTasks] /\ Pushes \in [Stopped \ Here -> HomeTasks]
        /\ \A d \in Alone : Bodies[d] = Task("body", d, "-")
        /\ \A d \in Stopped \ Here : Pushes[d] = Task("push", d, sstate[d])
        /\ \A d \in Stopped : sstate[d] \in Events
    BY StopTasks
  <2>3. \A r \in Sessions : NeverStarting(queue'[r])
    <3>1. ASSUME NEW r \in Here
          PROVE  NeverStarting(queue'[r])
      <4>1. r \in Sessions /\ sstate[r] \in Events
        BY <2>2
      <4>2. QED
        BY <1>1, <2>1, <4>1, NeverMoves
    <3>2. QED
      BY <1>1, <2>1, <3>1
  <2>4. \A r : ~Greets(S, r)
    BY SameGreets
  <2>5. \A d \in Alone : Bodies[d].k \notin Greeters /\ Proper(Home[d], Bodies[d], S, told, sopen)
    <3>1. SUFFICES ASSUME NEW d \in Alone
                   PROVE  Bodies[d].k \notin Greeters /\ Proper(Home[d], Bodies[d], S, told, sopen)
      OBVIOUS
    <3>2. Bodies[d].k = "body" /\ Bodies[d].s = d
      BY <2>2, TaskParts
    <3>3. QED
      BY <2>4, <3>2, KindSets DEF Proper
  <2>6. \A d \in Stopped \ Here : Pushes[d].k \notin Greeters
    <3>1. SUFFICES ASSUME NEW d \in Stopped \ Here
                   PROVE  Pushes[d].k \notin Greeters
      OBVIOUS
    <3>2. Pushes[d].k = "push"
      BY <2>2, TaskParts
    <3>3. QED
      BY <3>2, KindSets
  <2>7. \A d \in Stopped \ Here : Proper(Home[d], Pushes[d], AddAll(S, Bodies), told, sopen)
    <3>1. Same(S, AddAll(S, Bodies))
      BY <2>2, <2>5, TypesNow, PlacedAll
    <3>2. \A r : ~Greets(AddAll(S, Bodies), r)
      BY <2>4, <3>1, SameGreets
    <3> DEFINE S2 == AddAll(S, Bodies)
    <3> HIDE DEF S2
    <3>3. SUFFICES ASSUME NEW d \in Stopped \ Here
                   PROVE  Proper(Home[d], Pushes[d], S2, told, sopen)
      BY DEF S2
    <3>4. Pushes[d].k = "push" /\ Pushes[d].s = d /\ Pushes[d].x = sstate[d] /\ sstate[d] # "starting"
      BY <1>1, <2>2, TaskParts
    <3>5. ~Greets(S2, d)
      BY <3>2 DEF S2
    <3>6. QED
      BY <3>4, <3>5 DEF Proper
  <2>8. Placed(posted, stack', told, sopen) /\ Same(S, stack') /\ Sorted(stack')
    <3>1. Placed(posted, AddAll(S, Bodies), told, sopen) /\ Same(S, AddAll(S, Bodies))
      BY <2>2, <2>5, TypesNow, PlacedAll
    <3>2. Sorted(AddAll(S, Bodies))
      BY <2>2, SortedAddAll
    <3>3. QED
      BY <2>1, <3>1, <3>2
  <2> DEFINE S2 == stack'
             P == AddAll(posted, Pushes)
  <2>9. Placed(P, S2, told, sopen) /\ Sorted(P)
    <3>1. \A d \in Stopped \ Here : Proper(Home[d], Pushes[d], S2, told, sopen)
      BY <2>1, <2>7
    <3>2. Placed(posted, S2, told, sopen) /\ Sorted(S2) /\ Sorted(posted)
      BY <2>8, TypesNow
    <3> HIDE DEF S2
    <3>3. QED
      BY <2>2, <2>6, <3>1, <3>2, PlacedAll, SortedAddAll
  <2> DEFINE e == Task("exec", NoSession, "-")
  <2>10. Placed(Post(P, 0, e), S2, told, sopen)
    <3>1. "exec" \in OwnKinds /\ "-" \in Args
      BY DEF OwnKinds, Args
    <3>2. e \in Allowed(0) /\ e.k \notin Greeters /\ 0 \in Ios
      BY <3>1, TaskTypes, TaskParts, OwnProper, IosFinite
    <3>3. Proper(0, e, S2, told, sopen)
      BY <3>1, OwnProper
    <3> HIDE DEF e, S2, P
    <3>4. QED
      BY <2>9, <3>2, <3>3, PlacedPost
  <2>11. Placed(posted', stack', told, sopen)
    BY <2>1, <2>9, <2>10
  <2>12. Same(stack, stack')
    BY <2>8, SameTwice
  <2>13. QED
    BY <2>3, <2>11, <2>12
<1>4. QED
  BY <1>2, <1>3

LEMMA TellRunStop ==
  ASSUME IInv, TellInv, RunStop \/ Start3
  PROVE  TellInv'
<1>1. PICK k \in {"stop", "start3"} : At(0, k)
  BY DEF RunStop, Start3
<1>2. UNCHANGED <<told, sopen, sessions, held>>
  BY DEF RunStop, Start3, serverVars, sessionVars, user
<1>3. /\ Sorted(posted) /\ Sorted(Below(0)) /\ Placed(posted, Below(0), told, sopen) /\ Same(stack, Below(0))
      /\ NoGreeter(Below(0)[0]) /\ \A r : ~Greets(stack, r)
      /\ \A r \in Sessions : NeverStarting(queue[r])
  BY <1>1, KindSets, TellOwn
<1>4. DoStop(Below(0)) \/ (stack' = Below(0) /\ UNCHANGED <<queue, posted>>)
  BY DEF RunStop, Start3
<1>5. /\ Placed(posted', stack', told, sopen) /\ Same(stack, stack')
      /\ \A r \in Sessions : NeverStarting(queue'[r])
  <2>1. CASE DoStop(Below(0))
    BY <1>3, <2>1, TellStops
  <2>2. CASE stack' = Below(0) /\ UNCHANGED <<queue, posted>>
    BY <1>3, <2>2
  <2>3. QED
    BY <1>4, <2>1, <2>2
<1>6. QED
  BY <1>2, <1>3, <1>5, OwnStep

LEMMA TellAcceptAgain ==
  ASSUME IInv, TellInv, AcceptAgain
  PROVE  TellInv'
<1>1. At(0, "again") /\ stack' = Below(0) /\ UNCHANGED <<told, sopen, sessions, held>> /\ posted' = posted /\ queue' = queue
  BY DEF AcceptAgain, user
<1>2. /\ Placed(posted, Below(0), told, sopen) /\ Same(stack, Below(0)) /\ \A r : ~Greets(stack, r)
      /\ \A r \in Sessions : NeverStarting(queue[r])
  BY <1>1, KindSets, TellOwn
<1>3. QED
  BY <1>1, <1>2, OwnStep

LEMMA TellHandleStop ==
  ASSUME IInv, TellInv, HandleStop
  PROVE  TellInv'
<1> DEFINE t == Task("accept", accepting, "aborted")
<1>1. /\ At(0, "exec2") /\ stack' = Below(0) /\ UNCHANGED <<told, sopen, sessions, held>> /\ queue' = queue
      /\ \/ posted' = posted
         \/ accepting # NoSession /\ posted' = Post(posted, 0, t)
  BY DEF HandleStop, sessionVars, user
<1>2. /\ Sorted(posted) /\ Placed(posted, Below(0), told, sopen) /\ Same(stack, Below(0)) /\ \A r : ~Greets(stack, r)
      /\ 0 \in Ios /\ \A r \in Sessions : NeverStarting(queue[r])
  BY <1>1, KindSets, TellOwn
<1>3. ASSUME accepting # NoSession
      PROVE  Placed(Post(posted, 0, t), Below(0), told, sopen)
  <2>1. accepting \in Sessions
    BY <1>3 DEF IInv, Typed, TypeOK
  <2>2. t \in Allowed(0) /\ t.k = "accept" /\ t.x # "ok"
    BY <2>1, TaskTypes, TaskParts DEF Args
  <2> HIDE DEF t
  <2>3. t.k \notin Greeters /\ Proper(0, t, Below(0), told, sopen)
    BY <2>2, KindSets DEF Proper
  <2>4. QED
    BY <1>2, <2>2, <2>3, PlacedPost
<1>4. Placed(posted', stack', told, sopen)
  BY <1>1, <1>2, <1>3
<1>5. QED
  BY <1>1, <1>2, <1>4, OwnStep

\* The threads of the application, and the pool.
LEMMA TellApplication ==
  ASSUME IInv, TellInv, AppStarts \/ AppStops \/ AppSends \/ Pool
  PROVE  TellInv'
<1>1. stack' = stack /\ UNCHANGED <<state, told, sopen, sessions, held>> /\ UNCHANGED <<sstate, queue, sops>>
  <2>1. CASE AppStarts
    BY <2>1 DEF AppStarts, serverVars, sessionVars
  <2>2. CASE AppStops
    BY <2>2 DEF AppStops, serverVars, sessionVars
  <2>3. CASE AppSends
    BY <2>3 DEF AppSends, serverVars, sessionVars
  <2>4. CASE Pool
    BY <2>4 DEF Pool, IoStops, AppStopped, serverVars, sessionVars, strands
  <2>5. QED
    BY <2>1, <2>2, <2>3, <2>4
<1>2. Placed(posted, stack, told, sopen) /\ Sorted(posted) /\ Sorted(stack)
  BY TypesNow DEF TellInv
<1>3. ASSUME NEW k \in {"start", "stop"}
      PROVE  Placed(Post(posted, 0, Task(k, NoSession, "-")), stack, told, sopen)
  <2> DEFINE t == Task(k, NoSession, "-")
  <2>1. k \in OwnKinds /\ "-" \in Args /\ 0 \in Ios
    BY IosFinite DEF OwnKinds, Args
  <2>2. t \in Allowed(0) /\ t.k \notin Greeters /\ Proper(0, t, stack, told, sopen)
    BY <2>1, TaskTypes, TaskParts, OwnProper
  <2> HIDE DEF t
  <2>3. Placed(Post(posted, 0, t), stack, told, sopen)
    BY <1>2, <2>1, <2>2, PlacedPost
  <2>4. QED
    BY <2>3 DEF t
<1>4. ASSUME AppSends
      PROVE  Placed(posted', stack, told, sopen)
  <2> DEFINE to == {s \in sessions : sstate[s] = "started" /\ s \in sopen}
             T == [s \in to |-> PushTask(s, "write")]
  <2>1. posted' = AddAll(posted, T) /\ to \in SUBSET Sessions /\ \A d \in to : d \in sessions
    BY <1>4, TypesNow DEF AppSends
  <2>2. \A d \in to : PushTask(d, "write") \in HomeTasks
    BY <2>1, TaskTypes DEF Events
  <2>3. T \in [to -> HomeTasks] /\ \A d \in to : T[d] = PushTask(d, "write")
    BY <2>2
  <2>4. ASSUME NEW d \in to
        PROVE  T[d].k \notin Greeters /\ Proper(Home[d], T[d], stack, told, sopen)
    <3>1. T[d].k = "push" /\ T[d].s = d /\ T[d].x = "write"
      BY <2>3, TaskParts DEF PushTask
    <3>2. ~Greets(stack, d)
      BY <2>1, StartingGreets
    <3>3. QED
      BY <3>1, <3>2, KindSets DEF Proper
  <2> HIDE DEF to, T
  <2>5. QED
    BY <1>2, <2>1, <2>3, <2>4, PlacedAll
<1>5. Placed(posted', stack', told, sopen)
  <2>1. CASE AppStarts
    BY <1>1, <1>3, <2>1 DEF AppStarts
  <2>2. CASE AppStops
    BY <1>1, <1>3, <2>2 DEF AppStops
  <2>3. CASE Pool
    BY <1>1, <1>2, <2>3 DEF Pool, IoStops, AppStopped, strands
  <2>4. QED
    BY <1>1, <1>4, <2>1, <2>2, <2>3
<1>6. Same(stack, stack') /\ held' = {} /\ \A r \in Sessions : NeverStarting(queue'[r])
  BY <1>1 DEF Same, TellInv
<1>7. QED
  BY <1>1, <1>5, <1>6, QuietStep

\* Nobody who is told of the connection of a session that is destroyed is waiting.
LEMMA TellDestroy ==
  ASSUME IInv, TellInv, NEW s \in Sessions, Destroy(s)
  PROVE  TellInv'
<1> DEFINE t == Task("exec", NoSession, "-")
<1>1. /\ s \in holders /\ ~Referenced(s) /\ sopen' = sopen \ {s} /\ stack' = stack
      /\ posted' = posted \/ posted' = Post(posted, 0, t)
      /\ UNCHANGED <<state, sessions, sstate, sops, queue, told, held>>
  BY DEF Destroy, Drop, user
<1>2. \A j \in DOMAIN stack[0] : stack[0][j].s # s
  BY <1>1, IosFinite DEF Referenced, ToSet
<1>3. ~Greets(stack, s) /\ ~Has(stack, "join", s)
  BY <1>2 DEF Greets, Has
<1>4. told[s] # "connected"
  <2>1. s \notin sessions
    BY <1>1 DEF Referenced
  <2>2. Noted(s, stack, told[s], sopen, sessions)
    BY DEF TellInv
  <2>3. QED
    BY <1>3, <2>1, <2>2 DEF Noted
<1>5. Placed(posted, stack, told, sopen \ {s})
  <2>1. \A i \in Ios, u \in Tasks : (Lies(posted, i, u) \/ Lies(stack, i, u)) /\ u.k = "accept" => u.s # s
    BY <1>1, Unknown
  <2>2. Placed(posted, stack, told, sopen)
    BY DEF TellInv
  <2>3. QED
    BY <2>1, <2>2, PlacedClosed
<1> DEFINE so == sopen \ {s}
<1>6. Placed(posted', stack', told', sopen')
  <2>1. "exec" \in OwnKinds /\ "-" \in Args
    BY DEF OwnKinds, Args
  <2>2. t \in Allowed(0) /\ t.k \notin Greeters /\ 0 \in Ios
    BY <2>1, TaskTypes, TaskParts, OwnProper, IosFinite
  <2>3. Proper(0, t, stack, told, so)
    BY <2>1, OwnProper
  <2> HIDE DEF t
  <2>4. Placed(posted, stack, told, so)
    BY <1>5
  <2> HIDE DEF so
  <2>5. Placed(Post(posted, 0, t), stack, told, so)
    BY <2>2, <2>3, <2>4, TypesNow, PlacedPost
  <2>6. QED
    BY <1>1, <2>4, <2>5 DEF so
<1>7. Same(stack, stack') /\ held' = {} /\ \A r \in Sessions : NeverStarting(queue'[r])
  BY <1>1 DEF Same, TellInv
<1>8. \A r \in Sessions : r # s => (r \in sopen => r \in sopen')
  BY <1>1
<1>9. \A r \in Sessions : Greets(stack, r) =>
           /\ state' = state /\ sstate'[r] = sstate[r] /\ queue'[r] = queue[r] /\ sops'[r] = sops[r]
           /\ r \in sopen => r \in sopen'
  BY <1>1, <1>3, <1>8
<1>10. \A r \in Sessions : told'[r] = "connected" =>
         told[r] = "connected" /\ (r \in sopen => r \in sopen') /\ (r \in sessions => r \in sessions')
  BY <1>1, <1>4, <1>8
<1>11. QED
  BY <1>6, <1>7, <1>9, <1>10, QuietStep

\* A step that greets session s on the stack, and nobody else.
LEMMA GreetStep ==
  ASSUME TellInv, UNCHANGED <<state, sopen, sessions, held, sops, queue>>, Placed(posted', stack', told', sopen'),
         NEW s \in Sessions, NEW k \in Greeters, \A c \in Greeters : \A r : Has(stack', c, r) <=> c = k /\ r = s,
         \A r \in Sessions : ~(r # s /\ Greets(stack, r)),
         \A r \in Sessions : r # s => told'[r] = told[r] /\ sstate'[r] = sstate[r],
         state = "started", s \in sopen, sops[s] = {}, queue[s] = <<>>,
         sstate'[s] = IF k = "session2" THEN "starting" ELSE "started",
         k = "join" \/ told'[s] # "connected"
  PROVE  TellInv'
<1>1. \A r : Greets(stack', r) <=> r = s
  BY DEF Greets
<1>2. ASSUME NEW r \in Sessions
      PROVE  /\ Secluded(r, state', stack', sstate'[r], queue'[r], sops'[r], sopen')
             /\ Noted(r, stack', told'[r], sopen', sessions') /\ NeverStarting(queue'[r])
  <2>1. /\ Noted(r, stack, told[r], sopen, sessions) /\ NeverStarting(queue[r])
    BY DEF TellInv
  <2>2. /\ Has(stack', "session2", r) <=> k = "session2" /\ r = s
        /\ Has(stack', "session3", r) <=> k = "session3" /\ r = s
        /\ Has(stack', "join", r) <=> k = "join" /\ r = s
    BY DEF Greeters
  <2>3. Secluded(r, state', stack', sstate'[r], queue'[r], sops'[r], sopen')
    BY <1>1, <2>2 DEF Secluded
  <2>4. Noted(r, stack', told'[r], sopen', sessions')
    <3>1. CASE r = s
      BY <2>2, <3>1 DEF Noted
    <3>2. CASE r # s
      <4>1. Has(stack, "join", r) => Greets(stack, r)
        BY DEF Greets, Greeters
      <4>2. QED
        BY <2>1, <3>2, <4>1 DEF Noted
    <3>3. QED
      BY <3>1, <3>2
  <2>5. QED
    BY <2>1, <2>3, <2>4
<1>3. QED
  BY <1>2 DEF TellInv

\* The session on top that is greeted, on a strand that greets nobody else.
LEMMA GreeterTop ==
  ASSUME IInv, TellInv, NEW k \in Greeters, At(0, k)
  PROVE  \E s \in Sessions, x \in Args :
           /\ Top(0) = Task(k, s, x) /\ Top(0).s = s
           /\ Sorted(posted) /\ Sorted(Below(0)) /\ Placed(posted, Below(0), told, sopen) /\ NoGreeter(Below(0)[0])
           /\ \A c \in Greeters : \A r : Has(stack, c, r) <=> c = k /\ r = s
           /\ \A i \in Ios, t \in Tasks : (Lies(posted, i, t) \/ Lies(Below(0), i, t)) /\ t.s = s => t.k \notin Others
           /\ state = "started" /\ s \in sopen /\ sops[s] = {} /\ queue[s] = <<>>
           /\ sstate[s] = IF k = "session2" THEN "starting" ELSE "started"
           /\ k # "join" => told[s] # "connected"
<1>1. 0 \in Ios /\ k \notin OwnKinds \cup {"user"} /\ k # "user" /\ k \in MapKinds /\ Sorted(stack) /\ ~Idle(0)
  <2>1. k \in MapKinds
    BY KindSets
  <2>2. k \notin OwnKinds \cup {"user"}
    BY DEF Greeters, OwnKinds
  <2>3. QED
    BY <2>1, <2>2, IosFinite, TypesNow DEF At
<1>2. PICK s \in Sessions, x \in Args : Top(0) = Task(k, s, x) /\ Top(0).s = s
  BY <1>1, HandlerOf
<1>3. /\ Sorted(posted) /\ Sorted(Below(0)) /\ Placed(posted, Below(0), told, sopen)
      /\ Top(0).k = k /\ NoGreeter(Below(0)[0])
  BY <1>1, TellTop
<1>4. /\ \A i \in Ios : \A u : Lies(stack, i, u) <=> Lies(Below(0), i, u) \/ (i = 0 /\ u = Top(0))
      /\ \A c, r : Has(stack, c, r) <=> Has(Below(0), c, r) \/ (0 = 0 /\ Top(0).k = c /\ Top(0).s = r)
  BY <1>1, LiesBelow
<1>5. \A c \in Greeters : \A r : Has(stack, c, r) <=> c = k /\ r = s
  BY <1>2, <1>3, <1>4, Ungreeted
<1>6. Greets(stack, s) /\ Has(stack, k, s)
  BY <1>5 DEF Greets
<1>7. \A i \in Ios, t \in Tasks : (Lies(posted, i, t) \/ Lies(Below(0), i, t)) /\ t.s = s => t.k \notin Others
  BY <1>4, <1>6 DEF TellInv, Placed, Proper
<1>8. Secluded(s, state, stack, sstate[s], queue[s], sops[s], sopen)
  BY DEF TellInv
<1>9. state = "started" /\ s \in sopen /\ sops[s] = {} /\ queue[s] = <<>>
  BY <1>6, <1>8 DEF Secluded
<1>10. sstate[s] = IF k = "session2" THEN "starting" ELSE "started"
  BY <1>6, <1>8 DEF Secluded, Greeters
<1>11. k # "join" => told[s] # "connected"
  <2>1. /\ Greeted(Census(s, posted, stack), s, sstate[s], sessions, told[s])
    BY GreetedNow
  <2>2. PICK j \in DOMAIN stack[0] : stack[0][j].k = k /\ stack[0][j].s = s
    BY <1>6 DEF Has
  <2>3. PICK c \in {"begins", "connects", "joins"} :
          k \in KindsOf(c) /\ c \in Classes /\ c # "pushes" /\ (k # "join" => c # "joins")
    <3>1. /\ "session2" \in KindsOf("begins") /\ "session3" \in KindsOf("connects") /\ "join" \in KindsOf("joins")
          /\ "begins" \in Classes /\ "connects" \in Classes /\ "joins" \in Classes
      BY DEF KindsOf, Classes
    <3>2. QED
      BY <3>1 DEF Greeters
  <2>4. Bit(c, stack[0][j].s, stack[0][j]) = 1
    BY <2>2, <2>3 DEF Bit
  <2>5. Census(s, posted, stack)[c] > 0
    BY <1>1, <1>3, <2>2, <2>3, <2>4, Counts
  <2>6. QED
    BY <2>1, <2>3, <2>5 DEF Greeted
<1>12. QED
  BY <1>2, <1>3, <1>5, <1>7, <1>9, <1>10, <1>11

\* A session that nobody else has a task of is greeted, with the callback it calls.
LEMMA TellGreets ==
  ASSUME NEW P, Sorted(P), NEW S, Sorted(S), NEW k \in Greeters, NEW s \in Sessions, NEW tl, NEW so, Placed(P, S, tl, so),
         NoGreeter(S[0]),
         \A i \in Ios, t \in Tasks : (Lies(P, i, t) \/ Lies(S, i, t)) /\ t.s = s => t.k \notin Others
  PROVE  LET S2 == Call(S, 0, Task(k, s, "-"))
             S3 == Call(S2, 0, Task("user", s, "-"))
         IN /\ Placed(P, S2, tl, so) /\ \A c \in Greeters : \A r : Has(S2, c, r) <=> c = k /\ r = s
            /\ Placed(P, S3, tl, so) /\ \A c \in Greeters : \A r : Has(S3, c, r) <=> c = k /\ r = s
<1> DEFINE S2 == Call(S, 0, Task(k, s, "-"))
           u == Task("user", s, "-")
<1>1. /\ Placed(P, S2, tl, so) /\ Sorted(S2) /\ \A c \in Greeters : \A r : Has(S2, c, r) <=> c = k /\ r = s
  <2>1. /\ Placed(P, Call(S, 0, Task(k, s, "-")), tl, so)
        /\ Sorted(Call(S, 0, Task(k, s, "-")))
        /\ Only(Call(S, 0, Task(k, s, "-")), k, s)
    BY PlacedGreeter
  <2>2. QED
    BY <2>1 DEF Only
<1>2. 0 \in Ios /\ u \in Allowed(0) /\ u.k = "user"
  BY IosFinite, TaskTypes, TaskParts DEF User
<1> HIDE DEF S2, u
<1>3. u.k \notin Greeters /\ Proper(0, u, S2, tl, so)
  BY <1>2, KindSets DEF Proper
<1>4. /\ Placed(P, Call(S2, 0, u), tl, so)
      /\ \A c \in Greeters : \A r : Has(Call(S2, 0, u), c, r) <=> Has(S2, c, r)
  BY <1>1, <1>2, <1>3, PlacedCall
<1>5. QED
  BY <1>1, <1>4 DEF S2, u

LEMMA TellSession2 ==
  ASSUME IInv, TellInv, Session2
  PROVE  TellInv'
<1>1. At(0, "session2") /\ "session2" \in Greeters /\ "session3" \in Greeters
  BY DEF Session2, Greeters
<1>2. PICK s \in Sessions, x \in Args :
           /\ Top(0) = Task("session2", s, x) /\ Top(0).s = s
           /\ Sorted(posted) /\ Sorted(Below(0)) /\ Placed(posted, Below(0), told, sopen) /\ NoGreeter(Below(0)[0])
           /\ \A c \in Greeters : \A r : Has(stack, c, r) <=> c = "session2" /\ r = s
           /\ \A i \in Ios, t \in Tasks : (Lies(posted, i, t) \/ Lies(Below(0), i, t)) /\ t.s = s => t.k \notin Others
           /\ state = "started" /\ s \in sopen /\ sops[s] = {} /\ queue[s] = <<>>
           /\ sstate[s] = "starting" /\ told[s] # "connected"
  BY <1>1, GreeterTop
<1> DEFINE S2 == Call(Below(0), 0, Task("session3", s, "-"))
<1>3. /\ sstate' = [sstate EXCEPT ![s] = "started"] /\ stack' = S2 /\ posted' = posted
      /\ UNCHANGED <<state, sopen, sessions, held, sops, queue, told>>
  BY <1>2 DEF Session2, serverVars, user
<1>4. Placed(posted, S2, told, sopen) /\ \A c \in Greeters : \A r : Has(S2, c, r) <=> c = "session3" /\ r = s
  <2> DEFINE B == Below(0)
             k == "session3"
  <2>1. /\ Sorted(posted) /\ Sorted(B) /\ Placed(posted, B, told, sopen) /\ NoGreeter(B[0]) /\ k \in Greeters
        /\ \A i \in Ios, t \in Tasks : (Lies(posted, i, t) \/ Lies(B, i, t)) /\ t.s = s => t.k \notin Others
    BY <1>1, <1>2
  <2> HIDE DEF B, k
  <2>2. LET S == Call(B, 0, Task(k, s, "-"))
        IN Placed(posted, S, told, sopen) /\ \A c \in Greeters : \A r : Has(S, c, r) <=> c = k /\ r = s
    BY <2>1, TellGreets
  <2>3. QED
    BY <2>2 DEF B, k
<1> HIDE DEF S2
<1>5. Placed(posted', stack', told', sopen') /\ \A c \in Greeters : \A r : Has(stack', c, r) <=> c = "session3" /\ r = s
  BY <1>3, <1>4
<1>6. sstate'[s] = "started" /\ \A r \in Sessions : r # s => sstate'[r] = sstate[r] /\ told'[r] = told[r]
  BY <1>3, TypesNow
<1>7. \A r \in Sessions : ~(r # s /\ Greets(stack, r))
  BY <1>2 DEF Greets
<1> DEFINE k == "session3"
<1>8. k \in Greeters /\ sstate'[s] = (IF k = "session2" THEN "starting" ELSE "started")
      /\ \A c \in Greeters : \A r : Has(stack', c, r) <=> c = k /\ r = s
  BY <1>1, <1>5, <1>6
<1>9. QED
  BY <1>2, <1>3, <1>5, <1>6, <1>7, <1>8, GreetStep

LEMMA TellSession3 ==
  ASSUME IInv, TellInv, Session3
  PROVE  TellInv'
<1>1. At(0, "session3") /\ "session3" \in Greeters /\ "join" \in Greeters
  BY DEF Session3, Greeters
<1>2. PICK s \in Sessions, x \in Args :
           /\ Top(0) = Task("session3", s, x) /\ Top(0).s = s
           /\ Sorted(posted) /\ Sorted(Below(0)) /\ Placed(posted, Below(0), told, sopen) /\ NoGreeter(Below(0)[0])
           /\ \A c \in Greeters : \A r : Has(stack, c, r) <=> c = "session3" /\ r = s
           /\ \A i \in Ios, t \in Tasks : (Lies(posted, i, t) \/ Lies(Below(0), i, t)) /\ t.s = s => t.k \notin Others
           /\ state = "started" /\ s \in sopen /\ sops[s] = {} /\ queue[s] = <<>>
           /\ sstate[s] = "started" /\ told[s] # "connected"
  <2> DEFINE k == "session3"
  <2>1. k \in Greeters /\ At(0, k) /\ k # "session2" /\ k # "join"
    BY <1>1
  <2> HIDE DEF k
  <2>2. PICK s \in Sessions, x \in Args :
           /\ Top(0) = Task(k, s, x) /\ Top(0).s = s
           /\ Sorted(posted) /\ Sorted(Below(0)) /\ Placed(posted, Below(0), told, sopen) /\ NoGreeter(Below(0)[0])
           /\ \A c \in Greeters : \A r : Has(stack, c, r) <=> c = k /\ r = s
           /\ \A i \in Ios, t \in Tasks : (Lies(posted, i, t) \/ Lies(Below(0), i, t)) /\ t.s = s => t.k \notin Others
           /\ state = "started" /\ s \in sopen /\ sops[s] = {} /\ queue[s] = <<>>
           /\ sstate[s] = "started" /\ told[s] # "connected"
    BY <2>1, GreeterTop
  <2>3. QED
    BY <2>2 DEF k
<1> DEFINE S3 == Call(Call(Below(0), 0, Task("join", s, "-")), 0, Task("user", s, "-"))
           tl == told'
           B == Below(0)
<1>3. /\ told' = [told EXCEPT ![s] = "connected"] /\ stack' = S3 /\ posted' = posted
      /\ UNCHANGED <<state, sopen, sessions, held, sstate, sops, queue>>
  BY <1>2 DEF Session3, User, serverVars, sessionVars
<1>4. \A r : r \in Sessions /\ r # s => tl[r] = told[r]
  BY <1>3, TypesNow
<1> HIDE DEF tl
<1>5. Placed(posted, B, tl, sopen)
  <2>1. ASSUME NEW j \in Ios, NEW u \in Tasks, Lies(posted, j, u) \/ Lies(B, j, u)
        PROVE  Proper(j, u, B, tl, sopen)
    <3>1. Proper(j, u, B, told, sopen)
      BY <1>2, <2>1 DEF Placed
    <3>2. u.k \in {"erase2", "close"} => u.s # s /\ u.s \in Sessions
      <4>1. u \in Allowed(j)
        <5>1. posted[j] \in Seq(Allowed(j)) /\ B[j] \in Seq(Allowed(j))
          BY <1>2, SortedAt
        <5>2. QED
          BY <2>1, <5>1 DEF Lies
      <4>2. "erase2" \notin OwnKinds \cup {"user"} /\ "close" \notin OwnKinds \cup {"user"}
        BY DEF OwnKinds
      <4>3. QED
        BY <1>2, <2>1, <4>1, <4>2, AllowedIs, KindSets
    <3>3. QED
      BY <1>4, <3>1, <3>2 DEF Proper
  <2>2. QED
    BY <1>2, <2>1 DEF Placed
<1>6. /\ Sorted(posted) /\ Sorted(B) /\ NoGreeter(B[0])
      /\ \A i \in Ios, t \in Tasks : (Lies(posted, i, t) \/ Lies(B, i, t)) /\ t.s = s => t.k \notin Others
  BY <1>2
<1>7. S3 = Call(Call(B, 0, Task("join", s, "-")), 0, Task("user", s, "-"))
  OBVIOUS
<1> HIDE DEF S3, B
<1>8. Placed(posted, S3, tl, sopen) /\ \A c \in Greeters : \A r : Has(S3, c, r) <=> c = "join" /\ r = s
  BY <1>1, <1>5, <1>6, <1>7, TellGreets
<1>9. Placed(posted', stack', told', sopen') /\ \A c \in Greeters : \A r : Has(stack', c, r) <=> c = "join" /\ r = s
  BY <1>3, <1>8 DEF tl
<1>10. \A r \in Sessions : r # s => sstate'[r] = sstate[r] /\ told'[r] = told[r]
  BY <1>3, <1>4 DEF tl
<1>11. \A r \in Sessions : ~(r # s /\ Greets(stack, r))
  BY <1>2 DEF Greets
<1> DEFINE k == "join"
<1>12. k \in Greeters /\ sstate'[s] = (IF k = "session2" THEN "starting" ELSE "started")
      /\ \A c \in Greeters : \A r : Has(stack', c, r) <=> c = k /\ r = s
  BY <1>1, <1>2, <1>3, <1>9
<1>13. QED
  BY <1>2, <1>3, <1>9, <1>10, <1>11, <1>12, GreetStep

\* The session that was greeted is in the map now.
LEMMA TellJoin ==
  ASSUME IInv, TellInv, JoinSession
  PROVE  TellInv'
<1>1. At(0, "join") /\ "join" \in Greeters /\ 0 \in Ios
  BY IosFinite DEF JoinSession, Greeters
<1>2. PICK s \in Sessions, x \in Args :
           /\ Top(0) = Task("join", s, x) /\ Top(0).s = s
           /\ Sorted(posted) /\ Sorted(Below(0)) /\ Placed(posted, Below(0), told, sopen) /\ NoGreeter(Below(0)[0])
           /\ \A c \in Greeters : \A r : Has(stack, c, r) <=> c = "join" /\ r = s
           /\ state = "started" /\ sstate[s] = "started"
  BY <1>1, GreeterTop
<1> DEFINE t == Task("recv1", s, "-")
           B == Below(0)
<1>3. /\ sessions' = sessions \cup {s} /\ UNCHANGED <<state, told, sopen, held, sstate, sops, queue>>
      /\ \/ Home[s] = 0 /\ stack' = Call(B, 0, t) /\ posted' = posted
         \/ stack' = B /\ posted' = Post(posted, Home[s], t)
  BY <1>2 DEF JoinSession, serverVars, user
<1>4. Home[s] \in Ios /\ t \in Allowed(Home[s]) /\ t.k = "recv1" /\ t.s = s
  <2>1. "recv1" \in HomeKinds \ {"push"} /\ "-" \in Args
    BY DEF HomeKinds, Args
  <2>2. QED
    BY <2>1, IosFinite, TaskTypes, TaskParts
<1>5. /\ Sorted(posted) /\ Sorted(B) /\ Placed(posted, B, told, sopen) /\ NoGreeter(B[0])
  BY <1>2
<1> HIDE DEF t, B
<1>6. \A r : ~Greets(B, r)
  BY <1>5, Ungreeted DEF Greets
<1>7. t.k \notin Greeters /\ Proper(Home[s], t, B, told, sopen)
  BY <1>4, <1>6, KindSets DEF Proper
<1>8. Placed(posted', stack', told', sopen') /\ NoGreeter(stack'[0])
  <2>1. CASE Home[s] = 0 /\ stack' = Call(B, 0, t) /\ posted' = posted
    <3>1. Placed(posted, Call(B, 0, t), told, sopen) /\ NoGreeter(Call(B, 0, t)[0])
      BY <1>1, <1>4, <1>5, <1>7, <2>1, PlacedCall
    <3>2. QED
      BY <1>3, <2>1, <3>1
  <2>2. CASE stack' = B /\ posted' = Post(posted, Home[s], t)
    <3>1. Placed(Post(posted, Home[s], t), B, told, sopen)
      BY <1>4, <1>5, <1>7, PlacedPost
    <3>2. QED
      BY <1>3, <1>5, <2>2, <3>1
  <2>3. QED
    BY <1>3, <2>1, <2>2
<1>9. \A k \in Greeters : \A r : ~Has(stack', k, r)
  BY <1>8, Ungreeted
<1>10. ASSUME NEW r \in Sessions
       PROVE  /\ Secluded(r, state', stack', sstate'[r], queue'[r], sops'[r], sopen')
              /\ Noted(r, stack', told'[r], sopen', sessions') /\ NeverStarting(queue'[r])
  <2>1. /\ Noted(r, stack, told[r], sopen, sessions) /\ NeverStarting(queue[r])
    BY DEF TellInv
  <2>2. ~Greets(stack', r) /\ ~Has(stack', "session2", r) /\ ~Has(stack', "session3", r) /\ ~Has(stack', "join", r)
    BY <1>9 DEF Greets, Greeters
  <2>3. Has(stack, "join", r) => r = s
    BY <1>1, <1>2
  <2>4. QED
    BY <1>3, <2>1, <2>2, <2>3 DEF Secluded, Noted
<1>11. held' = {}
  BY <1>3 DEF TellInv
<1>12. QED
  BY <1>8, <1>10, <1>11 DEF TellInv

\* A connection is accepted: its session is greeted; or it is closed again.
LEMMA TellHandleAccept ==
  ASSUME IInv, TellInv, HandleAccept
  PROVE  TellInv'
<1>1. At(0, "accept") /\ "accept" \notin OwnKinds \cup {"user"} /\ "accept" \notin Greeters \cup {"user"}
      /\ 0 \in Ios
  BY IosFinite, KindSets DEF HandleAccept, OwnKinds
<1>2. PICK s \in Sessions, x \in Args : Top(0) = Task("accept", s, x) /\ Top(0).s = s /\ Top(0).x = x
  BY <1>1, HandlerOf
<1> DEFINE B == Below(0)
           a == Task("again", s, "-")
           S1 == Call(B, 0, a)
<1>3. /\ UNCHANGED <<state, sessions, told, held, sops, queue, posted>>
  BY DEF HandleAccept, user
<1>4. /\ Sorted(posted) /\ Sorted(B) /\ Placed(posted, B, told, sopen) /\ Same(stack, B)
      /\ NoGreeter(B[0]) /\ \A r : ~Greets(stack, r)
      /\ Top(0).k = "accept" /\ Proper(0, Top(0), stack, told, sopen)
      /\ held = {} /\ \A r \in Sessions : NeverStarting(queue[r])
  BY <1>1, TellOwn
<1>5. a \in Allowed(0) /\ a.k = "again" /\ a.k \notin Greeters /\ Proper(0, a, B, told, sopen)
  <2>1. "-" \in Args /\ "again" \in MapKinds \cup {"accept", "again"} /\ "again" \in OwnKinds \cup {"again"}
    BY DEF Args, MapKinds
  <2>2. a \in Allowed(0)
    BY <2>1, TaskTypes
  <2>3. Proper(0, a, B, told, sopen) /\ "again" \notin Greeters
    BY <2>1, OwnProper
  <2>4. QED
    BY <2>2, <2>3, TaskParts
<1>6. s \notin holders /\ told[s] = "none"
  <2>1. Lies(stack, 0, Top(0)) /\ Top(0) \in Tasks
    <3>1. ~Idle(0) /\ Sorted(stack)
      BY <1>1, TypesNow DEF At
    <3>2. QED
      BY <1>1, <3>1, LiesBelow, SortedBelow
  <2>2. QED
    BY <1>1, <1>2, <1>4, <2>1, Unknown
<1>7. /\ sops[s] = {} /\ queue[s] = <<>>
      /\ \A i \in Ios, t \in Tasks : (Lies(posted, i, t) \/ Lies(stack, i, t)) /\ t.s = s => t.k \notin Others
  BY <1>6, Unknown
<1>8. \A k \in Ios : \A u : Lies(B, k, u) => Lies(stack, k, u)
  BY <1>1, LiesBelow, TypesNow DEF At
<1> HIDE DEF a, B
<1>9. /\ Placed(posted, S1, told, sopen) /\ Sorted(S1) /\ Same(B, S1) /\ NoGreeter(S1[0])
      /\ \A k \in Ios : \A u : Lies(S1, k, u) <=> Lies(B, k, u) \/ (k = 0 /\ u = a)
  <2>1. /\ Placed(posted, S1, told, sopen)
        /\ \A c \in Greeters : \A r : Has(S1, c, r) <=> Has(B, c, r)
        /\ NoGreeter(S1[0])
    BY <1>1, <1>4, <1>5, PlacedCall
  <2>2. \A k \in Ios : \A u : Lies(S1, k, u) <=> Lies(B, k, u) \/ (k = 0 /\ u = a)
    BY <1>1, <1>4, <1>5, LiesAdded
  <2>3. Sorted(S1)
    BY <1>1, <1>4, <1>5, SortedPost
  <2>4. QED
    BY <2>1, <2>2, <2>3 DEF Same
<1>10. Same(stack, S1)
  BY <1>4, <1>9, SameTwice
<1>11. CASE x = "ok" /\ state = "started" /\ acceptor
  <2> DEFINE k == "session2"
             S2 == Call(S1, 0, Task(k, s, "-"))
             S3 == Call(S2, 0, Task("user", s, "-"))
  <2>1. /\ sstate' = [sstate EXCEPT ![s] = "starting"] /\ stack' = S3 /\ sopen' = sopen
    BY <1>2, <1>11 DEF HandleAccept, User, a, B
  <2>2. s \in sopen
    BY <1>2, <1>4, <1>11 DEF Proper
  <2>3. k \in Greeters /\ "again" \notin Others
    BY KindSets DEF Greeters
  <2>4. \A i \in Ios, t \in Tasks : (Lies(posted, i, t) \/ Lies(S1, i, t)) /\ t.s = s => t.k \notin Others
    BY <1>5, <1>7, <1>8, <1>9, <2>3
  <2> HIDE DEF k, S1
  <2>5. Placed(posted, S3, told, sopen) /\ \A c \in Greeters : \A r : Has(S3, c, r) <=> c = k /\ r = s
    BY <1>4, <1>9, <2>3, <2>4, TellGreets
  <2> HIDE DEF S2, S3
  <2>6. Placed(posted', stack', told', sopen') /\ \A c \in Greeters : \A r : Has(stack', c, r) <=> c = k /\ r = s
    BY <1>3, <2>1, <2>5
  <2>7. sstate'[s] = "starting" /\ \A r \in Sessions : r # s => sstate'[r] = sstate[r] /\ told'[r] = told[r]
    BY <1>3, <2>1, TypesNow
  <2>8. sstate'[s] = (IF k = "session2" THEN "starting" ELSE "started")
    BY <2>7 DEF k
  <2>9. \A r \in Sessions : ~(r # s /\ Greets(stack, r))
    BY <1>4
  <2>10. k = "join" \/ told'[s] # "connected"
    BY <1>3, <1>6
  <2>11. UNCHANGED <<state, sopen, sessions, held, sops, queue>> /\ state = "started"
    BY <1>3, <1>11, <2>1
  <2>12. QED
    BY <1>7, <2>2, <2>3, <2>6, <2>7, <2>8, <2>9, <2>10, <2>11, GreetStep
<1>12. CASE ~(x = "ok" /\ state = "started" /\ acceptor)
  <2>1. (stack' = B \/ stack' = S1) /\ sopen' = sopen \ {s} /\ sstate' = sstate
    BY <1>2, <1>12 DEF HandleAccept, a, B
  <2>2. \A i \in Ios, u \in Tasks : (Lies(posted, i, u) \/ Lies(B, i, u)) /\ u.k = "accept" => u.s # s
    <3>1. /\ \A c \in Classes : Census(s, posted, Below(0))[c] = Census(s, posted, stack)[c]
               - (IF "accept" \in KindsOf(c) /\ (c = "pushes" => x \in Disconnect) THEN 1 ELSE 0)
      BY <1>1, <1>2, Popped
    <3>2. "accepts" \in Classes /\ "accept" \in KindsOf("accepts") /\ "accepts" # "pushes"
      BY DEF Classes, KindsOf
    <3>3. Census(s, posted, Below(0)) \in Censuses /\ Census(s, posted, stack) \in Censuses
      BY <1>1, CensusTop
    <3>4. Census(s, posted, Below(0))["accepts"] \in Nat /\ Census(s, posted, stack)["accepts"] \in Nat
      BY <3>3, CensusNat
    <3>5. Census(s, posted, stack)["accepts"] + (IF accepting = s THEN 1 ELSE 0) <= 1
      BY DEF IInv, Fine, SessionOK, Accepted
    <3>6. Census(s, posted, Below(0))["accepts"] = Census(s, posted, stack)["accepts"] - 1
      BY <3>1, <3>2
    <3>7. Census(s, posted, Below(0))["accepts"] = 0
      BY <3>4, <3>5, <3>6
    <3>8. Census(s, posted, B)["accepts"] = 0
      BY <3>7 DEF B
    <3>9. QED
      BY <1>4, <3>2, <3>8, NoneLies
  <2>3. \A i \in Ios, u \in Tasks : (Lies(posted, i, u) \/ Lies(S1, i, u)) /\ u.k = "accept" => u.s # s
    BY <1>5, <1>9, <2>2
  <2> DEFINE so == sopen \ {s}
  <2>4. Placed(posted, B, told, so) /\ Placed(posted, S1, told, so)
    BY <1>4, <1>9, <2>2, <2>3, PlacedClosed
  <2>5. Placed(posted', stack', told', sopen') /\ Same(stack, stack') /\ held' = {}
    BY <1>3, <1>4, <1>10, <2>1, <2>4
  <2>6. \A r \in Sessions : told'[r] = "connected" =>
          told[r] = "connected" /\ (r \in sopen => r \in sopen') /\ (r \in sessions => r \in sessions')
    BY <1>3, <1>6, <2>1
  <2>7. \A r \in Sessions : NeverStarting(queue'[r])
    BY <1>3, <1>4
  <2>8. QED
    BY <1>4, <2>5, <2>6, <2>7, QuietStep
<1>13. QED
  BY <1>11, <1>12

LEMMA TellInit ==
  ASSUME Init
  PROVE  TellInv
<1>1. /\ posted = [i \in Ios |-> <<>>] /\ stack = [i \in Ios |-> <<>>] /\ held = {} /\ 0 \in Ios
      /\ \A r \in Sessions : queue[r] = <<>> /\ told[r] = "none"
  BY IosFinite DEF Init
<1>2. \A i \in Ios : DOMAIN posted[i] = {} /\ DOMAIN stack[i] = {}
  BY <1>1
<1>3. \A r : ~Greets(stack, r) /\ \A k : ~Has(stack, k, r)
  BY <1>1, <1>2 DEF Greets, Has
<1>4. Placed(posted, stack, told, sopen)
  BY <1>1, <1>2 DEF Placed, Calm, Lies
<1>5. QED
  BY <1>1, <1>3, <1>4 DEF TellInv, Secluded, Noted, NeverStarting

LEMMA TellStep ==
  ASSUME CallbackCalls = {}, IInv, TellInv, [Next]_vars
  PROVE  TellInv'
<1>1. ASSUME NEW i \in Ios, StrandStep(i)
      PROVE  TellInv'
  <2>1. CASE RunNext(i)
    BY <2>1, TellRunNext
  <2>2. CASE SessionTask(i)
    BY <2>2, TellRunPush, TellEventBody, TellDisc, TellHandleDisconnect, TellStartRecv, TellHandleRecv,
       TellHandleSend, TellSilence DEF SessionTask
  <2>3. CASE CallbackReturns(i)
    BY <2>3, TellReturns
  <2>4. CASE ServerTask
    BY <2>4, TellStart, TellRunStop, TellHandleAccept, TellAcceptAgain, TellSession2, TellSession3, TellJoin,
       TellHandleStop, TellErase, TellErase2 DEF ServerTask
  <2>5. QED
    BY <1>1, <2>1, <2>2, <2>3, <2>4 DEF StrandStep
<1>2. ASSUME Next, Forgotten # {}
      PROVE  TellInv'
  <2>1. PICK s \in Forgotten : Destroy(s)
    BY <1>2 DEF Next
  <2>2. s \in Sessions
    BY <2>1 DEF Forgotten, IInv, Typed, TypeOK
  <2>3. QED
    BY <2>1, <2>2, TellDestroy
<1>3. ASSUME Calls
      PROVE  TellInv'
  <2>1. held = {}
    BY DEF TellInv
  <2>2. AppStarts \/ AppStops \/ AppSends
    BY <1>3, <2>1 DEF Calls, CallbackStopsServer, CallbackStopsSession, CallbackKeeps, InCallback, HolderStops
  <2>3. QED
    BY <2>2, TellApplication
<1>4. ASSUME World
      PROVE  TellInv'
  <2>1. ASSUME NEW s \in Sessions, NEW o \in Operations, NEW ec \in Results, Ends(s, o, ec)
        PROVE  TellInv'
    BY <2>1, TellEnds
  <2>2. ASSUME NEW s \in Sessions, RecvEnds(s) \/ WriteEnds(s) \/ SilenceEnds(s)
        PROVE  TellInv'
    BY <2>1, <2>2 DEF RecvEnds, WriteEnds, SilenceEnds, Operations, Results
  <2>3. QED
    BY <1>4, <2>2, TellAcceptEnds DEF World
<1>5. ASSUME Pool
      PROVE  TellInv'
  BY <1>5, TellApplication
<1>6. ASSUME NEW s \in Sessions, HolderDrops(s)
      PROVE  TellInv'
  BY <1>6 DEF TellInv, HolderDrops
<1>7. ASSUME Next
      PROVE  TellInv'
  BY <1>1, <1>2, <1>3, <1>4, <1>5, <1>6, <1>7 DEF Next
<1>8. ASSUME UNCHANGED vars
      PROVE  TellInv'
  <2>1. /\ UNCHANGED <<state, told, sopen, sessions, held>> /\ UNCHANGED <<sstate, queue, sops>>
        /\ UNCHANGED <<posted, stack>>
    BY <1>8 DEF vars, serverVars, sessionVars, strands
  <2>2. QED
    BY <2>1 DEF TellInv
<1>9. QED
  BY <1>7, <1>8

\* While callbacks call nothing of the server or the session, whoever was told
\* that a session connected has been told that it is lost by the time it is
\* closed (tcp_server.hpp:224).  With such calls it is not so: a server stopped
\* in a callback disconnects a session that is not in the map yet.
THEOREM ToldOfDisconnect == CallbackCalls = {} => (Spec => []DisconnectTold)
<1>1. SUFFICES ASSUME CallbackCalls = {}
               PROVE  Spec => []DisconnectTold
  OBVIOUS
<1>2. Init => TellInv
  BY TellInit
<1>3. IInv /\ TellInv /\ [Next]_vars => TellInv'
  BY <1>1, TellStep
<1>4. TellInv => DisconnectTold
  BY DEF TellInv, Noted, DisconnectTold
<1>5. QED
  BY <1>2, <1>3, <1>4, Inductive, PTL DEF Spec
=============================================================================
