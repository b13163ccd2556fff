---------------------------- MODULE RdcCall_proofs ----------------------------
(***************************************************************************)
(* Proofs about RdcCall, for every set of ids the parser may find and any  *)
(* number of calls and of connections: its type invariant; that no call is *)
(* answered twice; and that a response to another call goes to a call only *)
(* after one of the same id timed out.                                     *)
(***************************************************************************)
EXTENDS RdcCall, SequenceTheorems, WellFoundedInduction, TLAPS

-----------------------------------------------------------------------------
(* What is in a sequence.                                                  *)

Has(q, c) == \E i \in DOMAIN q : q[i] = c
Once(q, c) == \A i, j \in DOMAIN q : q[i] = c /\ q[j] = c => i = j

\* Every x of the sequence has a y in front of it.
Before(q, y, x) == \A j \in DOMAIN q : q[j] = x => \E i \in 1 .. j - 1 : q[i] = y

LEMMA Elements ==
  ASSUME NEW S, NEW q \in Seq(S)
  PROVE  /\ DOMAIN q = 1 .. Len(q) /\ Len(q) \in Nat
         /\ \A i \in DOMAIN q : q[i] \in S
         /\ q # <<>> => 1 \in DOMAIN q /\ Head(q) = q[1]
BY LenProperties, ElementOfSeq, EmptySeq

LEMMA HasNone == \A c, y, x : ~Has(<<>>, c) /\ Once(<<>>, c) /\ Before(<<>>, y, x)
BY DEF Has, Once, Before

LEMMA InAppend ==
  ASSUME NEW S, NEW q \in Seq(S), NEW x \in S, NEW c
  PROVE  /\ Has(Append(q, x), c) <=> Has(q, c) \/ x = c
         /\ Once(Append(q, x), c) <=> Once(q, c) /\ (x = c => ~Has(q, c))
<1> DEFINE r == Append(q, x)
           n == Len(q)
<1>1. /\ n \in Nat /\ DOMAIN q = 1 .. n /\ DOMAIN r = 1 .. n + 1 /\ r[n + 1] = x
      /\ \A i \in 1 .. n : r[i] = q[i]
  BY AppendProperties, LenProperties
<1> HIDE DEF r, n
<1>2. Has(r, c) <=> Has(q, c) \/ x = c
  BY <1>1 DEF Has
<1>3. Once(r, c) <=> Once(q, c) /\ (x = c => ~Has(q, c))
  BY <1>1 DEF Has, Once
<1>4. QED
  BY <1>2, <1>3 DEF r

LEMMA InTail ==
  ASSUME NEW S, NEW q \in Seq(S), q # <<>>, NEW c
  PROVE  /\ Has(q, c) <=> Head(q) = c \/ Has(Tail(q), c)
         /\ Once(q, c) <=> Once(Tail(q), c) /\ (Head(q) = c => ~Has(Tail(q), c))
<1> DEFINE r == Tail(q)
           n == Len(r)
<1>1. /\ n \in Nat /\ DOMAIN q = 1 .. n + 1 /\ DOMAIN r = 1 .. n /\ q[1] = Head(q)
      /\ \A i \in 1 .. n : r[i] = q[i + 1]
  <2>1. /\ r \in Seq(S) /\ Len(r) = Len(q) - 1 /\ \A i \in 1 .. Len(q) - 1 : r[i] = q[i + 1]
        /\ Len(q) \in Nat /\ DOMAIN q = 1 .. Len(q) /\ q[1] = Head(q)
    BY HeadTailProperties, Elements
  <2>2. DOMAIN r = 1 .. Len(r) /\ Len(r) \in Nat
    BY <2>1, LenProperties
  <2>3. QED
    BY <2>1, <2>2
<1> HIDE DEF r, n
<1>2. \A i \in 2 .. n + 1 : i - 1 \in 1 .. n /\ q[i] = r[i - 1]
  BY <1>1
<1>3. Has(q, c) <=> Head(q) = c \/ Has(r, c)
  <2>1. ASSUME NEW i \in DOMAIN q, q[i] = c PROVE Head(q) = c \/ Has(r, c)
    <3>1. i = 1 \/ (i \in 2 .. n + 1)
      BY <1>1
    <3>2. QED
      BY <3>1, <2>1, <1>1, <1>2 DEF Has
  <2>2. Head(q) = c => Has(q, c)
    BY <1>1 DEF Has
  <2>3. ASSUME NEW i \in DOMAIN r, r[i] = c PROVE Has(q, c)
    <3>1. i + 1 \in DOMAIN q /\ q[i + 1] = c
      BY <2>3, <1>1
    <3>2. QED
      BY <3>1 DEF Has
  <2>4. QED
    BY <2>1, <2>2, <2>3 DEF Has
<1>4. \A i \in 1 .. n : i + 1 \in DOMAIN q /\ q[i + 1] = r[i] /\ i + 1 # 1 /\ 1 \in DOMAIN q
  BY <1>1
<1>5. Once(q, c) => Once(r, c) /\ (Head(q) = c => ~Has(r, c))
  <2> SUFFICES ASSUME Once(q, c) PROVE Once(r, c) /\ (Head(q) = c => ~Has(r, c))
    OBVIOUS
  <2>1. ASSUME NEW i \in 1 .. n, NEW j \in 1 .. n, r[i] = c, r[j] = c PROVE i = j
    <3>1. i + 1 = j + 1
      BY <2>1, <1>4 DEF Once
    <3>2. QED
      BY <3>1, <1>1
  <2>2. ASSUME NEW i \in 1 .. n, r[i] = c, Head(q) = c PROVE FALSE
    BY <2>2, <1>1, <1>4 DEF Once
  <2>3. QED
    BY <2>1, <2>2, <1>1 DEF Once, Has
<1>6. Once(r, c) /\ (Head(q) = c => ~Has(r, c)) => Once(q, c)
  <2> SUFFICES ASSUME Once(r, c), Head(q) = c => ~Has(r, c), NEW i \in 1 .. n + 1, NEW j \in 1 .. n + 1,
                      q[i] = c, q[j] = c
               PROVE  i = j
    BY <1>1 DEF Once
  <2>1. CASE i = 1 \/ j = 1
    <3>1. Head(q) = c
      BY <2>1, <1>1
    <3>2. \A k \in 1 .. n : r[k] # c
      BY <3>1, <1>1 DEF Has
    <3>3. QED
      BY <3>2, <1>1, <1>2
  <2>2. CASE i # 1 /\ j # 1
    <3>1. i \in 2 .. n + 1 /\ j \in 2 .. n + 1
      BY <2>2, <1>1
    <3>2. i - 1 = j - 1
      BY <3>1, <1>1, <1>2 DEF Once
    <3>3. QED
      BY <3>1, <3>2, <1>1
  <2>3. QED
    BY <2>1, <2>2
<1>7. QED
  BY <1>3, <1>5, <1>6 DEF r

LEMMA InConcat ==
  ASSUME NEW S, NEW q \in Seq(S), NEW r \in Seq(S), NEW c
  PROVE  /\ Has(q \o r, c) <=> Has(q, c) \/ Has(r, c)
         /\ Once(q \o r, c) <=> Once(q, c) /\ Once(r, c) /\ ~(Has(q, c) /\ Has(r, c))
<1> DEFINE t == q \o r
           n == Len(q)
           m == Len(r)
<1>1. /\ n \in Nat /\ m \in Nat /\ DOMAIN q = 1 .. n /\ DOMAIN r = 1 .. m /\ DOMAIN t = 1 .. n + m
      /\ \A i \in 1 .. n + m : t[i] = IF i <= n THEN q[i] ELSE r[i - n]
  BY ConcatProperties, LenProperties
<1> HIDE DEF t, n, m
<1>2. \A i \in 1 .. n : i \in DOMAIN t /\ t[i] = q[i]
  BY <1>1
<1>3. \A i \in 1 .. m : i + n \in DOMAIN t /\ t[i + n] = r[i]
  BY <1>1
<1>4. \A i \in DOMAIN t : (i \in 1 .. n /\ t[i] = q[i]) \/ (i - n \in 1 .. m /\ t[i] = r[i - n])
  BY <1>1
<1>5. Has(t, c) <=> Has(q, c) \/ Has(r, c)
  BY <1>1, <1>2, <1>3, <1>4, SMTT(20), ZenonT(20)
  DEF Has
<1>6. Once(t, c) => Once(q, c) /\ Once(r, c) /\ ~(Has(q, c) /\ Has(r, c))
  <2> SUFFICES ASSUME Once(t, c) PROVE Once(q, c) /\ Once(r, c) /\ ~(Has(q, c) /\ Has(r, c))
    OBVIOUS
  <2>1. Once(q, c)
    BY <1>1, <1>2 DEF Once
  <2>2. ASSUME NEW i \in 1 .. m, NEW j \in 1 .. m, r[i] = c, r[j] = c PROVE i = j
    <3>1. i + n = j + n
      BY <2>2, <1>3 DEF Once
    <3>2. QED
      BY <3>1, <1>1
  <2>3. ASSUME NEW i \in 1 .. n, NEW j \in 1 .. m, q[i] = c, r[j] = c PROVE FALSE
    <3>1. i = j + n
      BY <2>3, <1>2, <1>3 DEF Once
    <3>2. QED
      BY <3>1, <1>1
  <2>4. QED
    BY <2>1, <2>2, <2>3, <1>1 DEF Once, Has
<1>7. Once(q, c) /\ Once(r, c) /\ ~(Has(q, c) /\ Has(r, c)) => Once(t, c)
  BY <1>1, <1>4 DEF Once, Has
<1>8. QED
  BY <1>5, <1>6, <1>7 DEF t

LEMMA RemoveProperties ==
  ASSUME NEW S, NEW q \in Seq(S), NEW i \in DOMAIN q
  PROVE  /\ RemoveAt(q, i) \in Seq(S) /\ DOMAIN RemoveAt(q, i) = 1 .. Len(q) - 1
         /\ Len(RemoveAt(q, i)) = Len(q) - 1
         /\ \A j \in 1 .. Len(q) - 1 : RemoveAt(q, i)[j] = IF j < i THEN q[j] ELSE q[j + 1]
<1> DEFINE a == SubSeq(q, 1, i - 1)
           b == SubSeq(q, i + 1, Len(q))
<1>1. Len(q) \in Nat /\ DOMAIN q = 1 .. Len(q) /\ i \in 1 .. Len(q) /\ \A j \in 1 .. Len(q) : q[j] \in S
  BY Elements
<1>2. a \in Seq(S) /\ Len(a) = i - 1 /\ \A j \in 1 .. i - 1 : a[j] = q[j]
  <2>1. \A j \in 1 .. i - 1 : q[j] \in S
    BY <1>1
  <2>2. /\ a \in Seq(S)
        /\ Len(a) = IF 1 <= i - 1 THEN (i - 1) - 1 + 1 ELSE 0
        /\ \A j \in 1 .. (i - 1) - 1 + 1 : a[j] = q[1 + j - 1]
    BY <1>1, <2>1, SubSeqProperties
  <2> HIDE DEF a
  <2>3. QED
    BY <2>2, <1>1
<1>3. b \in Seq(S) /\ Len(b) = Len(q) - i /\ \A j \in 1 .. Len(q) - i : b[j] = q[i + j]
  <2>1. \A j \in i + 1 .. Len(q) : q[j] \in S
    BY <1>1
  <2>2. /\ b \in Seq(S)
        /\ Len(b) = IF i + 1 <= Len(q) THEN Len(q) - (i + 1) + 1 ELSE 0
        /\ \A j \in 1 .. Len(q) - (i + 1) + 1 : b[j] = q[(i + 1) + j - 1]
    BY <1>1, <2>1, SubSeqProperties
  <2> HIDE DEF b
  <2>3. Len(q) - (i + 1) + 1 = Len(q) - i /\ \A j \in 1 .. Len(q) - i : (i + 1) + j - 1 = i + j
    BY <1>1
  <2>4. Len(b) = Len(q) - i
    <3>1. CASE i + 1 <= Len(q)
      BY <2>2, <2>3, <3>1
    <3>2. CASE ~(i + 1 <= Len(q))
      <4>1. Len(b) = 0
        BY <2>2, <3>2
      <4>2. Len(q) - i = 0
        BY <1>1, <3>2
      <4>3. QED
        BY <4>1, <4>2
    <3>3. QED
      BY <3>1, <3>2
  <2>5. QED
    BY <2>2, <2>3, <2>4
<1> HIDE DEF a, b
<1>4. /\ a \o b \in Seq(S) /\ Len(a \o b) = Len(q) - 1 /\ DOMAIN (a \o b) = 1 .. Len(q) - 1
      /\ \A j \in 1 .. Len(q) - 1 : (a \o b)[j] = IF j <= i - 1 THEN a[j] ELSE b[j - (i - 1)]
  <2>1. /\ a \o b \in Seq(S) /\ Len(a \o b) = Len(a) + Len(b)
        /\ \A j \in 1 .. Len(a) + Len(b) : (a \o b)[j] = IF j <= Len(a) THEN a[j] ELSE b[j - Len(a)]
    BY <1>2, <1>3, ConcatProperties
  <2>2. DOMAIN (a \o b) = 1 .. Len(a \o b)
    BY <2>1, LenProperties
  <2>3. QED
    BY <2>1, <2>2, <1>1, <1>2, <1>3
<1>5. RemoveAt(q, i) = a \o b
  BY DEF RemoveAt, a, b
<1>6. \A j \in 1 .. Len(q) - 1 : (a \o b)[j] = IF j < i THEN q[j] ELSE q[j + 1]
  <2> SUFFICES ASSUME NEW j \in 1 .. Len(q) - 1 PROVE (a \o b)[j] = IF j < i THEN q[j] ELSE q[j + 1]
    OBVIOUS
  <2>1. CASE j < i
    <3>1. j <= i - 1 /\ j \in 1 .. i - 1
      BY <2>1, <1>1
    <3>2. QED
      BY <2>1, <3>1, <1>2, <1>4
  <2>2. CASE ~(j < i)
    <3>1. ~(j <= i - 1) /\ j - (i - 1) \in 1 .. Len(q) - i /\ i + (j - (i - 1)) = j + 1
      BY <2>2, <1>1
    <3>2. QED
      BY <2>2, <3>1, <1>3, <1>4
  <2>3. QED
    BY <2>1, <2>2
<1>7. QED
  BY <1>4, <1>5, <1>6

LEMMA InRemoveAt ==
  ASSUME NEW S, NEW q \in Seq(S), NEW i \in DOMAIN q, NEW c
  PROVE  /\ Has(q, c) <=> q[i] = c \/ Has(RemoveAt(q, i), c)
         /\ Once(q, c) => Once(RemoveAt(q, i), c) /\ (q[i] = c => ~Has(RemoveAt(q, i), c))
<1> DEFINE r == RemoveAt(q, i)
           n == Len(q)
<1>1. /\ n \in Nat /\ i \in 1 .. n /\ DOMAIN q = 1 .. n /\ DOMAIN r = 1 .. n - 1
      /\ \A j \in 1 .. n - 1 : r[j] = IF j < i THEN q[j] ELSE q[j + 1]
  BY RemoveProperties, Elements
<1> HIDE DEF r, n
<1>2. \A j \in 1 .. n : j < i => j \in 1 .. n - 1 /\ r[j] = q[j]
  BY <1>1
<1>3. \A j \in 1 .. n : i < j => j - 1 \in 1 .. n - 1 /\ r[j - 1] = q[j]
  BY <1>1
<1>4. \A j \in 1 .. n - 1 : (j < i /\ r[j] = q[j]) \/ (i <= j /\ r[j] = q[j + 1] /\ j + 1 \in 1 .. n)
  BY <1>1
<1>5. Has(q, c) => q[i] = c \/ Has(r, c)
  <2> SUFFICES ASSUME NEW j \in 1 .. n, q[j] = c PROVE q[i] = c \/ Has(r, c)
    BY <1>1 DEF Has
  <2>1. j < i \/ j = i \/ i < j
    BY <1>1
  <2>2. QED
    BY <2>1, <1>1, <1>2, <1>3 DEF Has
<1>6. q[i] = c \/ Has(r, c) => Has(q, c)
  BY <1>1, <1>4 DEF Has
<1>7. Once(q, c) => Once(r, c)
  <2> SUFFICES ASSUME Once(q, c), NEW j \in 1 .. n - 1, NEW k \in 1 .. n - 1, r[j] = c, r[k] = c
               PROVE  j = k
    BY <1>1 DEF Once
  <2>1. j \in DOMAIN q /\ j + 1 \in DOMAIN q /\ k \in DOMAIN q /\ k + 1 \in DOMAIN q
    BY <1>1
  <2>2. r[j] = IF j < i THEN q[j] ELSE q[j + 1]
    BY <1>1
  <2>3. r[k] = IF k < i THEN q[k] ELSE q[k + 1]
    BY <1>1
  <2>4. CASE j < i /\ k < i
    BY <2>1, <2>2, <2>3, <2>4 DEF Once
  <2>5. CASE j < i /\ ~(k < i)
    <3>1. j = k + 1
      BY <2>1, <2>2, <2>3, <2>5 DEF Once
    <3>2. QED
      BY <3>1, <2>5, <1>1
  <2>6. CASE ~(j < i) /\ k < i
    <3>1. j + 1 = k
      BY <2>1, <2>2, <2>3, <2>6 DEF Once
    <3>2. QED
      BY <3>1, <2>6, <1>1
  <2>7. CASE ~(j < i) /\ ~(k < i)
    <3>1. j + 1 = k + 1
      BY <2>1, <2>2, <2>3, <2>7 DEF Once
    <3>2. QED
      BY <3>1, <1>1
  <2>8. QED
    BY <2>4, <2>5, <2>6, <2>7
<1>8. Once(q, c) /\ q[i] = c => ~Has(r, c)
  BY <1>1, <1>4, SMTT(20), ZenonT(20)
  DEF Once, Has
<1>9. QED
  BY <1>5, <1>6, <1>7, <1>8 DEF r

-----------------------------------------------------------------------------
(* The calls that events are made for, and the kinds of the events.        *)

KindsOf == {"fail", "queue", "wake", "send", "disconnect", "stop"}
Names == Ids \cup {0}
Cells == [e : KindsOf, c : Names]

Calls(q) == [i \in DOMAIN q |-> q[i].c]
Kinds(q) == [i \in DOMAIN q |-> q[i].e]

LEMMA Columns ==
  ASSUME NEW q \in Seq(Cells)
  PROVE  /\ Calls(q) \in Seq(Names) /\ Len(Calls(q)) = Len(q) /\ DOMAIN Calls(q) = DOMAIN q
         /\ Kinds(q) \in Seq(KindsOf) /\ Len(Kinds(q)) = Len(q) /\ DOMAIN Kinds(q) = DOMAIN q
         /\ \A i \in DOMAIN q : Calls(q)[i] = q[i].c /\ Kinds(q)[i] = q[i].e
         /\ q = <<>> => Calls(q) = <<>> /\ Kinds(q) = <<>>
<1>1. DOMAIN q = 1 .. Len(q) /\ Len(q) \in Nat /\ \A i \in 1 .. Len(q) : q[i].c \in Names /\ q[i].e \in KindsOf
  <2>1. DOMAIN q = 1 .. Len(q) /\ Len(q) \in Nat /\ \A i \in DOMAIN q : q[i] \in Cells
    BY Elements
  <2>2. \A x \in Cells : x.c \in Names /\ x.e \in KindsOf
    BY DEF Cells
  <2>3. QED
    BY <2>1, <2>2
<1>2. Calls(q) \in [1 .. Len(q) -> Names] /\ Kinds(q) \in [1 .. Len(q) -> KindsOf]
  BY <1>1 DEF Calls, Kinds
<1>3. Calls(q) \in Seq(Names) /\ Kinds(q) \in Seq(KindsOf)
  BY <1>1, <1>2
<1>4. Len(Calls(q)) = Len(q) /\ Len(Kinds(q)) = Len(q)
  <2>1. DOMAIN Calls(q) = 1 .. Len(Calls(q)) /\ Len(Calls(q)) \in Nat
    BY <1>3, LenProperties
  <2>2. DOMAIN Kinds(q) = 1 .. Len(Kinds(q)) /\ Len(Kinds(q)) \in Nat
    BY <1>3, LenProperties
  <2>3. DOMAIN Calls(q) = 1 .. Len(q) /\ DOMAIN Kinds(q) = 1 .. Len(q)
    BY <1>2
  <2>4. \A m, n \in Nat : 1 .. m = 1 .. n => m = n
    OBVIOUS
  <2>5. QED
    BY <2>1, <2>2, <2>3, <2>4, <1>1
<1>5. QED
  BY <1>1, <1>2, <1>3, <1>4, EmptySeq DEF Calls, Kinds

LEMMA ColumnsAppend ==
  ASSUME NEW q \in Seq(Cells), NEW x \in Cells
  PROVE  /\ Calls(Append(q, x)) = Append(Calls(q), x.c)
         /\ Kinds(Append(q, x)) = Append(Kinds(q), x.e)
<1> DEFINE r == Append(q, x)
<1>1. r \in Seq(Cells) /\ Len(r) = Len(q) + 1 /\ r[Len(q) + 1] = x /\ \A i \in 1 .. Len(q) : r[i] = q[i]
  BY AppendProperties
<1>2. /\ Calls(q) \in Seq(Names) /\ Len(Calls(q)) = Len(q) /\ \A i \in 1 .. Len(q) : Calls(q)[i] = q[i].c
      /\ Kinds(q) \in Seq(KindsOf) /\ Len(Kinds(q)) = Len(q) /\ \A i \in 1 .. Len(q) : Kinds(q)[i] = q[i].e
      /\ Len(q) \in Nat /\ x.c \in Names /\ x.e \in KindsOf
  BY Columns, Elements, SMTT(20), ZenonT(20)
  DEF Cells
<1>3. /\ Append(Calls(q), x.c) \in Seq(Names) /\ Len(Append(Calls(q), x.c)) = Len(q) + 1
      /\ Append(Calls(q), x.c)[Len(q) + 1] = x.c
      /\ \A i \in 1 .. Len(q) : Append(Calls(q), x.c)[i] = q[i].c
  BY <1>2, AppendProperties
<1>4. /\ Append(Kinds(q), x.e) \in Seq(KindsOf) /\ Len(Append(Kinds(q), x.e)) = Len(q) + 1
      /\ Append(Kinds(q), x.e)[Len(q) + 1] = x.e
      /\ \A i \in 1 .. Len(q) : Append(Kinds(q), x.e)[i] = q[i].e
  BY <1>2, AppendProperties
<1>5. /\ Calls(r) \in Seq(Names) /\ Len(Calls(r)) = Len(q) + 1
      /\ Kinds(r) \in Seq(KindsOf) /\ Len(Kinds(r)) = Len(q) + 1
      /\ \A i \in 1 .. Len(q) + 1 : Calls(r)[i] = r[i].c /\ Kinds(r)[i] = r[i].e
  BY <1>1, Columns, Elements
<1> HIDE DEF r
<1>6. \A i \in 1 .. Len(q) + 1 : i = Len(q) + 1 \/ i \in 1 .. Len(q)
  BY <1>2
<1> DEFINE a == Append(Calls(q), x.c)
           b == Append(Kinds(q), x.e)
<1>10. \A i \in 1 .. Len(q) + 1 : Calls(r)[i] = a[i] /\ Kinds(r)[i] = b[i]
  BY <1>1, <1>3, <1>4, <1>5, <1>6
<1>11. a \in Seq(Names) /\ Len(a) = Len(q) + 1 /\ b \in Seq(KindsOf) /\ Len(b) = Len(q) + 1
  BY <1>3, <1>4
<1> HIDE DEF a, b
<1>7. Calls(r) = a
  BY <1>5, <1>10, <1>11, SeqEqual
<1>8. Kinds(r) = b
  BY <1>5, <1>10, <1>11, SeqEqual
<1>9. QED
  BY <1>7, <1>8 DEF a, b, r

LEMMA ColumnsTail ==
  ASSUME NEW q \in Seq(Cells), q # <<>>
  PROVE  /\ Calls(q) # <<>> /\ Head(Calls(q)) = Head(q).c /\ Calls(Tail(q)) = Tail(Calls(q))
         /\ Kinds(q) # <<>> /\ Head(Kinds(q)) = Head(q).e /\ Kinds(Tail(q)) = Tail(Kinds(q))
<1> DEFINE r == Tail(q)
           a == Calls(q)
           b == Kinds(q)
           m == Len(q)
<1>1. /\ r \in Seq(Cells) /\ Len(r) = m - 1 /\ \A i \in 1 .. m - 1 : r[i] = q[i + 1]
      /\ m \in Nat /\ m >= 1 /\ Head(q) = q[1] /\ DOMAIN q = 1 .. m
  <2>1. m # 0
    BY EmptySeq
  <2>2. QED
    BY <2>1, HeadTailProperties, Elements
<1>2. /\ a \in Seq(Names) /\ Len(a) = m /\ \A i \in 1 .. m : a[i] = q[i].c
      /\ b \in Seq(KindsOf) /\ Len(b) = m /\ \A i \in 1 .. m : b[i] = q[i].e
  BY <1>1, Columns
<1>3. /\ Calls(r) \in Seq(Names) /\ Len(Calls(r)) = m - 1 /\ \A i \in 1 .. m - 1 : Calls(r)[i] = r[i].c
      /\ Kinds(r) \in Seq(KindsOf) /\ Len(Kinds(r)) = m - 1 /\ \A i \in 1 .. m - 1 : Kinds(r)[i] = r[i].e
  BY <1>1, Columns, Elements
<1> HIDE DEF a, b, r, m
<1>4. a # <<>> /\ b # <<>>
  BY <1>1, <1>2, EmptySeq
<1>5. /\ Head(a) = a[1] /\ Tail(a) \in Seq(Names) /\ Len(Tail(a)) = m - 1
      /\ \A i \in 1 .. m - 1 : Tail(a)[i] = a[i + 1]
  BY <1>2, <1>4, HeadTailProperties
<1>6. /\ Head(b) = b[1] /\ Tail(b) \in Seq(KindsOf) /\ Len(Tail(b)) = m - 1
      /\ \A i \in 1 .. m - 1 : Tail(b)[i] = b[i + 1]
  BY <1>2, <1>4, HeadTailProperties
<1>7. \A i \in 1 .. m - 1 : i + 1 \in 1 .. m
  BY <1>1
<1>12. \A i \in 1 .. m - 1 : Calls(r)[i] = Tail(a)[i]
  BY <1>1, <1>2, <1>3, <1>5, <1>7, SMTT(20), ZenonT(20)
<1>13. \A i \in 1 .. m - 1 : Kinds(r)[i] = Tail(b)[i]
  BY <1>1, <1>2, <1>3, <1>6, <1>7, SMTT(20), ZenonT(20)
<1>8. Calls(r) = Tail(a)
  BY <1>3, <1>5, <1>12, SeqEqual
<1>9. Kinds(r) = Tail(b)
  BY <1>3, <1>6, <1>13, SeqEqual
<1>10. 1 \in 1 .. m
  BY <1>1
<1>11. QED
  BY <1>1, <1>2, <1>4, <1>5, <1>6, <1>8, <1>9, <1>10 DEF a, b, r

LEMMA ColumnsConcat ==
  ASSUME NEW q \in Seq(Cells), NEW r \in Seq(Cells)
  PROVE  /\ Calls(q \o r) = Calls(q) \o Calls(r)
         /\ Kinds(q \o r) = Kinds(q) \o Kinds(r)
<1> DEFINE t == q \o r
           a == Calls(q)
           b == Calls(r)
           u == Kinds(q)
           v == Kinds(r)
           n == Len(q)
           m == Len(r)
<1>1. /\ t \in Seq(Cells) /\ Len(t) = n + m /\ n \in Nat /\ m \in Nat
      /\ \A i \in 1 .. n + m : t[i] = IF i <= n THEN q[i] ELSE r[i - n]
      /\ DOMAIN q = 1 .. n /\ DOMAIN r = 1 .. m /\ DOMAIN t = 1 .. n + m
  BY ConcatProperties, LenProperties
<1>2. /\ a \in Seq(Names) /\ Len(a) = n /\ \A i \in 1 .. n : a[i] = q[i].c
      /\ b \in Seq(Names) /\ Len(b) = m /\ \A i \in 1 .. m : b[i] = r[i].c
      /\ u \in Seq(KindsOf) /\ Len(u) = n /\ \A i \in 1 .. n : u[i] = q[i].e
      /\ v \in Seq(KindsOf) /\ Len(v) = m /\ \A i \in 1 .. m : v[i] = r[i].e
  BY <1>1, Columns
<1>3. /\ Calls(t) \in Seq(Names) /\ Len(Calls(t)) = n + m /\ \A i \in 1 .. n + m : Calls(t)[i] = t[i].c
      /\ Kinds(t) \in Seq(KindsOf) /\ Len(Kinds(t)) = n + m /\ \A i \in 1 .. n + m : Kinds(t)[i] = t[i].e
  BY <1>1, Columns
<1> HIDE DEF t, a, b, u, v, n, m
<1>4. /\ a \o b \in Seq(Names) /\ Len(a \o b) = n + m
      /\ \A i \in 1 .. n + m : (a \o b)[i] = IF i <= n THEN a[i] ELSE b[i - n]
  <2>1. a \in Seq(Names) /\ b \in Seq(Names) /\ Len(a) = n /\ Len(b) = m
    BY <1>2
  <2>2. QED
    BY <2>1, ConcatProperties
<1>5. /\ u \o v \in Seq(KindsOf) /\ Len(u \o v) = n + m
      /\ \A i \in 1 .. n + m : (u \o v)[i] = IF i <= n THEN u[i] ELSE v[i - n]
  <2>1. u \in Seq(KindsOf) /\ v \in Seq(KindsOf) /\ Len(u) = n /\ Len(v) = m
    BY <1>2
  <2>2. QED
    BY <2>1, ConcatProperties
<1>7. ASSUME NEW i \in 1 .. n + m
      PROVE  Calls(t)[i] = (a \o b)[i] /\ Kinds(t)[i] = (u \o v)[i]
  <2>1. CASE i <= n
    <3>1. i \in 1 .. n
      BY <2>1, <1>1
    <3>2. t[i] = q[i] /\ (a \o b)[i] = a[i] /\ (u \o v)[i] = u[i]
      BY <2>1, <1>1, <1>4, <1>5
    <3>3. QED
      BY <3>1, <3>2, <1>2, <1>3
  <2>2. CASE ~(i <= n)
    <3>1. i - n \in 1 .. m /\ t[i] = r[i - n] /\ (a \o b)[i] = b[i - n] /\ (u \o v)[i] = v[i - n]
      BY <2>2, <1>1, <1>4, <1>5, SMTT(20), ZenonT(20)
    <3>2. QED
      BY <3>1, <1>2, <1>3
  <2>3. QED
    BY <2>1, <2>2
<1>9. Calls(t) = a \o b
  BY <1>3, <1>4, <1>7, SeqEqual
<1>10. Kinds(t) = u \o v
  BY <1>3, <1>5, <1>7, SeqEqual
<1>11. QED
  BY <1>9, <1>10 DEF t, a, b, u, v

-----------------------------------------------------------------------------
(* The event queue and the connection: who may be in the queue, and that   *)
(* the disconnect, the stop and the waiting follow one another.            *)

Posts == [e : {"fail", "queue"}, c : Ids] \cup {Wake}
Works == [e : {"fail", "queue", "send"}, c : Ids] \cup {Event("disconnect", 0), Event("stop", 0)}

Queued(e) == Has(Kinds(events), e)

LinkInv ==
  /\ posted \in Seq(Posts) /\ events \in Seq(Works)
  /\ write # "none" => events # <<>> /\ Head(events).e = "send"
  /\ Once(Kinds(events), "disconnect") /\ Once(Kinds(events), "stop")
  /\ Queued("disconnect") => state = "stopping"
  /\ Queued("stop") => state = "closed" /\ ~stopFlag
  /\ state = "closed" => toPeer = <<>> /\ fromPeer = <<>> /\ write # "sent"
  /\ state = "closed" => stopFlag \/ Queued("stop")
  /\ stopFlag => state = "closed"
  /\ waiter = "none" => stopFlag

LEMMA CellTypes ==
  /\ Posts \subseteq Cells /\ Works \subseteq Cells
  /\ Posts \subseteq [e : {"fail", "queue", "wake"}, c : Ids \cup {0}]
  /\ Works \subseteq [e : {"fail", "queue", "send", "disconnect", "stop"}, c : Ids \cup {0}]
  /\ \A x \in Works : x.c \in Names /\ x.e \in KindsOf
  /\ \A x \in Works : x.e \in {"fail", "queue", "send"} => x.c \in Ids
  /\ \A x \in Works : x.e \in {"disconnect", "stop"} => x.c = 0
  /\ \A x \in Posts : x = Wake \/ (x \in Works /\ x.c \in Ids /\ x.e \in {"fail", "queue"})
  /\ Wake \in Posts /\ Wake.c = 0
  /\ \A c \in Ids : /\ \A e \in {"fail", "queue"} : Event(e, c) \in Posts
                    /\ \A e \in {"fail", "queue", "send"} : Event(e, c) \in Works
  /\ Event("disconnect", 0) \in Works /\ Event("stop", 0) \in Works
  /\ \A e, c : Event(e, c).e = e /\ Event(e, c).c = c
  /\ 0 \notin Ids
<1>1. 0 \notin Ids
  BY BoundsAssumption DEF Ids
<1>2. Posts \subseteq Cells /\ Works \subseteq Cells
  BY DEF Posts, Works, Cells, KindsOf, Names, Wake, Event
<1>3. \A x \in Posts : x = Wake \/ (x \in Works /\ x.c \in Ids /\ x.e \in {"fail", "queue"})
  BY DEF Posts, Works
<1>4. \A x \in Works : x.c \in Names /\ x.e \in KindsOf
  BY <1>2 DEF Cells
<1>5. /\ \A x \in Works : x.e \in {"fail", "queue", "send"} => x.c \in Ids
      /\ \A x \in Works : x.e \in {"disconnect", "stop"} => x.c = 0
  BY DEF Works, Event
<1>6. /\ Posts \subseteq [e : {"fail", "queue", "wake"}, c : Ids \cup {0}]
      /\ Works \subseteq [e : {"fail", "queue", "send", "disconnect", "stop"}, c : Ids \cup {0}]
  BY DEF Posts, Works, Wake, Event
<1>7. QED
  BY <1>1, <1>2, <1>3, <1>4, <1>5, <1>6 DEF Posts, Works, Wake, Event

\* An event behind the others.
LEMMA Added ==
  ASSUME NEW q \in Seq(Works), NEW x \in Works, NEW e
  PROVE  /\ Append(q, x) \in Seq(Works) /\ Append(q, x) # <<>>
         /\ Head(Append(q, x)) = IF q = <<>> THEN x ELSE Head(q)
         /\ Has(Kinds(Append(q, x)), e) <=> Has(Kinds(q), e) \/ x.e = e
         /\ Once(Kinds(Append(q, x)), e) <=> Once(Kinds(q), e) /\ (x.e = e => ~Has(Kinds(q), e))
<1>1. q \in Seq(Cells) /\ x \in Cells
  BY CellTypes, SeqMonotonic
<1>2. Kinds(Append(q, x)) = Append(Kinds(q), x.e) /\ Kinds(q) \in Seq(KindsOf) /\ x.e \in KindsOf
  BY <1>1, ColumnsAppend, Columns, CellTypes
<1>3. /\ Append(q, x) \in Seq(Works) /\ Len(Append(q, x)) = Len(q) + 1 /\ Append(q, x)[Len(q) + 1] = x
      /\ \A i \in 1 .. Len(q) : Append(q, x)[i] = q[i]
      /\ Len(q) \in Nat /\ (q = <<>> <=> Len(q) = 0)
  BY AppendProperties, LenProperties, EmptySeq
<1>4. Append(q, x) # <<>> /\ Head(Append(q, x)) = Append(q, x)[1]
  <2>1. Append(q, x) # <<>>
    BY <1>3, EmptySeq
  <2>2. QED
    BY <2>1, <1>3, Elements
<1>5. Head(Append(q, x)) = IF q = <<>> THEN x ELSE Head(q)
  <2>1. CASE q = <<>>
    BY <2>1, <1>3, <1>4
  <2>2. CASE q # <<>>
    <3>1. 1 \in 1 .. Len(q) /\ Head(q) = q[1]
      BY <2>2, Elements
    <3>2. QED
      BY <3>1, <2>2, <1>3, <1>4
  <2>3. QED
    BY <2>1, <2>2
<1>6. QED
  BY <1>2, <1>3, <1>4, <1>5, InAppend

\* The event at the front is over.
LEMMA Removed ==
  ASSUME NEW q \in Seq(Works), q # <<>>, NEW e
  PROVE  /\ Tail(q) \in Seq(Works) /\ Head(q) \in Works
         /\ Has(Kinds(q), e) <=> Head(q).e = e \/ Has(Kinds(Tail(q)), e)
         /\ Once(Kinds(q), e) <=> Once(Kinds(Tail(q)), e) /\ (Head(q).e = e => ~Has(Kinds(Tail(q)), e))
<1>1. q \in Seq(Cells) /\ Tail(q) \in Seq(Works) /\ Head(q) \in Works
  BY CellTypes, SeqMonotonic, HeadTailProperties
<1>2. /\ Kinds(q) # <<>> /\ Head(Kinds(q)) = Head(q).e /\ Kinds(Tail(q)) = Tail(Kinds(q))
      /\ Kinds(q) \in Seq(KindsOf)
  BY <1>1, ColumnsTail, Columns
<1>3. QED
  BY <1>1, <1>2, InTail

\* Whoever waits is woken by a handler behind the others.
LEMMA NotifyPosts ==
  ASSUME LinkInv, Notify
  PROVE  /\ posted' \in Seq(Posts)
         /\ waiter' = "none" <=> waiter = "none"
BY CellTypes, AppendProperties DEF LinkInv, Notify

LEMMA LinkStays ==
  ASSUME LinkInv, UNCHANGED <<events, write, stopFlag, state>>, posted' \in Seq(Posts),
         waiter' = "none" => stopFlag,
         state = "closed" => toPeer' = <<>> /\ fromPeer' = <<>>
  PROVE  LinkInv'
BY DEF LinkInv, Queued

\* The handlers behind the first one.
LEMMA LaterPosts ==
  ASSUME LinkInv, posted # <<>>
  PROVE  Head(posted) \in Posts /\ Tail(posted) \in Seq(Posts)
BY HeadTailProperties DEF LinkInv

LEMMA LinkPush ==
  ASSUME LinkInv, NEW x \in Works, x.e \in {"fail", "queue", "send"}, events' = Append(events, x),
         UNCHANGED <<write, stopFlag, state, waiter, toPeer, fromPeer>>, posted' \in Seq(Posts)
  PROVE  LinkInv'
<1>1. /\ events' \in Seq(Works) /\ events' # <<>>
      /\ events # <<>> => Head(events') = Head(events)
      /\ \A e : Has(Kinds(events'), e) <=> Has(Kinds(events), e) \/ x.e = e
      /\ \A e : Once(Kinds(events'), e) <=> Once(Kinds(events), e) /\ (x.e = e => ~Has(Kinds(events), e))
  BY Added DEF LinkInv
<1>2. /\ \A e \in {"disconnect", "stop"} : Has(Kinds(events'), e) <=> Has(Kinds(events), e)
      /\ \A e \in {"disconnect", "stop"} : Once(Kinds(events'), e) <=> Once(Kinds(events), e)
  BY <1>1
<1>3. QED
  BY <1>1, <1>2 DEF LinkInv, Queued

LEMMA PostStep ==
  ASSUME LinkInv, NEW c \in Ids, CallTests(c) \/ CallPushes(c)
  PROVE  LinkInv'
<1>1. posted' \in Seq(Posts)
  <2>1. posted' = posted \/ \E x \in Posts : posted' = Append(posted, x)
    BY CellTypes DEF CallTests, CallPushes
  <2>2. QED
    BY <2>1, AppendProperties DEF LinkInv
<1>2. UNCHANGED <<events, write, stopFlag, state, waiter, toPeer, fromPeer>>
  BY DEF CallTests, CallPushes, sending, link
<1>3. QED
  BY <1>1, <1>2, LinkStays DEF LinkInv

LEMMA ArriveStep == ASSUME LinkInv, Arrives PROVE LinkInv'
<1>1. /\ posted # <<>> /\ Head(posted) # Wake /\ posted' = Tail(posted)
      /\ events' = Append(events, Head(posted))
      /\ UNCHANGED <<write, stopFlag, state, waiter, toPeer, fromPeer>>
  BY DEF Arrives, sending, link
<1>2. Head(posted) \in Works /\ Head(posted).e \in {"fail", "queue"} /\ posted' \in Seq(Posts)
  BY <1>1, LaterPosts, CellTypes
<1>3. QED
  BY <1>1, <1>2, LinkPush

\* An event that is over at once leaves the strand to the next one.
LEMMA LinkPop ==
  ASSUME LinkInv, events # <<>>, write = "none", events' = Tail(events),
         Head(events).e \in {"fail", "queue", "send"},
         UNCHANGED <<write, stopFlag, state, toPeer, fromPeer>>, posted' \in Seq(Posts),
         waiter' = "none" <=> waiter = "none"
  PROVE  LinkInv'
<1>1. /\ events' \in Seq(Works)
      /\ \A e : Has(Kinds(events), e) <=> Head(events).e = e \/ Has(Kinds(events'), e)
      /\ \A e : Once(Kinds(events), e) => Once(Kinds(events'), e)
  BY Removed DEF LinkInv
<1>2. \A e \in {"disconnect", "stop"} : Has(Kinds(events), e) <=> Has(Kinds(events'), e)
  BY <1>1
<1>3. QED
  BY <1>1, <1>2 DEF LinkInv, Queued

LEMMA FirstEvent ==
  ASSUME NEW e, Runs(e)
  PROVE  events # <<>> /\ write = "none" /\ Head(events).e = e
BY DEF Runs, Calm

LEMMA RunFailLink == ASSUME LinkInv, RunFail PROVE LinkInv'
<1>1. /\ events # <<>> /\ write = "none" /\ Head(events).e = "fail" /\ events' = Tail(events)
      /\ UNCHANGED <<write, stopFlag, state, toPeer, fromPeer, posted, waiter>>
  <2>1. UNCHANGED write
    BY DEF RunFail
  <2>2. events # <<>> /\ write = "none" /\ Head(events).e = "fail"
    BY FirstEvent DEF RunFail
  <2>3. QED
    BY <2>1, <2>2 DEF RunFail, sending, link
<1>2. QED
  BY <1>1, LinkPop DEF LinkInv

LEMMA RunQueueLink == ASSUME LinkInv, RunQueue PROVE LinkInv'
<1>1. /\ events # <<>> /\ write = "none" /\ Head(events).e = "queue" /\ events' = Tail(events)
      /\ UNCHANGED <<write, stopFlag, state, toPeer, fromPeer>> /\ Notify
  <2>1. UNCHANGED write
    BY DEF RunQueue
  <2>2. QED
    BY <2>1, FirstEvent DEF RunQueue, link
<1>2. QED
  BY <1>1, LinkPop, NotifyPosts

LEMMA RunSendLink == ASSUME LinkInv, RunSend PROVE LinkInv'
<1>1. /\ events # <<>> /\ Head(events).e = "send" /\ write' = "busy"
      /\ UNCHANGED <<posted, events, stopFlag, waiter, state, toPeer, fromPeer>>
  BY FirstEvent DEF RunSend, link, sending
<1>2. QED
  BY <1>1 DEF LinkInv, Queued

LEMMA RunDisconnectLink == ASSUME LinkInv, RunDisconnect PROVE LinkInv'
<1> DEFINE x == Event("stop", 0)
           q == Tail(events)
<1>1. /\ events # <<>> /\ write = "none" /\ Head(events).e = "disconnect" /\ events' = Append(q, x)
      /\ state' = "closed" /\ toPeer' = <<>> /\ fromPeer' = <<>>
      /\ UNCHANGED <<posted, write, stopFlag, waiter>>
  <2>1. UNCHANGED write
    BY DEF RunDisconnect
  <2>2. QED
    BY <2>1, FirstEvent DEF RunDisconnect, sending
<1>2. /\ q \in Seq(Works)
      /\ \A e : Has(Kinds(events), e) <=> Head(events).e = e \/ Has(Kinds(q), e)
      /\ \A e : Once(Kinds(events), e) <=> Once(Kinds(q), e) /\ (Head(events).e = e => ~Has(Kinds(q), e))
  BY <1>1, Removed DEF LinkInv
<1>3. Queued("disconnect") /\ state = "stopping" /\ ~Queued("stop") /\ ~stopFlag
  BY <1>1, <1>2 DEF LinkInv, Queued
<1>4. ~Has(Kinds(q), "disconnect") /\ ~Has(Kinds(q), "stop") /\ Once(Kinds(q), "stop") /\ Once(Kinds(q), "disconnect")
  BY <1>1, <1>2, <1>3 DEF LinkInv, Queued
<1>5. x \in Works /\ x.e = "stop"
  BY CellTypes
<1> HIDE DEF q, x
<1>6. /\ events' \in Seq(Works)
      /\ \A e : Has(Kinds(events'), e) <=> Has(Kinds(q), e) \/ x.e = e
      /\ \A e : Once(Kinds(events'), e) <=> Once(Kinds(q), e) /\ (x.e = e => ~Has(Kinds(q), e))
  BY <1>1, <1>2, <1>5, Added
<1>7. /\ Once(Kinds(events'), "disconnect") /\ Once(Kinds(events'), "stop")
      /\ ~Has(Kinds(events'), "disconnect") /\ Has(Kinds(events'), "stop")
  BY <1>4, <1>5, <1>6
<1>8. QED
  BY <1>1, <1>3, <1>6, <1>7 DEF LinkInv, Queued

LEMMA RunStopLink == ASSUME LinkInv, RunStop PROVE LinkInv'
<1>1. /\ events # <<>> /\ write = "none" /\ Head(events).e = "stop" /\ events' = Tail(events)
      /\ stopFlag' = TRUE /\ Notify
      /\ UNCHANGED <<write, state, toPeer, fromPeer>>
  <2>1. UNCHANGED write
    BY DEF RunStop
  <2>2. QED
    BY <2>1, FirstEvent DEF RunStop, link
<1>2. /\ events' \in Seq(Works)
      /\ \A e : Has(Kinds(events), e) <=> Head(events).e = e \/ Has(Kinds(events'), e)
      /\ \A e : Once(Kinds(events), e) <=> Once(Kinds(events'), e) /\ (Head(events).e = e => ~Has(Kinds(events'), e))
  BY <1>1, Removed DEF LinkInv
<1>3. Queued("stop") /\ state = "closed" /\ ~Queued("disconnect")
  BY <1>1, <1>2 DEF LinkInv, Queued
<1>4. /\ ~Has(Kinds(events'), "stop") /\ ~Has(Kinds(events'), "disconnect")
      /\ Once(Kinds(events'), "disconnect") /\ Once(Kinds(events'), "stop")
  BY <1>1, <1>2, <1>3 DEF LinkInv, Queued
<1>5. posted' \in Seq(Posts)
  BY <1>1, NotifyPosts
<1>6. QED
  BY <1>1, <1>2, <1>3, <1>4, <1>5 DEF LinkInv, Queued

LEMMA CallOnStrandLink == ASSUME LinkInv, NEW c \in Ids, CallOnStrand(c) PROVE LinkInv'
<1> DEFINE x == Event("queue", c)
<1>1. x \in Works /\ x.e = "queue"
  BY CellTypes
<1>2. events' = Append(events, x) /\ UNCHANGED <<posted, write, stopFlag, state, waiter, toPeer, fromPeer>>
  BY DEF CallOnStrand, sending, link
<1> HIDE DEF x
<1>3. QED
  BY <1>1, <1>2, LinkPush DEF LinkInv

LEMMA QuietLink ==
  ASSUME LinkInv, (\E c \in Ids : WaitEnds(c) \/ HandleTimer(c) \/ TimerExpires(c)) \/ UNCHANGED vars
  PROVE  LinkInv'
<1>1. UNCHANGED <<posted, events, write, stopFlag, state, waiter, toPeer, fromPeer>>
  BY DEF WaitEnds, HandleTimer, TimerExpires, vars, queue, sending, link
<1>2. QED
  BY <1>1, LinkStays DEF LinkInv

LEMMA HandleRecvLink == ASSUME LinkInv, HandleRecv PROVE LinkInv'
<1>1. UNCHANGED <<posted, events, write, stopFlag, state, waiter, toPeer>> /\ fromPeer # <<>>
  BY DEF HandleRecv, queue, sending
<1>2. state # "closed"
  BY <1>1 DEF LinkInv
<1>3. QED
  BY <1>1, <1>2, LinkStays DEF LinkInv

LEMMA RespondLink == ASSUME TypeOK, LinkInv, Respond PROVE LinkInv'
<1>1. UNCHANGED <<posted, events, write, stopFlag, state, waiter>> /\ toPeer # <<>>
  BY EmptySeq DEF Respond, queue, sending
<1>2. state # "closed"
  BY <1>1 DEF LinkInv
<1>3. QED
  BY <1>1, <1>2, LinkStays DEF LinkInv

LEMMA TransmitLink == ASSUME LinkInv, Transmit PROVE LinkInv'
BY DEF LinkInv, Queued, Transmit, sending

LEMMA LoseConnectionLink == ASSUME LinkInv, LoseConnection PROVE LinkInv'
<1> DEFINE x == Event("disconnect", 0)
<1>1. x \in Works /\ x.e = "disconnect"
  BY CellTypes
<1>2. /\ events' = Append(events, x) /\ state = "started" /\ state' = "stopping"
      /\ UNCHANGED <<posted, write, stopFlag, waiter, toPeer, fromPeer>>
  BY DEF LoseConnection, sending, IsStarted
<1> HIDE DEF x
<1>3. /\ events' \in Seq(Works) /\ events' # <<>>
      /\ events # <<>> => Head(events') = Head(events)
      /\ \A e : Has(Kinds(events'), e) <=> Has(Kinds(events), e) \/ x.e = e
      /\ \A e : Once(Kinds(events'), e) <=> Once(Kinds(events), e) /\ (x.e = e => ~Has(Kinds(events), e))
  BY <1>1, <1>2, Added DEF LinkInv
<1>4. ~Queued("disconnect") /\ ~Queued("stop") /\ ~stopFlag
  BY <1>2 DEF LinkInv
<1>5. /\ Once(Kinds(events'), "disconnect") /\ Once(Kinds(events'), "stop")
      /\ ~Has(Kinds(events'), "stop")
  BY <1>1, <1>3, <1>4 DEF LinkInv, Queued
<1>6. QED
  BY <1>2, <1>3, <1>4, <1>5 DEF LinkInv, Queued

LEMMA ReconnectLink == ASSUME LinkInv, Reconnect PROVE LinkInv'
<1>1. /\ state = "closed" /\ events = <<>> /\ state' = "started" /\ stopFlag' = FALSE /\ waiter' = "waiting"
      /\ UNCHANGED <<posted, events, write, toPeer, fromPeer>>
  BY DEF Reconnect, queue
<1>2. \A e : ~Has(Kinds(events), e)
  BY <1>1, HasNone DEF Kinds, Has
<1>3. QED
  BY <1>1, <1>2 DEF LinkInv, Queued

\* The pending calls as events, and the first of them when it runs at once.
Sends == [i \in DOMAIN pending |-> Event("send", pending[i])]
Direct == IF events = <<>> /\ pending # <<>> THEN <<pending[1]>> ELSE <<>>

LEMMA SendsType ==
  ASSUME TypeOK
  PROVE  /\ Sends \in Seq(Works) /\ Sends \in Seq(Cells) /\ Calls(Sends) = pending
         /\ \A e : e # "send" => ~Has(Kinds(Sends), e)
         /\ pending = <<>> => Sends = <<>>
         /\ pending # <<>> => /\ Sends # <<>> /\ pending[1] \in Ids
                              /\ Head(Sends) = Event("send", pending[1])
<1> DEFINE n == Len(pending)
<1>1. n \in Nat /\ DOMAIN pending = 1 .. n /\ \A i \in 1 .. n : pending[i] \in Ids
  BY Elements DEF TypeOK
<1>2. \A i \in 1 .. n : Event("send", pending[i]) \in Works
  BY <1>1, CellTypes
<1> HIDE DEF n
<1>3. Sends \in [1 .. n -> Works] /\ \A i \in 1 .. n : Sends[i] = Event("send", pending[i])
  BY <1>1, <1>2 DEF Sends
<1>4. Sends \in Seq(Works) /\ Sends \in Seq(Cells)
  BY <1>1, <1>3, CellTypes
<1>5. Len(Sends) = n
  <2>1. DOMAIN Sends = 1 .. Len(Sends) /\ Len(Sends) \in Nat
    BY <1>4, LenProperties
  <2>2. 1 .. Len(Sends) = 1 .. n
    BY <2>1, <1>3
  <2>3. Len(Sends) \in Nat /\ 1 .. Len(Sends) = 1 .. n /\ n \in Nat
    BY <2>1, <2>2, <1>1
  <2> DEFINE m == Len(Sends)
  <2> HIDE DEF m
  <2>4. m \in Nat /\ 1 .. m = 1 .. n /\ n \in Nat
    BY <2>3 DEF m
  <2>5. m = n
    <3>1. m # 0 => m \in 1 .. n
      BY <2>4
    <3>2. n # 0 => n \in 1 .. m
      BY <2>4
    <3>3. QED
      BY <2>4, <3>1, <3>2
  <2>6. QED
    BY <2>5 DEF m
<1>6. /\ Calls(Sends) \in Seq(Names) /\ Len(Calls(Sends)) = n /\ DOMAIN Kinds(Sends) = 1 .. n
      /\ \A i \in 1 .. n : Calls(Sends)[i] = Sends[i].c /\ Kinds(Sends)[i] = Sends[i].e
  BY <1>3, <1>4, <1>5, Columns
<1>7. \A i \in 1 .. n : Calls(Sends)[i] = pending[i] /\ Kinds(Sends)[i] = "send"
  BY <1>3, <1>6, CellTypes
<1>8. pending \in Seq(Names) /\ Len(pending) = n
  <2>1. pending \in Seq(Ids) /\ Ids \subseteq Names
    BY DEF TypeOK, Names
  <2>2. QED
    BY <2>1, SeqMonotonic DEF n
<1>9. Calls(Sends) = pending
  BY <1>6, <1>7, <1>8, SeqEqual
<1>10. \A e : e # "send" => ~Has(Kinds(Sends), e)
  BY <1>6, <1>7 DEF Has
<1>11. pending = <<>> => Sends = <<>>
  BY <1>4, <1>5, <1>8, EmptySeq
<1>12. ASSUME pending # <<>>
       PROVE  Sends # <<>> /\ pending[1] \in Ids /\ Head(Sends) = Event("send", pending[1])
  <2>1. n # 0
    BY <1>8, <1>12, EmptySeq
  <2>2. 1 \in 1 .. n
    BY <2>1, <1>1
  <2>3. Sends # <<>>
    BY <2>1, <1>5, EmptySeq
  <2>4. Head(Sends) = Sends[1]
    BY <2>3, <1>4, Elements
  <2>5. QED
    BY <2>2, <2>3, <2>4, <1>1, <1>3
<1>13. QED
  BY <1>4, <1>9, <1>10, <1>11, <1>12

LEMMA WakeDoes ==
  ASSUME HandleWake
  PROVE  /\ Calm /\ posted # <<>> /\ Head(posted) = Wake /\ posted' = Tail(posted)
         /\ events' = events \o Sends
         /\ write' = IF Direct = <<>> THEN write ELSE "busy"
         /\ stopFlag => /\ waiter' = "none" /\ answers' = Aborted(reqs \o Direct) /\ reqs' = <<>>
                        /\ timer' = [c \in Ids |->
                             IF Contains(reqs, c) /\ timer[c] = "armed" THEN "idle" ELSE timer[c]]
         /\ ~stopFlag => /\ waiter' = "waiting" /\ reqs' = reqs \o Direct /\ answers' = answers
                         /\ timer' = [c \in Ids |-> IF Contains(Direct, c) THEN "armed" ELSE timer[c]]
         /\ pending' = <<>>
         /\ UNCHANGED <<call, key, stopFlag, state, toPeer, fromPeer, connects>>
BY DEF HandleWake, Sends, Direct, caller, link

LEMMA HandleWakeLink == ASSUME TypeOK, LinkInv, HandleWake PROVE LinkInv'
<1>1. events \in Seq(Cells) /\ events \in Seq(Works) /\ Sends \in Seq(Works) /\ Sends \in Seq(Cells)
  BY SendsType, CellTypes, SeqMonotonic DEF LinkInv
<1>2. events' = events \o Sends
  BY WakeDoes
<1>3. events' \in Seq(Works) /\ Kinds(events') = Kinds(events) \o Kinds(Sends)
  BY <1>1, <1>2, ConcatProperties, ColumnsConcat
<1>4. Kinds(events) \in Seq(KindsOf) /\ Kinds(Sends) \in Seq(KindsOf)
  BY <1>1, Columns
<1>5. \A e : /\ Has(Kinds(events'), e) <=> Has(Kinds(events), e) \/ Has(Kinds(Sends), e)
             /\ Once(Kinds(events'), e) <=>
                  Once(Kinds(events), e) /\ Once(Kinds(Sends), e) /\ ~(Has(Kinds(events), e) /\ Has(Kinds(Sends), e))
  BY <1>3, <1>4, InConcat
<1>6. \A e : e # "send" => ~Has(Kinds(Sends), e)
  BY SendsType
<1>7. \A e : e # "send" => Once(Kinds(Sends), e)
  BY <1>6 DEF Has, Once
<1>8. \A e \in {"disconnect", "stop"} : /\ Has(Kinds(events'), e) <=> Has(Kinds(events), e)
                                        /\ Once(Kinds(events'), e) <=> Once(Kinds(events), e)
  BY <1>5, <1>6, <1>7
<1>9. write' # "none" => events' # <<>> /\ Head(events').e = "send"
  <2>1. CASE events = <<>>
    <3>1. events' = Sends
      BY <1>1, <1>2, <2>1, ConcatEmptySeq
    <3>2. write = "none"
      BY <2>1 DEF LinkInv
    <3>3. write' # "none" => pending # <<>>
      BY <3>2, WakeDoes DEF Direct
    <3>4. QED
      BY <3>1, <3>3, SendsType, CellTypes
  <2>2. CASE events # <<>>
    <3>1. write' = write
      BY <2>2, WakeDoes DEF Direct
    <3>2. events' # <<>> /\ Head(events') = Head(events)
      <4> DEFINE r == Sends
      <4> HIDE DEF r
      <4>1. /\ events' = events \o r /\ Len(events) \in Nat /\ Len(events) # 0 /\ Len(r) \in Nat
            /\ Len(events \o r) = Len(events) + Len(r)
            /\ \A i \in 1 .. Len(events) + Len(r) :
                 (events \o r)[i] = IF i <= Len(events) THEN events[i] ELSE r[i - Len(events)]
        <5>1. r \in Seq(Works) /\ events' = events \o r
          BY <1>1, <1>2 DEF r
        <5>2. QED
          BY <5>1, <1>1, <2>2, ConcatProperties, LenProperties, EmptySeq
      <4>2. Len(events') # 0 /\ events'[1] = events[1]
        BY <4>1
      <4>3. events' # <<>>
        BY <4>2, EmptySeq
      <4>4. QED
        BY <4>2, <4>3, <2>2, <1>1, <1>3, Elements
    <3>3. QED
      BY <3>1, <3>2, <2>2 DEF LinkInv
  <2>3. QED
    BY <2>1, <2>2
<1>10. posted' \in Seq(Posts)
  BY WakeDoes, LaterPosts
<1>11. write' = "sent" => write = "sent"
  BY WakeDoes
<1>12. waiter' = "none" => stopFlag
  BY WakeDoes DEF LinkInv
<1>13. UNCHANGED <<stopFlag, state, toPeer, fromPeer>>
  BY WakeDoes
<1>14. QED
  BY <1>3, <1>8, <1>9, <1>10, <1>11, <1>12, <1>13 DEF LinkInv, Queued

\* The events behind the write that has ended.
LEMMA SentDoes ==
  ASSUME LinkInv, HandleSent
  PROVE  /\ events # <<>> /\ Head(events) \in Works /\ Head(events).e = "send" /\ FrontCall \in Ids
         /\ write # "none" /\ write' = "none"
         /\ \/ events' = Tail(events) /\ state' = state
            \/ /\ write = "busy" /\ state = "started" /\ state' = "stopping"
               /\ events' = Append(Tail(events), Event("disconnect", 0))
         /\ write = "sent" => UNCHANGED <<answers, reqs, timer>>
         /\ write = "busy" => IF Entries(key[FrontCall]) # {}
                                THEN Complete(key[FrontCall], Answer("timed_out", 0), timer)
                                ELSE UNCHANGED <<answers, reqs, timer>>
         /\ UNCHANGED <<call, key, posted, pending, waiter, stopFlag, toPeer, fromPeer, connects>>
<1>1. write # "none" /\ write' = "none" /\ events # <<>> /\ Head(events).e = "send" /\ Head(events) \in Works
  BY HeadTailProperties DEF HandleSent, LinkInv
<1>2. FrontCall \in Ids
  BY <1>1, CellTypes DEF FrontCall
<1>3. \/ events' = Tail(events) /\ state' = state
      \/ /\ write = "busy" /\ state = "started" /\ state' = "stopping"
         /\ events' = Append(Tail(events), Event("disconnect", 0))
  <2>1. Tail(events) \in Seq(Works) /\ Event("disconnect", 0) \in Works
    BY <1>1, HeadTailProperties, CellTypes DEF LinkInv
  <2>2. Tail(events) \o <<Event("disconnect", 0)>> = Append(Tail(events), Event("disconnect", 0))
    BY <2>1, AppendIsConcat
  <2>3. Tail(events) \o <<>> = Tail(events)
    BY <2>1, ConcatEmptySeq
  <2>4. QED
    BY <2>2, <2>3 DEF HandleSent, IsStarted
<1>4. QED
  BY <1>1, <1>2, <1>3 DEF HandleSent, caller, sending, table

LEMMA HandleSentLink == ASSUME LinkInv, HandleSent PROVE LinkInv'
<1> DEFINE x == Event("disconnect", 0)
           q == Tail(events)
<1>1. /\ q \in Seq(Works)
      /\ \A e : Has(Kinds(events), e) <=> Head(events).e = e \/ Has(Kinds(q), e)
      /\ \A e : Once(Kinds(events), e) => Once(Kinds(q), e)
  BY SentDoes, Removed DEF LinkInv
<1>2. \A e \in {"disconnect", "stop"} : Has(Kinds(events), e) <=> Has(Kinds(q), e)
  BY <1>1, SentDoes
<1>3. x \in Works /\ x.e = "disconnect"
  BY CellTypes
<1>4. CASE events' = q /\ state' = state
  BY <1>1, <1>2, <1>4, SentDoes DEF LinkInv, Queued
<1>5. CASE state = "started" /\ state' = "stopping" /\ events' = Append(q, x)
  <2> HIDE DEF q, x
  <2>1. /\ events' \in Seq(Works)
        /\ \A e : Has(Kinds(events'), e) <=> Has(Kinds(q), e) \/ x.e = e
        /\ \A e : Once(Kinds(events'), e) <=> Once(Kinds(q), e) /\ (x.e = e => ~Has(Kinds(q), e))
    BY <1>1, <1>3, <1>5, Added
  <2>2. ~Queued("disconnect") /\ ~Queued("stop") /\ ~stopFlag
    BY <1>5 DEF LinkInv
  <2>3. ~Has(Kinds(q), "disconnect") /\ ~Has(Kinds(q), "stop")
    BY <1>2, <2>2 DEF Queued
  <2>4. /\ Once(Kinds(events'), "disconnect") /\ Once(Kinds(events'), "stop")
        /\ ~Has(Kinds(events'), "stop")
    BY <1>1, <1>3, <2>1, <2>3 DEF LinkInv
  <2>5. QED
    BY <1>5, <2>1, <2>2, <2>4, SentDoes DEF LinkInv, Queued
<1>6. QED
  BY <1>4, <1>5, SentDoes

LEMMA LinkStep == TypeOK /\ LinkInv /\ [Next]_vars => LinkInv'
<1> SUFFICES ASSUME TypeOK, LinkInv, [Next]_vars PROVE LinkInv'
  OBVIOUS
<1>1. ASSUME NEW c \in Ids, CallTests(c) \/ CallPushes(c) \/ CallOnStrand(c)
      PROVE  LinkInv'
  BY <1>1, PostStep, CallOnStrandLink
<1>2. CASE (\E c \in Ids : WaitEnds(c) \/ HandleTimer(c) \/ TimerExpires(c)) \/ UNCHANGED vars
  BY <1>2, QuietLink
<1>3. CASE RunEvent
  BY <1>3, RunFailLink, RunQueueLink, RunSendLink, RunDisconnectLink, RunStopLink DEF RunEvent
<1>4. CASE Arrives \/ HandleWake \/ HandleSent \/ HandleRecv
  BY <1>4, ArriveStep, HandleWakeLink, HandleSentLink, HandleRecvLink
<1>5. CASE Transmit \/ LoseConnection \/ Reconnect \/ Respond
  BY <1>5, TransmitLink, LoseConnectionLink, ReconnectLink, RespondLink
<1>6. QED
  BY <1>1, <1>2, <1>3, <1>4, <1>5 DEF Next

-----------------------------------------------------------------------------
(* Type correctness.                                                       *)

Replies == [o : Outcomes, from : Ids \cup {0}]
Timers == {"idle", "armed", "expired"}

TableTypes == answers \in [Ids -> Seq(Replies)] /\ reqs \in Seq(Ids) /\ timer \in [Ids -> Timers]

LEMMA LeastOf ==
  ASSUME NEW S \in SUBSET Nat, S # {}
  PROVE  \E i \in S : \A j \in S : i <= j
<1>1. PICK i \in S : \A j \in S : ~(<<j, i>> \in OpToRel(<, Nat))
  BY NatLessThanWellFounded, WFMin
<1>2. \A j \in S : ~(j < i)
  BY <1>1 DEF OpToRel
<1>3. QED
  BY <1>2

\* find gives the first entry of the id.
LEMMA FoundFirst ==
  ASSUME TypeOK, NEW k, Entries(k) # {}
  PROVE  /\ Found(k) \in DOMAIN reqs /\ reqs[Found(k)] \in Ids /\ key[reqs[Found(k)]] = k
         /\ \A j \in DOMAIN reqs : key[reqs[j]] = k => Found(k) <= j
<1>1. DOMAIN reqs = 1 .. Len(reqs) /\ Len(reqs) \in Nat /\ \A i \in DOMAIN reqs : reqs[i] \in Ids
  BY Elements DEF TypeOK
<1>2. Entries(k) \in SUBSET Nat
  BY <1>1 DEF Entries
<1>3. \E i \in Entries(k) : \A j \in Entries(k) : i <= j
  BY <1>2, LeastOf
<1>4. Found(k) \in Entries(k) /\ \A j \in Entries(k) : Found(k) <= j
  BY <1>3 DEF Found
<1>5. QED
  BY <1>1, <1>4 DEF Entries

LEMMA CancelType ==
  ASSUME NEW timers \in [Ids -> Timers], NEW c
  PROVE  Cancel(timers, c) \in [Ids -> Timers]
BY DEF Cancel, Timers

LEMMA CompleteType ==
  ASSUME TypeOK, NEW k, Entries(k) # {}, NEW answer \in Replies, NEW timers \in [Ids -> Timers],
         Complete(k, answer, timers)
  PROVE  TableTypes'
<1> DEFINE i == Found(k)
           c == reqs[i]
<1>1. i \in DOMAIN reqs /\ c \in Ids
  BY FoundFirst
<1>2. answers' = [answers EXCEPT ![c] = Append(@, answer)] /\ reqs' = RemoveAt(reqs, i) /\ timer' = Cancel(timers, c)
  BY DEF Complete
<1>3. answers \in [Ids -> Seq(Replies)] /\ reqs \in Seq(Ids)
  BY DEF TypeOK, Replies
<1> HIDE DEF i, c
<1>4. Append(answers[c], answer) \in Seq(Replies)
  BY <1>1, <1>3, AppendProperties
<1>5. answers' \in [Ids -> Seq(Replies)]
  BY <1>2, <1>3, <1>4
<1>6. QED
  BY <1>1, <1>2, <1>3, <1>5, RemoveProperties, CancelType DEF TableTypes

LEMMA AbortedType ==
  ASSUME TypeOK, NEW S
  PROVE  Aborted(S) \in [Ids -> Seq(Replies)]
<1>1. ASSUME NEW c \in Ids PROVE Append(answers[c], Answer("aborted", 0)) \in Seq(Replies)
  <2>1. answers[c] \in Seq(Replies) /\ Answer("aborted", 0) \in Replies
    BY DEF TypeOK, Replies, Answer, Outcomes
  <2>2. QED
    BY <2>1, AppendProperties
<1>2. \A c \in Ids : answers[c] \in Seq(Replies)
  BY DEF TypeOK, Replies
<1>3. QED
  BY <1>1, <1>2 DEF Aborted

LEMMA DirectType == ASSUME TypeOK PROVE Direct \in Seq(Ids)
<1>1. pending # <<>> => pending[1] \in Ids
  BY SendsType
<1>2. QED
  BY <1>1 DEF Direct

LEMMA TableStep == ASSUME TypeOK, LinkInv, [Next]_vars PROVE TableTypes'
<1>0. /\ answers \in [Ids -> Seq(Replies)] /\ reqs \in Seq(Ids) /\ timer \in [Ids -> Timers]
      /\ TableTypes /\ pending \in Seq(Ids)
  BY DEF TypeOK, TableTypes, Replies, Timers
<1>1. CASE UNCHANGED table \/ UNCHANGED vars
  BY <1>0, <1>1 DEF TableTypes, table, vars
<1>2. ASSUME NEW c \in Ids, CallTests(c) \/ CallPushes(c) \/ CallOnStrand(c) \/ WaitEnds(c)
      PROVE  UNCHANGED table
  BY <1>2 DEF CallTests, CallPushes, CallOnStrand, WaitEnds, table
<1>3. ASSUME NEW c \in Ids, TimerExpires(c) PROVE TableTypes'
  BY <1>3, <1>0 DEF TimerExpires, TableTypes, Timers
<1>4. ASSUME NEW c \in Ids, HandleTimer(c) PROVE TableTypes'
  <2> DEFINE others == [timer EXCEPT ![c] = "idle"]
  <2>1. others \in [Ids -> Timers]
    BY <1>0 DEF Timers
  <2>2. Answer("timed_out", 0) \in Replies
    BY DEF Replies, Answer, Outcomes
  <2>3. \/ Entries(key[c]) # {} /\ Complete(key[c], Answer("timed_out", 0), others)
        \/ timer' = others /\ UNCHANGED <<answers, reqs>>
    BY <1>4 DEF HandleTimer
  <2>4. QED
    BY <2>1, <2>2, <2>3, <1>0, CompleteType DEF TableTypes
<1>5. CASE Arrives \/ RunQueue \/ RunDisconnect \/ RunStop \/ Transmit \/ LoseConnection \/ Reconnect \/ Respond
  BY <1>1, <1>5 DEF Arrives, RunQueue, RunDisconnect, RunStop, Transmit, LoseConnection, Reconnect, Respond, table
<1>6. CASE RunFail
  <2>1. /\ answers' = [answers EXCEPT ![FrontCall] = Append(@, Answer("not_connected", 0))]
        /\ UNCHANGED <<reqs, timer>>
    BY <1>6 DEF RunFail
  <2>2. Answer("not_connected", 0) \in Replies
    BY DEF Replies, Answer, Outcomes
  <2>3. \A c \in Ids : Append(answers[c], Answer("not_connected", 0)) \in Seq(Replies)
    BY <1>0, <2>2, AppendProperties
  <2>4. QED
    BY <1>0, <2>1, <2>3 DEF TableTypes
<1>7. CASE RunSend
  <2>1. FrontCall \in Ids
    <3>1. events # <<>> /\ Head(events).e = "send"
      BY <1>7, FirstEvent DEF RunSend
    <3>2. Head(events) \in Works
      BY <3>1, HeadTailProperties DEF LinkInv
    <3>3. QED
      BY <3>1, <3>2, CellTypes DEF FrontCall
  <2>2. Append(reqs, FrontCall) \in Seq(Ids)
    BY <1>0, <2>1, AppendProperties
  <2>3. QED
    BY <1>0, <1>7, <2>2 DEF RunSend, TableTypes, Timers
<1>8. CASE HandleWake
  <2>1. CASE stopFlag
    <3>1. answers' \in [Ids -> Seq(Replies)] /\ reqs' = <<>>
      BY <1>8, <2>1, WakeDoes, AbortedType
    <3>2. timer' \in [Ids -> Timers]
      <4>1. timer' = [c \in Ids |-> IF Contains(reqs, c) /\ timer[c] = "armed" THEN "idle" ELSE timer[c]]
        BY <1>8, <2>1, WakeDoes
      <4>2. QED
        BY <4>1, <1>0 DEF Timers
    <3>3. QED
      BY <3>1, <3>2 DEF TableTypes
  <2>2. CASE ~stopFlag
    <3>1. reqs' \in Seq(Ids) /\ answers' = answers
      <4>1. reqs' = reqs \o Direct /\ answers' = answers
        BY <1>8, <2>2, WakeDoes
      <4>2. reqs \in Seq(Ids) /\ Direct \in Seq(Ids)
        BY <1>0, DirectType
      <4>3. QED
        BY <4>1, <4>2, ConcatProperties
    <3>2. timer' \in [Ids -> Timers]
      <4>1. timer' = [c \in Ids |-> IF Contains(Direct, c) THEN "armed" ELSE timer[c]]
        BY <1>8, <2>2, WakeDoes
      <4>2. QED
        BY <4>1, <1>0 DEF Timers
    <3>3. QED
      BY <1>0, <3>1, <3>2 DEF TableTypes
  <2>3. QED
    BY <2>1, <2>2
<1>9. CASE HandleSent
  <2>1. Answer("timed_out", 0) \in Replies
    BY DEF Replies, Answer, Outcomes
  <2>2. write = "sent" \/ write = "busy"
    BY <1>9, SentDoes DEF TypeOK
  <2>3. QED
    BY <1>0, <1>9, <2>1, <2>2, SentDoes, CompleteType DEF TableTypes
<1>10. CASE HandleRecv
  <2>1. fromPeer # <<>> /\ Head(fromPeer) \in Ids
    BY <1>10, HeadTailProperties DEF HandleRecv, TypeOK
  <2>2. Answer("ok", Head(fromPeer)) \in Replies
    BY <2>1 DEF Replies, Answer, Outcomes
  <2>3. \/ /\ Entries(key[Head(fromPeer)]) # {}
           /\ Complete(key[Head(fromPeer)], Answer("ok", Head(fromPeer)), timer)
        \/ UNCHANGED table
    BY <1>10 DEF HandleRecv
  <2>4. QED
    BY <1>0, <1>1, <2>2, <2>3, CompleteType
<1>11. QED
  BY <1>1, <1>2, <1>3, <1>4, <1>5, <1>6, <1>7, <1>8, <1>9, <1>10 DEF Next, RunEvent

CallerTypes ==
  /\ call \in [Ids -> {"new", "tested", "made", "waiting", "in_progress"} \cup Outcomes]
  /\ key \in [Ids -> Keys \cup {NoKey}]

LEMMA CallerStep == ASSUME TypeOK, [Next]_vars PROVE CallerTypes'
<1> USE DEF TypeOK, CallerTypes
<1>1. CASE UNCHANGED caller \/ UNCHANGED vars
  BY <1>1 DEF caller, vars
<1>2. ASSUME NEW c \in Ids, CallTests(c) PROVE CallerTypes'
  BY <1>2 DEF CallTests, Outcomes
<1>3. ASSUME NEW c \in Ids, CallPushes(c) PROVE CallerTypes'
  BY <1>3 DEF CallPushes
<1>4. ASSUME NEW c \in Ids, CallOnStrand(c) PROVE CallerTypes'
  BY <1>4 DEF CallOnStrand
<1>5. ASSUME NEW c \in Ids, WaitEnds(c) PROVE CallerTypes'
  <2>1. answers[c] # <<>> => answers[c][1].o \in Outcomes
    <3>1. answers[c] \in Seq(Replies)
      BY DEF Replies
    <3>2. answers[c] # <<>> => answers[c][1] \in Replies
      BY <3>1, Elements
    <3>3. QED
      BY <3>2 DEF Replies
  <2>2. (IF answers[c] = <<>> THEN "timed_out" ELSE answers[c][1].o) \in Outcomes
    BY <2>1 DEF Outcomes
  <2>3. QED
    BY <1>5, <2>2 DEF WaitEnds
<1>6. ASSUME NEW c \in Ids, HandleTimer(c) \/ TimerExpires(c) PROVE CallerTypes'
  BY <1>6, <1>1 DEF HandleTimer, TimerExpires
<1>7. CASE RunEvent
  BY <1>7, <1>1 DEF RunEvent, RunFail, RunQueue, RunSend, RunDisconnect, RunStop
<1>8. CASE Arrives \/ HandleWake \/ HandleSent \/ HandleRecv
  BY <1>8, <1>1 DEF Arrives, HandleWake, HandleSent, HandleRecv
<1>9. CASE Transmit \/ LoseConnection \/ Reconnect \/ Respond
  BY <1>9, <1>1 DEF Transmit, LoseConnection, Reconnect, Respond
<1>10. QED
  BY <1>1, <1>2, <1>3, <1>4, <1>5, <1>6, <1>7, <1>8, <1>9 DEF Next

FlowTypes ==
  /\ write \in {"none", "busy", "sent"} /\ pending \in Seq(Ids)
  /\ waiter \in {"none", "waiting", "woken"} /\ stopFlag \in BOOLEAN
  /\ state \in {"started", "stopping", "closed"}
  /\ toPeer \in Seq(Ids) /\ fromPeer \in Seq(Ids)
  /\ connects \in 0 .. MaxConnects

LEMMA FrontNamed ==
  ASSUME LinkInv, events # <<>>, Head(events).e \in {"fail", "queue", "send"}
  PROVE  FrontCall \in Ids
<1>1. Head(events) \in Works
  BY HeadTailProperties DEF LinkInv
<1>2. QED
  BY <1>1, CellTypes DEF FrontCall

LEMMA FlowStep == ASSUME TypeOK, LinkInv, [Next]_vars PROVE FlowTypes'
<1>0. FlowTypes
  BY DEF TypeOK, FlowTypes
<1>1. CASE UNCHANGED <<write, sending, link>> \/ UNCHANGED vars
  BY <1>0, <1>1 DEF FlowTypes, vars, queue, sending, link
<1>2. ASSUME NEW c \in Ids,
             CallTests(c) \/ CallPushes(c) \/ CallOnStrand(c) \/ WaitEnds(c) \/ HandleTimer(c) \/ TimerExpires(c)
      PROVE  FlowTypes'
  BY <1>1, <1>2 DEF CallTests, CallPushes, CallOnStrand, WaitEnds, HandleTimer, TimerExpires, queue
<1>3. CASE Arrives \/ RunFail
  BY <1>1, <1>3 DEF Arrives, RunFail
<1>4. CASE RunQueue
  <2>1. FrontCall \in Ids
    BY <1>4, FirstEvent, FrontNamed DEF RunQueue
  <2>2. pending' \in Seq(Ids)
    BY <1>0, <1>4, <2>1, AppendProperties DEF RunQueue, FlowTypes
  <2>3. QED
    BY <1>0, <1>4, <2>2 DEF RunQueue, Notify, FlowTypes, link
<1>5. CASE RunSend \/ RunStop
  BY <1>0, <1>5 DEF RunSend, RunStop, Notify, FlowTypes, sending, link
<1>6. CASE RunDisconnect
  BY <1>0, <1>6 DEF RunDisconnect, FlowTypes, sending
<1>7. CASE HandleWake
  BY <1>0, <1>7, WakeDoes DEF FlowTypes
<1>8. CASE HandleSent
  BY <1>0, <1>8, SentDoes DEF FlowTypes
<1>9. CASE HandleRecv
  <2>1. fromPeer' \in Seq(Ids)
    BY <1>0, <1>9, HeadTailProperties DEF HandleRecv, FlowTypes
  <2>2. QED
    BY <1>0, <1>9, <2>1 DEF HandleRecv, FlowTypes, queue, sending
<1>10. CASE Transmit
  <2>1. FrontCall \in Ids
    BY <1>10, FrontNamed DEF Transmit, LinkInv
  <2>2. toPeer' \in Seq(Ids)
    BY <1>0, <1>10, <2>1, AppendProperties DEF Transmit, FlowTypes
  <2>3. QED
    BY <1>0, <1>10, <2>2 DEF Transmit, FlowTypes, sending
<1>11. CASE Respond
  <2>1. PICK i \in DOMAIN toPeer : toPeer' = RemoveAt(toPeer, i) /\ fromPeer' = Append(fromPeer, toPeer[i])
    BY <1>11 DEF Respond
  <2>2. toPeer[i] \in Ids
    BY <1>0, Elements DEF FlowTypes
  <2>3. toPeer' \in Seq(Ids) /\ fromPeer' \in Seq(Ids)
    BY <1>0, <2>1, <2>2, RemoveProperties, AppendProperties DEF FlowTypes
  <2>4. QED
    BY <1>0, <1>11, <2>3 DEF Respond, FlowTypes, queue, sending
<1>12. CASE LoseConnection
  BY <1>0, <1>12 DEF LoseConnection, FlowTypes, sending
<1>13. CASE Reconnect
  <2>1. connects + 1 \in 0 .. MaxConnects
    BY <1>0, <1>13, BoundsAssumption DEF Reconnect, FlowTypes
  <2>2. QED
    BY <1>0, <1>13, <2>1 DEF Reconnect, FlowTypes, queue
<1>14. QED
  BY <1>1, <1>2, <1>3, <1>4, <1>5, <1>6, <1>7, <1>8, <1>9, <1>10, <1>11, <1>12, <1>13 DEF Next, RunEvent

LEMMA TypeStep == TypeOK /\ LinkInv /\ [Next]_vars => TypeOK'
<1> SUFFICES ASSUME TypeOK, LinkInv, [Next]_vars PROVE TypeOK'
  OBVIOUS
<1>1. TableTypes' /\ CallerTypes' /\ FlowTypes'
  BY TableStep, CallerStep, FlowStep
<1>2. /\ posted' \in Seq([e : {"fail", "queue", "wake"}, c : Ids \cup {0}])
      /\ events' \in Seq([e : {"fail", "queue", "send", "disconnect", "stop"}, c : Ids \cup {0}])
  <2>1. posted' \in Seq(Posts) /\ events' \in Seq(Works)
    BY LinkStep DEF LinkInv
  <2>2. /\ Posts \subseteq [e : {"fail", "queue", "wake"}, c : Ids \cup {0}]
        /\ Works \subseteq [e : {"fail", "queue", "send", "disconnect", "stop"}, c : Ids \cup {0}]
    BY CellTypes
  <2>3. Seq(Posts) \subseteq Seq([e : {"fail", "queue", "wake"}, c : Ids \cup {0}])
    BY <2>2, SeqMonotonic
  <2>4. Seq(Works) \subseteq Seq([e : {"fail", "queue", "send", "disconnect", "stop"}, c : Ids \cup {0}])
    BY <2>2, SeqMonotonic
  <2>5. QED
    BY <2>1, <2>3, <2>4
<1>3. QED
  BY <1>1, <1>2 DEF TypeOK, TableTypes, CallerTypes, FlowTypes, Replies, Timers

-----------------------------------------------------------------------------
(* A call is in one place at a time: not pushed yet, pushed by a thread,   *)
(* behind the event the strand is busy with, pending, in the table, or     *)
(* answered.                                                               *)

Line == Calls(posted)
Behind == Calls(IF write = "none" THEN events ELSE Tail(events))

Nowhere(c) ==
  /\ ~Has(Line, c) /\ ~Has(Behind, c) /\ ~Has(pending, c) /\ ~Has(reqs, c)
  /\ answers[c] = <<>>

InOnePlace(c) ==
  /\ Once(Line, c) /\ Once(Behind, c) /\ Once(pending, c) /\ Once(reqs, c)
  /\ Has(Line, c) => ~Has(Behind, c) /\ ~Has(pending, c) /\ ~Has(reqs, c) /\ answers[c] = <<>>
  /\ Has(Behind, c) => ~Has(pending, c) /\ ~Has(reqs, c) /\ answers[c] = <<>>
  /\ Has(pending, c) => ~Has(reqs, c) /\ answers[c] = <<>>
  /\ Has(reqs, c) => answers[c] = <<>>
  /\ Len(answers[c]) <= 1
  /\ call[c] \in {"new", "tested"} => Nowhere(c)

OncePlaced == \A c \in Ids : InOnePlace(c)

\* For the calls of Ids the sequences r and q say the same.
Same(r, q) == \A c \in Ids : (Has(r, c) <=> Has(q, c)) /\ (Once(r, c) <=> Once(q, c))

LEMMA PlaceTypes ==
  ASSUME TypeOK, LinkInv
  PROVE  /\ posted \in Seq(Cells) /\ events \in Seq(Cells)
         /\ Line \in Seq(Names) /\ Behind \in Seq(Names)
         /\ pending \in Seq(Names) /\ reqs \in Seq(Names)
<1>1. posted \in Seq(Cells) /\ events \in Seq(Cells)
  BY CellTypes, SeqMonotonic DEF LinkInv
<1>2. (IF write = "none" THEN events ELSE Tail(events)) \in Seq(Cells)
  BY <1>1, HeadTailProperties DEF LinkInv
<1>3. pending \in Seq(Ids) /\ reqs \in Seq(Ids) /\ Ids \subseteq Names
  BY DEF TypeOK, Names
<1>4. QED
  BY <1>1, <1>2, <1>3, Columns, SeqMonotonic DEF Line, Behind

LEMMA LinePush ==
  ASSUME TypeOK, LinkInv, NEW x \in Posts, posted' = Append(posted, x)
  PROVE  \A c : /\ Has(Line', c) <=> Has(Line, c) \/ x.c = c
                /\ Once(Line', c) <=> Once(Line, c) /\ (x.c = c => ~Has(Line, c))
<1>1. x \in Cells /\ x.c \in Names
  BY CellTypes DEF Cells
<1>2. Line' = Append(Line, x.c)
  BY <1>1, PlaceTypes, ColumnsAppend DEF Line
<1>3. QED
  BY <1>1, <1>2, PlaceTypes, InAppend

LEMMA LinePop ==
  ASSUME TypeOK, LinkInv, posted # <<>>, posted' = Tail(posted)
  PROVE  \A c : /\ Has(Line, c) <=> Head(posted).c = c \/ Has(Line', c)
                /\ Once(Line, c) <=> Once(Line', c) /\ (Head(posted).c = c => ~Has(Line', c))
<1>1. Line' = Tail(Line) /\ Line # <<>> /\ Head(Line) = Head(posted).c
  BY PlaceTypes, ColumnsTail DEF Line
<1>2. QED
  BY <1>1, PlaceTypes, InTail

LEMMA BehindPush ==
  ASSUME TypeOK, LinkInv, NEW x \in Works, events' = Append(events, x), write' = write
  PROVE  \A c : /\ Has(Behind', c) <=> Has(Behind, c) \/ x.c = c
                /\ Once(Behind', c) <=> Once(Behind, c) /\ (x.c = c => ~Has(Behind, c))
<1>1. x \in Cells /\ x.c \in Names /\ events \in Seq(Cells)
  BY CellTypes, PlaceTypes
<1>2. Behind' = Append(Behind, x.c)
  <2>1. CASE write = "none"
    BY <1>1, <2>1, ColumnsAppend DEF Behind
  <2>2. CASE write # "none"
    <3>1. events # <<>>
      BY <2>2 DEF LinkInv
    <3>2. Tail(Append(events, x)) = Append(Tail(events), x) /\ Tail(events) \in Seq(Cells)
      BY <1>1, <3>1, HeadTailAppend, HeadTailProperties
    <3>3. QED
      BY <1>1, <2>2, <3>2, ColumnsAppend DEF Behind
  <2>3. QED
    BY <2>1, <2>2
<1>3. QED
  BY <1>1, <1>2, PlaceTypes, InAppend

\* The event at the front is begun, and over at once or a write.
LEMMA BehindPop ==
  ASSUME TypeOK, LinkInv, NEW e, Runs(e),
         \/ events' = Tail(events) /\ write' = "none"
         \/ events' = events /\ write' # "none"
  PROVE  \A c : /\ Has(Behind, c) <=> FrontCall = c \/ Has(Behind', c)
                /\ Once(Behind, c) <=> Once(Behind', c) /\ (FrontCall = c => ~Has(Behind', c))
<1>1. events # <<>> /\ write = "none" /\ events \in Seq(Cells)
  BY FirstEvent, PlaceTypes
<1>2. Behind = Calls(events) /\ Behind' = Calls(Tail(events))
  BY <1>1 DEF Behind
<1>3. Behind' = Tail(Behind) /\ Behind # <<>> /\ Head(Behind) = FrontCall
  BY <1>1, <1>2, ColumnsTail DEF FrontCall
<1>4. QED
  BY <1>3, PlaceTypes, InTail

LEMMA PlacesStay ==
  ASSUME OncePlaced, UNCHANGED <<call, posted, pending, reqs, answers>>, Same(Behind', Behind)
  PROVE  OncePlaced'
BY DEF OncePlaced, InOnePlace, Nowhere, Same, Line

\* A call that is answered, and with it the entry that was found.
LEMMA PlacesComplete ==
  ASSUME TypeOK, OncePlaced, NEW k, Entries(k) # {}, NEW answer, NEW timers, Complete(k, answer, timers),
         UNCHANGED <<call, posted, pending>>, Same(Behind', Behind)
  PROVE  OncePlaced'
<1> DEFINE i == Found(k)
           x == reqs[i]
<1>1. i \in DOMAIN reqs /\ x \in Ids /\ reqs \in Seq(Ids)
  BY FoundFirst DEF TypeOK
<1>2. answers' = [answers EXCEPT ![x] = Append(@, answer)] /\ reqs' = RemoveAt(reqs, i)
  BY DEF Complete
<1>3. \A c : /\ Has(reqs, c) <=> x = c \/ Has(reqs', c)
             /\ Once(reqs, c) => Once(reqs', c) /\ (x = c => ~Has(reqs', c))
  BY <1>1, <1>2, InRemoveAt
<1> HIDE DEF i, x
<1>4. \A c \in Ids : c # x => answers'[c] = answers[c]
  BY <1>1, <1>2 DEF TypeOK
<1>5. answers[x] = <<>>
  BY <1>1, <1>3 DEF OncePlaced, InOnePlace
<1>6. Len(answers'[x]) <= 1
  <2>1. answers'[x] = Append(<<>>, answer)
    BY <1>1, <1>2, <1>5 DEF TypeOK
  <2>2. QED
    BY <2>1
<1>7. ASSUME NEW c \in Ids PROVE InOnePlace(c)'
  <2>1. InOnePlace(c) /\ Line' = Line
    BY DEF OncePlaced, Line
  <2>2. (Has(Behind', c) <=> Has(Behind, c)) /\ (Once(Behind', c) <=> Once(Behind, c))
    BY DEF Same
  <2>3. CASE c # x
    BY <2>1, <2>2, <2>3, <1>3, <1>4 DEF InOnePlace, Nowhere
  <2>4. CASE c = x
    <3>1. Has(reqs, c) /\ ~Has(Line, c) /\ ~Has(Behind, c) /\ ~Has(pending, c) /\ call[c] \notin {"new", "tested"}
      BY <2>1, <2>4, <1>3 DEF InOnePlace, Nowhere
    <3>2. ~Has(reqs', c) /\ Once(reqs', c)
      BY <2>1, <2>4, <1>3 DEF InOnePlace
    <3>3. QED
      BY <2>1, <2>2, <2>4, <3>1, <3>2, <1>6 DEF InOnePlace, Nowhere
  <2>5. QED
    BY <2>3, <2>4
<1>8. QED
  BY <1>7 DEF OncePlaced

LEMMA BehindStays == UNCHANGED <<events, write>> => Behind' = Behind /\ Same(Behind', Behind)
BY DEF Behind, Same

LEMMA CallTestsPlaces == ASSUME TypeOK, LinkInv, OncePlaced, NEW c \in Ids, CallTests(c) PROVE OncePlaced'
<1> DEFINE x == Event("fail", c)
<1>1. x \in Posts /\ x.c = c
  BY CellTypes
<1>2. /\ UNCHANGED <<pending, reqs, answers>> /\ Behind' = Behind
      /\ call[c] = "new" /\ \A d \in Ids : d # c => call'[d] = call[d]
      /\ \/ UNCHANGED posted
         \/ posted' = Append(posted, x) /\ call'[c] = "made"
  BY BehindStays DEF CallTests, TypeOK, sending, table
<1>3. Nowhere(c)
  BY <1>2 DEF OncePlaced, InOnePlace
<1> HIDE DEF x
<1>4. CASE UNCHANGED posted
  BY <1>2, <1>3, <1>4 DEF OncePlaced, InOnePlace, Nowhere, Line
<1>5. CASE posted' = Append(posted, x) /\ call'[c] = "made"
  <2>1. \A d : /\ Has(Line', d) <=> Has(Line, d) \/ c = d
               /\ Once(Line', d) <=> Once(Line, d) /\ (c = d => ~Has(Line, d))
    BY <1>1, <1>5, LinePush
  <2>2. QED
    BY <1>2, <1>3, <1>5, <2>1 DEF OncePlaced, InOnePlace, Nowhere
<1>6. QED
  BY <1>2, <1>4, <1>5

LEMMA CallPushesPlaces == ASSUME TypeOK, LinkInv, OncePlaced, NEW c \in Ids, CallPushes(c) PROVE OncePlaced'
<1> DEFINE x == Event("queue", c)
<1>1. x \in Posts /\ x.c = c
  BY CellTypes
<1>2. /\ UNCHANGED <<pending, reqs, answers>> /\ Behind' = Behind
      /\ call[c] = "tested" /\ \A d \in Ids : d # c => call'[d] = call[d]
      /\ posted' = Append(posted, x) /\ call'[c] \in {"made", "waiting"}
  BY BehindStays DEF CallPushes, TypeOK, sending, table
<1>3. Nowhere(c)
  BY <1>2 DEF OncePlaced, InOnePlace
<1> HIDE DEF x
<1>4. \A d : /\ Has(Line', d) <=> Has(Line, d) \/ c = d
             /\ Once(Line', d) <=> Once(Line, d) /\ (c = d => ~Has(Line, d))
  BY <1>1, <1>2, LinePush
<1>5. QED
  BY <1>2, <1>3, <1>4 DEF OncePlaced, InOnePlace, Nowhere

LEMMA CallOnStrandPlaces == ASSUME TypeOK, LinkInv, OncePlaced, NEW c \in Ids, CallOnStrand(c) PROVE OncePlaced'
<1> DEFINE x == Event("queue", c)
<1>1. x \in Works /\ x.c = c
  BY CellTypes
<1>2. /\ UNCHANGED <<posted, pending, reqs, answers>> /\ Line' = Line
      /\ call[c] = "new" /\ \A d \in Ids : d # c => call'[d] = call[d]
      /\ events' = Append(events, x) /\ write' = write /\ call'[c] \in {"made", "in_progress"}
  BY DEF CallOnStrand, TypeOK, sending, table, Line
<1>3. Nowhere(c)
  BY <1>2 DEF OncePlaced, InOnePlace
<1> HIDE DEF x
<1>4. \A d : /\ Has(Behind', d) <=> Has(Behind, d) \/ c = d
             /\ Once(Behind', d) <=> Once(Behind, d) /\ (c = d => ~Has(Behind, d))
  BY <1>1, <1>2, BehindPush
<1>5. QED
  BY <1>2, <1>3, <1>4 DEF OncePlaced, InOnePlace, Nowhere

LEMMA WaitEndsPlaces == ASSUME TypeOK, OncePlaced, NEW c \in Ids, WaitEnds(c) PROVE OncePlaced'
<1>1. /\ UNCHANGED <<posted, pending, reqs, answers>> /\ Behind' = Behind /\ Line' = Line
      /\ \A d \in Ids : d # c => call'[d] = call[d]
  BY BehindStays DEF WaitEnds, TypeOK, sending, table, queue, Line
<1>2. call'[c] \notin {"new", "tested"}
  <2>1. call'[c] = IF answers[c] = <<>> THEN "timed_out" ELSE answers[c][1].o
    BY DEF WaitEnds, TypeOK
  <2>2. answers[c] # <<>> => answers[c][1].o \in Outcomes
    <3>1. answers[c] \in Seq(Replies)
      BY DEF TypeOK, Replies
    <3>2. answers[c] # <<>> => answers[c][1] \in Replies
      BY <3>1, Elements
    <3>3. QED
      BY <3>2 DEF Replies
  <2>3. QED
    BY <2>1, <2>2 DEF Outcomes
<1>3. QED
  BY <1>1, <1>2 DEF OncePlaced, InOnePlace, Nowhere

LEMMA ArrivesPlaces == ASSUME TypeOK, LinkInv, OncePlaced, Arrives PROVE OncePlaced'
<1> DEFINE x == Head(posted)
<1>1. x \in Works /\ posted # <<>>
  BY LaterPosts, CellTypes DEF Arrives
<1>2. /\ UNCHANGED <<call, pending, reqs, answers>> /\ write' = write
      /\ posted' = Tail(posted) /\ events' = Append(events, x)
  BY DEF Arrives, sending, table, caller
<1>3. \A d : /\ Has(Line, d) <=> x.c = d \/ Has(Line', d)
             /\ Once(Line, d) <=> Once(Line', d) /\ (x.c = d => ~Has(Line', d))
  BY <1>1, <1>2, LinePop
<1> HIDE DEF x
<1>4. \A d : /\ Has(Behind', d) <=> Has(Behind, d) \/ x.c = d
             /\ Once(Behind', d) <=> Once(Behind, d) /\ (x.c = d => ~Has(Behind, d))
  BY <1>1, <1>2, BehindPush
<1>5. ASSUME NEW d \in Ids PROVE InOnePlace(d)'
  <2>1. InOnePlace(d)
    BY DEF OncePlaced
  <2>2. QED
    BY <2>1, <1>2, <1>3, <1>4 DEF InOnePlace, Nowhere
<1>6. QED
  BY <1>5 DEF OncePlaced

LEMMA RunFailPlaces == ASSUME TypeOK, LinkInv, OncePlaced, RunFail PROVE OncePlaced'
<1> DEFINE x == FrontCall
           new == Answer("not_connected", 0)
<1>1. x \in Ids /\ Runs("fail") /\ write = "none"
  BY FirstEvent, FrontNamed DEF RunFail
<1>2. /\ UNCHANGED <<call, posted, pending, reqs>> /\ Line' = Line
      /\ answers' = [answers EXCEPT ![x] = Append(@, new)]
      /\ events' = Tail(events) /\ write' = "none"
  BY <1>1 DEF RunFail, sending, caller, Line
<1>3. \A d : /\ Has(Behind, d) <=> x = d \/ Has(Behind', d)
             /\ Once(Behind, d) <=> Once(Behind', d) /\ (x = d => ~Has(Behind', d))
  BY <1>1, <1>2, BehindPop
<1> HIDE DEF x, new
<1>4. answers[x] = <<>>
  BY <1>1, <1>3 DEF OncePlaced, InOnePlace
<1>5. Len(answers'[x]) <= 1 /\ \A d \in Ids : d # x => answers'[d] = answers[d]
  <2>1. answers'[x] = Append(<<>>, new)
    BY <1>1, <1>2, <1>4 DEF TypeOK
  <2>2. Len(answers'[x]) <= 1
    BY <2>1
  <2>3. QED
    BY <1>1, <1>2, <2>2 DEF TypeOK
<1>6. ASSUME NEW d \in Ids PROVE InOnePlace(d)'
  <2>1. InOnePlace(d)
    BY DEF OncePlaced
  <2>2. CASE d = x
    <3>1. /\ ~Has(Line, d) /\ ~Has(Behind', d) /\ ~Has(pending, d) /\ ~Has(reqs, d) /\ Once(Behind', d)
          /\ call[d] \notin {"new", "tested"}
      BY <2>1, <2>2, <1>3 DEF InOnePlace, Nowhere
    <3>2. QED
      BY <2>1, <2>2, <3>1, <1>2, <1>5 DEF InOnePlace, Nowhere
  <2>3. CASE d # x
    BY <2>1, <2>3, <1>2, <1>3, <1>5 DEF InOnePlace, Nowhere
  <2>4. QED
    BY <2>2, <2>3
<1>7. QED
  BY <1>6 DEF OncePlaced

\* The waking of the sender stands for no call.
LEMMA NotifyPlaces == ASSUME TypeOK, LinkInv, Notify PROVE Same(Line', Line)
<1>1. CASE posted' = posted
  BY <1>1 DEF Same, Line
<1>2. CASE posted' = Append(posted, Wake)
  <2>1. Wake \in Posts /\ Wake.c = 0 /\ 0 \notin Ids
    BY CellTypes
  <2>2. \A d : /\ Has(Line', d) <=> Has(Line, d) \/ 0 = d
               /\ Once(Line', d) <=> Once(Line, d) /\ (0 = d => ~Has(Line, d))
    BY <1>2, <2>1, LinePush
  <2>3. QED
    BY <2>1, <2>2 DEF Same
<1>3. QED
  BY <1>1, <1>2 DEF Notify

LEMMA RunQueuePlaces == ASSUME TypeOK, LinkInv, OncePlaced, RunQueue PROVE OncePlaced'
<1> DEFINE x == FrontCall
<1>1. x \in Ids /\ Runs("queue") /\ write = "none" /\ x \in Names
  BY FirstEvent, FrontNamed DEF RunQueue, Names
<1>2. /\ UNCHANGED <<call, reqs, answers>> /\ Notify
      /\ pending' = Append(pending, x)
      /\ events' = Tail(events) /\ write' = "none"
  BY <1>1 DEF RunQueue, table, caller
<1>3. \A d : /\ Has(Behind, d) <=> x = d \/ Has(Behind', d)
             /\ Once(Behind, d) <=> Once(Behind', d) /\ (x = d => ~Has(Behind', d))
  BY <1>1, <1>2, BehindPop
<1> HIDE DEF x
<1>4. \A d : /\ Has(pending', d) <=> Has(pending, d) \/ x = d
             /\ Once(pending', d) <=> Once(pending, d) /\ (x = d => ~Has(pending, d))
  BY <1>1, <1>2, PlaceTypes, InAppend
<1>5. ASSUME NEW d \in Ids PROVE InOnePlace(d)'
  <2>1. InOnePlace(d)
    BY DEF OncePlaced
  <2>2. (Has(Line', d) <=> Has(Line, d)) /\ (Once(Line', d) <=> Once(Line, d))
    BY <1>2, NotifyPlaces DEF Same
  <2>3. QED
    BY <2>1, <2>2, <1>2, <1>3, <1>4 DEF InOnePlace, Nowhere
<1>6. QED
  BY <1>5 DEF OncePlaced

LEMMA RunSendPlaces == ASSUME TypeOK, LinkInv, OncePlaced, RunSend PROVE OncePlaced'
<1> DEFINE x == FrontCall
<1>1. x \in Ids /\ Runs("send") /\ x \in Names
  BY FirstEvent, FrontNamed DEF RunSend, Names
<1>2. /\ UNCHANGED <<call, posted, pending, answers>> /\ Line' = Line
      /\ reqs' = Append(reqs, x)
      /\ events' = events /\ write' # "none"
  BY <1>1 DEF RunSend, sending, caller, Line
<1>3. \A d : /\ Has(Behind, d) <=> x = d \/ Has(Behind', d)
             /\ Once(Behind, d) <=> Once(Behind', d) /\ (x = d => ~Has(Behind', d))
  BY <1>1, <1>2, BehindPop
<1> HIDE DEF x
<1>4. \A d : /\ Has(reqs', d) <=> Has(reqs, d) \/ x = d
             /\ Once(reqs', d) <=> Once(reqs, d) /\ (x = d => ~Has(reqs, d))
  BY <1>1, <1>2, PlaceTypes, InAppend
<1>5. ASSUME NEW d \in Ids PROVE InOnePlace(d)'
  <2>1. InOnePlace(d)
    BY DEF OncePlaced
  <2>2. QED
    BY <2>1, <1>2, <1>3, <1>4 DEF InOnePlace, Nowhere
<1>6. QED
  BY <1>5 DEF OncePlaced

LEMMA RunDisconnectPlaces == ASSUME TypeOK, LinkInv, OncePlaced, RunDisconnect PROVE OncePlaced'
<1> DEFINE x == Event("stop", 0)
           q == Tail(events)
<1>1. /\ Runs("disconnect") /\ events # <<>> /\ write = "none" /\ Head(events).e = "disconnect"
      /\ Head(events) \in Works /\ 0 \notin Ids /\ x.c = 0 /\ x \in Cells
  BY FirstEvent, HeadTailProperties, CellTypes DEF RunDisconnect, LinkInv
<1>2. FrontCall = 0
  BY <1>1, CellTypes DEF FrontCall
<1>3. /\ events' = Append(q, x) /\ write' = "none"
      /\ UNCHANGED <<call, posted, pending, reqs, answers>>
  BY <1>1 DEF RunDisconnect, caller, sending, table
<1>4. q \in Seq(Cells) /\ events \in Seq(Cells)
  BY <1>1, PlaceTypes, HeadTailProperties
<1> HIDE DEF x, q
<1>5. Behind' = Append(Calls(q), 0) /\ Calls(q) \in Seq(Names) /\ 0 \in Names
  BY <1>1, <1>3, <1>4, ColumnsAppend, Columns DEF Behind, Names
<1>6. Behind = Calls(events) /\ Behind # <<>> /\ Head(Behind) = 0 /\ Calls(q) = Tail(Behind)
  BY <1>1, <1>2, <1>4, ColumnsTail DEF Behind, FrontCall, q
<1>7. \A d : /\ Has(Behind, d) <=> 0 = d \/ Has(Calls(q), d)
             /\ Once(Behind, d) <=> Once(Calls(q), d) /\ (0 = d => ~Has(Calls(q), d))
  BY <1>6, PlaceTypes, InTail
<1>8. \A d : /\ Has(Behind', d) <=> Has(Calls(q), d) \/ 0 = d
             /\ Once(Behind', d) <=> Once(Calls(q), d) /\ (0 = d => ~Has(Calls(q), d))
  BY <1>5, InAppend
<1>9. Same(Behind', Behind)
  BY <1>1, <1>7, <1>8 DEF Same
<1>10. QED
  BY <1>3, <1>9, PlacesStay

LEMMA RunStopPlaces == ASSUME TypeOK, LinkInv, OncePlaced, RunStop PROVE OncePlaced'
<1>1. /\ Runs("stop") /\ events # <<>> /\ write = "none" /\ Head(events).e = "stop"
      /\ Head(events) \in Works /\ 0 \notin Ids
  BY FirstEvent, HeadTailProperties, CellTypes DEF RunStop, LinkInv
<1>2. FrontCall = 0
  BY <1>1, CellTypes DEF FrontCall
<1>3. /\ events' = Tail(events) /\ write' = "none" /\ Notify
      /\ UNCHANGED <<call, pending, reqs, answers>>
  BY <1>1 DEF RunStop, caller, table
<1>4. \A d : /\ Has(Behind, d) <=> FrontCall = d \/ Has(Behind', d)
             /\ Once(Behind, d) <=> Once(Behind', d) /\ (FrontCall = d => ~Has(Behind', d))
  BY <1>1, <1>3, BehindPop
<1>5. ASSUME NEW d \in Ids PROVE InOnePlace(d)'
  <2>1. InOnePlace(d)
    BY DEF OncePlaced
  <2>2. (Has(Line', d) <=> Has(Line, d)) /\ (Once(Line', d) <=> Once(Line, d))
    BY <1>3, NotifyPlaces DEF Same
  <2>3. (Has(Behind', d) <=> Has(Behind, d)) /\ (Once(Behind', d) <=> Once(Behind, d))
    BY <1>1, <1>2, <1>4
  <2>4. QED
    BY <2>1, <2>2, <2>3, <1>3 DEF InOnePlace, Nowhere
<1>6. QED
  BY <1>5 DEF OncePlaced

LEMMA ContainsHas ==
  ASSUME NEW S, NEW q \in Seq(S), NEW c
  PROVE  Contains(q, c) <=> Has(q, c)
BY LenProperties DEF Contains, Has

\* What HandleWake takes out of pending_datas_: the call whose event runs at
\* once, and those behind it.
Behinds == IF Direct = <<>> THEN pending ELSE Tail(pending)

LEMMA WakeMoves ==
  ASSUME TypeOK, LinkInv, HandleWake, NEW d \in Ids
  PROVE  /\ Has(Line', d) <=> Has(Line, d)
         /\ Once(Line', d) <=> Once(Line, d)
         /\ Has(pending, d) <=> Has(Direct, d) \/ Has(Behinds, d)
         /\ Once(pending, d) => Once(Behinds, d) /\ ~(Has(Direct, d) /\ Has(Behinds, d))
         /\ Has(Behind', d) <=> Has(Behind, d) \/ Has(Behinds, d)
         /\ Once(Behind, d) /\ Once(Behinds, d) /\ ~(Has(Behind, d) /\ Has(Behinds, d)) => Once(Behind', d)
         /\ Has(reqs \o Direct, d) <=> Has(reqs, d) \/ Has(Direct, d)
         /\ Once(reqs, d) /\ ~(Has(reqs, d) /\ Has(Direct, d)) => Once(reqs \o Direct, d)
         /\ ~Has(pending', d) /\ Once(pending', d)
<1>1. (Has(Line', d) <=> Has(Line, d)) /\ (Once(Line', d) <=> Once(Line, d))
  <2>1. posted # <<>> /\ posted' = Tail(posted) /\ Head(posted).c = 0 /\ 0 \notin Ids
    BY WakeDoes, CellTypes
  <2>2. QED
    BY <2>1, LinePop
<1>2. pending' = <<>>
  BY WakeDoes
<1>3. Direct \in Seq(Names) /\ Once(Direct, d) /\ reqs \in Seq(Names)
  <2>1. Direct \in Seq(Ids) /\ Ids \subseteq Names
    BY DirectType DEF Names
  <2>2. Once(Direct, d)
    BY DEF Direct, Once
  <2>3. QED
    BY <2>1, <2>2, SeqMonotonic, PlaceTypes
<1>4. /\ Has(reqs \o Direct, d) <=> Has(reqs, d) \/ Has(Direct, d)
      /\ Once(reqs, d) /\ ~(Has(reqs, d) /\ Has(Direct, d)) => Once(reqs \o Direct, d)
  <2> DEFINE t == Direct
  <2>1. t \in Seq(Names) /\ Once(t, d)
    BY <1>3
  <2> HIDE DEF t
  <2>2. /\ Has(reqs \o t, d) <=> Has(reqs, d) \/ Has(t, d)
        /\ Once(reqs \o t, d) <=> Once(reqs, d) /\ Once(t, d) /\ ~(Has(reqs, d) /\ Has(t, d))
    BY <2>1, <1>3, InConcat
  <2>3. QED
    BY <2>1, <2>2 DEF t
<1>5. /\ events \in Seq(Cells) /\ Sends \in Seq(Cells) /\ Calls(Sends) = pending /\ pending \in Seq(Names)
      /\ events' = events \o Sends
  BY PlaceTypes, SendsType, WakeDoes
<1>6. CASE Direct = <<>>
  <2>1. Behinds = pending /\ write' = write
    BY <1>6, WakeDoes DEF Behinds
  <2>2. Behind' = Behind \o pending
    <3>1. CASE write = "none"
      <4>1. events = <<>> /\ pending = <<>>
        BY <1>6, <3>1, WakeDoes DEF Calm, Direct
      <4>2. Behind = <<>> /\ Behind' = <<>>
        <5>1. events' = <<>>
          BY <4>1, <1>5, SendsType, ConcatEmptySeq
        <5>2. Calls(<<>>) = <<>>
          BY DEF Calls
        <5>3. QED
          BY <2>1, <3>1, <4>1, <5>1, <5>2 DEF Behind
      <4>3. QED
        BY <4>1, <4>2
    <3>2. CASE write # "none"
      <4>1. events # <<>>
        BY <3>2 DEF LinkInv
      <4>2. Tail(events \o Sends) = Tail(events) \o Sends /\ Tail(events) \in Seq(Cells)
        <5> DEFINE r == Sends
                   a == events \o r
                   b == Tail(events)
                   n == Len(events)
                   m == Len(r)
        <5>1. r \in Seq(Cells)
          BY <1>5
        <5> HIDE DEF r
        <5>2. /\ a \in Seq(Cells) /\ Len(a) = n + m /\ n \in Nat /\ m \in Nat /\ n # 0
              /\ \A i \in 1 .. n + m : a[i] = IF i <= n THEN events[i] ELSE r[i - n]
          BY <5>1, <1>5, <4>1, ConcatProperties, LenProperties, EmptySeq
        <5>3. b \in Seq(Cells) /\ Len(b) = n - 1 /\ \A i \in 1 .. n - 1 : b[i] = events[i + 1]
          BY <1>5, <4>1, HeadTailProperties
        <5> HIDE DEF a, b, n, m
        <5>4. a # <<>>
          BY <5>2, EmptySeq
        <5>5. Tail(a) \in Seq(Cells) /\ Len(Tail(a)) = n + m - 1 /\ \A i \in 1 .. n + m - 1 : Tail(a)[i] = a[i + 1]
          BY <5>2, <5>4, HeadTailProperties
        <5>6. /\ b \o r \in Seq(Cells) /\ Len(b \o r) = Len(b) + Len(r)
              /\ \A i \in 1 .. Len(b) + Len(r) : (b \o r)[i] = IF i <= Len(b) THEN b[i] ELSE r[i - Len(b)]
          BY <5>1, <5>3, ConcatProperties
        <5>7. Len(b \o r) = n + m - 1
          BY <5>2, <5>3, <5>6 DEF m
        <5>8. ASSUME NEW i \in 1 .. n + m - 1 PROVE Tail(a)[i] = (b \o r)[i]
          <6>1. CASE i <= n - 1
            <7>1. i \in 1 .. n - 1 /\ i + 1 \in 1 .. n + m /\ i + 1 <= n /\ i \in 1 .. Len(b) + Len(r) /\ i <= Len(b)
              BY <6>1, <5>2, <5>3, <5>6, <5>7
            <7>2. QED
              BY <7>1, <5>2, <5>3, <5>5, <5>6
          <6>2. CASE ~(i <= n - 1)
            <7>1. i + 1 \in 1 .. n + m /\ ~(i + 1 <= n) /\ i \in 1 .. Len(b) + Len(r) /\ ~(i <= Len(b))
                  /\ i + 1 - n = i - Len(b)
              BY <6>2, <5>2, <5>3, <5>6, <5>7
            <7>2. QED
              BY <7>1, <5>2, <5>5, <5>6
          <6>3. QED
            BY <6>1, <6>2
        <5>9. Tail(a) = b \o r
          BY <5>5, <5>6, <5>7, <5>8, SeqEqual
        <5>10. QED
          BY <5>3, <5>9 DEF a, b, r
      <4>3. Behind' = Calls(Tail(events) \o Sends)
        BY <2>1, <3>2, <4>2, <1>5 DEF Behind
      <4>4. Behind' = Calls(Tail(events)) \o Calls(Sends)
        BY <4>2, <4>3, <1>5, ColumnsConcat
      <4>5. QED
        BY <3>2, <4>4, <1>5 DEF Behind
    <3>3. QED
      BY <3>1, <3>2
  <2>3. /\ Has(Behind', d) <=> Has(Behind, d) \/ Has(pending, d)
        /\ Once(Behind', d) <=> Once(Behind, d) /\ Once(pending, d) /\ ~(Has(Behind, d) /\ Has(pending, d))
    <3>1. Behind \in Seq(Names) /\ pending \in Seq(Names)
      BY PlaceTypes
    <3>2. QED
      BY <3>1, <2>2, InConcat
  <2>4. ~Has(Direct, d)
    BY <1>6, HasNone
  <2>5. QED
    BY <1>1, <1>2, <1>4, <2>1, <2>3, <2>4, HasNone
<1>7. CASE Direct # <<>>
  <2>1. events = <<>> /\ pending # <<>> /\ write' = "busy" /\ write = "none" /\ Direct = <<pending[1]>>
    BY <1>7, WakeDoes DEF Direct, LinkInv
  <2>2. Behinds = Tail(pending) /\ Behind = <<>>
    <3>1. Calls(<<>>) = <<>>
      BY DEF Calls
    <3>2. QED
      BY <1>7, <2>1, <3>1 DEF Behinds, Behind
  <2>3. events' = Sends /\ Sends # <<>>
    BY <1>5, <2>1, ConcatEmptySeq, SendsType
  <2>4. Behind' = Tail(pending)
    BY <1>5, <2>1, <2>3, ColumnsTail DEF Behind
  <2>5. /\ Has(pending, d) <=> Head(pending) = d \/ Has(Tail(pending), d)
        /\ Once(pending, d) <=> Once(Tail(pending), d) /\ (Head(pending) = d => ~Has(Tail(pending), d))
        /\ Head(pending) = pending[1]
    BY <1>5, <2>1, InTail, Elements
  <2>6. Has(Direct, d) <=> pending[1] = d
    BY <2>1 DEF Has
  <2>7. QED
    BY <1>1, <1>2, <1>4, <2>2, <2>4, <2>5, <2>6, HasNone
<1>8. QED
  BY <1>6, <1>7

LEMMA HandleWakePlaces == ASSUME TypeOK, LinkInv, OncePlaced, HandleWake PROVE OncePlaced'
<1> SUFFICES ASSUME NEW d \in Ids PROVE InOnePlace(d)'
  BY DEF OncePlaced
<1> DEFINE all == reqs \o Direct
<1>1. InOnePlace(d)
  BY DEF OncePlaced
<1>2. call' = call
  BY WakeDoes
<1>3. CASE stopFlag
  <2>1. reqs' = <<>> /\ answers'[d] = IF Contains(all, d) THEN Append(answers[d], Answer("aborted", 0)) ELSE answers[d]
    BY <1>3, WakeDoes DEF Aborted
  <2>2. Contains(all, d) <=> Has(all, d)
    <3>1. reqs \in Seq(Ids) /\ Direct \in Seq(Ids)
      BY DirectType DEF TypeOK
    <3>2. all \in Seq(Ids)
      BY <3>1, ConcatProperties
    <3> HIDE DEF all
    <3>3. QED
      BY <3>2, ContainsHas
  <2> HIDE DEF all
  <2>3. CASE Has(all, d)
    <3>1. Has(reqs, d) \/ Has(pending, d)
      BY <2>3, WakeMoves DEF all
    <3>2. answers[d] = <<>> /\ ~Has(Line, d) /\ ~Has(Behind, d) /\ call[d] \notin {"new", "tested"}
      BY <1>1, <3>1 DEF InOnePlace, Nowhere
    <3>3. ~Has(Behinds, d)
      BY <1>1, <2>3, WakeMoves DEF all, InOnePlace
    <3>4. answers'[d] = Append(<<>>, Answer("aborted", 0))
      BY <2>1, <2>2, <2>3, <3>2
    <3>5. Len(answers'[d]) <= 1
      BY <3>4
    <3>6. Once(Line', d) /\ Once(Behind', d) /\ Once(pending', d) /\ ~Has(Line', d) /\ ~Has(Behind', d) /\ ~Has(pending', d)
      BY <1>1, <3>2, <3>3, WakeMoves DEF InOnePlace
    <3>7. QED
      BY <1>2, <2>1, <3>2, <3>5, <3>6, HasNone DEF InOnePlace
  <2>4. CASE ~Has(all, d)
    <3>1. answers'[d] = answers[d] /\ ~Has(Direct, d)
      BY <2>1, <2>2, <2>4, WakeMoves DEF all
    <3>2. ~Has(reqs', d) /\ Once(reqs', d)
      BY <2>1, HasNone
    <3>3. QED
      BY <1>1, <1>2, <3>1, <3>2, WakeMoves DEF InOnePlace, Nowhere
  <2>5. QED
    BY <2>3, <2>4
<1>4. CASE ~stopFlag
  <2>1. reqs' = all /\ answers' = answers
    BY <1>4, WakeDoes
  <2>2. QED
    BY <1>1, <1>2, <2>1, WakeMoves DEF InOnePlace, Nowhere
<1>5. QED
  BY <1>3, <1>4

LEMMA SentBehind == ASSUME TypeOK, LinkInv, HandleSent PROVE Same(Behind', Behind)
<1> DEFINE q == Tail(events)
           x == Event("disconnect", 0)
<1>1. events # <<>> /\ write # "none" /\ write' = "none" /\ (events' = q \/ events' = Append(q, x))
  BY SentDoes
<1>2. q \in Seq(Cells) /\ x \in Cells /\ x.c = 0 /\ 0 \notin Ids /\ 0 \in Names
  BY <1>1, PlaceTypes, HeadTailProperties, CellTypes DEF Names
<1>3. Behind = Calls(q)
  BY <1>1 DEF Behind
<1> HIDE DEF q, x
<1>4. Behind' = Calls(q) \/ Behind' = Append(Calls(q), 0)
  BY <1>1, <1>2, ColumnsAppend DEF Behind
<1>5. \A d : /\ Has(Append(Calls(q), 0), d) <=> Has(Calls(q), d) \/ 0 = d
             /\ Once(Append(Calls(q), 0), d) <=> Once(Calls(q), d) /\ (0 = d => ~Has(Calls(q), d))
  BY <1>2, Columns, InAppend
<1>6. CASE Behind' = Calls(q)
  BY <1>3, <1>6 DEF Same
<1>7. CASE Behind' = Append(Calls(q), 0)
  BY <1>2, <1>3, <1>5, <1>7 DEF Same
<1>8. QED
  BY <1>4, <1>6, <1>7

LEMMA HandleSentPlaces == ASSUME TypeOK, LinkInv, OncePlaced, HandleSent PROVE OncePlaced'
<1>1. Same(Behind', Behind)
  BY SentBehind
<1>2. UNCHANGED <<call, posted, pending>>
  BY SentDoes
<1>3. \/ UNCHANGED <<answers, reqs>>
      \/ Entries(key[FrontCall]) # {} /\ Complete(key[FrontCall], Answer("timed_out", 0), timer)
  BY SentDoes DEF TypeOK
<1>4. QED
  BY <1>1, <1>2, <1>3, PlacesStay, PlacesComplete

LEMMA HandleTimerPlaces == ASSUME TypeOK, LinkInv, OncePlaced, NEW c \in Ids, HandleTimer(c) PROVE OncePlaced'
<1>1. UNCHANGED <<call, posted, pending>> /\ Same(Behind', Behind)
  BY BehindStays DEF HandleTimer, caller, queue, sending
<1>2. \/ UNCHANGED <<answers, reqs>>
      \/ Entries(key[c]) # {} /\ Complete(key[c], Answer("timed_out", 0), [timer EXCEPT ![c] = "idle"])
  BY DEF HandleTimer
<1>3. QED
  BY <1>1, <1>2, PlacesStay, PlacesComplete

LEMMA HandleRecvPlaces == ASSUME TypeOK, LinkInv, OncePlaced, HandleRecv PROVE OncePlaced'
<1> DEFINE x == Head(fromPeer)
<1>1. UNCHANGED <<call, posted, pending>> /\ Same(Behind', Behind)
  BY BehindStays DEF HandleRecv, caller, queue, sending
<1>2. UNCHANGED <<answers, reqs>> \/ (Entries(key[x]) # {} /\ Complete(key[x], Answer("ok", x), timer))
  BY DEF HandleRecv, table
<1>3. QED
  BY <1>1, <1>2, PlacesStay, PlacesComplete

LEMMA LoseBehind == ASSUME TypeOK, LinkInv, LoseConnection PROVE Same(Behind', Behind)
<1>1. Event("disconnect", 0) \in Works /\ Event("disconnect", 0).c = 0 /\ 0 \notin Ids
  BY CellTypes
<1>2. \A d : /\ Has(Behind', d) <=> Has(Behind, d) \/ 0 = d
             /\ Once(Behind', d) <=> Once(Behind, d) /\ (0 = d => ~Has(Behind, d))
  BY <1>1, BehindPush DEF LoseConnection
<1>3. QED
  BY <1>1, <1>2 DEF Same

LEMMA LinkPlaces ==
  ASSUME TypeOK, LinkInv, OncePlaced,
         \/ Transmit \/ LoseConnection \/ Reconnect \/ Respond \/ UNCHANGED vars
         \/ \E c \in Ids : TimerExpires(c)
  PROVE  OncePlaced'
<1>1. UNCHANGED <<call, posted, pending, reqs, answers>>
  BY DEF Transmit, LoseConnection, Reconnect, Respond, TimerExpires, vars, caller, queue, sending, table
<1>2. Same(Behind', Behind)
  <2>1. CASE UNCHANGED <<events, write>>
    BY <2>1, BehindStays
  <2>2. CASE Transmit
    BY <2>2 DEF Transmit, Behind, Same
  <2>3. CASE LoseConnection
    BY <2>3, LoseBehind
  <2>4. QED
    BY <2>1, <2>2, <2>3 DEF Reconnect, Respond, TimerExpires, vars, queue
<1>3. QED
  BY <1>1, <1>2, PlacesStay

LEMMA PlaceStep == TypeOK /\ LinkInv /\ OncePlaced /\ [Next]_vars => OncePlaced'
<1> SUFFICES ASSUME TypeOK, LinkInv, OncePlaced, [Next]_vars PROVE OncePlaced'
  OBVIOUS
<1>1. ASSUME NEW c \in Ids, CallTests(c) \/ CallPushes(c) \/ CallOnStrand(c) \/ WaitEnds(c) \/ HandleTimer(c)
      PROVE  OncePlaced'
  BY <1>1, CallTestsPlaces, CallPushesPlaces, CallOnStrandPlaces, WaitEndsPlaces, HandleTimerPlaces
<1>2. CASE RunEvent
  BY <1>2, RunFailPlaces, RunQueuePlaces, RunSendPlaces, RunDisconnectPlaces, RunStopPlaces DEF RunEvent
<1>3. CASE Arrives \/ HandleWake \/ HandleSent \/ HandleRecv
  BY <1>3, ArrivesPlaces, HandleWakePlaces, HandleSentPlaces, HandleRecvPlaces
<1>4. CASE \/ Transmit \/ LoseConnection \/ Reconnect \/ Respond \/ UNCHANGED vars
           \/ \E c \in Ids : TimerExpires(c)
  BY <1>4, LinkPlaces
<1>5. QED
  BY <1>1, <1>2, <1>3, <1>4 DEF Next

-----------------------------------------------------------------------------
(* What a step may not take back: an id, an answer, a request that is sent. *)

\* A call whose request is not registered yet.
Ahead(c) == Has(Line, c) \/ Has(Behind, c) \/ Has(pending, c) \/ call[c] \in {"new", "tested"}

LEMMA CallGoesOn ==
  ASSUME TypeOK, [Next]_vars, NEW c \in Ids
  PROVE  /\ call[c] # "new" => call'[c] # "new" /\ key'[c] = key[c]
         /\ call[c] \notin {"new", "tested"} => call'[c] \notin {"new", "tested"}
<1>1. CASE UNCHANGED caller \/ UNCHANGED vars
  BY <1>1 DEF caller, vars
<1>2. ASSUME NEW d \in Ids, CallTests(d) \/ CallOnStrand(d)
      PROVE  /\ call[d] = "new" /\ \A b \in Ids : b # d => call'[b] = call[b] /\ key'[b] = key[b]
  BY <1>2 DEF CallTests, CallOnStrand, TypeOK
<1>3. ASSUME NEW d \in Ids, CallPushes(d)
      PROVE  call[d] = "tested" /\ call'[d] \in {"made", "waiting"} /\ key' = key /\ \A b \in Ids : b # d => call'[b] = call[b]
  BY <1>3 DEF CallPushes, TypeOK
<1>4. ASSUME NEW d \in Ids, WaitEnds(d)
      PROVE  call'[d] \notin {"new", "tested"} /\ key' = key /\ \A b \in Ids : b # d => call'[b] = call[b]
  <2>1. call'[d] = (IF answers[d] = <<>> THEN "timed_out" ELSE answers[d][1].o) /\ key' = key
        /\ \A b \in Ids : b # d => call'[b] = call[b]
    BY <1>4 DEF WaitEnds, TypeOK
  <2>2. answers[d] # <<>> => answers[d][1].o \in Outcomes
    <3>1. answers[d] \in Seq(Replies)
      BY DEF TypeOK, Replies
    <3>2. answers[d] # <<>> => answers[d][1] \in Replies
      BY <3>1, Elements
    <3>3. QED
      BY <3>2 DEF Replies
  <2>3. QED
    BY <2>1, <2>2 DEF Outcomes
<1>5. ASSUME NEW d \in Ids, HandleTimer(d) \/ TimerExpires(d)
      PROVE  UNCHANGED caller
  BY <1>5 DEF HandleTimer, TimerExpires
<1>6. CASE RunEvent
  BY <1>1, <1>6 DEF RunEvent, RunFail, RunQueue, RunSend, RunDisconnect, RunStop
<1>7. CASE Arrives \/ HandleWake \/ HandleSent \/ HandleRecv \/ Transmit \/ LoseConnection \/ Reconnect \/ Respond
  BY <1>1, <1>7 DEF Arrives, HandleWake, HandleSent, HandleRecv, Transmit, LoseConnection, Reconnect, Respond
<1>8. QED
  BY <1>1, <1>2, <1>3, <1>4, <1>5, <1>6, <1>7 DEF Next

LEMMA CompleteAnswers ==
  ASSUME TypeOK, NEW k, Entries(k) # {}, NEW answer, NEW timers, Complete(k, answer, timers), NEW c \in Ids
  PROVE  answers'[c] = answers[c] \/ answers'[c] = Append(answers[c], answer)
BY FoundFirst DEF Complete, TypeOK

\* What is appended to the answers of a call.
LEMMA AnswersStep ==
  ASSUME TypeOK, LinkInv, [Next]_vars, NEW c \in Ids
  PROVE  \/ answers'[c] = answers[c]
         \/ \E o \in Outcomes : answers'[c] = Append(answers[c], Answer(o, 0)) /\ o # "ok"
         \/ HandleRecv
<1> DEFINE Told(o) == answers'[c] = Append(answers[c], Answer(o, 0))
<1>1. CASE UNCHANGED answers \/ UNCHANGED vars
  BY <1>1 DEF vars, table
<1>2. ASSUME NEW d \in Ids, CallTests(d) \/ CallPushes(d) \/ CallOnStrand(d) \/ WaitEnds(d) \/ TimerExpires(d)
      PROVE  UNCHANGED answers
  BY <1>2 DEF CallTests, CallPushes, CallOnStrand, WaitEnds, TimerExpires, table
<1>3. ASSUME NEW d \in Ids, HandleTimer(d) PROVE answers'[c] = answers[c] \/ Told("timed_out")
  <2>1. \/ UNCHANGED answers
        \/ Entries(key[d]) # {} /\ Complete(key[d], Answer("timed_out", 0), [timer EXCEPT ![d] = "idle"])
    BY <1>3 DEF HandleTimer
  <2>2. QED
    BY <2>1, CompleteAnswers
<1>4. CASE RunFail
  <2>1. answers'[c] = answers[c] \/ Told("not_connected")
    BY <1>4 DEF RunFail, TypeOK
  <2>2. QED
    BY <2>1 DEF Outcomes
<1>5. CASE RunQueue \/ RunSend \/ RunDisconnect \/ RunStop
  BY <1>1, <1>5 DEF RunQueue, RunSend, RunDisconnect, RunStop, table
<1>6. CASE HandleWake
  <2>1. answers' = answers \/ answers' = Aborted(reqs \o Direct)
    BY <1>6, WakeDoes
  <2>2. answers'[c] = answers[c] \/ Told("aborted")
    BY <2>1 DEF Aborted
  <2>3. QED
    BY <2>2 DEF Outcomes
<1>7. CASE HandleSent
  <2>1. \/ UNCHANGED answers
        \/ Entries(key[FrontCall]) # {} /\ Complete(key[FrontCall], Answer("timed_out", 0), timer)
    BY <1>7, SentDoes DEF TypeOK
  <2>2. answers'[c] = answers[c] \/ Told("timed_out")
    BY <2>1, CompleteAnswers
  <2>3. QED
    BY <2>2 DEF Outcomes
<1>8. CASE Arrives \/ Transmit \/ LoseConnection \/ Reconnect \/ Respond
  BY <1>1, <1>8 DEF Arrives, Transmit, LoseConnection, Reconnect, Respond, table
<1>9. "timed_out" \in Outcomes
  BY DEF Outcomes
<1>10. QED
  BY <1>1, <1>2, <1>3, <1>4, <1>5, <1>6, <1>7, <1>8, <1>9 DEF Next, RunEvent

LEMMA AnswersKept ==
  ASSUME TypeOK, LinkInv, OncePlaced, [Next]_vars, NEW c \in Ids, answers[c] # <<>>
  PROVE  answers'[c] = answers[c]
<1>1. answers[c] \in Seq(Replies) /\ answers'[c] \in Seq(Replies)
  BY TypeStep DEF TypeOK, Replies
<1>2. Len(answers[c]) \in Nat /\ Len(answers[c]) # 0
  BY <1>1, LenProperties, EmptySeq
<1>3. Len(answers'[c]) <= 1
  BY PlaceStep DEF OncePlaced, InOnePlace
<1>4. ASSUME NEW a, answers'[c] = Append(answers[c], a) PROVE FALSE
  <2>1. Len(answers'[c]) = Len(answers[c]) + 1
    BY <1>1, <1>4
  <2>2. QED
    BY <2>1, <1>2, <1>3
<1>5. CASE HandleRecv
  <2>1. \/ UNCHANGED answers
        \/ /\ Entries(key[Head(fromPeer)]) # {}
           /\ Complete(key[Head(fromPeer)], Answer("ok", Head(fromPeer)), timer)
    BY <1>5 DEF HandleRecv, table
  <2>2. QED
    BY <2>1, <1>4, CompleteAnswers
<1>6. QED
  BY <1>4, <1>5, AnswersStep

\* A call that is not ahead any more never is again.
LEMMA NotAheadAgain ==
  ASSUME TypeOK, LinkInv, OncePlaced, [Next]_vars, NEW d \in Ids, Ahead(d)'
  PROVE  Ahead(d)
<1>0. call[d] \notin {"new", "tested"} => call'[d] \notin {"new", "tested"}
  BY CallGoesOn
<1>1. CASE UNCHANGED <<posted, pending>> /\ Same(Behind', Behind)
  BY <1>0, <1>1 DEF Ahead, Line, Same
<1>2. ASSUME NEW c \in Ids, CallTests(c) \/ CallPushes(c) PROVE Ahead(d)
  <2>1. /\ call[c] \in {"new", "tested"} /\ pending' = pending /\ Same(Behind', Behind)
        /\ UNCHANGED posted \/ \E x \in Posts : x.c = c /\ posted' = Append(posted, x)
    BY <1>2, BehindStays, CellTypes DEF CallTests, CallPushes, sending
  <2>2. Has(Line', d) => Has(Line, d) \/ d = c
    BY <2>1, LinePush DEF Line
  <2>3. QED
    BY <1>0, <2>1, <2>2 DEF Ahead, Same
<1>3. ASSUME NEW c \in Ids, CallOnStrand(c) PROVE Ahead(d)
  <2>1. /\ call[c] = "new" /\ UNCHANGED <<posted, pending, write>>
        /\ \E x \in Works : x.c = c /\ events' = Append(events, x)
    BY <1>3, CellTypes DEF CallOnStrand, sending
  <2>2. Has(Behind', d) => Has(Behind, d) \/ d = c
    BY <2>1, BehindPush
  <2>3. QED
    BY <1>0, <2>1, <2>2 DEF Ahead, Line
<1>4. CASE Arrives
  <2>1. /\ posted # <<>> /\ Head(posted) \in Works /\ posted' = Tail(posted)
        /\ events' = Append(events, Head(posted)) /\ UNCHANGED <<write, pending>>
    BY <1>4, LaterPosts, CellTypes DEF Arrives, sending
  <2>2. Has(Line, d) <=> Head(posted).c = d \/ Has(Line', d)
    BY <2>1, LinePop
  <2>3. Has(Behind', d) <=> Has(Behind, d) \/ Head(posted).c = d
    BY <2>1, BehindPush
  <2>4. QED
    BY <1>0, <2>1, <2>2, <2>3 DEF Ahead
<1>5. CASE RunFail \/ RunQueue \/ RunSend \/ RunStop
  <2>1. PICK e : Runs(e)
    BY <1>5 DEF RunFail, RunQueue, RunSend, RunStop
  <2>2. \/ events' = Tail(events) /\ write' = "none"
        \/ events' = events /\ write' # "none"
    BY <1>5, <2>1, FirstEvent DEF RunFail, RunQueue, RunSend, RunStop
  <2>3. Has(Behind, d) <=> FrontCall = d \/ Has(Behind', d)
    BY <2>1, <2>2, BehindPop
  <2>4. Has(Line', d) <=> Has(Line, d)
    BY <1>5, NotifyPlaces DEF RunFail, RunQueue, RunSend, RunStop, Line, Same
  <2>5. Has(pending', d) => Has(pending, d) \/ FrontCall = d
    <3>1. CASE RunQueue
      <4>1. FrontCall \in Names
        BY <3>1, FirstEvent, FrontNamed DEF RunQueue, Names
      <4>2. QED
        BY <3>1, <4>1, PlaceTypes, InAppend DEF RunQueue
    <3>2. CASE pending' = pending
      BY <3>2
    <3>3. QED
      BY <1>5, <3>1, <3>2 DEF RunFail, RunSend, RunStop, sending
  <2>6. QED
    BY <1>0, <2>3, <2>4, <2>5 DEF Ahead
<1>6. CASE RunDisconnect
  <2>1. Has(Behind', d) => Has(Behind, d)
    <3>1. /\ Runs("disconnect") /\ write = "none" /\ events # <<>> /\ events' = Append(Tail(events), Event("stop", 0))
          /\ write' = write
      BY <1>6, FirstEvent DEF RunDisconnect
    <3>2. /\ Tail(events) \in Seq(Cells) /\ events \in Seq(Cells) /\ Event("stop", 0) \in Cells
          /\ Event("stop", 0).c = 0 /\ 0 \notin Ids /\ 0 \in Names
      BY <3>1, PlaceTypes, CellTypes, HeadTailProperties DEF Names
    <3>3. Behind' = Append(Calls(Tail(events)), 0) /\ Calls(Tail(events)) = Tail(Behind) /\ Behind # <<>>
      BY <3>1, <3>2, ColumnsAppend, ColumnsTail DEF Behind
    <3>4. Tail(Behind) \in Seq(Names)
      BY <3>3, PlaceTypes, HeadTailProperties
    <3>5. Has(Behind', d) <=> Has(Tail(Behind), d) \/ 0 = d
      BY <3>2, <3>3, <3>4, InAppend
    <3>6. Has(Behind, d) <=> Head(Behind) = d \/ Has(Tail(Behind), d)
      BY <3>3, PlaceTypes, InTail
    <3>7. QED
      BY <3>2, <3>5, <3>6
  <2>2. UNCHANGED <<posted, pending>>
    BY <1>6 DEF RunDisconnect, sending
  <2>3. QED
    BY <1>0, <2>1, <2>2 DEF Ahead, Line
<1>7. CASE HandleWake
  BY <1>0, <1>7, WakeMoves DEF Ahead
<1>8. CASE HandleSent
  <2>1. Same(Behind', Behind)
    BY <1>8, SentBehind
  <2>2. QED
    BY <1>1, <1>8, <2>1, SentDoes
<1>9. ASSUME \/ Transmit \/ LoseConnection \/ Reconnect \/ Respond \/ UNCHANGED vars
             \/ HandleRecv
             \/ \E c \in Ids : WaitEnds(c) \/ HandleTimer(c) \/ TimerExpires(c)
      PROVE  Ahead(d)
  <2>1. UNCHANGED <<posted, pending>>
    BY <1>9 DEF Transmit, LoseConnection, Reconnect, Respond, TimerExpires, HandleRecv, WaitEnds, HandleTimer,
                vars, queue, sending
  <2>2. CASE UNCHANGED <<events, write>>
    BY <2>1, <2>2, <1>1, BehindStays
  <2>3. CASE Transmit
    BY <2>1, <2>3, <1>1 DEF Transmit, Behind, Same
  <2>4. CASE LoseConnection
    BY <2>1, <2>4, <1>1, LoseBehind
  <2>5. QED
    BY <1>9, <2>2, <2>3, <2>4 DEF Reconnect, Respond, TimerExpires, HandleRecv, WaitEnds, HandleTimer, vars, queue
<1>10. QED
  BY <1>2, <1>3, <1>4, <1>5, <1>6, <1>7, <1>8, <1>9 DEF Next, RunEvent

-----------------------------------------------------------------------------
(* The table and what is on its way: as long as no call of an id is told   *)
(* that it timed out, the responses of that id come in the order of the    *)
(* entries, and an entry that waits for none is one of a closed connection. *)

Untimed(k) == \A b \in Ids : key[b] = k /\ answers[b] # <<>> => answers[b][1].o # "timed_out"

\* The requests without a response that came in, the oldest first.
Rest == IF write = "busy" /\ state # "closed" THEN Append(toPeer, FrontCall) ELSE toPeer
Flow == fromPeer \o Rest

\* The entry of a lost connection that is still to be failed.
Waits(y) ==
  /\ state = "closed"
  /\ Queued("stop") \/ waiter = "woken" \/ (write # "none" /\ FrontCall = y)

Sent(x) ==
  /\ Once(Flow, x)
  /\ Has(Flow, x) => ~Ahead(x) /\ (Untimed(key[x]) => Has(reqs, x))
  /\ Has(reqs, x) /\ Untimed(key[x]) => Has(Flow, x) \/ Waits(x)

InOrder ==
  \A i, j \in DOMAIN reqs :
    i < j /\ key[reqs[i]] = key[reqs[j]] /\ Untimed(key[reqs[j]]) => Before(Flow, reqs[i], reqs[j])

FlowInv == (\A x \in Ids : Sent(x)) /\ InOrder

\* An answer with a response.
Answered ==
  \A c \in Ids : \A i \in DOMAIN answers[c] :
    LET d == answers[c][i].from
    IN answers[c][i].o = "ok" =>
         /\ d \in Ids /\ call[d] # "new"
         /\ d # c => key[d] = key[c] /\ ~Untimed(key[c])

LEMMA FlowType == ASSUME TypeOK, LinkInv PROVE Rest \in Seq(Ids) /\ Flow \in Seq(Ids)
<1>1. write = "busy" => FrontCall \in Ids
  BY FrontNamed DEF LinkInv
<1>2. toPeer \in Seq(Ids) /\ fromPeer \in Seq(Ids)
  BY DEF TypeOK
<1>3. Rest \in Seq(Ids)
  BY <1>1, <1>2, AppendProperties DEF Rest
<1>4. QED
  BY <1>2, <1>3, ConcatProperties DEF Flow

\* A closed connection carries nothing.
LEMMA ClosedFlow == ASSUME TypeOK, LinkInv, state = "closed" PROVE Rest = <<>> /\ Flow = <<>>
BY ConcatEmptySeq DEF LinkInv, Rest, Flow, TypeOK

LEMMA UntimedBefore ==
  ASSUME TypeOK, LinkInv, OncePlaced, [Next]_vars, NEW x \in Ids, call[x] # "new"
  PROVE  key'[x] = key[x] /\ (Untimed(key[x])' => Untimed(key[x]))
<1>1. key'[x] = key[x]
  BY CallGoesOn
<1>2. ASSUME NEW b \in Ids, answers[b] # <<>>, key[b] = key[x], answers[b][1].o = "timed_out"
      PROVE  key'[b] = key'[x] /\ answers'[b] = answers[b]
  <2>1. call[b] # "new"
    BY <1>2 DEF OncePlaced, InOnePlace, Nowhere
  <2>2. QED
    BY <2>1, <1>1, <1>2, CallGoesOn, AnswersKept
<1>3. ASSUME ~Untimed(key[x]) PROVE ~Untimed(key[x])'
  BY <1>2, <1>3 DEF Untimed
<1>4. QED
  BY <1>1, <1>3

\* The calls that are in the table or on their way have been made.
LEMMA SentIsMade ==
  ASSUME TypeOK, OncePlaced, FlowInv, NEW x \in Ids, Has(Flow, x) \/ Has(reqs, x)
  PROVE  ~Ahead(x) /\ call[x] # "new"
BY DEF OncePlaced, InOnePlace, Nowhere, FlowInv, Sent, Ahead

\* A step takes at most one entry out of the table, and from the flow what no
\* other entry waits for.
TableKept ==
  \/ reqs' = reqs
  \/ \E i \in DOMAIN reqs, z \in Ids :
       /\ reqs[i] = z /\ reqs' = RemoveAt(reqs, i)
       /\ ~Untimed(key[z])' \/ ~Has(Flow', z)

FlowKept ==
  /\ \A x \in Ids : (Once(Flow, x) => Once(Flow', x)) /\ (Has(Flow', x) => Has(Flow, x))
  /\ \A x \in Ids : Has(reqs', x) /\ Untimed(key[x])' /\ (Has(Flow, x) \/ Waits(x)) => Has(Flow', x) \/ Waits(x)'
  /\ \A x, y \in Ids :
       Has(reqs', x) /\ Has(reqs', y) /\ key[x] = key[y] /\ Untimed(key[x]) /\ Before(Flow, y, x) => Before(Flow', y, x)

LEMMA FlowMoves ==
  ASSUME TypeOK, LinkInv, OncePlaced, FlowInv, [Next]_vars, TableKept, FlowKept
  PROVE  FlowInv'
<1>0. reqs \in Seq(Ids)
  BY DEF TypeOK
<1>1. /\ \A x : Has(reqs', x) => Has(reqs, x)
      /\ \A x : Has(reqs, x) /\ ~Has(reqs', x) => ~Untimed(key[x])' \/ ~Has(Flow', x)
      /\ \A a, b \in DOMAIN reqs' : a < b =>
           \E i, j \in DOMAIN reqs : i < j /\ reqs[i] = reqs'[a] /\ reqs[j] = reqs'[b]
      /\ \A a \in DOMAIN reqs' : reqs'[a] \in Ids
  <2>1. CASE reqs' = reqs
    BY <1>0, <2>1, Elements
  <2>2. ASSUME NEW i \in DOMAIN reqs, NEW z \in Ids, reqs[i] = z, reqs' = RemoveAt(reqs, i),
               ~Untimed(key[z])' \/ ~Has(Flow', z)
        PROVE  /\ \A x : Has(reqs', x) => Has(reqs, x)
               /\ \A x : Has(reqs, x) /\ ~Has(reqs', x) => ~Untimed(key[x])' \/ ~Has(Flow', x)
               /\ \A a, b \in DOMAIN reqs' : a < b =>
                    \E h, j \in DOMAIN reqs : h < j /\ reqs[h] = reqs'[a] /\ reqs[j] = reqs'[b]
               /\ \A a \in DOMAIN reqs' : reqs'[a] \in Ids
    <3>1. \A x : Has(reqs, x) <=> reqs[i] = x \/ Has(reqs', x)
      BY <1>0, <2>2, InRemoveAt
    <3>2. /\ DOMAIN reqs' = 1 .. Len(reqs) - 1 /\ DOMAIN reqs = 1 .. Len(reqs) /\ Len(reqs) \in Nat
          /\ \A a \in 1 .. Len(reqs) - 1 : reqs'[a] = IF a < i THEN reqs[a] ELSE reqs[a + 1]
          /\ \A a \in DOMAIN reqs : reqs[a] \in Ids
      <4>1. /\ DOMAIN reqs = 1 .. Len(reqs) /\ Len(reqs) \in Nat
            /\ \A a \in DOMAIN reqs : reqs[a] \in Ids
        BY <1>0, Elements
      <4>2. /\ reqs' \in Seq(Ids) /\ Len(reqs') = Len(reqs) - 1
            /\ \A a \in 1 .. Len(reqs) - 1 : reqs'[a] = IF a < i THEN reqs[a] ELSE reqs[a + 1]
        <5>1. \A h \in DOMAIN reqs :
                /\ RemoveAt(reqs, h) \in Seq(Ids) /\ Len(RemoveAt(reqs, h)) = Len(reqs) - 1
                /\ \A a \in 1 .. Len(reqs) - 1 : RemoveAt(reqs, h)[a] = IF a < h THEN reqs[a] ELSE reqs[a + 1]
          BY <1>0, RemoveProperties
        <5>2. QED
          BY <2>2, <5>1
      <4>3. DOMAIN reqs' = 1 .. Len(reqs')
        BY <4>2, LenProperties
      <4>4. QED
        BY <4>1, <4>2, <4>3
    <3>3. ASSUME NEW a \in DOMAIN reqs', NEW b \in DOMAIN reqs', a < b
          PROVE  \E h, j \in DOMAIN reqs : h < j /\ reqs[h] = reqs'[a] /\ reqs[j] = reqs'[b]
      <4> DEFINE h == IF a < i THEN a ELSE a + 1
                 j == IF b < i THEN b ELSE b + 1
      <4>1. h \in DOMAIN reqs /\ j \in DOMAIN reqs /\ h < j /\ reqs[h] = reqs'[a] /\ reqs[j] = reqs'[b]
        BY <2>2, <3>2, <3>3
      <4>2. QED
        BY <4>1
    <3>4. \A a \in DOMAIN reqs' : reqs'[a] \in Ids
      <4>1. \A a \in 1 .. Len(reqs) - 1 : a \in 1 .. Len(reqs) /\ a + 1 \in 1 .. Len(reqs)
        BY <3>2
      <4>2. QED
        BY <3>2, <4>1
    <3>5. QED
      BY <2>2, <3>1, <3>3, <3>4
  <2>3. QED
    BY <2>1, <2>2 DEF TableKept
<1>2. ASSUME NEW x \in Ids PROVE Sent(x)'
  <2>1. Sent(x)
    BY DEF FlowInv
  <2>2. CASE Has(Flow, x) \/ Has(reqs, x)
    <3>1. ~Ahead(x) /\ call[x] # "new"
      BY <2>2, SentIsMade
    <3>2. Untimed(key[x])' => Untimed(key[x])
      BY <3>1, UntimedBefore
    <3>3. ~Ahead(x)'
      BY <3>1, NotAheadAgain
    <3>4. QED
      BY <2>1, <3>2, <3>3, <1>1 DEF Sent, FlowKept
  <2>3. CASE ~Has(Flow, x) /\ ~Has(reqs, x)
    BY <2>1, <2>3, <1>1 DEF Sent, FlowKept
  <2>4. QED
    BY <2>2, <2>3
<1>3. InOrder'
  <2> SUFFICES ASSUME NEW a \in DOMAIN reqs', NEW b \in DOMAIN reqs', a < b,
                      NEW y \in Ids, NEW x \in Ids, y = reqs'[a], x = reqs'[b],
                      key'[y] = key'[x], Untimed(key[x])'
               PROVE  Before(Flow', y, x)
    <3>1. \A a \in DOMAIN reqs' : reqs'[a] \in Ids
      BY <1>1
    <3>2. QED
      BY <3>1 DEF InOrder
  <2>1. Has(reqs', x) /\ Has(reqs', y) /\ Has(reqs, x) /\ Has(reqs, y)
    <3>1. Has(reqs', x) /\ Has(reqs', y)
      BY DEF Has
    <3>2. QED
      BY <3>1, <1>1
  <2>2. call[x] # "new" /\ call[y] # "new"
    BY <2>1, SentIsMade
  <2>3. key[x] = key[y] /\ Untimed(key[x])
    <3>1. key'[x] = key[x] /\ key'[y] = key[y]
      BY <2>1, <2>2, UntimedBefore
    <3>2. Untimed(key[x])'  => Untimed(key[x])
      BY <2>1, <2>2, UntimedBefore
    <3>3. QED
      BY <3>1, <3>2
  <2>4. PICK i, j \in DOMAIN reqs : i < j /\ reqs[i] = y /\ reqs[j] = x
    BY <1>1
  <2>5. Before(Flow, y, x)
    BY <2>3, <2>4 DEF FlowInv, InOrder
  <2>6. QED
    BY <2>1, <2>3, <2>5 DEF FlowKept
<1>4. QED
  BY <1>2, <1>3 DEF FlowInv

LEMMA FlowStays ==
  ASSUME TypeOK, LinkInv, OncePlaced, FlowInv, [Next]_vars,
         Flow' = Flow, reqs' = reqs, \A y \in Ids : Waits(y) => Waits(y)'
  PROVE  FlowInv'
<1>1. TableKept /\ FlowKept
  BY DEF TableKept, FlowKept
<1>2. QED
  BY <1>1, FlowMoves

\* What is pushed behind a write leaves the write at the front.
LEMMA FrontStays ==
  ASSUME LinkInv, NEW x \in Works, events' = Append(events, x), write' = write
  PROVE  /\ write # "none" => FrontCall' = FrontCall
         /\ Queued("stop") => Queued("stop")'
<1>1. /\ Head(events') = IF events = <<>> THEN x ELSE Head(events)
      /\ Has(Kinds(events'), "stop") <=> Has(Kinds(events), "stop") \/ x.e = "stop"
  BY Added DEF LinkInv
<1>2. QED
  BY <1>1 DEF FrontCall, LinkInv, Queued

LEMMA PushFlow ==
  ASSUME TypeOK, LinkInv, OncePlaced, FlowInv,
         Arrives \/ LoseConnection \/ \E c \in Ids : CallOnStrand(c)
  PROVE  FlowInv'
<1>0. [Next]_vars
  BY DEF Next
<1>1. \E x \in Works : events' = Append(events, x)
  BY LaterPosts, CellTypes DEF Arrives, LoseConnection, CallOnStrand
<1>2. UNCHANGED <<write, waiter, stopFlag, reqs, toPeer, fromPeer>>
  BY DEF Arrives, LoseConnection, CallOnStrand, sending, table, link
<1>3. (write # "none" => FrontCall' = FrontCall) /\ (Queued("stop") => Queued("stop")')
  BY <1>1, <1>2, FrontStays
<1>4. state' = "closed" <=> state = "closed"
  BY DEF Arrives, LoseConnection, CallOnStrand, link, IsStarted
<1>5. Flow' = Flow
  BY <1>2, <1>3, <1>4 DEF Flow, Rest
<1>6. \A y \in Ids : Waits(y) => Waits(y)'
  BY <1>2, <1>3, <1>4 DEF Waits
<1>7. QED
  BY <1>0, <1>2, <1>5, <1>6, FlowStays

LEMMA QuietFlow ==
  ASSUME TypeOK, LinkInv, OncePlaced, FlowInv,
         \/ \E c \in Ids : CallTests(c) \/ CallPushes(c) \/ WaitEnds(c) \/ TimerExpires(c)
         \/ UNCHANGED vars
  PROVE  FlowInv'
<1>0. [Next]_vars
  BY DEF Next
<1>1. UNCHANGED <<events, write, waiter, stopFlag, reqs, state, toPeer, fromPeer>>
  BY DEF CallTests, CallPushes, WaitEnds, TimerExpires, vars, queue, sending, table, link
<1>2. Flow' = Flow /\ \A y \in Ids : Waits(y)' <=> Waits(y)
  BY <1>1 DEF Flow, Rest, Waits, FrontCall, Queued
<1>3. QED
  BY <1>0, <1>1, <1>2, FlowStays

LEMMA PopFlow ==
  ASSUME TypeOK, LinkInv, OncePlaced, FlowInv, RunFail \/ RunQueue \/ RunStop
  PROVE  FlowInv'
<1>0. [Next]_vars
  BY DEF Next, RunEvent
<1>1. /\ events # <<>> /\ write = "none" /\ write' = "none" /\ events' = Tail(events)
      /\ UNCHANGED <<reqs, state, toPeer, fromPeer>>
  BY FirstEvent DEF RunFail, RunQueue, RunStop, table, link
<1>2. Flow' = Flow
  BY <1>1 DEF Flow, Rest
<1>3. \A y \in Ids : Waits(y) => Waits(y)'
  <2>1. Has(Kinds(events), "stop") <=> Head(events).e = "stop" \/ Has(Kinds(events'), "stop")
    BY <1>1, Removed DEF LinkInv
  <2>2. CASE RunStop
    <3>1. Queued("stop") /\ waiter # "none" /\ Notify
      BY <2>1, <2>2, FirstEvent DEF RunStop, Queued, LinkInv
    <3>2. waiter' = "woken"
      BY <3>1 DEF Notify, TypeOK
    <3>3. QED
      BY <1>1, <3>2 DEF Waits
  <2>3. CASE RunFail \/ RunQueue
    <3>1. Head(events).e # "stop" /\ (waiter = "woken" => waiter' = "woken")
      BY <2>3, FirstEvent DEF RunFail, RunQueue, Notify, sending
    <3>2. QED
      BY <1>1, <2>1, <3>1 DEF Waits, Queued
  <2>4. QED
    BY <2>2, <2>3
<1>4. QED
  BY <1>0, <1>1, <1>2, <1>3, FlowStays

LEMMA TransmitFlow == ASSUME TypeOK, LinkInv, OncePlaced, FlowInv, Transmit PROVE FlowInv'
<1>0. [Next]_vars
  BY DEF Next
<1>1. /\ write = "busy" /\ write' = "sent" /\ state # "closed" /\ toPeer' = Append(toPeer, FrontCall)
      /\ UNCHANGED <<events, reqs, state, fromPeer>>
  BY DEF Transmit, table
<1>2. Flow' = Flow /\ \A y \in Ids : ~Waits(y)
  BY <1>1 DEF Flow, Rest, Waits
<1>3. QED
  BY <1>0, <1>1, <1>2, FlowStays

LEMMA RunDisconnectFlow == ASSUME TypeOK, LinkInv, OncePlaced, FlowInv, RunDisconnect PROVE FlowInv'
<1>0. [Next]_vars /\ TypeOK' /\ LinkInv'
  BY TypeStep, LinkStep DEF Next, RunEvent
<1>1. Flow' = <<>> /\ reqs' = reqs /\ state' = "closed"
  <2>1. state' = "closed" /\ reqs' = reqs
    BY DEF RunDisconnect, table
  <2>2. Flow' = <<>>
    BY <2>1, ConcatEmptySeq DEF RunDisconnect, Flow, Rest
  <2>3. QED
    BY <2>1, <2>2
<1>2. Queued("stop")'
  <2>1. events # <<>> /\ events' = Append(Tail(events), Event("stop", 0))
    BY FirstEvent DEF RunDisconnect
  <2>2. Tail(events) \in Seq(Works) /\ Event("stop", 0) \in Works /\ Event("stop", 0).e = "stop"
    BY <2>1, CellTypes, HeadTailProperties DEF LinkInv
  <2>3. QED
    BY <2>1, <2>2, Added DEF Queued
<1>3. \A y \in Ids : Waits(y)'
  BY <1>1, <1>2 DEF Waits
<1>4. TableKept
  BY <1>1 DEF TableKept
<1>5. FlowKept
  BY <1>1, <1>3, HasNone DEF FlowKept
<1>6. QED
  BY <1>0, <1>4, <1>5, FlowMoves

LEMMA ReconnectFlow == ASSUME TypeOK, LinkInv, OncePlaced, FlowInv, Reconnect PROVE FlowInv'
<1>0. [Next]_vars
  BY DEF Next
<1>1. /\ state = "closed" /\ events = <<>> /\ waiter # "woken"
      /\ UNCHANGED <<events, write, reqs, toPeer, fromPeer>>
  BY DEF Reconnect, queue, table
<1>2. Flow = <<>> /\ write = "none" /\ toPeer = <<>> /\ fromPeer = <<>>
  BY <1>1, ClosedFlow DEF LinkInv
<1>3. Flow' = Flow
  BY <1>1, <1>2 DEF Flow, Rest
<1>4. \A y \in Ids : ~Waits(y)
  <2>1. ~Queued("stop")
    BY <1>1 DEF Queued, Kinds, Has
  <2>2. QED
    BY <1>1, <1>2, <2>1 DEF Waits
<1>5. QED
  BY <1>0, <1>1, <1>3, <1>4, FlowStays

-----------------------------------------------------------------------------
(* The order of a flow that grows at its end and loses its ends.           *)

LEMMA BeforeAppend ==
  ASSUME NEW S, NEW q \in Seq(S), NEW z \in S, NEW x, NEW y
  PROVE  /\ Before(Append(q, z), y, x) => Before(q, y, x)
         /\ x # z /\ Before(q, y, x) => Before(Append(q, z), y, x)
         /\ ~Has(q, z) /\ Has(q, y) => Before(Append(q, z), y, z)
<1> DEFINE r == Append(q, z)
           n == Len(q)
<1>1. /\ n \in Nat /\ DOMAIN q = 1 .. n /\ DOMAIN r = 1 .. n + 1 /\ r[n + 1] = z
      /\ \A i \in 1 .. n : r[i] = q[i]
  BY AppendProperties, LenProperties
<1> HIDE DEF r, n
<1>2. \A j \in 1 .. n : \A i \in 1 .. j - 1 : i \in 1 .. n /\ r[i] = q[i]
  BY <1>1
<1>3. \A j \in DOMAIN r : j = n + 1 \/ j \in 1 .. n
  BY <1>1
<1>4. \A j \in 1 .. n : j \in DOMAIN r /\ j \in 1 .. (n + 1) - 1
  BY <1>1
<1>5. Before(r, y, x) => Before(q, y, x)
  BY <1>1, <1>2, <1>4 DEF Before
<1>6. x # z /\ Before(q, y, x) => Before(r, y, x)
  BY <1>1, <1>2, <1>3 DEF Before
<1>7. ASSUME ~Has(q, z), Has(q, y) PROVE Before(r, y, z)
  <2>1. PICK i \in 1 .. n : q[i] = y
    BY <1>1, <1>7 DEF Has
  <2>2. \A j \in DOMAIN r : r[j] = z => j = n + 1
    BY <1>1, <1>3, <1>7 DEF Has
  <2>3. i \in 1 .. (n + 1) - 1 /\ r[i] = y
    BY <1>1, <1>4, <2>1
  <2>4. QED
    BY <2>2, <2>3 DEF Before
<1>8. QED
  BY <1>5, <1>6, <1>7 DEF r

LEMMA BeforeTail ==
  ASSUME NEW S, NEW q \in Seq(S), q # <<>>, NEW x, NEW y, Before(q, y, x)
  PROVE  /\ Head(q) # x
         /\ Head(q) # y => Before(Tail(q), y, x)
<1> DEFINE r == Tail(q)
           n == Len(r)
<1>1. /\ n \in Nat /\ DOMAIN q = 1 .. n + 1 /\ DOMAIN r = 1 .. n /\ q[1] = Head(q)
      /\ \A i \in 1 .. n : r[i] = q[i + 1]
  <2>1. /\ r \in Seq(S) /\ Len(r) = Len(q) - 1 /\ \A i \in 1 .. Len(q) - 1 : r[i] = q[i + 1]
        /\ Len(q) \in Nat /\ DOMAIN q = 1 .. Len(q) /\ q[1] = Head(q)
    BY HeadTailProperties, Elements
  <2>2. DOMAIN r = 1 .. Len(r) /\ Len(r) \in Nat
    BY <2>1, LenProperties
  <2>3. QED
    BY <2>1, <2>2
<1> HIDE DEF r, n
<1>2. Head(q) # x
  <2>1. 1 \in DOMAIN q /\ 1 .. 1 - 1 = {}
    BY <1>1
  <2>2. QED
    BY <2>1, <1>1 DEF Before
<1>3. ASSUME Head(q) # y, NEW j \in 1 .. n, r[j] = x PROVE \E i \in 1 .. j - 1 : r[i] = y
  <2>1. j + 1 \in DOMAIN q /\ q[j + 1] = x
    BY <1>1, <1>3
  <2>2. PICK i \in 1 .. (j + 1) - 1 : q[i] = y
    BY <2>1 DEF Before
  <2>3. i # 1
    BY <2>2, <1>1, <1>3
  <2>4. i - 1 \in 1 .. j - 1 /\ i - 1 \in 1 .. n /\ (i - 1) + 1 = i
    BY <2>2, <2>3, <1>1
  <2>5. QED
    BY <2>2, <2>4, <1>1
<1>4. QED
  BY <1>1, <1>2, <1>3 DEF Before, r

\* An element of the second sequence that overtakes the others, none of which
\* it was behind: what the two hold, how often, and what comes before what.
LEMMA Overtakes ==
  ASSUME NEW S, NEW f \in Seq(S), NEW r \in Seq(S), NEW i \in DOMAIN r
  PROVE  LET q == f \o r
             p == Append(f, r[i]) \o RemoveAt(r, i)
         IN \A x, y : /\ Has(p, x) <=> Has(q, x)
                      /\ Once(q, x) => Once(p, x)
                      /\ (r[i] = x => \A j \in 1 .. i - 1 : r[j] # y) /\ Before(q, y, x) => Before(p, y, x)
<1> DEFINE q == f \o r
           g == Append(f, r[i])
           t == RemoveAt(r, i)
           p == g \o t
           n == Len(f)
           m == Len(r)
<1>1. n \in Nat /\ m \in Nat /\ i \in 1 .. m /\ DOMAIN f = 1 .. n /\ DOMAIN r = 1 .. m /\ r[i] \in S
  BY Elements
<1>2. DOMAIN q = 1 .. n + m /\ \A j \in 1 .. n + m : q[j] = IF j <= n THEN f[j] ELSE r[j - n]
  BY ConcatProperties, LenProperties
<1>3. g \in Seq(S) /\ Len(g) = n + 1 /\ g[n + 1] = r[i] /\ \A j \in 1 .. n : g[j] = f[j]
  BY <1>1, AppendProperties
<1>4. t \in Seq(S) /\ Len(t) = m - 1 /\ \A j \in 1 .. m - 1 : t[j] = IF j < i THEN r[j] ELSE r[j + 1]
  BY RemoveProperties
<1> HIDE DEF g, t
<1>5. DOMAIN p = 1 .. n + m /\ \A j \in 1 .. n + m : p[j] = IF j <= n + 1 THEN g[j] ELSE t[j - (n + 1)]
  <2>1. /\ p \in Seq(S) /\ Len(p) = Len(g) + Len(t)
        /\ \A j \in 1 .. Len(g) + Len(t) : p[j] = IF j <= Len(g) THEN g[j] ELSE t[j - Len(g)]
    BY <1>3, <1>4, ConcatProperties
  <2>2. Len(g) + Len(t) = n + m /\ DOMAIN p = 1 .. Len(p)
    BY <2>1, <1>1, <1>3, <1>4, LenProperties
  <2>3. QED
    BY <2>1, <2>2, <1>3
<1> HIDE DEF q, p, n, m
<1> DEFINE Was(j) == IF j <= n THEN j ELSE IF j = n + 1 THEN n + i ELSE IF j <= n + i THEN j - 1 ELSE j
           Is(j) == IF j <= n THEN j ELSE IF j = n + i THEN n + 1 ELSE IF j < n + i THEN j + 1 ELSE j
<1>6. ASSUME NEW j \in 1 .. n + m PROVE Was(j) \in 1 .. n + m /\ p[j] = q[Was(j)]
  <2>1. CASE j <= n
    BY <2>1, <1>1, <1>2, <1>3, <1>5, SMTT(20), ZenonT(20)
  <2>2. CASE j = n + 1
    <3>1. n + i \in 1 .. n + m /\ ~(n + i <= n) /\ (n + i) - n = i /\ ~(j <= n) /\ Was(j) = n + i
      BY <2>2, <1>1
    <3>2. q[n + i] = r[i]
      BY <3>1, <1>2
    <3>3. p[j] = r[i]
      BY <2>2, <1>1, <1>3, <1>5
    <3>4. QED
      BY <3>1, <3>2, <3>3
  <2>3. CASE ~(j <= n) /\ j # n + 1 /\ j <= n + i
    <3>1. /\ Was(j) = j - 1 /\ j - 1 \in 1 .. n + m /\ ~(j - 1 <= n) /\ ~(j <= n + 1)
          /\ j - (n + 1) \in 1 .. m - 1 /\ j - (n + 1) < i /\ (j - 1) - n = j - (n + 1)
      BY <2>3, <1>1
    <3>2. p[j] = r[j - (n + 1)]
      BY <3>1, <1>4, <1>5
    <3>3. q[j - 1] = r[j - (n + 1)]
      BY <3>1, <1>2
    <3>4. QED
      BY <3>1, <3>2, <3>3
  <2>4. CASE ~(j <= n) /\ j # n + 1 /\ ~(j <= n + i)
    <3>1. /\ Was(j) = j /\ ~(j <= n + 1)
          /\ j - (n + 1) \in 1 .. m - 1 /\ ~(j - (n + 1) < i) /\ j - n = (j - (n + 1)) + 1
      BY <2>4, <1>1
    <3>2. p[j] = r[(j - (n + 1)) + 1]
      BY <3>1, <1>4, <1>5
    <3>3. q[j] = r[j - n]
      BY <2>4, <1>2
    <3>4. QED
      BY <3>1, <3>2, <3>3
  <2>5. QED
    BY <2>1, <2>2, <2>3, <2>4, <1>1
<1>7. ASSUME NEW j \in 1 .. n + m PROVE Is(j) \in 1 .. n + m /\ Was(Is(j)) = j
  BY <1>1
<1>8. \A j \in 1 .. n + m : p[Is(j)] = q[j]
  BY <1>6, <1>7
<1>9. \A j, k \in 1 .. n + m : Was(j) = Was(k) => j = k
  BY <1>1
<1>10. \A j, k \in 1 .. n + m : j < Was(k) /\ ~(Is(j) < k) => k = n + 1 /\ j \in n + 1 .. n + i - 1
  BY <1>1
<1>11. \A j \in n + 1 .. n + i - 1 : q[j] = r[j - n] /\ j - n \in 1 .. i - 1
  BY <1>1, <1>2
<1>12. p[n + 1] = r[i]
  BY <1>1, <1>3, <1>5
<1> HIDE DEF Was, Is
<1>13. ASSUME NEW x PROVE Has(p, x) <=> Has(q, x)
  BY <1>2, <1>5, <1>6, <1>7, <1>8 DEF Has
<1>14. ASSUME NEW x, Once(q, x) PROVE Once(p, x)
  BY <1>2, <1>5, <1>6, <1>9, <1>14 DEF Once
<1>15. ASSUME NEW x, NEW y, r[i] = x => \A j \in 1 .. i - 1 : r[j] # y, Before(q, y, x)
       PROVE  Before(p, y, x)
  <2> SUFFICES ASSUME NEW k \in 1 .. n + m, p[k] = x PROVE \E j \in 1 .. k - 1 : p[j] = y
    BY <1>5 DEF Before
  <2>1. Was(k) \in DOMAIN q /\ q[Was(k)] = x
    BY <1>2, <1>6
  <2>2. PICK j \in 1 .. Was(k) - 1 : q[j] = y
    BY <2>1, <1>15 DEF Before
  <2>3. j \in 1 .. n + m /\ j < Was(k)
    BY <2>1, <2>2, <1>1, <1>2
  <2>4. CASE Is(j) < k
    <3>1. Is(j) \in 1 .. n + m /\ p[Is(j)] = y
      BY <2>2, <2>3, <1>7, <1>8
    <3>2. Is(j) \in 1 .. k - 1
      BY <2>4, <3>1, <1>1
    <3>3. QED
      BY <3>1, <3>2
  <2>5. CASE ~(Is(j) < k)
    <3>1. k = n + 1 /\ j \in n + 1 .. n + i - 1
      BY <2>3, <2>5, <1>10
    <3>2. r[i] = x /\ r[j - n] = y /\ j - n \in 1 .. i - 1
      BY <3>1, <2>2, <1>11, <1>12
    <3>3. QED
      BY <3>2, <1>15
  <2>6. QED
    BY <2>4, <2>5
<1>16. QED
  BY <1>13, <1>14, <1>15 DEF q, p, g, t

LEMMA RespondFlow == ASSUME TypeOK, LinkInv, OncePlaced, FlowInv, Respond PROVE FlowInv'
<1>0. [Next]_vars
  BY DEF Next
<1>1. PICK i \in DOMAIN toPeer :
        /\ \A j \in 1 .. i - 1 : key[toPeer[j]] # key[toPeer[i]]
        /\ toPeer' = RemoveAt(toPeer, i) /\ fromPeer' = Append(fromPeer, toPeer[i])
  BY DEF Respond
<1>2. UNCHANGED <<key, events, write, waiter, stopFlag, reqs, state>>
  BY DEF Respond, caller, queue, sending, table
<1>3. state # "closed" /\ \A y : ~Waits(y)
  BY <1>1 DEF LinkInv, Waits
<1>4. /\ Rest \in Seq(Ids) /\ fromPeer \in Seq(Ids) /\ i \in DOMAIN Rest /\ Rest[i] = toPeer[i]
      /\ \A j \in 1 .. i - 1 : Rest[j] = toPeer[j]
      /\ Rest' = RemoveAt(Rest, i)
  <2>1. toPeer \in Seq(Ids) /\ Rest \in Seq(Ids) /\ fromPeer \in Seq(Ids)
    BY FlowType DEF TypeOK
  <2>2. CASE write # "busy"
    BY <1>1, <1>2, <2>1, <2>2 DEF Rest
  <2>3. CASE write = "busy"
    <3> DEFINE x == FrontCall
               t == toPeer
               r == Append(t, x)
               n == Len(t)
    <3>1. x \in Ids /\ FrontCall' = FrontCall
      BY <1>2, <2>3, FrontNamed DEF LinkInv, FrontCall
    <3>2. Rest = r /\ Rest' = Append(RemoveAt(t, i), x)
      BY <1>1, <1>2, <1>3, <2>3, <3>1 DEF Rest
    <3>3. /\ r \in Seq(Ids) /\ Len(r) = n + 1 /\ r[n + 1] = x /\ \A j \in 1 .. n : r[j] = t[j]
          /\ n \in Nat /\ DOMAIN t = 1 .. n /\ DOMAIN r = 1 .. n + 1
      BY <2>1, <3>1, AppendProperties, LenProperties
    <3>4. i \in DOMAIN t
      OBVIOUS
    <3>5. t \in Seq(Ids)
      BY <2>1
    <3> HIDE DEF x, t, r, n
    <3>6. i \in 1 .. n /\ i \in DOMAIN r
      BY <3>3, <3>4
    <3>7. /\ RemoveAt(t, i) \in Seq(Ids) /\ Len(RemoveAt(t, i)) = n - 1
          /\ \A j \in 1 .. n - 1 : RemoveAt(t, i)[j] = IF j < i THEN t[j] ELSE t[j + 1]
      BY <3>3, <3>4, <3>5, RemoveProperties DEF n
    <3>8. /\ RemoveAt(r, i) \in Seq(Ids) /\ Len(RemoveAt(r, i)) = n
          /\ \A j \in 1 .. n : RemoveAt(r, i)[j] = IF j < i THEN r[j] ELSE r[j + 1]
      <4>1. /\ RemoveAt(r, i) \in Seq(Ids) /\ Len(RemoveAt(r, i)) = Len(r) - 1
            /\ \A j \in 1 .. Len(r) - 1 : RemoveAt(r, i)[j] = IF j < i THEN r[j] ELSE r[j + 1]
        BY <3>3, <3>6, RemoveProperties
      <4>2. Len(r) - 1 = n
        BY <3>3
      <4>3. QED
        BY <4>1, <4>2
    <3> DEFINE u == RemoveAt(t, i)
               v == RemoveAt(r, i)
               w == Append(u, x)
    <3>9. x \in Ids
      BY <3>1 DEF x
    <3>10. /\ w \in Seq(Ids) /\ Len(w) = Len(u) + 1 /\ w[Len(u) + 1] = x
           /\ \A j \in 1 .. Len(u) : w[j] = u[j]
      BY <3>7, <3>9, AppendProperties
    <3> HIDE DEF u, v, w
    <3>11. Len(u) = n - 1 /\ Len(w) = n /\ Len(v) = n /\ v \in Seq(Ids)
      BY <3>3, <3>7, <3>8, <3>10 DEF u, v
    <3>12. ASSUME NEW j \in 1 .. n PROVE w[j] = v[j]
      <4>1. v[j] = IF j < i THEN r[j] ELSE r[j + 1]
        BY <3>8 DEF v
      <4>2. CASE j = n
        <5>1. w[j] = x /\ ~(j < i) /\ r[j + 1] = x
          BY <4>2, <3>3, <3>6, <3>10, <3>11
        <5>2. QED
          BY <4>1, <5>1
      <4>3. CASE j # n
        <5>1. j \in 1 .. n - 1 /\ j \in 1 .. Len(u) /\ j + 1 \in 1 .. n
          BY <4>3, <3>3, <3>11
        <5>2. w[j] = IF j < i THEN t[j] ELSE t[j + 1]
          BY <5>1, <3>7, <3>10 DEF u
        <5>3. QED
          BY <4>1, <5>1, <5>2, <3>3
      <4>4. QED
        BY <4>2, <4>3
    <3>13. w = v
      BY <3>10, <3>11, <3>12, SeqEqual
    <3>14. Rest' = RemoveAt(Rest, i) /\ i \in DOMAIN Rest /\ Rest[i] = t[i]
      BY <3>2, <3>3, <3>6, <3>13 DEF u, v, w
    <3>15. \A j \in 1 .. i - 1 : Rest[j] = t[j]
      BY <3>2, <3>3, <3>6
    <3>16. QED
      BY <2>1, <3>14, <3>15 DEF t
  <2>4. QED
    BY <2>2, <2>3
<1>5. Flow' = Append(fromPeer, Rest[i]) \o RemoveAt(Rest, i)
  BY <1>1, <1>4 DEF Flow
<1>6. \A x, y : /\ Has(Flow', x) <=> Has(Flow, x)
                /\ Once(Flow, x) => Once(Flow', x)
                /\ (Rest[i] = x => \A j \in 1 .. i - 1 : Rest[j] # y) /\ Before(Flow, y, x) => Before(Flow', y, x)
  <2> DEFINE r == Rest
             f == fromPeer
  <2>1. r \in Seq(Ids) /\ f \in Seq(Ids) /\ i \in DOMAIN r
    BY <1>4
  <2>2. Flow = f \o r /\ Flow' = Append(f, r[i]) \o RemoveAt(r, i)
    BY <1>5 DEF Flow
  <2> HIDE DEF r, f
  <2>3. \A x, y : /\ Has(Append(f, r[i]) \o RemoveAt(r, i), x) <=> Has(f \o r, x)
                  /\ Once(f \o r, x) => Once(Append(f, r[i]) \o RemoveAt(r, i), x)
                  /\ (r[i] = x => \A j \in 1 .. i - 1 : r[j] # y) /\ Before(f \o r, y, x)
                        => Before(Append(f, r[i]) \o RemoveAt(r, i), y, x)
    BY <2>1, Overtakes
  <2>4. QED
    BY <2>2, <2>3 DEF r
<1>7. \A x, y \in Ids : key[x] = key[y] => (Rest[i] = x => \A j \in 1 .. i - 1 : Rest[j] # y)
  BY <1>1, <1>4
<1>8. \A x, y \in Ids : key[x] = key[y] /\ Before(Flow, y, x) => Before(Flow', y, x)
  BY <1>6, <1>7
<1>9. TableKept
  BY <1>2 DEF TableKept
<1>10. FlowKept
  BY <1>3, <1>6, <1>8 DEF FlowKept
<1>11. QED
  BY <1>0, <1>9, <1>10, FlowMoves

\* The call that is told that it timed out takes its id with it.
LEMMA TimedOut ==
  ASSUME TypeOK, OncePlaced, NEW k, Entries(k) # {}, NEW timers, key' = key,
         Complete(k, Answer("timed_out", 0), timers)
  PROVE  /\ \E i \in DOMAIN reqs : reqs' = RemoveAt(reqs, i) /\ key[reqs[i]] = k
         /\ ~Untimed(k)'
<1> DEFINE i == Found(k)
           x == reqs[i]
<1>1. i \in DOMAIN reqs /\ x \in Ids /\ key[x] = k
  BY FoundFirst
<1>2. reqs' = RemoveAt(reqs, i) /\ answers' = [answers EXCEPT ![x] = Append(@, Answer("timed_out", 0))]
  BY DEF Complete
<1>3. Has(reqs, x)
  BY <1>1 DEF Has
<1> HIDE DEF i, x
<1>4. answers[x] = <<>>
  BY <1>1, <1>3 DEF OncePlaced, InOnePlace
<1>5. answers'[x] = Append(<<>>, Answer("timed_out", 0))
  BY <1>1, <1>2, <1>4 DEF TypeOK
<1>6. answers'[x] # <<>> /\ answers'[x][1] = Answer("timed_out", 0)
  <2>1. Append(<<>>, Answer("timed_out", 0)) = <<Answer("timed_out", 0)>>
    OBVIOUS
  <2>2. QED
    BY <1>5, <2>1
<1>7. ~Untimed(k)'
  BY <1>1, <1>6 DEF Untimed, Answer
<1>8. QED
  BY <1>1, <1>2, <1>7 DEF x

\* The entry that a timeout takes out.
LEMMA OutTimed ==
  ASSUME TypeOK, NEW k, key' = key, ~Untimed(k)',
         \E i \in DOMAIN reqs : reqs' = RemoveAt(reqs, i) /\ key[reqs[i]] = k
  PROVE  TableKept
<1>1. PICK i \in DOMAIN reqs : reqs' = RemoveAt(reqs, i) /\ key[reqs[i]] = k
  OBVIOUS
<1>2. PICK z \in Ids : z = reqs[i]
  BY Elements DEF TypeOK
<1>3. key'[z] = k
  BY <1>1, <1>2
<1>4. ~Untimed(key[z])'
  BY <1>3
<1>5. QED
  BY <1>1, <1>2, <1>4 DEF TableKept

LEMMA OutOnly ==
  ASSUME TypeOK, TableKept, NEW x, Has(reqs', x)
  PROVE  Has(reqs, x)
<1>1. CASE reqs' = reqs
  BY <1>1
<1>2. ASSUME NEW i \in DOMAIN reqs, reqs' = RemoveAt(reqs, i) PROVE Has(reqs, x)
  <2>1. reqs \in Seq(Ids)
    BY DEF TypeOK
  <2>2. Has(RemoveAt(reqs, i), x)
    BY <1>2
  <2>3. QED
    BY <2>1, <2>2, InRemoveAt
<1>3. QED
  BY <1>1, <1>2 DEF TableKept

LEMMA HandleTimerFlow == ASSUME TypeOK, LinkInv, OncePlaced, FlowInv, NEW c \in Ids, HandleTimer(c) PROVE FlowInv'
<1>0. [Next]_vars
  BY DEF Next
<1>1. UNCHANGED <<key, events, write, waiter, stopFlag, state, toPeer, fromPeer>>
  BY DEF HandleTimer, caller, queue, sending, link
<1>2. Flow' = Flow /\ \A y \in Ids : Waits(y)' <=> Waits(y)
  BY <1>1 DEF Flow, Rest, Waits, FrontCall, Queued
<1>3. \/ reqs' = reqs
      \/ Entries(key[c]) # {} /\ Complete(key[c], Answer("timed_out", 0), [timer EXCEPT ![c] = "idle"])
  BY DEF HandleTimer
<1>4. TableKept
  <2>1. CASE Entries(key[c]) # {} /\ Complete(key[c], Answer("timed_out", 0), [timer EXCEPT ![c] = "idle"])
    <3> PICK k : k = key[c]
      OBVIOUS
    <3>1. Entries(k) # {} /\ Complete(k, Answer("timed_out", 0), [timer EXCEPT ![c] = "idle"])
      BY <2>1
    <3>2. (\E i \in DOMAIN reqs : reqs' = RemoveAt(reqs, i) /\ key[reqs[i]] = k) /\ ~Untimed(k)'
      BY <1>1, <3>1, TimedOut
    <3>3. QED
      BY <1>1, <3>2, OutTimed
  <2>2. QED
    BY <1>3, <2>1 DEF TableKept
<1>5. FlowKept
  BY <1>2, <1>4 DEF TableKept, FlowKept
<1>6. QED
  BY <1>0, <1>4, <1>5, FlowMoves

LEMMA HandleSentFlow == ASSUME TypeOK, LinkInv, OncePlaced, FlowInv, HandleSent PROVE FlowInv'
<1> DEFINE base == fromPeer \o toPeer
<1>0. [Next]_vars
  BY DEF Next
<1> PICK f \in Ids : f = FrontCall
  BY SentDoes
<1> PICK k : k = key[f]
  OBVIOUS
<1>1. /\ write' = "none" /\ write # "none" /\ events # <<>>
      /\ UNCHANGED <<key, waiter, stopFlag, toPeer, fromPeer>>
      /\ (state' = "closed" <=> state = "closed")
  BY SentDoes
<1>2. base \in Seq(Ids) /\ toPeer \in Seq(Ids) /\ fromPeer \in Seq(Ids)
  BY ConcatProperties DEF TypeOK
<1>3. Flow' = base
  BY <1>1 DEF Flow, Rest
<1>4. CASE write = "sent"
  <2>1. reqs' = reqs /\ Flow = base /\ state # "closed"
    BY <1>4, SentDoes DEF Flow, Rest, LinkInv
  <2>2. QED
    BY <1>0, <1>3, <2>1, FlowStays DEF Waits
<1>5. CASE write = "busy"
  <2>1. Flow = base \/ Flow = Append(base, f)
    <3>1. CASE state = "closed"
      BY <3>1 DEF Flow, Rest
    <3>2. CASE state # "closed"
      <4>1. Flow = fromPeer \o Append(toPeer, f)
        BY <1>5, <3>2 DEF Flow, Rest
      <4>2. /\ <<f>> \in Seq(Ids) /\ Append(toPeer, f) = toPeer \o <<f>> /\ Append(base, f) = base \o <<f>>
        BY <1>1, <1>2, AppendIsConcat
      <4>3. (fromPeer \o toPeer) \o <<f>> = fromPeer \o (toPeer \o <<f>>)
        BY <1>2, <4>2, ConcatAssociative
      <4>4. QED
        BY <4>1, <4>2, <4>3
    <3>3. QED
      BY <3>1, <3>2
  <2>2. \A x, y : /\ Once(Flow, x) => Once(Flow', x)
                  /\ Has(Flow', x) => Has(Flow, x)
                  /\ Has(Flow, x) => Has(Flow', x) \/ x = f
                  /\ Before(Flow, y, x) => Before(Flow', y, x)
    <3> HIDE DEF base
    <3>1. CASE Flow = base
      BY <1>3, <3>1
    <3>2. CASE Flow = Append(base, f)
      BY <1>1, <1>2, <1>3, <3>2, InAppend, BeforeAppend
    <3>3. QED
      BY <2>1, <3>1, <3>2
  <2>3. \/ Entries(k) = {} /\ reqs' = reqs
        \/ /\ Entries(k) # {}
           /\ \E i \in DOMAIN reqs : reqs' = RemoveAt(reqs, i) /\ key[reqs[i]] = k
           /\ ~Untimed(k)'
    <3>1. CASE Entries(k) = {}
      BY <1>5, <3>1, SentDoes
    <3>2. CASE Entries(k) # {}
      <4>1. Complete(k, Answer("timed_out", 0), timer)
        BY <1>5, <3>2, SentDoes
      <4>2. (\E i \in DOMAIN reqs : reqs' = RemoveAt(reqs, i) /\ key[reqs[i]] = k) /\ ~Untimed(k)'
        BY <1>1, <3>2, <4>1, TimedOut
      <4>3. QED
        BY <3>2, <4>2
    <3>3. QED
      BY <3>1, <3>2
  <2>4. TableKept
    <3>1. CASE reqs' = reqs
      BY <3>1 DEF TableKept
    <3>2. CASE (\E i \in DOMAIN reqs : reqs' = RemoveAt(reqs, i) /\ key[reqs[i]] = k) /\ ~Untimed(k)'
      BY <1>1, <3>2, OutTimed
    <3>3. QED
      BY <2>3, <3>1, <3>2
  <2>5. \A x \in Ids : Has(reqs', x) => Has(reqs, x)
    BY <2>4, OutOnly
  <2>6. Has(reqs', f) => ~Untimed(key[f])'
    <3>1. ASSUME Has(reqs, f) PROVE Entries(k) # {}
      BY <3>1 DEF Has, Entries
    <3>2. ASSUME ~Untimed(k)' PROVE ~Untimed(key[f])'
      <4>1. key'[f] = k
        BY <1>1
      <4>2. QED
        BY <3>2, <4>1
    <3>3. QED
      BY <2>3, <2>5, <3>1, <3>2
  <2>7. ASSUME NEW y \in Ids, y # f, Waits(y) PROVE Waits(y)'
    <3>1. state = "closed" /\ (Queued("stop") \/ waiter = "woken")
      BY <2>7 DEF Waits
    <3>2. Head(events).e = "send" /\ events' = Tail(events)
      BY <3>1, SentDoes
    <3>3. Queued("stop") => Queued("stop")'
      BY <1>1, <3>2, Removed DEF LinkInv, Queued
    <3>4. QED
      BY <1>1, <3>1, <3>3 DEF Waits
  <2>8. FlowKept
    <3>1. \A x \in Ids : Has(reqs', x) /\ Untimed(key[x])' => x # f
      BY <2>6
    <3>2. \A x \in Ids : x # f /\ (Has(Flow, x) \/ Waits(x)) => Has(Flow', x) \/ Waits(x)'
      BY <2>2, <2>7
    <3>3. QED
      BY <2>2, <3>1, <3>2 DEF FlowKept
  <2>9. QED
    BY <1>0, <2>4, <2>8, FlowMoves
<1>6. QED
  BY <1>1, <1>4, <1>5 DEF TypeOK

\* The front of two sequences is the front of the first one.
LEMMA ConcatFront ==
  ASSUME NEW S, NEW f \in Seq(S), NEW r \in Seq(S), f # <<>>
  PROVE  f \o r # <<>> /\ Head(f \o r) = Head(f) /\ Tail(f \o r) = Tail(f) \o r
<1> DEFINE q == f \o r
           t == Tail(f)
           p == t \o r
           n == Len(f)
           m == Len(r)
<1>1. /\ n \in Nat /\ m \in Nat /\ n # 0 /\ f[1] = Head(f)
      /\ t \in Seq(S) /\ Len(t) = n - 1 /\ \A i \in 1 .. n - 1 : t[i] = f[i + 1]
  BY HeadTailProperties, LenProperties, EmptySeq, Elements
<1>2. /\ q \in Seq(S) /\ Len(q) = n + m
      /\ \A i \in 1 .. n + m : q[i] = IF i <= n THEN f[i] ELSE r[i - n]
  BY ConcatProperties
<1>3. /\ p \in Seq(S) /\ Len(p) = Len(t) + m
      /\ \A i \in 1 .. Len(t) + m : p[i] = IF i <= Len(t) THEN t[i] ELSE r[i - Len(t)]
  BY <1>1, ConcatProperties
<1>4. q # <<>>
  BY <1>1, <1>2, EmptySeq
<1>5. q[1] = Head(q) /\ Tail(q) \in Seq(S) /\ Len(Tail(q)) = Len(q) - 1 /\ \A i \in 1 .. Len(q) - 1 : Tail(q)[i] = q[i + 1]
  BY <1>2, <1>4, HeadTailProperties, Elements
<1> DEFINE u == Tail(q)
<1> HIDE DEF q, t, p, n, m, u
<1>6. Head(q) = Head(f)
  BY <1>1, <1>2, <1>5
<1>7. Len(u) = (n - 1) + m /\ Len(p) = (n - 1) + m /\ u \in Seq(S)
  BY <1>1, <1>2, <1>3, <1>5 DEF u
<1>8. ASSUME NEW i \in 1 .. (n - 1) + m PROVE u[i] = p[i]
  <2>1. i \in 1 .. Len(q) - 1 /\ i + 1 \in 1 .. n + m /\ i \in 1 .. Len(t) + m
    BY <1>1, <1>2
  <2>2. u[i] = IF i + 1 <= n THEN f[i + 1] ELSE r[(i + 1) - n]
    BY <2>1, <1>2, <1>5 DEF u
  <2>3. p[i] = IF i <= n - 1 THEN t[i] ELSE r[i - (n - 1)]
    BY <2>1, <1>1, <1>3
  <2>4. CASE i <= n - 1
    <3>1. i \in 1 .. n - 1 /\ i + 1 <= n
      BY <1>1, <2>4
    <3>2. QED
      BY <1>1, <2>2, <2>3, <2>4, <3>1
  <2>5. CASE ~(i <= n - 1)
    <3>1. (i + 1) - n = i - (n - 1) /\ ~(i + 1 <= n)
      BY <1>1, <2>5
    <3>2. QED
      BY <2>2, <2>3, <2>5, <3>1
  <2>6. QED
    BY <2>4, <2>5
<1>9. u = p
  BY <1>3, <1>7, <1>8, SeqEqual
<1>10. QED
  BY <1>4, <1>6, <1>9 DEF q, t, p, u

LEMMA ConcatAppend ==
  ASSUME NEW S, NEW f \in Seq(S), NEW r \in Seq(S), NEW x \in S
  PROVE  f \o Append(r, x) = Append(f \o r, x)
<1>1. /\ <<x>> \in Seq(S) /\ f \o r \in Seq(S)
      /\ Append(r, x) = r \o <<x>>
  BY AppendIsConcat, ConcatProperties
<1>2. Append(f \o r, x) = (f \o r) \o <<x>>
  BY <1>1, AppendIsConcat
<1>3. QED
  BY <1>1, <1>2, ConcatAssociative

\* The oldest response is in front of the flow.
LEMMA FlowFront ==
  ASSUME TypeOK, LinkInv, fromPeer # <<>>
  PROVE  /\ Flow \in Seq(Ids) /\ Flow # <<>> /\ Head(Flow) = Head(fromPeer)
         /\ Tail(Flow) = Tail(fromPeer) \o Rest
<1>1. Rest \in Seq(Ids) /\ fromPeer \in Seq(Ids) /\ Flow \in Seq(Ids)
  BY FlowType DEF TypeOK
<1> DEFINE f == fromPeer
           r == Rest
<1> HIDE DEF f, r
<1>2. f \in Seq(Ids) /\ r \in Seq(Ids) /\ f # <<>>
  BY <1>1 DEF f, r
<1>3. f \o r # <<>> /\ Head(f \o r) = Head(f) /\ Tail(f \o r) = Tail(f) \o r
  BY <1>2, ConcatFront
<1>4. QED
  BY <1>1, <1>3 DEF f, r, Flow

\* As long as no call of its id is told that it timed out, find gives the
\* oldest response its own request.
LEMMA FindsItself ==
  ASSUME TypeOK, LinkInv, FlowInv, fromPeer # <<>>, NEW x \in Ids, x = Head(fromPeer),
         Untimed(key[x]), NEW i \in DOMAIN reqs, NEW z \in Ids, z = reqs[i], key[z] = key[x],
         \A j \in DOMAIN reqs : key[reqs[j]] = key[x] => i <= j
  PROVE  z = x
<1>1. Flow \in Seq(Ids) /\ Flow # <<>> /\ Head(Flow) = x
  BY FlowFront
<1>2. Has(Flow, x) /\ ~Before(Flow, z, x)
  <2> DEFINE q == Flow
  <2>1. q \in Seq(Ids) /\ q # <<>> /\ Head(q) = x
    BY <1>1
  <2> HIDE DEF q
  <2>2. Has(q, x) /\ ~Before(q, z, x)
    BY <2>1, InTail, BeforeTail
  <2>3. QED
    BY <2>2 DEF q
<1>3. PICK j \in DOMAIN reqs : reqs[j] = x
  BY <1>2 DEF FlowInv, Sent, Has
<1>4. CASE i = j
  BY <1>3, <1>4
<1>5. CASE i < j
  BY <1>2, <1>3, <1>5 DEF FlowInv, InOrder
<1>6. i <= j /\ i \in Nat /\ j \in Nat
  BY <1>3, Elements, SMTT(20), ZenonT(20)
  DEF TypeOK
<1>7. QED
  BY <1>4, <1>5, <1>6

\* A response takes its request out of the flow, and out of the table the
\* first entry of its id.
LEMMA HandleRecvFlow == ASSUME TypeOK, LinkInv, OncePlaced, FlowInv, HandleRecv PROVE FlowInv'
<1>0. [Next]_vars
  BY DEF Next
<1>1. /\ fromPeer # <<>> /\ fromPeer' = Tail(fromPeer)
      /\ UNCHANGED <<key, events, write, waiter, stopFlag, state, toPeer>>
  BY DEF HandleRecv, caller, queue, sending
<1>2. \A y : ~Waits(y)
  BY <1>1 DEF LinkInv, Waits
<1> PICK x \in Ids : x = Head(fromPeer)
  BY <1>1, HeadTailProperties DEF TypeOK
<1> PICK k : k = key[x]
  OBVIOUS
<1>3. Flow \in Seq(Ids) /\ Flow # <<>> /\ Head(Flow) = x /\ Flow' = Tail(Flow)
  <2>1. Flow' = Tail(fromPeer) \o Rest
    BY <1>1 DEF Flow, Rest, FrontCall
  <2>2. QED
    BY <1>1, <2>1, FlowFront
<1>4. /\ \A y : (Has(Flow, y) <=> x = y \/ Has(Flow', y)) /\ (Once(Flow, y) => Once(Flow', y))
      /\ Once(Flow, x) => ~Has(Flow', x)
  <2> DEFINE q == Flow
  <2> HIDE DEF q
  <2>1. q \in Seq(Ids) /\ q # <<>> /\ Head(q) = x
    BY <1>3 DEF q
  <2>2. /\ \A y : (Has(q, y) <=> x = y \/ Has(Tail(q), y)) /\ (Once(q, y) => Once(Tail(q), y))
        /\ Once(q, x) => ~Has(Tail(q), x)
    BY <2>1, InTail
  <2>3. QED
    BY <1>3, <2>2 DEF q
<1>5. \A a, b : Before(Flow, b, a) => a # x /\ (b # x => Before(Flow', b, a))
  <2> DEFINE q == Flow
  <2> HIDE DEF q
  <2>1. q \in Seq(Ids) /\ q # <<>> /\ Head(q) = x
    BY <1>3 DEF q
  <2>2. \A a, b : Before(q, b, a) => a # x /\ (b # x => Before(Tail(q), b, a))
    BY <2>1, BeforeTail
  <2>3. QED
    BY <1>3, <2>2 DEF q
<1>6. Has(Flow, x) /\ ~Has(Flow', x) /\ Sent(x)
  BY <1>4 DEF FlowInv, Sent
<1>7. key'[x] = k /\ (Untimed(k)' => Untimed(k))
  <2>1. call[x] # "new"
    BY <1>6, SentIsMade
  <2>2. Untimed(key[x])' => Untimed(key[x])
    BY <1>0, <2>1, UntimedBefore
  <2>3. key'[x] = k
    BY <1>1
  <2>4. QED
    BY <2>2, <2>3
<1>8. CASE Entries(k) = {}
  <2>1. reqs' = reqs
    BY <1>8 DEF HandleRecv, table
  <2>2. \A y \in Ids : Has(reqs', y) => y # x
    BY <1>8, <2>1 DEF Entries, Has
  <2>3. TableKept
    BY <2>1 DEF TableKept
  <2>4. FlowKept
    BY <1>2, <1>4, <1>5, <2>2 DEF FlowKept
  <2>5. QED
    BY <1>0, <2>3, <2>4, FlowMoves
<1>9. CASE Entries(k) # {}
  <2> PICK i \in DOMAIN reqs : i = Found(k) /\ key[reqs[i]] = k /\ \A j \in DOMAIN reqs : key[reqs[j]] = k => i <= j
    BY <1>9, FoundFirst DEF Entries
  <2> PICK z \in Ids : z = reqs[i]
    BY Elements DEF TypeOK
  <2>1. reqs' = RemoveAt(reqs, i) /\ reqs \in Seq(Ids)
    BY <1>9 DEF HandleRecv, Complete, TypeOK
  <2>2. CASE Untimed(k)
    <3>1. z = x
      BY <1>1, <2>2, FindsItself
    <3>2. ~Has(reqs', x)
      <4>1. Once(reqs, x)
        BY DEF OncePlaced, InOnePlace
      <4>2. Once(reqs, x) => Once(RemoveAt(reqs, i), x) /\ (reqs[i] = x => ~Has(RemoveAt(reqs, i), x))
        BY <2>1, InRemoveAt
      <4>3. QED
        BY <2>1, <3>1, <4>1, <4>2
    <3>3. TableKept
      BY <1>6, <2>1, <3>1 DEF TableKept
    <3>4. FlowKept
      BY <1>2, <1>4, <1>5, <3>2 DEF FlowKept
    <3>5. QED
      BY <1>0, <3>3, <3>4, FlowMoves
  <2>3. CASE ~Untimed(k)
    <3>1. TableKept
      BY <1>1, <1>7, <2>1, <2>3, OutTimed
    <3>2. \A y \in Ids : Untimed(key[y])' => y # x
      <4>1. ASSUME NEW y \in Ids, y = x PROVE ~Untimed(key[y])'
        <5>1. key'[y] = k
          BY <1>7, <4>1
        <5>2. QED
          BY <5>1, <1>7, <2>3
      <4>2. QED
        BY <4>1
    <3>3. \A a, b \in Ids : key[a] = key[b] /\ Untimed(key[a]) => b # x
      BY <2>3
    <3>4. FlowKept
      BY <1>2, <1>4, <1>5, <3>2, <3>3 DEF FlowKept
    <3>5. QED
      BY <1>0, <3>1, <3>4, FlowMoves
  <2>4. QED
    BY <2>2, <2>3
<1>10. QED
  BY <1>8, <1>9

-----------------------------------------------------------------------------
(* A request that is registered, and what is written of it.                *)

LEMMA TableNotAhead == OncePlaced => \A c \in Ids : Has(reqs, c) => ~Ahead(c) /\ answers[c] = <<>>
BY DEF OncePlaced, InOnePlace, Nowhere, Ahead

LEMMA FlowRegisters ==
  ASSUME TypeOK, LinkInv, OncePlaced, FlowInv, [Next]_vars, NEW x \in Ids, Ahead(x),
         reqs' = Append(reqs, x), UNCHANGED <<key, answers>>,
         \/ state = "closed" /\ Flow' = <<>> /\ Waits(x)'
         \/ state # "closed" /\ Flow' = Append(Flow, x),
         \A y \in Ids : Waits(y) => Waits(y)'
  PROVE  FlowInv'
<1>1. reqs \in Seq(Ids) /\ Flow \in Seq(Ids)
  BY FlowType DEF TypeOK
<1>2. ~Has(Flow, x) /\ ~Has(reqs, x)
  BY SentIsMade
<1>3. \A k : Untimed(k)' <=> Untimed(k)
  BY DEF Untimed
<1>4. \A y \in Ids : (Untimed(key[y])' <=> Untimed(key[y]))
  BY <1>3
<1>5. \A y : Has(reqs', y) <=> Has(reqs, y) \/ x = y
  BY <1>1, InAppend
<1>6. ~Ahead(x)'
  <2>1. OncePlaced'
    BY PlaceStep
  <2>2. \A c \in Ids : Has(reqs', c) => ~Ahead(c)'
    <3>1. (\A c \in Ids : Has(reqs, c) => ~Ahead(c) /\ answers[c] = <<>>)'
      BY <2>1, TableNotAhead, PTL
    <3>2. QED
      BY <3>1
  <2>3. QED
    BY <2>2, <1>5
<1>7. \A y \in Ids : ~Ahead(y) => ~Ahead(y)'
  BY NotAheadAgain
<1>8. CASE state = "closed"
  <2>1. Flow = <<>> /\ Flow' = <<>> /\ Waits(x)'
    BY <1>8, ClosedFlow
  <2>2. ASSUME NEW y \in Ids PROVE Sent(y)'
    <3>1. Once(Flow', y) /\ ~Has(Flow', y) /\ ~Has(Flow, y)
      BY <2>1, HasNone
    <3>2. Has(reqs', y) /\ Untimed(key[y])' => Waits(y)'
      BY <1>4, <1>5, <2>1, <3>1 DEF FlowInv, Sent
    <3>3. QED
      BY <3>1, <3>2 DEF Sent
  <2>3. \A y, z : Before(Flow', y, z)
    BY <2>1, HasNone
  <2>4. InOrder'
    BY <2>3 DEF InOrder
  <2>5. QED
    BY <2>2, <2>4 DEF FlowInv
<1>9. CASE state # "closed"
  <2>1. Flow' = Append(Flow, x) /\ \A y : ~Waits(y)
    BY <1>9 DEF Waits
  <2>2. \A y : /\ Has(Flow', y) <=> Has(Flow, y) \/ x = y
               /\ Once(Flow', y) <=> Once(Flow, y) /\ (x = y => ~Has(Flow, y))
    <3> DEFINE q == Flow
    <3> HIDE DEF q
    <3>1. q \in Seq(Ids)
      BY <1>1 DEF q
    <3>2. \A y : /\ Has(Append(q, x), y) <=> Has(q, y) \/ x = y
                 /\ Once(Append(q, x), y) <=> Once(q, y) /\ (x = y => ~Has(q, y))
      BY <3>1, InAppend
    <3>3. QED
      BY <2>1, <3>2 DEF q
  <2>3. \A y, z : /\ z # x /\ Before(Flow, y, z) => Before(Flow', y, z)
                  /\ Has(Flow, y) => Before(Flow', y, x)
    <3> DEFINE q == Flow
    <3> HIDE DEF q
    <3>1. q \in Seq(Ids) /\ ~Has(q, x)
      BY <1>1, <1>2 DEF q
    <3>2. \A y, z : /\ z # x /\ Before(q, y, z) => Before(Append(q, x), y, z)
                    /\ Has(q, y) => Before(Append(q, x), y, x)
      BY <3>1, BeforeAppend
    <3>3. QED
      BY <2>1, <3>2 DEF q
  <2>4. ASSUME NEW y \in Ids PROVE Sent(y)'
    <3>1. Sent(y)
      BY DEF FlowInv
    <3>2. Once(Flow', y) /\ (Has(reqs', y) /\ Untimed(key[y])' => Has(Flow', y))
      BY <1>2, <1>4, <1>5, <2>1, <2>2, <3>1 DEF Sent
    <3>3. Has(Flow', y) => ~Ahead(y)' /\ (Untimed(key[y])' => Has(reqs', y))
      BY <1>4, <1>5, <1>6, <1>7, <2>2, <3>1 DEF Sent
    <3>4. QED
      BY <3>2, <3>3 DEF Sent
  <2>5. InOrder'
    <3>1. /\ DOMAIN reqs = 1 .. Len(reqs) /\ DOMAIN reqs' = 1 .. Len(reqs) + 1 /\ Len(reqs) \in Nat
          /\ reqs'[Len(reqs) + 1] = x
          /\ \A i \in 1 .. Len(reqs) : reqs'[i] = reqs[i] /\ reqs[i] \in Ids
      BY <1>1, AppendProperties, Elements
    <3> SUFFICES ASSUME NEW i \in DOMAIN reqs', NEW j \in DOMAIN reqs', i < j,
                        NEW y \in Ids, NEW z \in Ids, y = reqs'[i], z = reqs'[j], key'[y] = key'[z], Untimed(key[z])'
                 PROVE  Before(Flow', y, z)
      <4>1. \A i \in DOMAIN reqs' : reqs'[i] \in Ids
        BY <3>1
      <4>2. QED
        BY <4>1 DEF InOrder
    <3>2. key[y] = key[z] /\ Untimed(key[z])
      BY <1>4
    <3>3. i \in 1 .. Len(reqs) /\ reqs[i] = y
      BY <3>1
    <3>4. CASE j = Len(reqs) + 1
      <4>1. z = x /\ Has(reqs, y)
        BY <3>1, <3>3, <3>4 DEF Has
      <4>2. Has(Flow, y)
        BY <2>1, <3>2, <4>1 DEF FlowInv, Sent
      <4>3. QED
        BY <2>3, <4>1, <4>2
    <3>5. CASE j # Len(reqs) + 1
      <4>1. j \in 1 .. Len(reqs) /\ reqs[j] = z
        BY <3>1, <3>5
      <4>2. z # x
        BY <1>2, <3>1, <4>1 DEF Has
      <4>3. Before(Flow, y, z)
        BY <3>1, <3>2, <3>3, <4>1 DEF FlowInv, InOrder
      <4>4. QED
        BY <2>3, <4>2, <4>3
    <3>6. QED
      BY <3>4, <3>5
  <2>6. QED
    BY <2>4, <2>5 DEF FlowInv
<1>10. QED
  BY <1>8, <1>9

LEMMA RunSendFlow == ASSUME TypeOK, LinkInv, OncePlaced, FlowInv, RunSend PROVE FlowInv'
<1>0. [Next]_vars
  BY DEF Next, RunEvent
<1>1. /\ events # <<>> /\ write = "none" /\ Head(events).e = "send" /\ write' = "busy"
      /\ reqs' = Append(reqs, FrontCall)
      /\ UNCHANGED <<key, answers, events, waiter, state, toPeer, fromPeer>>
  <2>1. events # <<>> /\ write = "none" /\ Head(events).e = "send"
    BY FirstEvent DEF RunSend
  <2>2. QED
    BY <2>1 DEF RunSend, caller, sending, link
<1> PICK x : x = FrontCall
  OBVIOUS
<1>2. x \in Ids /\ FrontCall' = x
  BY <1>1, FrontNamed DEF LinkInv, FrontCall
<1>3. Ahead(x)
  <2>1. Has(Behind, x)
    <3>1. Runs("send") /\ events' = events /\ write' # "none"
      BY <1>1 DEF RunSend
    <3>2. Has(Behind, x) <=> FrontCall = x \/ Has(Behind', x)
      BY <3>1, BehindPop
    <3>3. QED
      BY <3>2
  <2>2. QED
    BY <2>1 DEF Ahead
<1>4. CASE state = "closed"
  <2>1. toPeer' = <<>> /\ fromPeer' = <<>> /\ state' = "closed"
    BY <1>1, <1>4 DEF LinkInv
  <2>2. Flow' = <<>>
    BY <2>1, ConcatEmptySeq DEF Flow, Rest
  <2>3. Waits(x)' /\ \A y \in Ids : Waits(y) => Waits(y)'
    BY <1>1, <1>2, <2>1 DEF Waits, Queued
  <2>4. QED
    BY <1>0, <1>1, <1>2, <1>3, <1>4, <2>2, <2>3, FlowRegisters
<1>5. CASE state # "closed"
  <2>1. Flow = fromPeer \o toPeer /\ Flow' = fromPeer \o Append(toPeer, x)
    BY <1>1, <1>2, <1>5 DEF Flow, Rest
  <2>2. fromPeer \o Append(toPeer, x) = Append(fromPeer \o toPeer, x)
    <3>1. fromPeer \in Seq(Ids) /\ toPeer \in Seq(Ids)
      BY DEF TypeOK
    <3>2. QED
      BY <1>2, <3>1, ConcatAppend
  <2>3. \A y \in Ids : ~Waits(y)
    BY <1>5 DEF Waits
  <2>4. Flow' = Append(Flow, x)
    BY <2>1, <2>2
  <2>5. QED
    BY <1>0, <1>1, <1>2, <1>3, <1>5, <2>3, <2>4, FlowRegisters
<1>6. QED
  BY <1>4, <1>5

\* What the sender does when it is woken: it registers the first call, leaves
\* it all to the queue, or fails what a closed connection left in the table.
LEMMA HandleWakeFlow == ASSUME TypeOK, LinkInv, OncePlaced, FlowInv, HandleWake PROVE FlowInv'
<1>0. [Next]_vars
  BY DEF Next
<1>1. /\ events' = events \o Sends
      /\ UNCHANGED <<key, state, toPeer, fromPeer, stopFlag>>
      /\ write' = IF Direct = <<>> THEN write ELSE "busy"
  BY WakeDoes
<1>2. events \in Seq(Works) /\ Sends \in Seq(Works)
  BY SendsType DEF LinkInv
<1>3. CASE stopFlag
  <2>1. state' = "closed" /\ toPeer' = <<>> /\ fromPeer' = <<>> /\ reqs' = <<>>
    BY <1>1, <1>3, WakeDoes DEF LinkInv
  <2>2. Flow' = <<>>
    BY <2>1, ConcatEmptySeq DEF Flow, Rest
  <2>3. \A x \in Ids : Sent(x)'
    BY <2>1, <2>2, HasNone DEF Sent
  <2>4. \A y, x : Before(Flow', y, x)
    BY <2>2, HasNone
  <2>5. InOrder'
    BY <2>4 DEF InOrder
  <2>6. QED
    BY <2>3, <2>5 DEF FlowInv
<1>4. CASE ~stopFlag /\ Direct # <<>>
  <2>1. events = <<>> /\ pending # <<>> /\ Direct = <<pending[1]>>
    BY <1>4 DEF Direct
  <2>2. state # "closed" /\ write = "none"
    <3>1. ~Queued("stop")
      BY <2>1, HasNone DEF Queued, Kinds, Has
    <3>2. QED
      BY <1>4, <2>1, <3>1 DEF LinkInv
  <2> PICK x \in Ids : x = pending[1]
    BY <2>1, SendsType
  <2>3. FrontCall' = x
    <3>1. events' = Sends
      BY <1>1, <1>2, <2>1, ConcatEmptySeq
    <3>2. Head(Sends) = Event("send", x)
      BY <2>1, SendsType
    <3>3. QED
      BY <3>1, <3>2 DEF FrontCall, Event
  <2>4. Ahead(x)
    <3>1. 1 \in DOMAIN pending
      BY <2>1, Elements DEF TypeOK
    <3>2. QED
      BY <3>1 DEF Ahead, Has
  <2>5. reqs' = Append(reqs, x) /\ answers' = answers
    <3>1. reqs' = reqs \o <<x>> /\ answers' = answers
      BY <1>4, <2>1, WakeDoes
    <3>2. QED
      BY <3>1, AppendIsConcat DEF TypeOK
  <2>6. Flow' = Append(Flow, x)
    <3>1. Flow = fromPeer \o toPeer /\ Flow' = fromPeer \o Append(toPeer, x)
      BY <1>1, <1>4, <2>2, <2>3 DEF Flow, Rest
    <3>2. fromPeer \o Append(toPeer, x) = Append(fromPeer \o toPeer, x)
      <4>1. fromPeer \in Seq(Ids) /\ toPeer \in Seq(Ids)
        BY DEF TypeOK
      <4>2. QED
        BY <4>1, ConcatAppend
    <3>3. QED
      BY <3>1, <3>2
  <2>7. \A y \in Ids : ~Waits(y)
    BY <2>2 DEF Waits
  <2>8. QED
    BY <1>0, <1>1, <2>2, <2>4, <2>5, <2>6, <2>7, FlowRegisters
<1>5. CASE ~stopFlag /\ Direct = <<>>
  <2>1. reqs' = reqs /\ write' = write
    <3>1. reqs' = reqs \o <<>> /\ write' = write
      BY <1>1, <1>5, WakeDoes
    <3>2. QED
      BY <3>1, ConcatEmptySeq DEF TypeOK
  <2>2. write # "none" => FrontCall' = FrontCall
    <3>1. ASSUME events # <<>> PROVE Head(events \o Sends) = Head(events)
      <4> DEFINE r == Sends
      <4>1. r \in Seq(Works)
        BY <1>2
      <4> HIDE DEF r
      <4>2. Head(events \o r) = Head(events)
        BY <1>2, <3>1, <4>1, ConcatFront
      <4>3. QED
        BY <4>2 DEF r
    <3>2. QED
      BY <1>1, <3>1 DEF FrontCall, LinkInv
  <2>3. Flow' = Flow
    BY <1>1, <2>1, <2>2 DEF Flow, Rest
  <2>4. ASSUME NEW y \in Ids, Waits(y) PROVE Waits(y)'
    <3>1. state = "closed" /\ Queued("stop")
      BY <1>5, <2>4 DEF LinkInv, Waits
    <3>2. Queued("stop")'
      <4>1. Kinds(events') = Kinds(events) \o Kinds(Sends) /\ Kinds(events) \in Seq(KindsOf) /\ Kinds(Sends) \in Seq(KindsOf)
        <5>1. events \in Seq(Cells) /\ Sends \in Seq(Cells)
          BY <1>2, SendsType, CellTypes, SeqMonotonic
        <5>2. QED
          BY <1>1, <5>1, ColumnsConcat, Columns
      <4>2. QED
        BY <3>1, <4>1, InConcat DEF Queued
    <3>3. QED
      BY <1>1, <3>1, <3>2 DEF Waits
  <2>5. QED
    BY <1>0, <2>1, <2>3, <2>4, FlowStays
<1>6. QED
  BY <1>3, <1>4, <1>5

LEMMA FlowInvStep == TypeOK /\ LinkInv /\ OncePlaced /\ FlowInv /\ [Next]_vars => FlowInv'
<1> SUFFICES ASSUME TypeOK, LinkInv, OncePlaced, FlowInv, [Next]_vars PROVE FlowInv'
  OBVIOUS
<1>1. CASE UNCHANGED vars \/ \E c \in Ids : CallTests(c) \/ CallPushes(c) \/ WaitEnds(c) \/ TimerExpires(c)
  BY <1>1, QuietFlow
<1>2. CASE Arrives \/ LoseConnection \/ \E c \in Ids : CallOnStrand(c)
  BY <1>2, PushFlow
<1>3. CASE RunFail \/ RunQueue \/ RunStop
  BY <1>3, PopFlow
<1>4. CASE \E c \in Ids : HandleTimer(c)
  BY <1>4, HandleTimerFlow
<1>5. CASE RunSend \/ RunDisconnect \/ HandleWake \/ HandleSent \/ HandleRecv
  BY <1>5, RunSendFlow, RunDisconnectFlow, HandleWakeFlow, HandleSentFlow, HandleRecvFlow
<1>6. CASE Transmit \/ Reconnect \/ Respond
  BY <1>6, TransmitFlow, ReconnectFlow, RespondFlow
<1>7. QED
  BY <1>1, <1>2, <1>3, <1>4, <1>5, <1>6 DEF Next, RunEvent

-----------------------------------------------------------------------------
(* Whose response an answer is.                                            *)

Owns(c) ==
  \A i \in DOMAIN answers[c] :
    LET d == answers[c][i].from
    IN answers[c][i].o = "ok" =>
         /\ d \in Ids /\ call[d] # "new"
         /\ d # c => key[d] = key[c] /\ ~Untimed(key[c])

\* A call that has an answer was made; its id and what was told of it stay.
LEMMA OwnsStays ==
  ASSUME TypeOK, LinkInv, OncePlaced, [Next]_vars, NEW c \in Ids, Owns(c), answers'[c] = answers[c]
  PROVE  Owns(c)'
<1> SUFFICES ASSUME NEW i \in DOMAIN answers'[c], answers'[c][i].o = "ok", NEW d, d = answers'[c][i].from
             PROVE  /\ d \in Ids /\ call'[d] # "new"
                    /\ d # c => key'[d] = key'[c] /\ ~Untimed(key[c])'
  BY DEF Owns
<1>1. /\ i \in DOMAIN answers[c] /\ answers[c][i].o = "ok" /\ answers[c][i].from = d
  OBVIOUS
<1>2. d \in Ids /\ call[d] # "new" /\ (d # c => key[d] = key[c] /\ ~Untimed(key[c]))
  BY <1>1 DEF Owns
<1>3. call[c] # "new"
  <2>1. answers[c] # <<>>
    BY <1>1
  <2>2. QED
    BY <2>1 DEF OncePlaced, InOnePlace, Nowhere
<1>4. key'[c] = key[c] /\ key'[d] = key[d] /\ call'[d] # "new"
  BY <1>2, <1>3, CallGoesOn
<1>5. ~Untimed(key[c]) => ~Untimed(key[c])'
  BY <1>3, UntimedBefore
<1>6. QED
  BY <1>2, <1>4, <1>5

\* An answer is the first one.
LEMMA FirstAnswer ==
  ASSUME TypeOK, LinkInv, OncePlaced, [Next]_vars, NEW c \in Ids, NEW a, answers'[c] = Append(answers[c], a)
  PROVE  answers'[c] = <<a>>
<1>1. CASE answers[c] = <<>>
  BY <1>1
<1>2. CASE answers[c] # <<>>
  <2>1. answers'[c] = answers[c]
    BY <1>2, AnswersKept
  <2>2. answers[c] \in Seq(Replies)
    BY DEF TypeOK, Replies
  <2>3. Len(Append(answers[c], a)) = Len(answers[c]) + 1 /\ Len(answers[c]) \in Nat
    BY <2>2
  <2>4. QED
    BY <2>1, <2>3
<1>3. QED
  BY <1>1, <1>2

LEMMA AnsweredStep == TypeOK /\ LinkInv /\ OncePlaced /\ FlowInv /\ Answered /\ [Next]_vars => Answered'
<1> SUFFICES ASSUME TypeOK, LinkInv, OncePlaced, FlowInv, Answered, [Next]_vars, NEW c \in Ids
             PROVE  Owns(c)'
  BY DEF Answered, Owns
<1>1. Owns(c)
  BY DEF Answered, Owns
<1>2. CASE answers'[c] = answers[c]
  BY <1>1, <1>2, OwnsStays
<1>3. ASSUME NEW o \in Outcomes, answers'[c] = Append(answers[c], Answer(o, 0)), o # "ok"
      PROVE  Owns(c)'
  <2>1. answers'[c] = <<Answer(o, 0)>>
    BY <1>3, FirstAnswer
  <2>2. \A i \in DOMAIN answers'[c] : answers'[c][i].o # "ok"
    BY <1>3, <2>1 DEF Answer
  <2>3. QED
    BY <2>2 DEF Owns
<1>4. CASE HandleRecv /\ answers'[c] # answers[c]
  <2> PICK x \in Ids : x = Head(fromPeer)
    BY <1>4, HeadTailProperties DEF HandleRecv, TypeOK
  <2> PICK k : k = key[x]
    OBVIOUS
  <2>1. fromPeer # <<>> /\ key' = key
    BY <1>4 DEF HandleRecv, caller
  <2>2. Entries(k) # {} /\ Complete(k, Answer("ok", x), timer)
    BY <1>4 DEF HandleRecv, table
  <2> PICK i \in DOMAIN reqs : i = Found(k) /\ reqs[i] \in Ids /\ key[reqs[i]] = k /\ \A j \in DOMAIN reqs : key[reqs[j]] = k => i <= j
    BY <2>2, FoundFirst
  <2>3. reqs[i] = c /\ answers'[c] = Append(answers[c], Answer("ok", x))
    BY <1>4, <2>2 DEF Complete, TypeOK
  <2>4. answers'[c] = <<Answer("ok", x)>>
    BY <2>3, FirstAnswer
  <2>5. call[x] # "new" /\ call'[x] # "new"
    <3>1. /\ Flow \in Seq(Ids) /\ Flow # <<>> /\ Head(Flow) = x
      BY <2>1, FlowFront
    <3>2. Has(Flow, x)
      <4> DEFINE q == Flow
      <4>1. q \in Seq(Ids) /\ q # <<>> /\ Head(q) = x
        BY <3>1
      <4> HIDE DEF q
      <4>2. Has(q, x)
        BY <4>1, InTail
      <4>3. QED
        BY <4>2 DEF q
    <3>3. QED
      BY <3>2, SentIsMade, CallGoesOn
  <2>6. x # c => ~Untimed(k)
    BY <2>1, <2>3, FindsItself
  <2>7. x # c => ~Untimed(key[c])'
    <3>1. key'[x] = k /\ (Untimed(key[x])' => Untimed(key[x]))
      BY <2>1, <2>5, UntimedBefore
    <3>2. key'[c] = k
      BY <2>1, <2>3
    <3>3. QED
      BY <2>6, <3>1, <3>2
  <2>8. key'[x] = k /\ key'[c] = k
    BY <2>1, <2>3
  <2>9. \A j \in DOMAIN answers'[c] : answers'[c][j].from = x
    BY <2>4 DEF Answer
  <2>10. QED
    BY <2>5, <2>7, <2>8, <2>9 DEF Owns
<1>5. QED
  BY <1>2, <1>3, <1>4, AnswersStep

-----------------------------------------------------------------------------
(* The theorems.                                                           *)

IInv == TypeOK /\ LinkInv /\ OncePlaced /\ FlowInv /\ Answered

LEMMA InitIInv == Init => IInv
<1> SUFFICES ASSUME Init PROVE IInv
  OBVIOUS
<1>1. TypeOK
  <2>1. 0 \in 0 .. MaxConnects
    BY BoundsAssumption
  <2>2. \A S : <<>> \in Seq(S)
    OBVIOUS
  <2>3. TableTypes /\ CallerTypes /\ FlowTypes
    BY <2>1, <2>2 DEF Init, TableTypes, CallerTypes, FlowTypes, Replies, Timers
  <2>4. /\ posted \in Seq([e : {"fail", "queue", "wake"}, c : Ids \cup {0}])
        /\ events \in Seq([e : {"fail", "queue", "send", "disconnect", "stop"}, c : Ids \cup {0}])
    BY <2>2 DEF Init
  <2>5. QED
    BY <2>3, <2>4 DEF TypeOK, TableTypes, CallerTypes, FlowTypes, Replies, Timers
<1>2. \A e : ~Queued(e)
  BY HasNone DEF Init, Queued, Kinds, Has
<1>3. \A e : Once(Kinds(events), e)
  BY DEF Init, Kinds, Once
<1>4. LinkInv
  BY <1>2, <1>3 DEF Init, LinkInv
<1>5. Line = <<>> /\ Behind = <<>>
  <2>1. Calls(<<>>) = <<>>
    <3>1. <<>> \in Seq(Cells)
      OBVIOUS
    <3>2. Calls(<<>>) \in Seq(Names) /\ Len(Calls(<<>>)) = Len(<<>>)
      BY <3>1, Columns
    <3>3. QED
      BY <3>2, EmptySeq
  <2>2. QED
    BY <2>1 DEF Init, Line, Behind
<1>6. OncePlaced
  BY <1>5, HasNone DEF Init, OncePlaced, InOnePlace, Nowhere
<1>7. Flow = <<>>
  BY ConcatEmptySeq DEF Init, Flow, Rest
<1>8. FlowInv
  BY <1>7, HasNone DEF Init, FlowInv, Sent, InOrder
<1>9. Answered
  BY DEF Init, Answered
<1>10. QED
  BY <1>1, <1>4, <1>6, <1>8, <1>9 DEF IInv

LEMMA Inductive == Spec => []IInv
<1>1. IInv /\ [Next]_vars => IInv'
  BY TypeStep, LinkStep, PlaceStep, FlowInvStep, AnsweredStep DEF IInv
<1>2. QED
  BY <1>1, InitIInv, PTL DEF Spec

\* Every variable keeps the type the code gives it, whatever is called, timed
\* out, answered, disconnected and connected again.
THEOREM TypeCorrect == Spec => []TypeOK
<1>1. IInv => TypeOK
  BY DEF IInv
<1>2. QED
  BY <1>1, Inductive, PTL

\* However response, timer, failed write and end of the connection race for the
\* entry of a call, its callback is called at most once (rdc_call_cp.hpp,
\* rdc_invoker.hpp).
THEOREM AnsweredOnceHolds == Spec => []AnsweredOnce
<1>1. IInv => AnsweredOnce
  BY DEF IInv, OncePlaced, InOnePlace, AnsweredOnce
<1>2. QED
  BY <1>1, Inductive, PTL

\* A call gets the response to another one of its id only after some other call
\* of that id was told that it timed out: until then find, which takes the
\* first entry of the id, and the order of the connection agree.
THEOREM OwnResponseHolds == Spec => []OwnResponse
<1>1. IInv => OwnResponse
  <2> SUFFICES ASSUME IInv, NEW c \in Ids, NEW i \in DOMAIN answers[c], NEW d, d = answers[c][i].from,
                      answers[c][i].o = "ok", d # c
               PROVE  /\ key[d] = key[c]
                      /\ \E b \in Ids \ {c} : /\ key[b] = key[c]
                                              /\ answers[b] # <<>> /\ answers[b][1].o = "timed_out"
    BY DEF OwnResponse
  <2>1. key[d] = key[c] /\ ~Untimed(key[c])
    BY DEF IInv, Answered
  <2>2. PICK b \in Ids : key[b] = key[c] /\ answers[b] # <<>> /\ answers[b][1].o = "timed_out"
    BY <2>1 DEF Untimed
  <2>3. i = 1
    <3>1. answers[c] \in Seq(Replies) /\ Len(answers[c]) <= 1
      BY DEF IInv, TypeOK, Replies, OncePlaced, InOnePlace
    <3>2. DOMAIN answers[c] = 1 .. Len(answers[c]) /\ Len(answers[c]) \in Nat
      BY <3>1, Elements
    <3>3. QED
      BY <3>1, <3>2
  <2>4. b # c
    BY <2>2, <2>3
  <2>5. QED
    BY <2>1, <2>2, <2>4
<1>2. QED
  BY <1>1, Inductive, PTL
=============================================================================
