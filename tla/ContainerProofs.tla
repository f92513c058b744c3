--------------------------- MODULE ContainerProofs ---------------------------
(***************************************************************************)
(* The vectors and the strings, for any sizes, capacities and widths and   *)
(* an allocator that may answer anything it promises.                      *)
(***************************************************************************)
EXTENDS StructureProofs

-----------------------------------------------------------------------------
(* The elements of a vector are the first of its buffer: what a call does  *)
(* to the buffer it does to the sequence.                                  *)

First(b, n) == [i \in 1 .. n |-> b[i - 1]]
Buffers(n) == [0 .. n - 1 -> Vals \cup {Junk}]
Filled(S, b, n) == \A k \in 0 .. n - 1 : b[k] \in S

Splice(q, at, t) == SubSeq(q, 1, at) \o t \o SubSeq(q, at + 1, Len(q))
Drop(q, at) == SubSeq(q, 1, at) \o SubSeq(q, at + 2, Len(q))

LEMMA FirstFacts ==
  ASSUME NEW S, NEW n \in Nat, NEW b, Filled(S, b, n)
  PROVE  /\ First(b, n) \in Seq(S) /\ Len(First(b, n)) = n
         /\ \A i \in 1 .. n : First(b, n)[i] = b[i - 1]
<1>1. First(b, n) \in [1 .. n -> S]
  BY DEF First, Filled
<1>2. First(b, n) \in Seq(S)
  BY <1>1, SeqDef
<1>3. QED
  BY <1>1, <1>2, LenProperties DEF First

LEMMA FirstIs ==
  ASSUME NEW S, NEW n \in Nat, NEW b, Filled(S, b, n), NEW q \in Seq(S), Len(q) = n,
         \A i \in 1 .. n : q[i] = b[i - 1]
  PROVE  First(b, n) = q
<1>1. First(b, n) \in Seq(S) /\ Len(First(b, n)) = n /\ \A i \in 1 .. n : First(b, n)[i] = b[i - 1]
  BY FirstFacts
<1>2. QED
  BY <1>1, SeqEqual

IsSplice(S, q, at, t) ==
  /\ Splice(q, at, t) \in Seq(S) /\ Len(Splice(q, at, t)) = Len(q) + Len(t)
  /\ \A i \in 1 .. Len(q) + Len(t) :
       Splice(q, at, t)[i] = IF i <= at THEN q[i]
                             ELSE IF i <= at + Len(t) THEN t[i - at] ELSE q[i - Len(t)]

LEMMA SpliceOf ==
  ASSUME NEW S, NEW q \in Seq(S), NEW at \in 0 .. Len(q), NEW t \in Seq(S)
  PROVE  IsSplice(S, q, at, t)
<1> DEFINE n == Len(q)
           m == Len(t)
           x == SubSeq(q, 1, at)
           z == SubSeq(q, at + 1, n)
<1>1. n \in Nat /\ m \in Nat /\ at \in Nat /\ at <= n /\ \A i \in 1 .. n : q[i] \in S
  BY LenProperties
<1>2. x \in Seq(S) /\ Len(x) = at /\ \A i \in 1 .. at : x[i] = q[i]
  BY <1>1, SubSeqProperties
<1>3. z \in Seq(S) /\ Len(z) = n - at /\ \A i \in 1 .. n - at : z[i] = q[at + i]
  <2>1. \A i \in at + 1 .. n : q[i] \in S
    BY <1>1
  <2>2. /\ z \in Seq(S) /\ Len(z) = IF at + 1 <= n THEN n - (at + 1) + 1 ELSE 0
        /\ \A i \in 1 .. n - (at + 1) + 1 : z[i] = q[(at + 1) + i - 1]
    BY <1>1, <2>1, SubSeqProperties
  <2>3. QED
    BY <1>1, <2>2
<1> HIDE DEF n, m, x, z
<1>4. /\ x \o t \in Seq(S) /\ Len(x \o t) = at + m
      /\ \A i \in 1 .. at + m : (x \o t)[i] = IF i <= at THEN x[i] ELSE t[i - at]
  BY <1>2, ConcatProperties DEF m
<1> DEFINE y == x \o t
<1> HIDE DEF y
<1>5. /\ y \in Seq(S) /\ Len(y) = at + m
      /\ \A i \in 1 .. at + m : y[i] = IF i <= at THEN x[i] ELSE t[i - at]
  BY <1>4 DEF y
<1>6. /\ y \o z \in Seq(S) /\ Len(y \o z) = Len(y) + Len(z)
      /\ \A i \in 1 .. Len(y) + Len(z) : (y \o z)[i] = IF i <= Len(y) THEN y[i] ELSE z[i - Len(y)]
  BY <1>3, <1>5, ConcatProperties
<1>7. Splice(q, at, t) = y \o z
  BY DEF Splice, x, y, z, n
<1>8. Len(y) + Len(z) = n + m
  BY <1>1, <1>3, <1>5
<1>9. ASSUME NEW i \in 1 .. n + m
      PROVE  (y \o z)[i] = IF i <= at THEN q[i] ELSE IF i <= at + m THEN t[i - at] ELSE q[i - m]
  <2>1. (y \o z)[i] = IF i <= at + m THEN y[i] ELSE z[i - (at + m)]
    BY <1>5, <1>6, <1>8
  <2>2. CASE i <= at
    <3>1. i \in 1 .. at /\ i \in 1 .. at + m /\ i <= at + m
      BY <1>1, <2>2
    <3>2. QED
      BY <1>2, <1>5, <2>1, <2>2, <3>1
  <2>3. CASE at < i /\ i <= at + m
    <3>1. i \in 1 .. at + m /\ ~(i <= at)
      BY <1>1, <2>3
    <3>2. QED
      BY <1>5, <2>1, <2>3, <3>1
  <2>4. CASE at + m < i
    <3>1. i - (at + m) \in 1 .. n - at /\ at + (i - (at + m)) = i - m /\ ~(i <= at + m) /\ ~(i <= at)
      BY <1>1, <2>4
    <3>2. QED
      BY <1>3, <2>1, <3>1
  <2>5. i <= at \/ (at < i /\ i <= at + m) \/ at + m < i
    BY <1>1
  <2>6. QED
    BY <2>2, <2>3, <2>4, <2>5
<1>10. QED
  BY <1>6, <1>7, <1>8, <1>9 DEF IsSplice, n, m

LEMMA SpliceFacts ==
  ASSUME NEW q \in Seq(Vals), NEW at \in 0 .. Len(q), NEW t \in Seq(Vals)
  PROVE  /\ Splice(q, at, t) \in Seq(Vals) /\ Len(Splice(q, at, t)) = Len(q) + Len(t)
         /\ \A i \in 1 .. Len(q) + Len(t) :
              Splice(q, at, t)[i] = IF i <= at THEN q[i]
                                    ELSE IF i <= at + Len(t) THEN t[i - at] ELSE q[i - Len(t)]
BY SpliceOf DEF IsSplice

LEMMA SpliceLength ==
  \A q, t \in Seq(Vals) : \A at \in 0 .. Len(q) : Len(Splice(q, at, t)) = Len(q) + Len(t)
BY SpliceFacts

LEMMA DropFacts ==
  ASSUME NEW q \in Seq(Vals), NEW at \in 0 .. Len(q) - 1
  PROVE  /\ Drop(q, at) \in Seq(Vals) /\ Len(Drop(q, at)) = Len(q) - 1
         /\ \A i \in 1 .. Len(q) - 1 : Drop(q, at)[i] = IF i <= at THEN q[i] ELSE q[i + 1]
<1> DEFINE n == Len(q)
           x == SubSeq(q, 1, at)
           z == SubSeq(q, at + 2, n)
<1>1. n \in Nat /\ at \in Nat /\ at < n /\ \A i \in 1 .. n : q[i] \in Vals
  BY LenProperties
<1>2. x \in Seq(Vals) /\ Len(x) = at /\ \A i \in 1 .. at : x[i] = q[i]
  BY <1>1, SubSeqProperties
<1>3. z \in Seq(Vals) /\ Len(z) = n - at - 1 /\ \A i \in 1 .. n - at - 1 : z[i] = q[at + i + 1]
  <2>1. \A i \in at + 2 .. n : q[i] \in Vals
    BY <1>1
  <2>2. /\ z \in Seq(Vals) /\ Len(z) = IF at + 2 <= n THEN n - (at + 2) + 1 ELSE 0
        /\ \A i \in 1 .. n - (at + 2) + 1 : z[i] = q[(at + 2) + i - 1]
    BY <1>1, <2>1, SubSeqProperties
  <2>3. QED
    BY <1>1, <2>2
<1> HIDE DEF n, x, z
<1>4. /\ x \o z \in Seq(Vals) /\ Len(x \o z) = Len(x) + Len(z)
      /\ \A i \in 1 .. Len(x) + Len(z) : (x \o z)[i] = IF i <= Len(x) THEN x[i] ELSE z[i - Len(x)]
  BY <1>2, <1>3, ConcatProperties
<1>5. Drop(q, at) = x \o z /\ Len(x) + Len(z) = n - 1
  <2>1. Drop(q, at) = x \o z
    BY DEF Drop, x, z, n
  <2>2. Len(x) + Len(z) = n - 1
    BY <1>1, <1>2, <1>3
  <2>3. QED
    BY <2>1, <2>2
<1>6. ASSUME NEW i \in 1 .. n - 1
      PROVE  (x \o z)[i] = IF i <= at THEN q[i] ELSE q[i + 1]
  <2>1. (x \o z)[i] = IF i <= at THEN x[i] ELSE z[i - at]
    BY <1>2, <1>4, <1>5
  <2>2. CASE i <= at
    <3>1. i \in 1 .. at
      BY <1>1, <2>2
    <3>2. QED
      BY <1>2, <2>1, <2>2, <3>1
  <2>3. CASE at < i
    <3>1. i - at \in 1 .. n - at - 1 /\ at + (i - at) + 1 = i + 1 /\ ~(i <= at)
      BY <1>1, <2>3
    <3>2. QED
      BY <1>3, <2>1, <3>1
  <2>4. i <= at \/ at < i
    BY <1>1
  <2>5. QED
    BY <2>2, <2>3, <2>4
<1>7. QED
  BY <1>4, <1>5, <1>6 DEF n

(* The elements from at on make way for t. *)
Spread(b, n, at, t) ==
  [i \in DOMAIN b |-> IF i < at \/ i >= n + Len(t) THEN b[i]
                      ELSE IF i < at + Len(t) THEN t[i - at + 1] ELSE b[i - Len(t)]]

LEMMA SpreadFacts ==
  ASSUME NEW cap \in Nat, NEW n \in Nat, NEW b \in Buffers(cap), Filled(Vals, b, n),
         NEW at \in 0 .. n, NEW t \in Seq(Vals), n + Len(t) <= cap
  PROVE  /\ Spread(b, n, at, t) \in Buffers(cap)
         /\ Filled(Vals, Spread(b, n, at, t), n + Len(t))
         /\ First(Spread(b, n, at, t), n + Len(t)) = Splice(First(b, n), at, t)
<1> DEFINE m == Len(t)
           c == Spread(b, n, at, t)
           q == First(b, n)
<1>1. m \in Nat /\ n + m <= cap /\ \A k \in 1 .. m : t[k] \in Vals
  BY LenProperties
<1>2. b \in [0 .. cap - 1 -> Vals \cup {Junk}] /\ \A k \in 0 .. n - 1 : b[k] \in Vals
  BY DEF Buffers, Filled
<1> HIDE DEF m
<1>3. c = [i \in 0 .. cap - 1 |-> IF i < at \/ i >= n + m THEN b[i]
                                  ELSE IF i < at + m THEN t[i - at + 1] ELSE b[i - m]]
  BY <1>2 DEF Spread, m
<1> HIDE DEF c
<1>4. ASSUME NEW k \in 0 .. n + m - 1 PROVE c[k] \in Vals
  <2>1. k \in 0 .. cap - 1
    BY <1>1
  <2>2. CASE k < at
    BY <1>2, <1>3, <2>1, <2>2
  <2>3. CASE at <= k /\ k < at + m
    <3>1. k - at + 1 \in 1 .. m
      BY <1>1, <2>3
    <3>2. QED
      BY <1>1, <1>3, <2>1, <2>3, <3>1
  <2>4. CASE at + m <= k
    <3>1. k - m \in 0 .. n - 1
      BY <1>1, <2>4
    <3>2. QED
      BY <1>1, <1>2, <1>3, <2>1, <2>4, <3>1
  <2>5. QED
    BY <1>1, <2>2, <2>3, <2>4
<1>5. ASSUME NEW k \in 0 .. cap - 1 PROVE c[k] \in Vals \cup {Junk}
  <2>1. CASE k < n + m
    BY <1>1, <1>4, <2>1
  <2>2. CASE k >= n + m
    BY <1>2, <1>3, <2>2
  <2>3. QED
    BY <1>1, <2>1, <2>2
<1>6. c \in Buffers(cap) /\ Filled(Vals, c, n + m)
  <2>1. c \in [0 .. cap - 1 -> Vals \cup {Junk}]
    BY <1>3, <1>5
  <2>2. c \in Buffers(cap)
    BY <2>1 DEF Buffers
  <2>3. Filled(Vals, c, n + m)
    BY <1>1, <1>4 DEF Filled
  <2>4. QED
    BY <2>2, <2>3
<1>7. q \in Seq(Vals) /\ Len(q) = n /\ \A i \in 1 .. n : q[i] = b[i - 1]
  BY FirstFacts
<1> HIDE DEF q
<1>8. /\ Splice(q, at, t) \in Seq(Vals) /\ Len(Splice(q, at, t)) = n + m
      /\ \A i \in 1 .. n + m :
           Splice(q, at, t)[i] = IF i <= at THEN q[i] ELSE IF i <= at + m THEN t[i - at] ELSE q[i - m]
  BY <1>7, SpliceFacts DEF m
<1>9. ASSUME NEW i \in 1 .. n + m PROVE Splice(q, at, t)[i] = c[i - 1]
  <2>1. i - 1 \in 0 .. cap - 1 /\ i - 1 \in 0 .. n + m - 1 /\ ~(i - 1 >= n + m)
    BY <1>1
  <2>2. c[i - 1] = IF i - 1 < at THEN b[i - 1]
                   ELSE IF i - 1 < at + m THEN t[(i - 1) - at + 1] ELSE b[(i - 1) - m]
    BY <1>3, <2>1
  <2>3. CASE i <= at
    <3>1. i \in 1 .. n /\ i - 1 < at
      BY <2>3
    <3>2. QED
      BY <1>7, <1>8, <2>2, <2>3, <3>1
  <2>4. CASE at < i /\ i <= at + m
    <3>1. ~(i - 1 < at) /\ i - 1 < at + m /\ (i - 1) - at + 1 = i - at /\ ~(i <= at)
      BY <1>1, <2>4
    <3>2. QED
      BY <1>8, <2>2, <2>4, <3>1
  <2>5. CASE at + m < i
    <3>1. /\ ~(i - 1 < at) /\ ~(i - 1 < at + m) /\ (i - 1) - m = (i - m) - 1
          /\ i - m \in 1 .. n /\ ~(i <= at) /\ ~(i <= at + m)
      BY <1>1, <2>5
    <3>2. QED
      BY <1>7, <1>8, <2>2, <3>1
  <2>6. i <= at \/ (at < i /\ i <= at + m) \/ at + m < i
    BY <1>1
  <2>7. QED
    BY <2>3, <2>4, <2>5, <2>6
<1>10. First(c, n + m) = Splice(q, at, t)
  <2> DEFINE e == n + m
             r == Splice(q, at, t)
  <2>1. e \in Nat /\ Filled(Vals, c, e) /\ r \in Seq(Vals) /\ Len(r) = e
    BY <1>1, <1>6, <1>8
  <2>2. \A i \in 1 .. e : r[i] = c[i - 1]
    BY <1>9
  <2> HIDE DEF e, r
  <2>3. First(c, e) = r
    BY <2>1, <2>2, FirstIs
  <2>4. QED
    BY <2>3 DEF e, r
<1>11. QED
  BY <1>6, <1>10 DEF c, q, m

(* The elements after the one at at move up. *)
Removed(b, n, at) == [i \in DOMAIN b |-> IF i < at \/ i >= n - 1 THEN b[i] ELSE b[i + 1]]

LEMMA RemovedFacts ==
  ASSUME NEW cap \in Nat, NEW n \in 0 .. cap, NEW b \in Buffers(cap), Filled(Vals, b, n),
         NEW at \in 0 .. n - 1
  PROVE  /\ Removed(b, n, at) \in Buffers(cap)
         /\ Filled(Vals, Removed(b, n, at), n - 1)
         /\ First(Removed(b, n, at), n - 1) = Drop(First(b, n), at)
         /\ b[at] = First(b, n)[at + 1]
<1> DEFINE c == Removed(b, n, at)
           q == First(b, n)
<1>1. n \in Nat /\ n - 1 \in Nat /\ n <= cap /\ at + 1 \in 1 .. n
  OBVIOUS
<1>2. b \in [0 .. cap - 1 -> Vals \cup {Junk}] /\ \A k \in 0 .. n - 1 : b[k] \in Vals
  BY DEF Buffers, Filled
<1>3. c = [i \in 0 .. cap - 1 |-> IF i < at \/ i >= n - 1 THEN b[i] ELSE b[i + 1]]
  BY <1>2 DEF Removed
<1> HIDE DEF c
<1>4. ASSUME NEW k \in 0 .. n - 2 PROVE c[k] \in Vals
  <2>1. k \in 0 .. cap - 1 /\ k \in 0 .. n - 1 /\ k + 1 \in 0 .. n - 1
    BY <1>1
  <2>2. QED
    BY <1>2, <1>3, <2>1
<1>5. ASSUME NEW k \in 0 .. cap - 1 PROVE c[k] \in Vals \cup {Junk}
  <2>1. k >= n - 1 \/ k + 1 \in 0 .. cap - 1
    BY <1>1
  <2>2. QED
    BY <1>2, <1>3, <2>1
<1>6. c \in Buffers(cap) /\ Filled(Vals, c, n - 1)
  <2>1. 0 .. (n - 1) - 1 = 0 .. n - 2
    BY <1>1
  <2>2. QED
    BY <1>3, <1>4, <1>5, <2>1 DEF Buffers, Filled
<1>7. q \in Seq(Vals) /\ Len(q) = n /\ \A i \in 1 .. n : q[i] = b[i - 1]
  BY <1>1, FirstFacts
<1> HIDE DEF q
<1>8. /\ Drop(q, at) \in Seq(Vals) /\ Len(Drop(q, at)) = n - 1
      /\ \A i \in 1 .. n - 1 : Drop(q, at)[i] = IF i <= at THEN q[i] ELSE q[i + 1]
  BY <1>7, DropFacts
<1>9. ASSUME NEW i \in 1 .. n - 1 PROVE Drop(q, at)[i] = c[i - 1]
  <2>1. /\ i - 1 \in 0 .. cap - 1 /\ ~(i - 1 >= n - 1) /\ (i - 1) + 1 = (i + 1) - 1
        /\ i \in 1 .. n /\ i + 1 \in 1 .. n /\ (i - 1 < at <=> i <= at)
    BY <1>1
  <2>2. QED
    BY <1>3, <1>7, <1>8, <2>1
<1>10. First(c, n - 1) = Drop(q, at)
  <2> DEFINE e == n - 1
             r == Drop(q, at)
  <2>1. e \in Nat /\ Filled(Vals, c, e) /\ r \in Seq(Vals) /\ Len(r) = e
    BY <1>1, <1>6, <1>8
  <2>2. \A i \in 1 .. e : r[i] = c[i - 1]
    BY <1>9
  <2> HIDE DEF e, r
  <2>3. First(c, e) = r
    BY <2>1, <2>2, FirstIs
  <2>4. QED
    BY <2>3 DEF e, r
<1>11. b[at] = q[at + 1]
  <2>1. q[at + 1] = b[(at + 1) - 1] /\ (at + 1) - 1 = at
    BY <1>1, <1>7
  <2>2. QED
    BY <2>1
<1>12. QED
  BY <1>6, <1>10, <1>11 DEF c, q

(* The last element goes. *)
LEMMA PoppedFacts ==
  ASSUME NEW n \in Nat, n > 0, NEW b, Filled(Vals, b, n)
  PROVE  /\ Filled(Vals, b, n - 1)
         /\ First(b, n - 1) = Drop(First(b, n), n - 1)
         /\ First(b, n) # <<>> /\ First(b, n)[n] = b[n - 1]
<1>1. n - 1 \in Nat /\ n \in 1 .. n /\ Filled(Vals, b, n - 1)
  BY DEF Filled
<1> DEFINE q == First(b, n)
<1>2. q \in Seq(Vals) /\ Len(q) = n /\ \A i \in 1 .. n : q[i] = b[i - 1]
  BY FirstFacts
<1> HIDE DEF q
<1>3. /\ Drop(q, n - 1) \in Seq(Vals) /\ Len(Drop(q, n - 1)) = n - 1
      /\ \A i \in 1 .. n - 1 : Drop(q, n - 1)[i] = IF i <= n - 1 THEN q[i] ELSE q[i + 1]
  <2>1. n - 1 \in 0 .. Len(q) - 1
    BY <1>1, <1>2
  <2>2. QED
    BY <1>2, <2>1, DropFacts
<1>4. ASSUME NEW i \in 1 .. n - 1 PROVE Drop(q, n - 1)[i] = b[i - 1]
  <2>1. i <= n - 1 /\ i \in 1 .. n
    BY <1>1
  <2>2. QED
    BY <1>2, <1>3, <2>1
<1>5. First(b, n - 1) = Drop(q, n - 1)
  BY <1>1, <1>3, <1>4, FirstIs
<1>6. q # <<>> /\ q[n] = b[n - 1]
  BY <1>1, <1>2, EmptySeq
<1>7. QED
  BY <1>1, <1>5, <1>6 DEF q

(* One element is written over. *)
LEMMA SetFacts ==
  ASSUME NEW cap \in Nat, NEW n \in 0 .. cap, NEW b \in Buffers(cap), Filled(Vals, b, n),
         NEW at \in 0 .. n - 1, NEW x \in Vals
  PROVE  /\ [b EXCEPT ![at] = x] \in Buffers(cap)
         /\ Filled(Vals, [b EXCEPT ![at] = x], n)
         /\ First([b EXCEPT ![at] = x], n) = [First(b, n) EXCEPT ![at + 1] = x]
<1> DEFINE c == [b EXCEPT ![at] = x]
           q == First(b, n)
<1>1. n \in Nat /\ at \in 0 .. cap - 1 /\ at + 1 \in 1 .. n /\ 0 .. n - 1 \subseteq 0 .. cap - 1
  OBVIOUS
<1>2. b \in [0 .. cap - 1 -> Vals \cup {Junk}] /\ \A k \in 0 .. n - 1 : b[k] \in Vals
  BY DEF Buffers, Filled
<1>3. /\ c \in [0 .. cap - 1 -> Vals \cup {Junk}]
      /\ \A k \in 0 .. cap - 1 : c[k] = IF k = at THEN x ELSE b[k]
  BY <1>1, <1>2
<1>4. c \in Buffers(cap) /\ Filled(Vals, c, n)
  BY <1>1, <1>2, <1>3 DEF Buffers, Filled
<1> HIDE DEF c
<1>5. q \in Seq(Vals) /\ Len(q) = n /\ \A i \in 1 .. n : q[i] = b[i - 1]
  BY <1>1, FirstFacts
<1> HIDE DEF q
<1> DEFINE w == [q EXCEPT ![at + 1] = x]
<1>6. /\ w \in Seq(Vals) /\ Len(w) = n
      /\ \A i \in 1 .. n : w[i] = IF i = at + 1 THEN x ELSE q[i]
  BY <1>1, <1>5, ExceptSeq
<1> HIDE DEF w
<1>7. ASSUME NEW i \in 1 .. n PROVE w[i] = c[i - 1]
  <2>1. i - 1 \in 0 .. cap - 1 /\ (i = at + 1 <=> i - 1 = at)
    BY <1>1
  <2>2. QED
    BY <1>3, <1>5, <1>6, <2>1
<1>8. First(c, n) = w
  BY <1>1, <1>4, <1>6, <1>7, FirstIs
<1>9. QED
  BY <1>4, <1>8 DEF c, q, w

(* A part of a vector's own elements. *)
Part(b, from, m) == [k \in 1 .. m |-> b[from + k - 1]]

LEMMA PartFacts ==
  ASSUME NEW n \in Nat, NEW b, Filled(Vals, b, n), NEW from \in Nat, NEW m \in Nat, from + m <= n
  PROVE  /\ Part(b, from, m) = SubSeq(First(b, n), from + 1, from + m)
         /\ Part(b, from, m) \in Seq(Vals) /\ Len(Part(b, from, m)) = m
<1> DEFINE t == Part(b, from, m)
           q == First(b, n)
<1>1. \A k \in 1 .. m : from + k - 1 \in 0 .. n - 1 /\ from + k \in 1 .. n
  OBVIOUS
<1>2. \A k \in 1 .. m : t[k] = b[from + k - 1] /\ t[k] \in Vals
  BY <1>1 DEF Filled, Part
<1>3. t \in Seq(Vals) /\ Len(t) = m
  <2>1. t = [k \in 1 .. m |-> b[from + k - 1]]
    BY DEF Part
  <2>2. \A k \in 1 .. m : b[from + k - 1] \in Vals
    BY <1>1 DEF Filled
  <2>3. t \in [1 .. m -> Vals]
    BY <2>1, <2>2
  <2>4. t \in Seq(Vals)
    BY <2>3, SeqDef
  <2>5. DOMAIN t = 1 .. m /\ DOMAIN t = 1 .. Len(t) /\ Len(t) \in Nat
    BY <2>3, <2>4, LenProperties
  <2>6. QED
    BY <2>4, <2>5
<1>4. q \in Seq(Vals) /\ Len(q) = n /\ \A i \in 1 .. n : q[i] = b[i - 1]
  BY FirstFacts
<1> HIDE DEF t, q
<1> DEFINE u == SubSeq(q, from + 1, from + m)
<1>5. \A i \in from + 1 .. from + m : q[i] \in Vals
  BY <1>4, ElementOfSeq
<1>6. /\ u \in Seq(Vals) /\ Len(u) = IF from + 1 <= from + m THEN (from + m) - (from + 1) + 1 ELSE 0
      /\ \A i \in 1 .. (from + m) - (from + 1) + 1 : u[i] = q[(from + 1) + i - 1]
  BY <1>5, SubSeqProperties
<1> HIDE DEF u
<1>7. Len(u) = m /\ \A i \in 1 .. m : u[i] = q[from + i]
  BY <1>6
<1>8. \A i \in 1 .. m : u[i] = t[i]
  <2> SUFFICES ASSUME NEW i \in 1 .. m PROVE u[i] = t[i]
    OBVIOUS
  <2>1. u[i] = q[from + i] /\ from + i \in 1 .. n /\ t[i] = b[from + i - 1]
    BY <1>1, <1>2, <1>7
  <2>2. q[from + i] = b[(from + i) - 1]
    BY <1>4, <2>1
  <2>3. QED
    BY <2>1, <2>2
<1>9. t = u
  BY <1>3, <1>6, <1>7, <1>8, SeqEqual
<1>10. QED
  BY <1>3, <1>9 DEF t, u, q

-----------------------------------------------------------------------------
(* Vec. *)
AnyBuffer == UNION {Buffers(n) : n \in Nat}

LEMMA BufferIn == ASSUME NEW n \in Nat, NEW b \in Buffers(n) PROVE b \in AnyBuffer
BY DEF AnyBuffer

VecInv ==
  /\ fv \in [buf : AnyBuffer, cap : Nat, len : Nat]
  /\ fv.buf \in Buffers(fv.cap) /\ fv.len <= fv.cap /\ Filled(Vals, fv.buf, fv.len)

LEMMA VecItems ==
  ASSUME VecInv
  PROVE  /\ FV!items = First(fv.buf, fv.len) /\ FV!items \in Seq(Vals) /\ Len(FV!items) = fv.len
         /\ fv.cap \in Nat /\ fv.len \in Nat
<1>1. fv.cap \in Nat /\ fv.len \in Nat /\ Filled(Vals, fv.buf, fv.len)
  BY DEF VecInv
<1>2. FV!items = First(fv.buf, fv.len)
  BY DEF FV!items, First
<1>3. QED
  BY <1>1, <1>2, FirstFacts

LEMMA VecItemsNext ==
  ASSUME VecInv'
  PROVE  FV!items' = First(fv'.buf, fv'.len)
BY DEF FV!items, First

LEMMA VecOpened ==
  ASSUME NEW n \in Nat, fv' = FV!Opened(n)
  PROVE  VecInv' /\ FV!items' = <<>> /\ fv'.cap = n
<1>1. /\ fv'.buf = [i \in 0 .. n - 1 |-> Junk] /\ fv'.cap = n /\ fv'.len = 0
      /\ fv' = [buf |-> fv'.buf, cap |-> fv'.cap, len |-> fv'.len]
  BY DEF FV!Opened
<1>2. fv'.buf \in Buffers(n)
  BY <1>1 DEF Buffers
<1>3. Filled(Vals, fv'.buf, 0)
  BY DEF Filled
<1>4. VecInv'
  BY <1>1, <1>2, <1>3, BufferIn DEF VecInv
<1>5. FV!items' = <<>>
  BY <1>1, SeqDef DEF FV!items
<1>6. QED
  BY <1>1, <1>4, <1>5

(* What a call that keeps the capacity leaves. *)
LEMMA VecBecomes ==
  ASSUME VecInv, NEW b \in Buffers(fv.cap), NEW n \in 0 .. fv.cap, Filled(Vals, b, n),
         fv' = [fv EXCEPT !.len = n, !.buf = b]
  PROVE  VecInv' /\ FV!items' = First(b, n) /\ fv'.cap = fv.cap
<1>1. fv \in [buf : AnyBuffer, cap : Nat, len : Nat] /\ fv.cap \in Nat
  BY DEF VecInv
<1>2. b \in AnyBuffer /\ n \in Nat
  BY <1>1, BufferIn
<1>3. /\ fv' \in [buf : AnyBuffer, cap : Nat, len : Nat]
      /\ fv'.len = n /\ fv'.buf = b /\ fv'.cap = fv.cap
  BY <1>1, <1>2
<1>4. VecInv'
  BY <1>3 DEF VecInv
<1>5. QED
  BY <1>3, <1>4, VecItemsNext

(* What a call that adds t at at does, whether t is new or its own. *)
LEMMA VecPuts ==
  ASSUME VecInv, NEW t \in Seq(Vals), NEW at \in 0 .. fv.len, fv.len + Len(t) <= fv.cap,
         FV!Puts(at, t)
  PROVE  /\ VecInv' /\ FV!items' = Splice(FV!items, at, t) /\ fvRet' = "ok"
         /\ fv'.cap = fv.cap
<1> DEFINE b == Spread(fv.buf, fv.len, at, t)
           n == fv.len + Len(t)
<1>1. /\ fv.cap \in Nat /\ fv.len \in Nat /\ fv.buf \in Buffers(fv.cap) /\ Filled(Vals, fv.buf, fv.len)
      /\ Len(t) \in Nat /\ n \in 0 .. fv.cap
  BY LenProperties DEF VecInv
<1>2. fv' = [fv EXCEPT !.len = n, !.buf = b] /\ fvRet' = "ok"
  BY DEF FV!Puts, Spread
<1>3. b \in Buffers(fv.cap) /\ Filled(Vals, b, n) /\ First(b, n) = Splice(First(fv.buf, fv.len), at, t)
  BY <1>1, SpreadFacts
<1> HIDE DEF b, n
<1>4. VecInv' /\ FV!items' = First(b, n) /\ fv'.cap = fv.cap
  BY <1>1, <1>2, <1>3, VecBecomes
<1>5. QED
  BY <1>2, <1>3, <1>4, VecItems

LEMMA VecKeeps ==
  ASSUME VecInv, fv' = fv
  PROVE  VecInv' /\ FV!items' = FV!items /\ fv'.cap = fv.cap
BY DEF VecInv, FV!items

LEMMA VecReturns ==
  ASSUME VecInv, NEW answer, FV!Returns(answer)
  PROVE  VecInv' /\ FV!Abstract!Keeps(answer) /\ fv'.cap = fv.cap
<1>1. fv' = fv /\ fvRet' = answer
  BY DEF FV!Returns
<1>2. QED
  BY <1>1, VecKeeps DEF FV!Abstract!Keeps

(* Added if they fit, refused if not; by one without a buffer as such.     *)
LEMMA VecAdds ==
  ASSUME VecInv, NEW t \in Seq(Vals), NEW at \in 0 .. fv.len, NEW refusal,
         \/ fv.len + Len(t) <= fv.cap /\ FV!Puts(at, t)
         \/ fv.len + Len(t) > fv.cap /\ FV!Returns(refusal)
         \/ fv.cap = 0 /\ Len(t) > 0 /\ FV!Returns("none")
  PROVE  VecInv' /\ FV!Abstract!Adds(at, t, refusal) /\ fv'.cap = fv.cap
<1>1. /\ Len(FV!items) = fv.len /\ fv.len \in Nat /\ fv.cap \in Nat /\ Len(t) \in Nat
  BY VecItems, LenProperties
<1>2. CASE fv.len + Len(t) <= fv.cap /\ FV!Puts(at, t)
  <2>1. VecInv' /\ FV!items' = Splice(FV!items, at, t) /\ fvRet' = "ok" /\ fv'.cap = fv.cap
    BY <1>2, VecPuts
  <2>2. FV!items' = FV!Abstract!Spliced(at, t)
    BY <2>1 DEF Splice, FV!Abstract!Spliced
  <2>3. QED
    BY <1>1, <1>2, <2>1, <2>2 DEF FV!Abstract!Adds
<1>3. CASE fv.len + Len(t) > fv.cap /\ FV!Returns(refusal)
  BY <1>1, <1>3, VecReturns DEF FV!Abstract!Adds
<1>4. CASE fv.cap = 0 /\ Len(t) > 0 /\ FV!Returns("none")
  BY <1>1, <1>4, VecReturns DEF FV!Abstract!Adds
<1>5. QED
  BY <1>2, <1>3, <1>4

LEMMA VecOpens ==
  ASSUME NEW n \in Nat, FV!Open(n)
  PROVE  VecInv' /\ FV!Abstract!Open(<<>>, n) /\ fvRet' = "opened"
<1>1. fv' = FV!Opened(n) /\ fvRet' = "opened"
  BY DEF FV!Open
<1>2. VecInv' /\ FV!items' = <<>> /\ fv'.cap = n
  BY <1>1, VecOpened
<1>3. QED
  BY <1>1, <1>2 DEF FV!Abstract!Open

(* A sequence the caller gives, and how many it has. *)
LEMMA Given ==
  ASSUME NEW x \in Vals, NEW y \in Vals
  PROVE  /\ <<x>> \in Seq(Vals) /\ Len(<<x>>) = 1
         /\ <<x, y>> \in [1 .. 2 -> Vals] /\ <<x, y>> \in Seq(Vals) /\ Len(<<x, y>>) = 2
         /\ <<x, y, x>> \in [1 .. 3 -> Vals] /\ <<x, y, x>> \in Seq(Vals) /\ Len(<<x, y, x>>) = 3
OBVIOUS

LEMMA VecAppended ==
  ASSUME VecInv, NEW t \in Seq(Vals), Len(t) > 0, NEW refusal, FV!Appends(t, refusal)
  PROVE  /\ VecInv' /\ FV!Abstract!Adds(Len(FV!items), t, refusal)
         /\ fv'.cap = fv.cap
<1>1. /\ fv.len \in 0 .. fv.len /\ fv.len = Len(FV!items) /\ fv.len \in Nat
      /\ fv.cap \in Nat /\ Len(t) \in Nat
  BY VecItems, LenProperties
<1>2. \/ fv.len + Len(t) <= fv.cap /\ FV!Puts(fv.len, t)
      \/ fv.len + Len(t) > fv.cap /\ FV!Returns(refusal)
      \/ fv.cap = 0 /\ Len(t) > 0 /\ FV!Returns("none")
  BY <1>1 DEF FV!Appends, FV!Usable
<1>3. QED
  BY <1>1, <1>2, VecAdds

LEMMA VecPushes ==
  ASSUME VecInv, NEW x \in Vals, FV!Push(x)
  PROVE  VecInv' /\ FV!Abstract!Push(x) /\ fv'.cap = fv.cap
<1>1. <<x>> \in Seq(Vals) /\ Len(<<x>>) > 0
  BY Given
<1>2. QED
  BY <1>1, VecAppended DEF FV!Push, FV!Abstract!Push

LEMMA VecAppends ==
  ASSUME VecInv, NEW t \in Seq(Vals), Len(t) > 0, FV!AppendArray(t)
  PROVE  VecInv' /\ FV!Abstract!Extend(t) /\ fv'.cap = fv.cap
BY VecAppended DEF FV!AppendArray, FV!Abstract!Extend

LEMMA VecInserts ==
  ASSUME VecInv, NEW at \in Nat, NEW x \in Vals, FV!Insert(at, x)
  PROVE  VecInv' /\ FV!Abstract!Insert(at, x) /\ fv'.cap = fv.cap
<1>1. /\ fv.len = Len(FV!items) /\ fv.len \in Nat /\ fv.cap \in Nat
      /\ <<x>> \in Seq(Vals) /\ Len(<<x>>) = 1
  BY VecItems, Given
<1>2. CASE at > fv.len
  <2>1. FV!Returns("none")
    BY <1>2 DEF FV!Insert
  <2>2. QED
    BY <1>1, <1>2, <2>1, VecReturns DEF FV!Abstract!Insert
<1>3. CASE ~(at > fv.len)
  <2>1. /\ at \in 0 .. fv.len
        /\ \/ fv.len + Len(<<x>>) <= fv.cap /\ FV!Puts(at, <<x>>)
           \/ fv.len + Len(<<x>>) > fv.cap /\ FV!Returns("full")
           \/ fv.cap = 0 /\ Len(<<x>>) > 0 /\ FV!Returns("none")
    BY <1>1, <1>3 DEF FV!Insert, FV!Usable
  <2>2. VecInv' /\ FV!Abstract!Adds(at, <<x>>, "full") /\ fv'.cap = fv.cap
    BY <1>1, <2>1, VecAdds
  <2>3. QED
    BY <1>1, <1>3, <2>2 DEF FV!Abstract!Insert
<1>4. QED
  BY <1>2, <1>3

LEMMA VecFills ==
  ASSUME VecInv, NEW n \in Nat, NEW x \in Vals, FV!Fill(x, n)
  PROVE  VecInv' /\ FV!Abstract!Fill(x, n) /\ fv'.cap = fv.cap
<1> DEFINE left == fv.cap - fv.len
           m == IF n < left THEN n ELSE left
           t == [k \in 1 .. m |-> x]
<1>1. /\ fv.len \in 0 .. fv.len /\ fv.len = Len(FV!items) /\ fv.len \in Nat
      /\ fv.cap \in Nat /\ fv.len <= fv.cap
  BY VecItems DEF VecInv
<1>2. m \in Nat /\ fv.len + m <= fv.cap
  BY <1>1
<1>3. /\ IF fv.cap = 0 THEN FV!Returns("none") ELSE FV!Puts(fv.len, t)
      /\ FV!Abstract!Fill(x, n) =
           IF fv.cap = 0 THEN FV!Abstract!Keeps("none") ELSE FV!Abstract!Extend(t)
  BY <1>1 DEF FV!Fill, FV!Usable, FV!Abstract!Fill
<1> HIDE DEF m
<1>4. t \in Seq(Vals) /\ Len(t) = m
  <2>1. t \in [1 .. m -> Vals]
    OBVIOUS
  <2>2. t \in Seq(Vals)
    BY <1>2, <2>1, SeqDef
  <2>3. DOMAIN t = 1 .. m /\ DOMAIN t = 1 .. Len(t) /\ Len(t) \in Nat
    BY <2>2, LenProperties
  <2>4. QED
    BY <1>2, <2>1, <2>2, <2>3
<1> HIDE DEF t
<1>5. CASE fv.cap = 0
  BY <1>3, <1>5, VecReturns
<1>6. CASE fv.cap # 0
  <2>1. VecInv' /\ FV!Abstract!Adds(fv.len, t, "refused") /\ fv'.cap = fv.cap
    BY <1>1, <1>2, <1>3, <1>4, <1>6, VecAdds
  <2>2. QED
    BY <1>1, <1>3, <1>6, <2>1 DEF FV!Abstract!Extend
<1>7. QED
  BY <1>5, <1>6

LEMMA VecSets ==
  ASSUME VecInv, NEW at \in Nat, NEW x \in Vals, FV!Set(at, x)
  PROVE  VecInv' /\ FV!Abstract!Set(at, x) /\ fv'.cap = fv.cap
<1>1. /\ fv.len = Len(FV!items) /\ fv.len \in 0 .. fv.cap /\ fv.cap \in Nat /\ fv.len \in Nat
      /\ fv.buf \in Buffers(fv.cap) /\ Filled(Vals, fv.buf, fv.len)
  BY VecItems DEF VecInv
<1>2. CASE at >= fv.len
  BY <1>1, <1>2, VecReturns DEF FV!Set, FV!Abstract!Set
<1>3. CASE at < fv.len
  <2> DEFINE b == [fv.buf EXCEPT ![at] = x]
  <2>1. at \in 0 .. fv.len - 1 /\ ~(at >= fv.len)
    BY <1>1, <1>3
  <2>2. b \in Buffers(fv.cap) /\ Filled(Vals, b, fv.len)
        /\ First(b, fv.len) = [First(fv.buf, fv.len) EXCEPT ![at + 1] = x]
    BY <1>1, <2>1, SetFacts
  <2>3. fv' = [fv EXCEPT !.buf = b] /\ fvRet' = "set"
    BY <2>1 DEF FV!Set
  <2> HIDE DEF b
  <2>4. fv' = [fv EXCEPT !.len = fv.len, !.buf = b]
    BY <2>3 DEF VecInv
  <2>5. VecInv' /\ FV!items' = First(b, fv.len) /\ fv'.cap = fv.cap
    BY <1>1, <2>2, <2>4, VecBecomes
  <2>6. FV!items' = [FV!items EXCEPT ![at + 1] = x]
    BY <2>2, <2>5, VecItems
  <2>7. QED
    BY <1>1, <2>1, <2>3, <2>5, <2>6 DEF FV!Abstract!Set
<1>4. QED
  BY <1>1, <1>2, <1>3

LEMMA VecRemoves ==
  ASSUME VecInv, NEW at \in Nat, FV!Remove(at)
  PROVE  VecInv' /\ FV!Abstract!Remove(at) /\ fv'.cap = fv.cap
<1>1. /\ fv.len = Len(FV!items) /\ fv.len \in 0 .. fv.cap /\ fv.cap \in Nat /\ fv.len \in Nat
      /\ fv.buf \in Buffers(fv.cap) /\ Filled(Vals, fv.buf, fv.len)
  BY VecItems DEF VecInv
<1>2. CASE at >= fv.len
  BY <1>1, <1>2, VecReturns DEF FV!Remove, FV!Abstract!Remove
<1> DEFINE b == Removed(fv.buf, fv.len, at)
<1>3. CASE at < fv.len
  <2>1. at \in 0 .. fv.len - 1 /\ fv.len - 1 \in 0 .. fv.cap /\ ~(at >= fv.len)
    BY <1>1, <1>3
  <2>2. fvRet' = fv.buf[at] /\ fv' = [fv EXCEPT !.len = @ - 1, !.buf = b]
    BY <2>1 DEF FV!Remove, Removed
  <2>3. /\ b \in Buffers(fv.cap) /\ Filled(Vals, b, fv.len - 1)
        /\ First(b, fv.len - 1) = Drop(First(fv.buf, fv.len), at)
        /\ fv.buf[at] = First(fv.buf, fv.len)[at + 1]
    BY <1>1, <2>1, RemovedFacts
  <2> HIDE DEF b
  <2>4. VecInv' /\ FV!items' = First(b, fv.len - 1) /\ fv'.cap = fv.cap
    BY <2>1, <2>2, <2>3, VecBecomes
  <2>5. FV!items' = FV!Abstract!Dropped(at) /\ fvRet' = FV!items[at + 1]
    BY <2>2, <2>3, <2>4, VecItems DEF Drop, FV!Abstract!Dropped
  <2>6. QED
    BY <1>1, <2>1, <2>4, <2>5 DEF FV!Abstract!Remove
<1>4. QED
  BY <1>1, <1>2, <1>3

(* What a call leaves that only gives elements up. *)
LEMMA VecShortens ==
  ASSUME VecInv, NEW n \in 0 .. fv.len, fv' = [fv EXCEPT !.len = n]
  PROVE  VecInv' /\ FV!items' = First(fv.buf, n) /\ fv'.cap = fv.cap
<1>1. /\ fv \in [buf : AnyBuffer, cap : Nat, len : Nat] /\ fv.len \in Nat /\ fv.cap \in Nat
      /\ fv.len <= fv.cap /\ Filled(Vals, fv.buf, fv.len) /\ fv.buf \in Buffers(fv.cap)
  BY DEF VecInv
<1>2. n \in Nat /\ n <= fv.cap /\ Filled(Vals, fv.buf, n)
  BY <1>1 DEF Filled
<1>3. /\ fv' \in [buf : AnyBuffer, cap : Nat, len : Nat]
      /\ fv'.len = n /\ fv'.buf = fv.buf /\ fv'.cap = fv.cap
  BY <1>1, <1>2
<1>4. VecInv'
  BY <1>1, <1>2, <1>3 DEF VecInv
<1>5. QED
  BY <1>3, <1>4, VecItemsNext

LEMMA VecPops ==
  ASSUME VecInv, FV!Pop
  PROVE  VecInv' /\ FV!Abstract!Pop /\ fv'.cap = fv.cap
<1>1. /\ fv.len = Len(FV!items) /\ fv.len \in 0 .. fv.cap /\ fv.cap \in Nat /\ fv.len \in Nat
      /\ fv.buf \in Buffers(fv.cap) /\ Filled(Vals, fv.buf, fv.len) /\ FV!items \in Seq(Vals)
  BY VecItems DEF VecInv
<1>2. CASE fv.len = 0
  <2>1. FV!items = <<>>
    BY <1>1, <1>2, EmptySeq
  <2>2. QED
    BY <1>2, <2>1, VecReturns DEF FV!Pop, FV!Abstract!Pop
<1>3. CASE fv.len # 0
  <2>1. /\ Filled(Vals, fv.buf, fv.len - 1)
        /\ First(fv.buf, fv.len - 1) = Drop(First(fv.buf, fv.len), fv.len - 1)
        /\ First(fv.buf, fv.len) # <<>> /\ First(fv.buf, fv.len)[fv.len] = fv.buf[fv.len - 1]
    BY <1>1, <1>3, PoppedFacts
  <2>2. /\ fv' = [fv EXCEPT !.len = fv.len - 1] /\ fv.len - 1 \in 0 .. fv.len
        /\ fvRet' = fv.buf[fv.len - 1]
    BY <1>1, <1>3 DEF FV!Pop
  <2>3. VecInv' /\ FV!items' = First(fv.buf, fv.len - 1) /\ fv'.cap = fv.cap
    BY <2>2, VecShortens
  <2>4. /\ FV!items # <<>> /\ FV!items' = FV!Abstract!Dropped(Len(FV!items) - 1)
        /\ fvRet' = FV!items[Len(FV!items)]
    BY <1>1, <2>1, <2>2, <2>3, VecItems DEF Drop, FV!Abstract!Dropped
  <2>5. ~(Len(FV!items) - 1 >= Len(FV!items)) /\ (Len(FV!items) - 1) + 1 = Len(FV!items)
    BY <1>1
  <2>6. QED
    BY <2>3, <2>4, <2>5 DEF FV!Abstract!Pop, FV!Abstract!Remove
<1>4. QED
  BY <1>2, <1>3

LEMMA VecClears ==
  ASSUME VecInv, FV!Clear
  PROVE  VecInv' /\ FV!Abstract!Clear /\ fv'.cap = fv.cap
<1>1. fv.len \in Nat
  BY DEF VecInv
<1>2. fv' = [fv EXCEPT !.len = 0] /\ fvRet' = "void" /\ 0 \in 0 .. fv.len
  BY <1>1 DEF FV!Clear
<1>3. Filled(Vals, fv.buf, 0) /\ First(fv.buf, 0) = <<>>
  <2>1. Filled(Vals, fv.buf, 0)
    BY DEF Filled
  <2>2. First(fv.buf, 0) \in Seq(Vals) /\ Len(First(fv.buf, 0)) = 0
    BY <2>1, FirstFacts
  <2>3. QED
    BY <2>1, <2>2, EmptySeq
<1>4. VecInv' /\ FV!items' = <<>> /\ fv'.cap = fv.cap
  BY <1>2, <1>3, VecShortens
<1>5. QED
  BY <1>2, <1>4 DEF FV!Abstract!Clear

LEMMA VecSwaps ==
  ASSUME FV!Swap, StructuresAssumption
  PROVE  VecInv' /\ FV!Abstract!Swap /\ fvRet' = "opened"
<1>1. PICK n \in VecCapacities : \E s \in [0 .. n - 1 -> Vals], k \in 0 .. n :
        fv' = [buf |-> s, cap |-> n, len |-> k] /\ fvRet' = "opened"
  BY DEF FV!Swap
<1>2. n \in Nat
  BY DEF StructuresAssumption, FV!VecAssumption
<1>3. PICK s \in [0 .. n - 1 -> Vals], k \in 0 .. n :
        fv' = [buf |-> s, cap |-> n, len |-> k] /\ fvRet' = "opened"
  BY <1>1
<1>4. s \in Buffers(n) /\ k \in Nat /\ k <= n /\ Filled(Vals, s, k)
  BY <1>2 DEF Buffers, Filled
<1>5. VecInv' /\ fv'.len = k /\ fv'.buf = s /\ fv'.cap = n
  BY <1>2, <1>3, <1>4, BufferIn DEF VecInv
<1>6. FV!items' \in Seq(Vals) /\ Len(FV!items') = k
  BY <1>4, <1>5, VecItemsNext, FirstFacts
<1>7. QED
  BY <1>3, <1>4, <1>5, <1>6 DEF FV!Abstract!Swap

(* What the calls of a sequence do is among its steps, whatever they are   *)
(* asked for.                                                              *)
LEMMA VecAlways ==
  ASSUME VecInv, VecInv'
  PROVE  /\ FV!Abstract!Keeps("none") => FV!Abstract!Next
         /\ FV!Abstract!Keeps("refused") => FV!Abstract!Next
         /\ FV!Abstract!Open(<<>>, fv'.cap) => FV!Abstract!Next
<1>1. fv.cap \in Nat /\ fv'.cap \in Nat
  BY DEF VecInv
<1>2. ASSUME FV!Abstract!Keeps("none") PROVE FV!Abstract!Next
  BY <1>1, <1>2 DEF FV!Abstract!Keeps, FV!Abstract!FormatFails, FV!Abstract!Next
<1>3. ASSUME FV!Abstract!Keeps("refused") PROVE FV!Abstract!Next
  <2>1. fv'.cap = fv.cap
    BY <1>3 DEF FV!Abstract!Keeps
  <2>2. fv.cap + 1 \in -1 .. fv'.cap + 1 /\ fv.cap + 1 > fv.cap
    BY <1>1, <2>1
  <2>3. FV!Abstract!Reserve(fv.cap + 1)
    BY <1>3, <2>2 DEF FV!Abstract!Reserve
  <2>4. QED
    BY <2>2, <2>3 DEF FV!Abstract!Next
<1>4. ASSUME FV!Abstract!Open(<<>>, fv'.cap) PROVE FV!Abstract!Next
  <2>1. CASE FV!items' = <<>> /\ fvRet' = "opened"
    <3>1. FV!items' \in Seq(Vals) /\ Len(FV!items') <= fv'.cap
      BY <1>1, <2>1, EmptySeq
    <3>2. QED
      BY <2>1, <3>1 DEF FV!Abstract!Swap, FV!Abstract!Next
  <2>2. CASE FV!Abstract!Free
    BY <2>2 DEF FV!Abstract!Next
  <2>3. QED
    BY <1>4, <2>1, <2>2 DEF FV!Abstract!Open
<1>5. QED
  BY <1>2, <1>3, <1>4

LEMMA VecExtended ==
  ASSUME VecInv, VecInv', NEW t \in Seq(Vals), Len(t) > 0, FV!Abstract!Extend(t)
  PROVE  FV!Abstract!Next
<1>1. /\ FV!items \in Seq(Vals) /\ Len(FV!items) \in Nat /\ Len(t) \in Nat
      /\ Len(FV!items) \in 0 .. Len(FV!items) /\ t \in [1 .. Len(t) -> Vals]
  BY VecItems, LenProperties
<1>2. CASE FV!items' = FV!Abstract!Spliced(Len(FV!items), t)
  <2>1. FV!items' = Splice(FV!items, Len(FV!items), t)
    BY <1>2 DEF Splice, FV!Abstract!Spliced
  <2>2. Len(FV!items') = Len(FV!items) + Len(t)
    BY <1>1, <2>1, SpliceLength
  <2>3. Len(t) \in 1 .. Len(FV!items') \cup {fv.cap + 1}
    BY <1>1, <2>2
  <2>4. QED
    BY <1>1, <2>3 DEF FV!Abstract!Next
<1>3. CASE FV!Abstract!Keeps("refused") \/ FV!Abstract!Keeps("none")
  BY <1>3, VecAlways
<1>4. QED
  BY <1>2, <1>3 DEF FV!Abstract!Extend, FV!Abstract!Adds

LEMMA VecPlaced ==
  ASSUME VecInv, VecInv', NEW x \in Vals, NEW n \in Nat,
         \/ FV!Abstract!Insert(n, x) \/ FV!Abstract!Set(n, x) \/ FV!Abstract!Remove(n)
         \/ FV!Abstract!Fill(x, n)
  PROVE  FV!Abstract!Next
<1>1. Len(FV!items) \in Nat /\ fv.cap \in Nat
  BY VecItems
<1>2. CASE n \in 0 .. Len(FV!items) /\ ~FV!Abstract!Fill(x, n)
  <2>1. n \in 0 .. Len(FV!items) + 1
    BY <1>1, <1>2
  <2>2. QED
    BY <1>2, <2>1 DEF FV!Abstract!Next
<1>3. CASE n > Len(FV!items) /\ ~FV!Abstract!Fill(x, n)
  <2>1. n >= Len(FV!items)
    BY <1>1, <1>3
  <2>2. FV!Abstract!Keeps("none")
    BY <1>3, <2>1 DEF FV!Abstract!Insert, FV!Abstract!Set, FV!Abstract!Remove
  <2>3. QED
    BY <2>2, VecAlways
<1>4. CASE FV!Abstract!Fill(x, n) /\ n <= fv.cap
  <2>1. n \in 0 .. fv.cap
    BY <1>1, <1>4
  <2>2. QED
    BY <1>4, <2>1 DEF FV!Abstract!Next
<1>5. CASE FV!Abstract!Fill(x, n) /\ n > fv.cap
  <2>1. /\ fv.cap \in 0 .. fv.cap /\ ~(n < fv.cap - Len(FV!items))
        /\ ~(fv.cap < fv.cap - Len(FV!items))
    BY <1>1, <1>5
  <2>2. FV!Abstract!Fill(x, fv.cap)
    BY <1>5, <2>1 DEF FV!Abstract!Fill
  <2>3. QED
    BY <2>1, <2>2 DEF FV!Abstract!Next
<1>6. n \in 0 .. Len(FV!items) \/ n > Len(FV!items)
  BY <1>1
<1>7. n <= fv.cap \/ n > fv.cap
  BY <1>1
<1>8. QED
  BY <1>2, <1>3, <1>4, <1>5, <1>6, <1>7

(* Every step of the vector is one of the abstract vector's, and only a    *)
(* call that opens it anew changes the room it has.                        *)
LEMMA VecStep ==
  ASSUME VecInv, [FV!Next]_(FV!vars), StructuresAssumption
  PROVE  /\ VecInv' /\ [FV!Abstract!Next]_(FV!Abstract!vars)
         /\ fv'.cap # fv.cap => fvRet' = "opened"
<1>1. VecCapacities \subseteq Nat /\ fv.len \in Nat /\ fv.cap \in Nat
  BY DEF StructuresAssumption, FV!VecAssumption, VecInv
<1>2. CASE UNCHANGED FV!vars
  <2>1. fv' = fv /\ fvRet' = fvRet
    BY <1>2 DEF FV!vars
  <2>2. QED
    BY <2>1, VecKeeps DEF FV!Abstract!vars
<1>3. CASE \E n \in VecCapacities : FV!Open(n)
  <2>1. PICK n \in Nat : FV!Open(n)
    BY <1>1, <1>3
  <2>2. VecInv' /\ FV!Abstract!Open(<<>>, n) /\ fvRet' = "opened" /\ fv'.cap = n
    BY <2>1, VecOpens, VecOpened DEF FV!Open
  <2>3. QED
    BY <2>2, VecAlways
<1>4. CASE \E x, y \in Vals : FV!Push(x) \/ FV!AppendArray(<<x, y, x>>)
  <2>1. PICK x \in Vals, y \in Vals : FV!Push(x) \/ FV!AppendArray(<<x, y, x>>)
    BY <1>4
  <2>2. <<x, y, x>> \in Seq(Vals) /\ Len(<<x, y, x>>) > 0
    BY Given
  <2>3. CASE FV!Push(x)
    BY <2>3, VecPushes DEF FV!Abstract!Next
  <2>4. CASE FV!AppendArray(<<x, y, x>>)
    BY <2>2, <2>4, VecAppends, VecExtended
  <2>5. QED
    BY <2>1, <2>3, <2>4
<1>5. CASE \E x \in Vals, n \in 0 .. fv.cap + 1 : FV!Insert(n, x) \/ FV!Fill(x, n) \/ FV!Set(n, x)
  <2>1. PICK x \in Vals, n \in 0 .. fv.cap + 1 : FV!Insert(n, x) \/ FV!Fill(x, n) \/ FV!Set(n, x)
    BY <1>5
  <2>2. n \in Nat
    BY <1>1
  <2>3. QED
    BY <2>1, <2>2, VecInserts, VecFills, VecSets, VecPlaced
<1>6. CASE \E at \in 0 .. fv.len : FV!Remove(at)
  <2>1. PICK at \in 0 .. fv.len : FV!Remove(at)
    BY <1>6
  <2>2. at \in Nat /\ Len(FV!items) = fv.len
    BY <1>1, VecItems
  <2>3. VecInv' /\ FV!Abstract!Remove(at) /\ fv'.cap = fv.cap
    BY <2>1, <2>2, VecRemoves
  <2>4. QED
    BY <2>2, <2>3 DEF FV!Abstract!Next
<1>7. CASE FV!Pop
  BY <1>7, VecPops DEF FV!Abstract!Next
<1>8. CASE FV!Clear
  BY <1>8, VecClears DEF FV!Abstract!Next
<1>9. CASE FV!Swap
  BY <1>9, VecSwaps DEF FV!Abstract!Next
<1>10. QED
  BY <1>2, <1>3, <1>4, <1>5, <1>6, <1>7, <1>8, <1>9 DEF FV!Next

LEMMA VecCalls ==
  ASSUME VecInv, StructuresAssumption
  PROVE  FV!Calls
<1>1. VecCapacities \subseteq Nat /\ fv.len \in Nat /\ fv.cap \in Nat
  BY DEF StructuresAssumption, FV!VecAssumption, VecInv
<1>2. \A n \in VecCapacities : FV!Open(n) => FV!Abstract!Open(<<>>, n)
  BY <1>1, VecOpens
<1>3. \A x \in Vals : FV!Push(x) => FV!Abstract!Push(x)
  BY VecPushes
<1>4. ASSUME NEW x \in Vals, NEW y \in Vals, FV!AppendArray(<<x, y, x>>)
      PROVE  FV!Abstract!Extend(<<x, y, x>>)
  <2>1. <<x, y, x>> \in Seq(Vals) /\ Len(<<x, y, x>>) > 0
    BY Given
  <2>2. QED
    BY <1>4, <2>1, VecAppends
<1>5. ASSUME NEW x \in Vals, NEW n \in 0 .. fv.cap + 1
      PROVE  /\ FV!Insert(n, x) => FV!Abstract!Insert(n, x)
             /\ FV!Fill(x, n) => FV!Abstract!Fill(x, n)
             /\ FV!Set(n, x) => FV!Abstract!Set(n, x)
  <2>1. n \in Nat
    BY <1>1
  <2>2. QED
    BY <2>1, VecInserts, VecFills, VecSets
<1>6. ASSUME NEW at \in 0 .. fv.len, FV!Remove(at) PROVE FV!Abstract!Remove(at)
  <2>1. at \in Nat
    BY <1>1
  <2>2. QED
    BY <1>6, <2>1, VecRemoves
<1>7. /\ FV!Pop => FV!Abstract!Pop
      /\ FV!Clear => FV!Abstract!Clear
      /\ FV!Swap => FV!Abstract!Swap
  BY VecPops, VecClears, VecSwaps
<1>8. QED
  BY <1>2, <1>3, <1>4, <1>5, <1>6, <1>7 DEF FV!Calls

LEMMA VecStarts == FV!Init => VecInv /\ FV!Abstract!Init
<1> SUFFICES ASSUME FV!Init PROVE VecInv /\ FV!Abstract!Init
  OBVIOUS
<1>1. fv.buf = [i \in 0 .. 0 - 1 |-> Junk] /\ fv.cap = 0 /\ fv.len = 0
      /\ fv = [buf |-> fv.buf, cap |-> fv.cap, len |-> fv.len] /\ fvRet = "opened"
  BY DEF FV!Init, FV!Opened
<1>2. fv.buf \in Buffers(0) /\ Filled(Vals, fv.buf, 0)
  BY <1>1 DEF Buffers, Filled
<1>3. VecInv
  BY <1>1, <1>2, BufferIn DEF VecInv
<1>4. FV!items = <<>>
  BY <1>1, <1>3, VecItems, EmptySeq
<1>5. QED
  BY <1>1, <1>3, <1>4 DEF FV!Abstract!Init

LEMMA VecServes == StructuresSpec => FV!Implements
<1>1. StructuresInit => VecInv /\ FV!Abstract!Init
  BY PartsStart, VecStarts
<1>2. VecInv /\ [StructuresNext]_allVars =>
        /\ VecInv' /\ [FV!Abstract!Next]_(FV!Abstract!vars)
        /\ [fv'.cap # fv.cap => fvRet' = "opened"]_(FV!vars)
  BY PartsStep, VecStep, StructuresAssumption
<1>3. VecInv => [FV!Calls]_(FV!vars)
  BY VecCalls, StructuresAssumption
<1>4. QED
  BY <1>1, <1>2, <1>3, PTL DEF StructuresSpec, FV!Implements, FV!Abstract!Spec

-----------------------------------------------------------------------------
(* SmallVec. *)
SmallRecord == [inline : BOOLEAN, arena : BOOLEAN, len : Nat, cap : Nat]

(* What the vector is when it is w with the buffer b. *)
SmallIs(w, b, inner, outer, blocks) ==
  /\ w \in SmallRecord /\ w.len <= w.cap
  /\ w.inline => w.cap = InlineCap
  /\ b \in Buffers(w.cap) /\ Filled(Vals, b, w.len)
  /\ inner \in Buffers(InlineCap) /\ outer \in Buffers(IF w.inline THEN 0 ELSE w.cap)
  /\ b = IF w.inline THEN inner ELSE outer
  /\ blocks = IF w.inline \/ w.arena THEN 0 ELSE 1

SmallInv == SmallIs(sv, SV!Buf, svInner, svOuter, svHeap)

LEMMA SmallSays ==
  ASSUME SmallInv
  PROVE  SV!TypeOK /\ SV!OneBlockOut
BY DEF SmallInv, SmallIs, SmallRecord, Buffers, SV!TypeOK, SV!OneBlockOut

LEMMA SmallItems ==
  ASSUME SmallInv
  PROVE  /\ SV!items = First(SV!Buf, sv.len) /\ SV!items \in Seq(Vals) /\ Len(SV!items) = sv.len
         /\ sv.cap \in Nat /\ sv.len \in Nat /\ sv.len <= sv.cap
         /\ SV!Buf \in Buffers(sv.cap) /\ Filled(Vals, SV!Buf, sv.len)
<1>1. /\ sv.cap \in Nat /\ sv.len \in Nat /\ sv.len <= sv.cap
      /\ SV!Buf \in Buffers(sv.cap) /\ Filled(Vals, SV!Buf, sv.len)
  BY DEF SmallInv, SmallIs, SmallRecord
<1>2. SV!items = First(SV!Buf, sv.len)
  BY DEF SV!items, First
<1>3. QED
  BY <1>1, <1>2, FirstFacts

LEMMA SmallBecomes ==
  ASSUME NEW w, NEW b, sv' = w, SmallIs(w, b, svInner', svOuter', svHeap')
  PROVE  SmallInv' /\ SV!items' = First(b, w.len)
<1>1. SV!Buf' = b
  BY DEF SV!Buf, SmallIs
<1>2. SmallInv'
  BY <1>1 DEF SmallInv
<1>3. SV!items' = First(b, w.len)
  BY <1>1 DEF SV!items, First
<1>4. QED
  BY <1>2, <1>3

LEMMA SmallKeeps ==
  ASSUME SmallInv, UNCHANGED <<sv, svInner, svOuter, svHeap>>
  PROVE  SmallInv' /\ SV!items' = SV!items
BY DEF SmallInv, SV!items, SV!Buf

LEMMA SmallRefuses ==
  ASSUME SmallInv, NEW answer, SV!Returns(answer)
  PROVE  SmallInv' /\ SV!Abstract!Keeps(answer) /\ sv' = sv
<1>1. UNCHANGED <<sv, svInner, svOuter, svHeap>> /\ svRet' = answer
  BY DEF SV!Returns
<1>2. SmallInv' /\ SV!items' = SV!items /\ sv' = sv
  BY <1>1, SmallKeeps
<1>3. QED
  BY <1>1, <1>2 DEF SV!Abstract!Keeps

(* Room for n elements: as it is, or spilled, with the elements it has. *)
LEMMA SmallRoom ==
  ASSUME SmallInv, StructuresAssumption, NEW n \in Nat, NEW g \in SV!WithRoom(n)
  PROVE  /\ g.v \in SmallRecord /\ g.v.len = sv.len /\ g.v.arena = sv.arena /\ g.v.cap >= n
         /\ g.v.len <= g.v.cap
         /\ g.v.inline => sv.inline /\ g.v.cap = InlineCap
         /\ n <= sv.cap => g.v = sv
         /\ ~sv.inline => g.v = sv
         /\ g.buf \in Buffers(g.v.cap) /\ Filled(Vals, g.buf, sv.len)
         /\ First(g.buf, sv.len) = SV!items
<1>1. /\ sv \in SmallRecord /\ sv.len <= sv.cap /\ (sv.inline => sv.cap = InlineCap)
      /\ sv.len \in Nat /\ sv.cap \in Nat
      /\ svInner \in Buffers(InlineCap) /\ SV!Buf \in Buffers(sv.cap) /\ Filled(Vals, SV!Buf, sv.len)
      /\ (sv.inline => SV!Buf = svInner)
      /\ InlineCap \in Nat /\ SV!items = First(SV!Buf, sv.len)
  BY SmallItems DEF SmallInv, SmallIs, SmallRecord, StructuresAssumption, SV!SmallVecAssumption
<1>2. CASE n <= sv.cap
  <2>1. g = [v |-> sv, buf |-> SV!Buf]
    BY <1>2 DEF SV!WithRoom
  <2>2. QED
    BY <1>1, <1>2, <2>1
<1>3. CASE n > sv.cap
  <2> DEFINE c == SV!NewCap(n)
             b == SV!Spilled(n, sv.len)
             w == [sv EXCEPT !.inline = FALSE, !.cap = c]
  <2>1. sv.inline /\ ~(n <= sv.cap) /\ g = [v |-> w, buf |-> b]
    BY <1>1, <1>3 DEF SV!WithRoom
  <2>2. c \in Nat /\ c >= n /\ c >= sv.cap
    BY <1>1, <1>3 DEF SV!NewCap
  <2>3. b = [k \in 0 .. c - 1 |-> IF k < sv.len THEN svInner[k] ELSE Junk]
    BY DEF SV!Spilled
  <2> HIDE DEF c, b
  <2>4. /\ w \in SmallRecord /\ w.len = sv.len /\ w.arena = sv.arena /\ ~w.inline /\ w.cap = c
    BY <1>1, <2>2 DEF SmallRecord
  <2> HIDE DEF w
  <2>5. \A k \in 0 .. sv.len - 1 : svInner[k] \in Vals /\ b[k] = svInner[k]
    BY <1>1, <2>1, <2>2, <2>3 DEF Filled
  <2>6. b \in Buffers(c) /\ Filled(Vals, b, sv.len)
    <3>1. Filled(Vals, b, sv.len)
      BY <2>5 DEF Filled
    <3>2. ASSUME NEW k \in 0 .. c - 1 PROVE b[k] \in Vals \cup {Junk}
      <4>1. CASE k < sv.len
        <5>1. k \in 0 .. sv.len - 1
          BY <1>1, <4>1
        <5>2. QED
          BY <2>5, <5>1
      <4>2. CASE ~(k < sv.len)
        BY <2>3, <4>2
      <4>3. QED
        BY <4>1, <4>2
    <3>3. b \in [0 .. c - 1 -> Vals \cup {Junk}]
      BY <2>3, <3>2
    <3>4. QED
      BY <3>1, <3>3 DEF Buffers
  <2>7. First(b, sv.len) = SV!items
    <3>1. /\ SV!items \in Seq(Vals) /\ Len(SV!items) = sv.len
          /\ \A k \in 1 .. sv.len : SV!items[k] = SV!Buf[k - 1]
      BY <1>1, SmallItems, FirstFacts
    <3>2. ASSUME NEW k \in 1 .. sv.len PROVE SV!items[k] = b[k - 1]
      <4>1. k - 1 \in 0 .. sv.len - 1
        BY <1>1
      <4>2. QED
        BY <1>1, <2>1, <2>5, <3>1, <4>1
    <3>3. QED
      BY <1>1, <2>6, <3>1, <3>2, FirstIs
  <2>8. QED
    BY <1>1, <1>3, <2>1, <2>2, <2>4, <2>6, <2>7
<1>4. QED
  BY <1>1, <1>2, <1>3

LEMMA SmallPuts ==
  ASSUME SmallInv, StructuresAssumption, NEW t \in Seq(Vals), NEW at \in 0 .. sv.len,
         NEW g \in SV!WithRoom(sv.len + Len(t)), SV!Puts(g, at, t)
  PROVE  /\ SmallInv' /\ SV!items' = Splice(SV!items, at, t) /\ svRet' = "ok"
         /\ sv'.cap >= sv.len + Len(t)
         /\ sv.len + Len(t) <= sv.cap => sv'.cap = sv.cap
         /\ ~sv.inline => sv'.cap = sv.cap
<1> DEFINE m == Len(t)
           n == sv.len + m
           w == g.v
           b == Spread(g.buf, sv.len, at, t)
<1>1. m \in Nat /\ sv.len \in Nat /\ n \in Nat /\ sv.len <= n
  BY SmallItems, LenProperties
<1>2. /\ w \in SmallRecord /\ w.len = sv.len /\ w.arena = sv.arena /\ w.cap >= n
      /\ w.inline => sv.inline /\ w.cap = InlineCap
      /\ n <= sv.cap => w = sv
      /\ ~sv.inline => w = sv
      /\ g.buf \in Buffers(w.cap) /\ Filled(Vals, g.buf, sv.len)
      /\ First(g.buf, sv.len) = SV!items
  BY <1>1, SmallRoom
<1>3. /\ sv' = [w EXCEPT !.len = w.len + m] /\ svRet' = "ok"
      /\ svHeap' = IF sv.inline /\ ~w.inline /\ ~sv.arena THEN svHeap + 1 ELSE svHeap
      /\ IF w.inline THEN svInner' = b /\ svOuter' = svOuter ELSE svOuter' = b /\ svInner' = svInner
  BY DEF SV!Puts, SV!Spread, Spread
<1>4. /\ svInner \in Buffers(InlineCap) /\ svOuter \in Buffers(IF sv.inline THEN 0 ELSE sv.cap)
      /\ svHeap = IF sv.inline \/ sv.arena THEN 0 ELSE 1
  BY DEF SmallInv, SmallIs
<1>5. w.cap \in Nat /\ n <= w.cap
  BY <1>1, <1>2 DEF SmallRecord
<1> HIDE DEF m, w
<1>6. b \in Buffers(w.cap) /\ Filled(Vals, b, n) /\ First(b, n) = Splice(SV!items, at, t)
  BY <1>1, <1>2, <1>5, SpreadFacts DEF m
<1> HIDE DEF b, n
<1> DEFINE z == [w EXCEPT !.len = w.len + m]
<1>7. /\ z \in SmallRecord /\ z.len = n /\ z.cap = w.cap /\ z.inline = w.inline /\ z.arena = w.arena
  BY <1>1, <1>2 DEF SmallRecord, n
<1>8. sv' = z
  BY <1>3
<1> HIDE DEF z
<1>9. SmallIs(z, b, svInner', svOuter', svHeap')
  <2>1. CASE w.inline
    BY <1>2, <1>3, <1>4, <1>5, <1>6, <1>7, <2>1 DEF SmallIs
  <2>2. CASE ~w.inline
    <3>1. svHeap' = IF z.inline \/ z.arena THEN 0 ELSE 1
      BY <1>2, <1>3, <1>4, <1>7, <2>2
    <3>2. QED
      BY <1>2, <1>3, <1>4, <1>5, <1>6, <1>7, <2>2, <3>1 DEF SmallIs
  <2>3. QED
    BY <2>1, <2>2
<1>10. SmallInv' /\ SV!items' = First(b, n)
  BY <1>7, <1>8, <1>9, SmallBecomes
<1>11. QED
  BY <1>2, <1>3, <1>5, <1>6, <1>7, <1>8, <1>10 DEF n, m

LEMMA SmallAdds ==
  ASSUME SmallInv, StructuresAssumption, NEW t \in Seq(Vals), NEW at \in 0 .. sv.len, NEW refusal,
         \/ \E g \in SV!WithRoom(sv.len + Len(t)) : SV!Puts(g, at, t)
         \/ SV!NoRoom(sv.len + Len(t), refusal)
  PROVE  SmallInv' /\ SV!Abstract!Adds(at, t, refusal) /\ (~sv.inline => sv'.cap = sv.cap)
<1>1. /\ Len(SV!items) = sv.len /\ SV!items \in Seq(Vals) /\ at \in 0 .. Len(SV!items)
  BY SmallItems
<1>2. CASE \E g \in SV!WithRoom(sv.len + Len(t)) : SV!Puts(g, at, t)
  <2>1. /\ SmallInv' /\ SV!items' = Splice(SV!items, at, t) /\ svRet' = "ok"
        /\ sv'.cap >= sv.len + Len(t)
        /\ sv.len + Len(t) <= sv.cap => sv'.cap = sv.cap
        /\ ~sv.inline => sv'.cap = sv.cap
    BY <1>2, SmallPuts
  <2>2. SV!items' = SV!Abstract!Spliced(at, t)
    BY <2>1 DEF Splice, SV!Abstract!Spliced
  <2>3. sv'.cap >= Len(SV!items) + Len(t) /\ (Len(SV!items) + Len(t) <= sv.cap => sv'.cap = sv.cap)
    <3>1. sv.len = Len(SV!items)
      BY <1>1
    <3>2. QED
      BY <2>1, <3>1
  <2>4. SV!Abstract!Adds(at, t, refusal)
    BY <2>1, <2>2, <2>3 DEF SV!Abstract!Adds
  <2>5. QED
    BY <2>1, <2>4
<1>3. CASE SV!NoRoom(sv.len + Len(t), refusal)
  <2>1. sv.len + Len(t) > sv.cap /\ SV!Returns(refusal)
    BY <1>3 DEF SV!NoRoom
  <2>2. QED
    BY <1>1, <2>1, SmallRefuses DEF SV!Abstract!Adds
<1>4. QED
  BY <1>2, <1>3

(* The promise of a step beside its call: another state of the vector, and *)
(* no second move.                                                         *)
SmallGoal ==
  /\ SmallInv'
  /\ (~sv.inline /\ sv'.cap # sv.cap) => sv' = SV!Opened(FALSE)

LEMMA SmallRefusing ==
  ASSUME SmallInv, SV!Returns("none")
  PROVE  SmallGoal /\ SV!Abstract!Keeps("none")
<1>1. SmallInv' /\ sv' = sv /\ SV!Abstract!Keeps("none")
  BY SmallRefuses
<1>2. QED
  BY <1>1 DEF SmallGoal

LEMMA SmallPushes ==
  ASSUME SmallInv, StructuresAssumption, NEW x \in Vals, SV!Push(x)
  PROVE  SmallGoal /\ SV!Abstract!Push(x)
<1>1. <<x>> \in Seq(Vals) /\ Len(<<x>>) = 1 /\ sv.len \in 0 .. sv.len /\ sv.len = Len(SV!items)
  BY Given, SmallItems
<1>2. \/ \E g \in SV!WithRoom(sv.len + Len(<<x>>)) : SV!Puts(g, sv.len, <<x>>)
      \/ SV!NoRoom(sv.len + Len(<<x>>), "full")
  BY <1>1 DEF SV!Push
<1>3. SmallInv' /\ SV!Abstract!Adds(sv.len, <<x>>, "full") /\ (~sv.inline => sv'.cap = sv.cap)
  BY <1>1, <1>2, SmallAdds
<1>4. QED
  BY <1>1, <1>3 DEF SmallGoal, SV!Abstract!Push

LEMMA SmallInserts ==
  ASSUME SmallInv, StructuresAssumption, NEW x \in Vals, NEW at \in Nat, SV!Insert(at, x)
  PROVE  SmallGoal /\ SV!Abstract!Insert(at, x)
<1>1. <<x>> \in Seq(Vals) /\ Len(<<x>>) = 1 /\ sv.len \in Nat /\ sv.len = Len(SV!items)
  BY Given, SmallItems
<1>2. CASE at > sv.len
  <2>1. SV!Returns("none")
    BY <1>1, <1>2 DEF SV!Insert
  <2>2. QED
    BY <1>1, <1>2, <2>1, SmallRefusing DEF SV!Abstract!Insert
<1>3. CASE ~(at > sv.len)
  <2>1. at \in 0 .. sv.len
    BY <1>1, <1>3
  <2>2. \/ \E g \in SV!WithRoom(sv.len + Len(<<x>>)) : SV!Puts(g, at, <<x>>)
        \/ SV!NoRoom(sv.len + Len(<<x>>), "full")
    BY <1>1, <1>3 DEF SV!Insert
  <2>3. SmallInv' /\ SV!Abstract!Adds(at, <<x>>, "full") /\ (~sv.inline => sv'.cap = sv.cap)
    BY <1>1, <2>1, <2>2, SmallAdds
  <2>4. QED
    BY <1>1, <1>3, <2>3 DEF SmallGoal, SV!Abstract!Insert
<1>4. QED
  BY <1>2, <1>3

LEMMA SmallExtends ==
  ASSUME SmallInv, StructuresAssumption, NEW t \in Seq(Vals), SV!Extend(t)
  PROVE  SmallGoal /\ SV!Abstract!Extend(t)
<1>1. sv.len \in 0 .. sv.len /\ sv.len = Len(SV!items)
  BY SmallItems
<1>2. SmallInv' /\ SV!Abstract!Adds(sv.len, t, "refused") /\ (~sv.inline => sv'.cap = sv.cap)
  BY <1>1, SmallAdds DEF SV!Extend
<1>3. QED
  BY <1>1, <1>2 DEF SmallGoal, SV!Abstract!Extend

LEMMA SmallExtendsSelf ==
  ASSUME SmallInv, StructuresAssumption, NEW from \in Nat, NEW n \in Nat,
         SV!ExtendSelf(from, n)
  PROVE  /\ SmallGoal /\ SV!Abstract!Extend(SubSeq(SV!items, from + 1, from + n))
         /\ SubSeq(SV!items, from + 1, from + n) \in Seq(Vals)
         /\ Len(SubSeq(SV!items, from + 1, from + n)) = n
<1> DEFINE t == Part(SV!Buf, from, n)
<1>0. from + n <= sv.len /\ SV!Extend(t)
  BY DEF SV!ExtendSelf, Part
<1>1. /\ from + n <= sv.len /\ sv.len \in Nat /\ Filled(Vals, SV!Buf, sv.len)
      /\ SV!items = First(SV!Buf, sv.len)
  BY <1>0, SmallItems
<1>2. t = SubSeq(SV!items, from + 1, from + n) /\ t \in Seq(Vals) /\ Len(t) = n
  <2> DEFINE b == SV!Buf
             k == sv.len
             q == SV!items
  <2>1. k \in Nat /\ Filled(Vals, b, k) /\ from + n <= k /\ q = First(b, k)
    BY <1>1
  <2> HIDE DEF b, k, q
  <2>2. /\ Part(b, from, n) = SubSeq(First(b, k), from + 1, from + n)
        /\ Part(b, from, n) \in Seq(Vals) /\ Len(Part(b, from, n)) = n
    BY <2>1, PartFacts
  <2>3. QED
    BY <2>1, <2>2 DEF b, q
<1>3. SV!Extend(t)
  BY <1>0
<1> HIDE DEF t
<1>4. QED
  BY <1>2, <1>3, SmallExtends

LEMMA SmallSets ==
  ASSUME SmallInv, StructuresAssumption, NEW x \in Vals, NEW at \in Nat, SV!SetThroughData(at, x)
  PROVE  SmallGoal /\ SV!Abstract!Set(at, x)
<1> DEFINE b == [SV!Buf EXCEPT ![at] = x]
<1>1. /\ at < sv.len /\ sv' = sv /\ svHeap' = svHeap /\ svRet' = "set"
      /\ IF sv.inline THEN svInner' = b /\ svOuter' = svOuter ELSE svOuter' = b /\ svInner' = svInner
  BY DEF SV!SetThroughData, SV!Writes
<1>2. /\ sv.len \in 0 .. sv.cap /\ sv.cap \in Nat /\ sv.len \in Nat /\ at \in 0 .. sv.len - 1
      /\ SV!Buf \in Buffers(sv.cap) /\ Filled(Vals, SV!Buf, sv.len)
  BY <1>1, SmallItems
<1>3. /\ b \in Buffers(sv.cap) /\ Filled(Vals, b, sv.len)
      /\ First(b, sv.len) = [First(SV!Buf, sv.len) EXCEPT ![at + 1] = x]
  BY <1>2, SetFacts
<1> HIDE DEF b
<1>4. SmallIs(sv, b, svInner', svOuter', svHeap')
  <2>1. SmallIs(sv, SV!Buf, svInner, svOuter, svHeap)
    BY DEF SmallInv
  <2>2. CASE sv.inline
    BY <1>1, <1>3, <2>1, <2>2 DEF SmallIs
  <2>3. CASE ~sv.inline
    BY <1>1, <1>3, <2>1, <2>3 DEF SmallIs
  <2>4. QED
    BY <2>2, <2>3
<1>5. SmallInv' /\ SV!items' = First(b, sv.len)
  BY <1>1, <1>4, SmallBecomes
<1>6. /\ SV!items' = [SV!items EXCEPT ![at + 1] = x] /\ ~(at >= Len(SV!items))
      /\ sv'.cap = sv.cap
  BY <1>1, <1>2, <1>3, <1>5, SmallItems
<1>7. QED
  BY <1>1, <1>5, <1>6 DEF SmallGoal, SV!Abstract!Set

(* What a call leaves that only gives elements up. *)
LEMMA SmallShortens ==
  ASSUME SmallInv, NEW n \in 0 .. sv.len, NEW b \in Buffers(sv.cap), Filled(Vals, b, n),
         sv' = [sv EXCEPT !.len = n], svHeap' = svHeap,
         IF sv.inline THEN svInner' = b /\ svOuter' = svOuter ELSE svOuter' = b /\ svInner' = svInner
  PROVE  SmallInv' /\ SV!items' = First(b, n) /\ sv'.cap = sv.cap
<1>1. SmallIs(sv, SV!Buf, svInner, svOuter, svHeap)
  BY DEF SmallInv
<1>2. sv \in SmallRecord /\ sv.len \in Nat /\ n \in Nat /\ sv.cap \in Nat /\ n <= sv.cap
  BY SmallItems DEF SmallInv, SmallIs
<1> DEFINE w == [sv EXCEPT !.len = n]
<1>3. w \in SmallRecord /\ w.len = n /\ w.cap = sv.cap /\ w.inline = sv.inline /\ w.arena = sv.arena
  BY <1>2 DEF SmallRecord
<1>4. sv' = w
  OBVIOUS
<1> HIDE DEF w
<1>5. SmallIs(w, b, svInner', svOuter', svHeap')
  <2>1. CASE sv.inline
    BY <1>1, <1>2, <1>3, <2>1 DEF SmallIs
  <2>2. CASE ~sv.inline
    BY <1>1, <1>2, <1>3, <2>2 DEF SmallIs
  <2>3. QED
    BY <2>1, <2>2
<1>6. QED
  BY <1>3, <1>4, <1>5, SmallBecomes

LEMMA SmallPops ==
  ASSUME SmallInv, SV!Pop
  PROVE  SmallGoal /\ SV!Abstract!Pop
<1>1. /\ sv.len = Len(SV!items) /\ sv.cap \in Nat /\ sv.len \in Nat /\ SV!items \in Seq(Vals)
      /\ SV!Buf \in Buffers(sv.cap) /\ Filled(Vals, SV!Buf, sv.len) /\ SV!items = First(SV!Buf, sv.len)
  BY SmallItems
<1>2. CASE sv.len = 0
  <2>1. SV!items = <<>>
    BY <1>1, <1>2, EmptySeq
  <2>2. QED
    BY <1>2, <2>1, SmallRefusing DEF SV!Pop, SV!Abstract!Pop
<1>3. CASE sv.len # 0
  <2>0. /\ sv' = [sv EXCEPT !.len = sv.len - 1] /\ svRet' = SV!Buf[sv.len - 1]
        /\ UNCHANGED <<svInner, svOuter, svHeap>>
    BY <1>3 DEF SV!Pop
  <2>1. /\ Filled(Vals, SV!Buf, sv.len - 1)
        /\ First(SV!Buf, sv.len - 1) = Drop(First(SV!Buf, sv.len), sv.len - 1)
        /\ First(SV!Buf, sv.len) # <<>> /\ First(SV!Buf, sv.len)[sv.len] = SV!Buf[sv.len - 1]
    BY <1>1, <1>3, PoppedFacts
  <2>2. /\ sv.len - 1 \in 0 .. sv.len
        /\ IF sv.inline THEN svInner' = SV!Buf /\ svOuter' = svOuter
           ELSE svOuter' = SV!Buf /\ svInner' = svInner
    BY <1>1, <1>3, <2>0 DEF SV!Buf
  <2>3. SmallInv' /\ SV!items' = First(SV!Buf, sv.len - 1) /\ sv'.cap = sv.cap
    BY <1>1, <2>0, <2>1, <2>2, SmallShortens
  <2>4. /\ SV!items # <<>> /\ SV!items' = SV!Abstract!Dropped(Len(SV!items) - 1)
        /\ svRet' = SV!items[Len(SV!items)]
    BY <1>1, <2>0, <2>1, <2>3 DEF Drop, SV!Abstract!Dropped
  <2>5. ~(Len(SV!items) - 1 >= Len(SV!items)) /\ (Len(SV!items) - 1) + 1 = Len(SV!items)
    BY <1>1
  <2>6. QED
    BY <2>3, <2>4, <2>5 DEF SmallGoal, SV!Abstract!Pop, SV!Abstract!Remove
<1>4. QED
  BY <1>2, <1>3

LEMMA SmallRemoves ==
  ASSUME SmallInv, NEW at \in Nat, SV!Remove(at)
  PROVE  SmallGoal /\ SV!Abstract!Remove(at)
<1>1. /\ sv.len = Len(SV!items) /\ sv.len \in 0 .. sv.cap /\ sv.cap \in Nat /\ sv.len \in Nat
      /\ SV!Buf \in Buffers(sv.cap) /\ Filled(Vals, SV!Buf, sv.len) /\ SV!items = First(SV!Buf, sv.len)
  BY SmallItems
<1>2. CASE at >= sv.len
  BY <1>1, <1>2, SmallRefusing DEF SV!Remove, SV!Abstract!Remove
<1> DEFINE b == Removed(SV!Buf, sv.len, at)
<1>3. CASE at < sv.len
  <2>1. at \in 0 .. sv.len - 1 /\ sv.len - 1 \in 0 .. sv.len /\ ~(at >= sv.len)
    BY <1>1, <1>3
  <2>2. /\ sv' = [sv EXCEPT !.len = sv.len - 1] /\ svRet' = SV!Buf[at] /\ svHeap' = svHeap
        /\ IF sv.inline THEN svInner' = b /\ svOuter' = svOuter
           ELSE svOuter' = b /\ svInner' = svInner
    BY <2>1 DEF SV!Remove, SV!Writes, Removed
  <2>3. /\ b \in Buffers(sv.cap) /\ Filled(Vals, b, sv.len - 1)
        /\ First(b, sv.len - 1) = Drop(First(SV!Buf, sv.len), at)
        /\ SV!Buf[at] = First(SV!Buf, sv.len)[at + 1]
    BY <1>1, <2>1, RemovedFacts
  <2> HIDE DEF b
  <2>4. SmallInv' /\ SV!items' = First(b, sv.len - 1) /\ sv'.cap = sv.cap
    BY <2>1, <2>2, <2>3, SmallShortens
  <2>5. SV!items' = SV!Abstract!Dropped(at) /\ svRet' = SV!items[at + 1]
    BY <1>1, <2>2, <2>3, <2>4 DEF Drop, SV!Abstract!Dropped
  <2>6. QED
    BY <1>1, <2>1, <2>4, <2>5 DEF SmallGoal, SV!Abstract!Remove
<1>4. QED
  BY <1>1, <1>2, <1>3

LEMMA SmallClears ==
  ASSUME SmallInv, SV!Clear
  PROVE  SmallGoal /\ SV!Abstract!Clear
<1>1. sv.len \in Nat /\ sv.cap \in Nat /\ SV!Buf \in Buffers(sv.cap)
  BY SmallItems
<1>2. /\ sv' = [sv EXCEPT !.len = 0] /\ svRet' = "void" /\ svHeap' = svHeap
      /\ IF sv.inline THEN svInner' = SV!Buf /\ svOuter' = svOuter
         ELSE svOuter' = SV!Buf /\ svInner' = svInner
  BY DEF SV!Clear, SV!Buf
<1>3. Filled(Vals, SV!Buf, 0) /\ First(SV!Buf, 0) = <<>>
  <2>1. Filled(Vals, SV!Buf, 0)
    BY DEF Filled
  <2>2. First(SV!Buf, 0) \in Seq(Vals) /\ Len(First(SV!Buf, 0)) = 0
    BY <2>1, FirstFacts
  <2>3. QED
    BY <2>1, <2>2, EmptySeq
<1>4. SmallInv' /\ SV!items' = <<>> /\ sv'.cap = sv.cap
  <2>1. 0 \in 0 .. sv.len
    BY <1>1
  <2>2. QED
    BY <1>1, <1>2, <1>3, <2>1, SmallShortens
<1>5. QED
  BY <1>2, <1>4 DEF SmallGoal, SV!Abstract!Clear

(* An empty vector in its struct. *)
LEMMA SmallEmpty ==
  ASSUME StructuresAssumption, NEW arena \in BOOLEAN, NEW inner \in Buffers(InlineCap)
  PROVE  SmallIs(SV!Opened(arena), inner, inner, SV!NoBlock, 0) /\ First(inner, 0) = <<>>
<1>1. InlineCap \in Nat /\ InlineCap > 0
  BY DEF StructuresAssumption, SV!SmallVecAssumption
<1> DEFINE w == SV!Opened(arena)
<1>2. /\ w \in SmallRecord /\ w.inline /\ w.len = 0 /\ w.cap = InlineCap
  BY <1>1 DEF SV!Opened, SmallRecord
<1> HIDE DEF w
<1>3. SV!NoBlock \in Buffers(0) /\ Filled(Vals, inner, 0)
  BY DEF SV!NoBlock, Buffers, Filled
<1>4. SmallIs(w, inner, inner, SV!NoBlock, 0)
  BY <1>1, <1>2, <1>3 DEF SmallIs
<1>5. First(inner, 0) \in Seq(Vals) /\ Len(First(inner, 0)) = 0
  BY <1>3, FirstFacts
<1>6. QED
  BY <1>4, <1>5, EmptySeq DEF w

LEMMA SmallFrees ==
  ASSUME SmallInv, StructuresAssumption, SV!Free
  PROVE  SmallGoal /\ SV!Abstract!Open(<<>>, sv'.cap) /\ sv'.cap = InlineCap
<1>1. /\ sv' = SV!Opened(FALSE) /\ svOuter' = SV!NoBlock /\ svInner' = svInner /\ svRet' = "opened"
      /\ svHeap' = IF sv.inline \/ sv.arena THEN svHeap ELSE svHeap - 1
  BY DEF SV!Free
<1>2. svHeap = (IF sv.inline \/ sv.arena THEN 0 ELSE 1) /\ svInner \in Buffers(InlineCap)
  BY DEF SmallInv, SmallIs
<1>3. svHeap' = 0
  BY <1>1, <1>2
<1>4. SmallIs(SV!Opened(FALSE), svInner, svInner', svOuter', svHeap') /\ First(svInner, 0) = <<>>
  BY <1>1, <1>2, <1>3, SmallEmpty
<1>5. sv'.len = 0 /\ sv'.cap = InlineCap /\ InlineCap \in Nat
  BY <1>1 DEF SV!Opened, StructuresAssumption, SV!SmallVecAssumption
<1>6. SmallInv' /\ SV!items' = <<>>
  BY <1>1, <1>4, <1>5, SmallBecomes
<1>7. QED
  BY <1>1, <1>5, <1>6 DEF SmallGoal, SV!Abstract!Open

(* What the calls do is among the steps of the abstract vector.            *)
LEMMA SmallAlways ==
  ASSUME SmallInv, SmallInv'
  PROVE  /\ SV!Abstract!Keeps("none") => SV!Abstract!Next
         /\ SV!Abstract!Keeps("refused") => SV!Abstract!Next
         /\ SV!Abstract!Open(<<>>, sv'.cap) => SV!Abstract!Next
<1>1. sv.cap \in Nat /\ sv'.cap \in Nat
  BY DEF SmallInv, SmallIs, SmallRecord
<1>2. ASSUME SV!Abstract!Keeps("none") PROVE SV!Abstract!Next
  BY <1>1, <1>2 DEF SV!Abstract!Keeps, SV!Abstract!FormatFails, SV!Abstract!Next
<1>3. ASSUME SV!Abstract!Keeps("refused") PROVE SV!Abstract!Next
  <2>1. sv'.cap = sv.cap
    BY <1>3 DEF SV!Abstract!Keeps
  <2>2. sv.cap + 1 \in -1 .. sv'.cap + 1 /\ sv.cap + 1 > sv.cap
    BY <1>1, <2>1
  <2>3. SV!Abstract!Reserve(sv.cap + 1)
    BY <1>3, <2>2 DEF SV!Abstract!Reserve
  <2>4. QED
    BY <2>2, <2>3 DEF SV!Abstract!Next
<1>4. ASSUME SV!Abstract!Open(<<>>, sv'.cap) PROVE SV!Abstract!Next
  <2>1. CASE SV!items' = <<>> /\ svRet' = "opened"
    <3>1. SV!items' \in Seq(Vals) /\ Len(SV!items') <= sv'.cap
      BY <1>1, <2>1, EmptySeq
    <3>2. QED
      BY <2>1, <3>1 DEF SV!Abstract!Swap, SV!Abstract!Next
  <2>2. CASE SV!Abstract!Free
    BY <2>2 DEF SV!Abstract!Next
  <2>3. QED
    BY <1>4, <2>1, <2>2 DEF SV!Abstract!Open
<1>5. QED
  BY <1>2, <1>3, <1>4

LEMMA SmallExtended ==
  ASSUME SmallInv, SmallInv', NEW t \in Seq(Vals), Len(t) > 0, SV!Abstract!Extend(t)
  PROVE  SV!Abstract!Next
<1>1. /\ SV!items \in Seq(Vals) /\ Len(SV!items) \in Nat /\ Len(t) \in Nat
      /\ Len(SV!items) \in 0 .. Len(SV!items) /\ t \in [1 .. Len(t) -> Vals]
  BY SmallItems, LenProperties
<1>2. CASE SV!items' = SV!Abstract!Spliced(Len(SV!items), t)
  <2>1. SV!items' = Splice(SV!items, Len(SV!items), t)
    BY <1>2 DEF Splice, SV!Abstract!Spliced
  <2>2. Len(SV!items') = Len(SV!items) + Len(t)
    BY <1>1, <2>1, SpliceLength
  <2>3. Len(t) \in 1 .. Len(SV!items') \cup {sv.cap + 1}
    BY <1>1, <2>2
  <2>4. QED
    BY <1>1, <2>3 DEF SV!Abstract!Next
<1>3. CASE SV!Abstract!Keeps("refused") \/ SV!Abstract!Keeps("none")
  BY <1>3, SmallAlways
<1>4. QED
  BY <1>2, <1>3 DEF SV!Abstract!Extend, SV!Abstract!Adds

LEMMA SmallPlaced ==
  ASSUME SmallInv, SmallInv', NEW n \in Nat,
         \/ \E x \in Vals : SV!Abstract!Insert(n, x) \/ SV!Abstract!Set(n, x)
         \/ SV!Abstract!Remove(n)
  PROVE  SV!Abstract!Next
<1>1. Len(SV!items) \in Nat
  BY SmallItems
<1>2. CASE n <= Len(SV!items)
  <2>1. n \in 0 .. Len(SV!items) + 1 /\ n \in 0 .. Len(SV!items)
    BY <1>1, <1>2
  <2>2. QED
    BY <2>1 DEF SV!Abstract!Next
<1>3. CASE n > Len(SV!items)
  <2>1. n >= Len(SV!items)
    BY <1>1, <1>3
  <2>2. SV!Abstract!Keeps("none")
    BY <1>3, <2>1 DEF SV!Abstract!Insert, SV!Abstract!Set, SV!Abstract!Remove
  <2>3. QED
    BY <2>2, SmallAlways
<1>4. QED
  BY <1>1, <1>2, <1>3

LEMMA SmallStep ==
  ASSUME SmallInv, [SV!Next]_(SV!vars), StructuresAssumption
  PROVE  SmallGoal /\ [SV!Abstract!Next]_(SV!Abstract!vars)
<1>1. SV!Indices \subseteq Nat
  BY DEF SV!Indices, StructuresAssumption, SV!SmallVecAssumption
<1>2. CASE UNCHANGED SV!vars
  <2>1. UNCHANGED <<sv, svInner, svOuter, svHeap, svRet>>
    BY <1>2 DEF SV!vars
  <2>2. QED
    BY <2>1, SmallKeeps DEF SmallGoal, SV!Abstract!vars
<1>3. ASSUME SV!Next PROVE SmallGoal /\ SV!Abstract!Next
  <2>1. ASSUME NEW x \in Vals, SV!Push(x) PROVE SmallGoal /\ SV!Abstract!Next
    BY <2>1, SmallPushes DEF SV!Abstract!Next
  <2>2. ASSUME NEW x \in Vals, NEW at \in SV!Indices, SV!Insert(at, x) \/ SV!SetThroughData(at, x)
        PROVE  SmallGoal /\ SV!Abstract!Next
    BY <1>1, <2>2, SmallInserts, SmallSets, SmallPlaced DEF SmallGoal
  <2>3. ASSUME NEW x \in Vals, NEW y \in Vals, SV!Extend(<<x, y>>) \/ SV!Extend(<<x, y, x>>)
        PROVE  SmallGoal /\ SV!Abstract!Next
    <3>1. /\ <<x, y>> \in Seq(Vals) /\ Len(<<x, y>>) > 0
          /\ <<x, y, x>> \in Seq(Vals) /\ Len(<<x, y, x>>) > 0
      BY Given
    <3>2. QED
      BY <2>3, <3>1, SmallExtends, SmallExtended DEF SmallGoal
  <2>4. ASSUME NEW from \in SV!Indices, NEW n \in SV!Indices, n > 0, SV!ExtendSelf(from, n)
        PROVE  SmallGoal /\ SV!Abstract!Next
    BY <1>1, <2>4, SmallExtendsSelf, SmallExtended DEF SmallGoal
  <2>5. ASSUME NEW at \in SV!Indices, SV!Remove(at) PROVE SmallGoal /\ SV!Abstract!Next
    BY <1>1, <2>5, SmallRemoves, SmallPlaced DEF SmallGoal
  <2>6. ASSUME SV!Pop \/ SV!Clear PROVE SmallGoal /\ SV!Abstract!Next
    BY <2>6, SmallPops, SmallClears DEF SV!Abstract!Next
  <2>7. ASSUME SV!Free PROVE SmallGoal /\ SV!Abstract!Next
    BY <2>7, SmallFrees, SmallAlways DEF SmallGoal
  <2>8. QED
    BY <1>3, <2>1, <2>2, <2>3, <2>4, <2>5, <2>6, <2>7 DEF SV!Next
<1>4. QED
  BY <1>2, <1>3

LEMMA SmallCalls ==
  ASSUME SmallInv, StructuresAssumption
  PROVE  SV!Calls
<1>1. SV!Indices \subseteq Nat
  BY DEF SV!Indices, StructuresAssumption, SV!SmallVecAssumption
<1>2. \A x \in Vals : SV!Push(x) => SV!Abstract!Push(x)
  BY SmallPushes
<1>3. ASSUME NEW x \in Vals, NEW y \in Vals, NEW t \in {<<x, y>>, <<x, y, x>>}
      PROVE  SV!Extend(t) => SV!Abstract!Extend(t)
  <2>1. t \in Seq(Vals)
    BY Given
  <2>2. QED
    BY <2>1, SmallExtends
<1>4. \A from, n \in SV!Indices :
        SV!ExtendSelf(from, n) => SV!Abstract!Extend(SubSeq(SV!items, from + 1, from + n))
  BY <1>1, SmallExtendsSelf
<1>5. \A at \in SV!Indices, x \in Vals :
        /\ SV!Insert(at, x) => SV!Abstract!Insert(at, x)
        /\ SV!SetThroughData(at, x) => SV!Abstract!Set(at, x)
  BY <1>1, SmallInserts, SmallSets
<1>6. \A at \in SV!Indices : SV!Remove(at) => SV!Abstract!Remove(at)
  BY <1>1, SmallRemoves
<1>7. /\ SV!Pop => SV!Abstract!Pop
      /\ SV!Clear => SV!Abstract!Clear
      /\ SV!Free => SV!Abstract!Open(<<>>, InlineCap)
  BY SmallPops, SmallClears, SmallFrees
<1>8. QED
  BY <1>2, <1>3, <1>4, <1>5, <1>6, <1>7 DEF SV!Calls

LEMMA SmallStarts ==
  ASSUME StructuresAssumption, SV!Init
  PROVE  SmallInv /\ SV!Abstract!Init
<1>1. PICK arena \in BOOLEAN : sv = SV!Opened(arena)
  BY DEF SV!Init
<1>2. /\ svInner = [k \in 0 .. InlineCap - 1 |-> Junk] /\ svOuter = SV!NoBlock /\ svHeap = 0
      /\ svRet = "opened" /\ sv.inline /\ sv.len = 0 /\ sv.cap = InlineCap /\ InlineCap \in Nat
  BY <1>1 DEF SV!Init, SV!Opened, StructuresAssumption, SV!SmallVecAssumption
<1>3. svInner \in Buffers(InlineCap) /\ SV!Buf = svInner
  BY <1>2 DEF Buffers, SV!Buf
<1>4. SmallInv
  BY <1>1, <1>2, <1>3, SmallEmpty DEF SmallInv
<1>5. SV!items = <<>>
  BY <1>2, <1>4, SmallItems, EmptySeq
<1>6. QED
  BY <1>2, <1>4, <1>5 DEF SV!Abstract!Init

LEMMA SmallServes == StructuresSpec => []SmallInv /\ SV!SpillsAtMostOnce
<1>1. StructuresInit => SmallInv /\ SV!Abstract!Init
  BY PartsStart, SmallStarts, StructuresAssumption
<1>2. SmallInv /\ [StructuresNext]_allVars =>
        /\ SmallInv' /\ [SV!Abstract!Next]_(SV!Abstract!vars)
        /\ [(~sv.inline /\ sv'.cap # sv.cap) => sv' = SV!Opened(FALSE)]_(SV!vars)
  BY PartsStep, SmallStep, StructuresAssumption DEF SmallGoal
<1>3. SmallInv => [SV!Calls]_(SV!vars)
  BY SmallCalls, StructuresAssumption
<1>4. QED
  BY <1>1, <1>2, <1>3, PTL DEF StructuresSpec, SV!SpillsAtMostOnce, SV!Abstract!Spec

(* SmallVec's block is out exactly while the vector is in it.              *)
THEOREM SmallVecOneBlock == StructuresSpec => []OneBlockOut
<1>1. SmallInv => OneBlockOut
  BY SmallSays DEF OneBlockOut
<1>2. QED
  BY <1>1, SmallServes, PTL

-----------------------------------------------------------------------------
(* Borrows of a buffer: what the token says of one, and what is true.      *)
Loans == [taken : BOOLEAN, sameId : BOOLEAN, sameStorage : BOOLEAN]
Tells(loan, open) ==
  loan \in Loans /\ (loan.taken => ((open /\ loan.sameId) = loan.sameStorage))
Lent(loan, restamped, moved) ==
  [loan EXCEPT !.sameId = @ /\ ~restamped, !.sameStorage = @ /\ ~moved]

LEMMA LentFacts ==
  ASSUME NEW loan \in Loans, NEW restamped \in BOOLEAN, NEW moved \in BOOLEAN
  PROVE  /\ Lent(loan, restamped, moved) \in Loans
         /\ Lent(loan, restamped, moved).taken = loan.taken
         /\ Lent(loan, restamped, moved).sameId = (loan.sameId /\ ~restamped)
         /\ Lent(loan, restamped, moved).sameStorage = (loan.sameStorage /\ ~moved)
<1>1. loan.sameId \in BOOLEAN /\ loan.sameStorage \in BOOLEAN
  BY DEF Loans
<1> DEFINE x == loan.sameId /\ ~restamped
           y == loan.sameStorage /\ ~moved
<1>2. x \in BOOLEAN /\ y \in BOOLEAN
  OBVIOUS
<1>3. Lent(loan, restamped, moved) = [loan EXCEPT !.sameId = x, !.sameStorage = y]
  BY DEF Lent
<1> HIDE DEF x, y
<1>4. /\ Lent(loan, restamped, moved) \in Loans
      /\ Lent(loan, restamped, moved).taken = loan.taken
      /\ Lent(loan, restamped, moved).sameId = x
      /\ Lent(loan, restamped, moved).sameStorage = y
  BY <1>2, <1>3 DEF Loans
<1>5. QED
  BY <1>4 DEF x, y

(* The token is restamped exactly if the storage moved. *)
LEMMA TellsMove ==
  ASSUME NEW loan, NEW open \in BOOLEAN, Tells(loan, open), NEW moved \in BOOLEAN
  PROVE  Tells(Lent(loan, moved, moved), open)
<1>1. loan \in Loans /\ (loan.taken => ((open /\ loan.sameId) = loan.sameStorage))
  BY DEF Tells
<1> DEFINE l == Lent(loan, moved, moved)
<1>2. /\ l \in Loans /\ l.taken = loan.taken /\ l.sameId = (loan.sameId /\ ~moved)
      /\ l.sameStorage = (loan.sameStorage /\ ~moved)
  BY <1>1, LentFacts
<1> HIDE DEF l
<1>3. Tells(l, open)
  BY <1>1, <1>2 DEF Tells, Loans
<1>4. QED
  BY <1>3 DEF l

(* The storage is gone, and the token is another's or nobody's. *)
LEMMA TellsEnd ==
  ASSUME NEW loan \in Loans, NEW open \in BOOLEAN, NEW restamped \in BOOLEAN, restamped \/ ~open
  PROVE  Tells(Lent(loan, restamped, TRUE), open)
<1> DEFINE l == Lent(loan, restamped, TRUE)
<1>1. /\ l \in Loans /\ l.taken = loan.taken /\ l.sameId = (loan.sameId /\ ~restamped)
      /\ l.sameStorage = (loan.sameStorage /\ ~TRUE)
  BY LentFacts
<1> HIDE DEF l
<1>2. Tells(l, open)
  BY <1>1 DEF Tells, Loans
<1>3. QED
  BY <1>2 DEF l

(* A borrow is taken. *)
LEMMA TellsTaken ==
  Tells([taken |-> TRUE, sameId |-> TRUE, sameStorage |-> TRUE], TRUE)
BY DEF Tells, Loans

LEMMA TellsNone ==
  \A open \in BOOLEAN : Tells([taken |-> FALSE, sameId |-> FALSE, sameStorage |-> FALSE], open)
BY DEF Tells, Loans

-----------------------------------------------------------------------------
(* DynVec. *)
DynRecord == [data : VecAddrs \cup {0}, len : Nat, cap : Nat, open : BOOLEAN]

(* The vector is w and the allocator's blocks are b. *)
DynIs(w, b) ==
  /\ w \in DynRecord /\ w.len <= w.cap /\ w.cap * ElemSize <= UsizeMax
  /\ (w.data = 0) = (w.cap = 0)
  /\ ~w.open => w.data = 0
  /\ b \in [VecAddrs -> AnyBuffer]
  /\ \A a \in VecAddrs : b[a] \in Buffers(IF a = w.data THEN w.cap ELSE 0)
  /\ Filled(Vals, b[w.data], w.len)

DynInv == DynIs(dv, dvBlock) /\ Tells(dvLoan, dv.open)

LEMMA DynAssumed ==
  ASSUME StructuresAssumption
  PROVE  /\ VecInitial \in Nat /\ VecInitial > 0 /\ ElemSize \in Nat /\ ElemSize > 0
         /\ UsizeMax \in Nat /\ 0 \notin VecAddrs
BY DEF StructuresAssumption, DV!DynVecAssumption

LEMMA DynSays ==
  ASSUME DynInv
  PROVE  DV!TypeOK /\ DV!BorrowTellsMoves
BY DEF DynInv, DynIs, DynRecord, Tells, Buffers, DV!TypeOK, DV!BorrowTellsMoves

LEMMA DynText ==
  ASSUME StructuresAssumption, NEW w, NEW b, DynIs(w, b)
  PROVE  /\ First(b[w.data], w.len) \in Seq(Vals) /\ Len(First(b[w.data], w.len)) = w.len
         /\ w.len \in Nat /\ w.cap \in Nat /\ w.len <= w.cap /\ Filled(Vals, b[w.data], w.len)
         /\ w.cap > 0 => w.data \in VecAddrs /\ b[w.data] \in Buffers(w.cap)
         /\ w.cap = 0 => First(b[w.data], w.len) = <<>>
<1>1. /\ w.len \in Nat /\ w.cap \in Nat /\ w.len <= w.cap /\ Filled(Vals, b[w.data], w.len)
      /\ w.data \in VecAddrs \cup {0} /\ (w.data = 0) = (w.cap = 0)
  BY DEF DynIs, DynRecord
<1>2. First(b[w.data], w.len) \in Seq(Vals) /\ Len(First(b[w.data], w.len)) = w.len
  BY <1>1, FirstFacts
<1>3. w.cap > 0 => w.data \in VecAddrs /\ b[w.data] \in Buffers(w.cap)
  BY <1>1 DEF DynIs
<1>4. w.cap = 0 => First(b[w.data], w.len) = <<>>
  BY <1>1, <1>2, EmptySeq
<1>5. QED
  BY <1>1, <1>2, <1>3, <1>4

LEMMA DynByte ==
  ASSUME StructuresAssumption, DynIs(dv, dvBlock), NEW k \in 0 .. dv.len - 1
  PROVE  DV!Byte(dv.data, k) = dvBlock[dv.data][k] /\ dvBlock[dv.data][k] \in Vals
<1>1. /\ dv.len \in Nat /\ dv.cap \in Nat /\ dv.len <= dv.cap /\ Filled(Vals, dvBlock[dv.data], dv.len)
      /\ dv.cap > 0 => dv.data \in VecAddrs /\ dvBlock[dv.data] \in Buffers(dv.cap)
  BY DynText
<1>2. k \in 0 .. dv.cap - 1 /\ dv.cap > 0
  BY <1>1
<1>3. dvBlock[dv.data] \in [0 .. dv.cap - 1 -> Vals \cup {Junk}] /\ dv.data # 0
  BY <1>1, <1>2, DynAssumed DEF Buffers
<1>4. QED
  BY <1>1, <1>2, <1>3 DEF DV!Byte, Filled

LEMMA DynItems ==
  ASSUME StructuresAssumption, DynIs(dv, dvBlock)
  PROVE  DV!items = First(dvBlock[dv.data], dv.len)
<1>1. dv.len \in Nat
  BY DEF DynIs, DynRecord
<1>2. \A i \in 1 .. dv.len : DV!Byte(dv.data, i - 1) = dvBlock[dv.data][i - 1]
  BY <1>1, DynByte
<1>3. QED
  BY <1>2 DEF DV!items, First

LEMMA DynItemsNext ==
  ASSUME StructuresAssumption, DynIs(dv', dvBlock')
  PROVE  DV!items' = First(dvBlock'[dv'.data], dv'.len)
<1>1. /\ dv'.len \in Nat /\ dv'.cap \in Nat /\ dv'.len <= dv'.cap
      /\ dv'.cap > 0 => dv'.data \in VecAddrs /\ dvBlock'[dv'.data] \in Buffers(dv'.cap)
  BY DynText
<1>2. ASSUME NEW i \in 1 .. dv'.len
      PROVE  DV!Byte(dv.data, i - 1)' = dvBlock'[dv'.data][i - 1]
  <2>1. i - 1 \in 0 .. dv'.cap - 1 /\ dv'.cap > 0
    BY <1>1
  <2>2. dvBlock'[dv'.data] \in [0 .. dv'.cap - 1 -> Vals \cup {Junk}] /\ dv'.data # 0
    BY <1>1, <2>1, DynAssumed DEF Buffers
  <2>3. QED
    BY <2>1, <2>2 DEF DV!Byte
<1>3. QED
  BY <1>2 DEF DV!items, First, DV!Byte

LEMMA DynAs ==
  ASSUME StructuresAssumption, DynIs(dv, dvBlock)
  PROVE  /\ DV!items = First(dvBlock[dv.data], dv.len)
         /\ DV!items \in Seq(Vals) /\ Len(DV!items) = dv.len
         /\ dv.len \in Nat /\ dv.cap \in Nat /\ dv.len <= dv.cap /\ Filled(Vals, dvBlock[dv.data], dv.len)
         /\ dv.cap > 0 => dv.data \in VecAddrs /\ dvBlock[dv.data] \in Buffers(dv.cap)
         /\ dv.open \in BOOLEAN /\ dv.data \in VecAddrs \cup {0} /\ (dv.data = 0) = (dv.cap = 0)
<1>1. DV!items = First(dvBlock[dv.data], dv.len)
  BY DynItems
<1>2. /\ First(dvBlock[dv.data], dv.len) \in Seq(Vals) /\ Len(First(dvBlock[dv.data], dv.len)) = dv.len
      /\ dv.len \in Nat /\ dv.cap \in Nat /\ dv.len <= dv.cap /\ Filled(Vals, dvBlock[dv.data], dv.len)
      /\ dv.cap > 0 => dv.data \in VecAddrs /\ dvBlock[dv.data] \in Buffers(dv.cap)
  BY DynText
<1>3. dv.open \in BOOLEAN /\ dv.data \in VecAddrs \cup {0} /\ (dv.data = 0) = (dv.cap = 0)
  BY DEF DynIs, DynRecord
<1>4. QED
  BY <1>1, <1>2, <1>3

(* The block is another, of n elements, and holds the first of the old.    *)
DynReallocs(w, b, a, n) ==
  /\ DynIs(dv, dvBlock) /\ dv.open /\ a \in VecAddrs
  /\ n \in Nat /\ n > 0 /\ n * ElemSize <= UsizeMax /\ dv.len <= n
  /\ w = [dv EXCEPT !.data = a, !.cap = n] /\ b = DV!Moved(dv.data, a, n)

DynMoved(w, b, a, n) ==
  /\ w.data = a /\ w.cap = n /\ w.len = dv.len /\ w.open
  /\ DynIs(w, b) /\ First(b[a], dv.len) = DV!items

LEMMA DynMoves ==
  ASSUME StructuresAssumption, NEW w, NEW b, NEW a, NEW n, DynReallocs(w, b, a, n)
  PROVE  DynMoved(w, b, a, n)
<1>0. /\ DynIs(dv, dvBlock) /\ dv.open /\ a \in VecAddrs
      /\ n \in Nat /\ n > 0 /\ n * ElemSize <= UsizeMax /\ dv.len <= n
      /\ w = [dv EXCEPT !.data = a, !.cap = n] /\ b = DV!Moved(dv.data, a, n)
  BY DEF DynReallocs
<1>1. /\ dv \in DynRecord /\ dvBlock \in [VecAddrs -> AnyBuffer]
      /\ \A x \in VecAddrs : dvBlock[x] \in Buffers(IF x = dv.data THEN dv.cap ELSE 0)
  BY <1>0 DEF DynIs
<1>2. w \in DynRecord /\ w.data = a /\ w.cap = n /\ w.len = dv.len /\ w.open
  BY <1>0, <1>1, DynAssumed DEF DynRecord
<1>3. /\ dv.len \in Nat /\ dv.cap \in Nat /\ dv.len <= dv.cap /\ DV!items \in Seq(Vals)
      /\ Len(DV!items) = dv.len /\ DV!items = First(dvBlock[dv.data], dv.len)
      /\ Filled(Vals, dvBlock[dv.data], dv.len)
  BY <1>0, DynAs
<1> DEFINE r == DV!Resized(dv.data, n)
<1>4. r = [k \in 0 .. n - 1 |-> DV!Byte(dv.data, k)]
  BY DEF DV!Resized
<1> HIDE DEF r
<1>5. \A k \in 0 .. dv.len - 1 : r[k] = dvBlock[dv.data][k] /\ r[k] \in Vals
  <2> SUFFICES ASSUME NEW k \in 0 .. dv.len - 1
               PROVE  r[k] = dvBlock[dv.data][k] /\ r[k] \in Vals
    OBVIOUS
  <2>1. k \in 0 .. n - 1
    BY <1>0, <1>3
  <2>2. QED
    BY <1>0, <1>4, <2>1, DynByte
<1>6. r \in Buffers(n) /\ Filled(Vals, r, dv.len)
  <2>1. ASSUME NEW k \in 0 .. n - 1 PROVE DV!Byte(dv.data, k) \in Vals \cup {Junk}
    <3>1. CASE dv.data # 0 /\ k \in DOMAIN dvBlock[dv.data]
      <4>1. dv.data \in VecAddrs /\ dvBlock[dv.data] \in [0 .. dv.cap - 1 -> Vals \cup {Junk}]
        BY <1>1, <3>1 DEF DynRecord, Buffers
      <4>2. QED
        BY <3>1, <4>1 DEF DV!Byte
    <3>2. CASE ~(dv.data # 0 /\ k \in DOMAIN dvBlock[dv.data])
      BY <3>2 DEF DV!Byte
    <3>3. QED
      BY <3>1, <3>2
  <2>2. r \in Buffers(n)
    BY <1>0, <1>4, <2>1 DEF Buffers
  <2>3. Filled(Vals, r, dv.len)
    BY <1>5 DEF Filled
  <2>4. QED
    BY <2>2, <2>3
<1>7. First(r, dv.len) = DV!items
  <2>1. ASSUME NEW k \in 1 .. dv.len PROVE DV!items[k] = r[k - 1]
    <3>1. k - 1 \in 0 .. dv.len - 1
      BY <1>3
    <3>2. DV!items[k] = dvBlock[dv.data][k - 1]
      BY <1>3, FirstFacts
    <3>3. QED
      BY <1>5, <3>1, <3>2
  <2>2. QED
    BY <1>3, <1>6, <2>1, FirstIs
<1>8. b = [x \in VecAddrs |-> IF x = a THEN r ELSE IF x = dv.data THEN DV!NoBlock ELSE dvBlock[x]]
  BY <1>0 DEF DV!Moved, r
<1>9. DV!NoBlock \in Buffers(0)
  BY DEF DV!NoBlock, Buffers
<1>10. ASSUME NEW x \in VecAddrs PROVE b[x] \in Buffers(IF x = a THEN n ELSE 0)
  BY <1>0, <1>1, <1>6, <1>8, <1>9
<1>11. b \in [VecAddrs -> AnyBuffer]
  <2>1. ASSUME NEW x \in VecAddrs PROVE b[x] \in AnyBuffer
    <3>1. PICK k \in Nat : b[x] \in Buffers(k)
      BY <1>0, <1>10
    <3>2. QED
      BY <3>1, BufferIn
  <2>2. QED
    BY <1>8, <2>1
<1>12. b[a] = r
  BY <1>0, <1>8
<1>13. (w.data = 0) = (w.cap = 0) /\ w.len <= w.cap
  BY <1>0, <1>2, <1>3, DynAssumed
<1>14. DynIs(w, b)
  BY <1>0, <1>2, <1>6, <1>10, <1>11, <1>12, <1>13 DEF DynIs
<1>15. QED
  BY <1>2, <1>7, <1>12, <1>14 DEF DynMoved

LEMMA DynRoom ==
  ASSUME StructuresAssumption, DynIs(dv, dvBlock), dv.open, NEW n \in Nat, NEW g \in DV!WithRoom(n)
  PROVE  /\ DynIs(g.v, g.block) /\ g.v.open /\ g.v.len = dv.len /\ g.v.cap >= n /\ g.v.cap \in Nat
         /\ n <= dv.cap => g.v = dv
         /\ First(g.block[g.v.data], dv.len) = DV!items /\ Filled(Vals, g.block[g.v.data], dv.len)
         /\ g.restamped = (g.v.data # dv.data)
<1>1. /\ dv.len \in Nat /\ dv.cap \in Nat /\ dv.len <= dv.cap
      /\ DV!items = First(dvBlock[dv.data], dv.len) /\ Filled(Vals, dvBlock[dv.data], dv.len)
  BY DynAs
<1>2. CASE n <= dv.cap
  <2>1. g = [v |-> dv, block |-> dvBlock, restamped |-> FALSE]
    BY <1>2 DEF DV!WithRoom
  <2>2. g.v = dv /\ g.block = dvBlock /\ g.restamped = FALSE
    BY <2>1
  <2>3. QED
    BY <1>1, <1>2, <2>2
<1>3. CASE n > dv.cap
  <2> DEFINE c == DV!NewCap(n)
  <2>1. ~(n <= dv.cap)
    BY <1>1, <1>3
  <2>2. PICK a \in VecAddrs : DV!Fits(c) /\ g = DV!Grown(n, a)
    BY <2>1 DEF DV!WithRoom
  <2>3. c \in Nat /\ c >= n
    BY <1>1, <1>3, DynAssumed DEF DV!NewCap
  <2>4. c * ElemSize <= UsizeMax
    BY <2>2 DEF DV!Fits
  <2> DEFINE w == [dv EXCEPT !.data = a, !.cap = c]
             b == DV!Moved(dv.data, a, c)
  <2>5. g.v = w /\ g.block = b /\ g.restamped = (a # dv.data)
    BY <2>2 DEF DV!Grown
  <2> HIDE DEF c
  <2>6. c > 0 /\ dv.len <= c
    BY <1>1, <1>3, <2>3
  <2>7. /\ w.data = a /\ w.cap = c /\ w.len = dv.len /\ w.open
        /\ DynIs(w, b) /\ First(b[a], dv.len) = DV!items
    <3>1. DynReallocs(w, b, a, c)
      BY <2>3, <2>4, <2>6 DEF DynReallocs
    <3> HIDE DEF w, b
    <3>2. DynMoved(w, b, a, c)
      BY <3>1, DynMoves
    <3>3. QED
      BY <3>2 DEF DynMoved
  <2> HIDE DEF w, b
  <2>8. Filled(Vals, b[a], dv.len)
    BY <2>7 DEF DynIs
  <2>9. QED
    BY <2>1, <2>3, <2>5, <2>7, <2>8
<1>4. QED
  BY <1>1, <1>2, <1>3

(* The buffer of w becomes c, and its length n. *)
DynWritten(w, b, n, c, w2, b2) ==
  /\ DynIs(w, b) /\ w.cap > 0
  /\ n \in 0 .. w.cap /\ c \in Buffers(w.cap) /\ Filled(Vals, c, n)
  /\ w2 \in DynRecord /\ w2.len = n /\ w2.cap = w.cap /\ w2.data = w.data /\ w2.open = w.open
  /\ b2 \in [VecAddrs -> AnyBuffer]
  /\ \A a \in VecAddrs : b2[a] = IF a = w.data THEN c ELSE b[a]

LEMMA DynWrites ==
  ASSUME StructuresAssumption, NEW w, NEW b, NEW n, NEW c, NEW w2, NEW b2,
         DynWritten(w, b, n, c, w2, b2)
  PROVE  DynIs(w2, b2) /\ First(b2[w2.data], w2.len) = First(c, n)
<1> USE DEF DynWritten
<1>1. /\ w \in DynRecord /\ w.cap * ElemSize <= UsizeMax /\ w.cap \in Nat
      /\ (w.data = 0) = (w.cap = 0) /\ (~w.open => w.data = 0)
      /\ \A a \in VecAddrs : b[a] \in Buffers(IF a = w.data THEN w.cap ELSE 0)
  BY DEF DynIs, DynRecord
<1>2. w.data \in VecAddrs /\ n \in Nat /\ n <= w.cap
  BY <1>1, DynText
<1>3. b2[w2.data] = c
  BY <1>2
<1>4. \A a \in VecAddrs : b2[a] \in Buffers(IF a = w2.data THEN w2.cap ELSE 0)
  BY <1>1
<1>5. DynIs(w2, b2)
  BY <1>1, <1>2, <1>3, <1>4 DEF DynIs
<1>6. QED
  BY <1>3, <1>5

(* Elements are given up. *)
LEMMA DynShortens ==
  ASSUME NEW w, NEW b, DynIs(w, b), NEW n \in 0 .. w.len, NEW w2, w2 = [w EXCEPT !.len = n]
  PROVE  /\ DynIs(w2, b) /\ w2.len = n /\ w2.cap = w.cap /\ w2.data = w.data /\ w2.open = w.open
<1>1. /\ w \in DynRecord /\ w.len \in Nat /\ w.cap \in Nat /\ w.len <= w.cap
      /\ Filled(Vals, b[w.data], w.len)
  BY DEF DynIs, DynRecord
<1>2. n \in Nat /\ n <= w.cap /\ Filled(Vals, b[w.data], n)
  BY <1>1 DEF Filled
<1>3. /\ w2 \in DynRecord /\ w2.len = n /\ w2.cap = w.cap /\ w2.data = w.data /\ w2.open = w.open
  BY <1>1, <1>2 DEF DynRecord
<1>4. QED
  BY <1>1, <1>2, <1>3 DEF DynIs

(* There is no block. *)
LEMMA DynEmpty ==
  ASSUME StructuresAssumption, DynIs(dv, dvBlock), NEW open \in BOOLEAN,
         NEW w, w = [data |-> 0, len |-> 0, cap |-> 0, open |-> open]
  PROVE  DynIs(w, DV!Moved(dv.data, 0, 0))
<1> DEFINE b == DV!Moved(dv.data, 0, 0)
<1>1. w \in DynRecord /\ w.data = 0 /\ w.len = 0 /\ w.cap = 0 /\ w.open = open
  BY DEF DynRecord
<1>2. \A x \in VecAddrs : dvBlock[x] \in Buffers(IF x = dv.data THEN dv.cap ELSE 0)
  BY DEF DynIs
<1>3. b = [x \in VecAddrs |-> IF x = dv.data THEN DV!NoBlock ELSE dvBlock[x]]
  BY DynAssumed DEF DV!Moved
<1> HIDE DEF b
<1>4. DV!NoBlock \in Buffers(0)
  BY DEF DV!NoBlock, Buffers
<1>5. \A x \in VecAddrs : b[x] \in Buffers(0)
  BY <1>2, <1>3, <1>4
<1>6. b \in [VecAddrs -> AnyBuffer]
  BY <1>3, <1>5, BufferIn
<1>7. 0 * ElemSize <= UsizeMax
  BY DynAssumed
<1>8. Filled(Vals, b[0], 0)
  BY DEF Filled
<1>9. DynIs(w, b)
  BY <1>1, <1>5, <1>6, <1>7, <1>8, DynAssumed DEF DynIs
<1>10. QED
  BY <1>9 DEF b

(* A new block for a vector that has none. *)
LEMMA DynFresh ==
  ASSUME StructuresAssumption, DynIs(dv, dvBlock), dv.data = 0, NEW a \in VecAddrs,
         NEW n \in Nat, n > 0, n * ElemSize <= UsizeMax,
         NEW w, w = [data |-> a, len |-> 0, cap |-> n, open |-> TRUE]
  PROVE  DynIs(w, DV!Moved(0, a, n))
<1> DEFINE b == DV!Moved(0, a, n)
<1>1. w \in DynRecord /\ w.data = a /\ w.len = 0 /\ w.cap = n /\ w.open
  BY DEF DynRecord
<1>2. \A x \in VecAddrs : dvBlock[x] \in Buffers(0)
  BY DynAssumed DEF DynIs
<1> DEFINE r == DV!Resized(0, n)
<1>3. r \in Buffers(n)
  BY DEF DV!Resized, DV!Byte, Buffers
<1>4. b = [x \in VecAddrs |-> IF x = a THEN r ELSE dvBlock[x]]
  BY DynAssumed DEF DV!Moved
<1> HIDE DEF b, r
<1>5. \A x \in VecAddrs : b[x] \in Buffers(IF x = a THEN n ELSE 0)
  BY <1>2, <1>3, <1>4
<1>6. b \in [VecAddrs -> AnyBuffer]
  <2>1. ASSUME NEW x \in VecAddrs PROVE b[x] \in AnyBuffer
    <3>1. PICK k \in Nat : b[x] \in Buffers(k)
      BY <1>5
    <3>2. QED
      BY <3>1, BufferIn
  <2>2. QED
    BY <1>4, <2>1
<1>7. Filled(Vals, b[a], 0)
  BY DEF Filled
<1>8. (w.data = 0) = (w.cap = 0) /\ w.len <= w.cap
  BY <1>1, DynAssumed
<1>9. DynIs(w, b)
  BY <1>1, <1>5, <1>6, <1>7, <1>8 DEF DynIs
<1>10. QED
  BY <1>9 DEF b

-----------------------------------------------------------------------------
LEMMA DynKeeps ==
  ASSUME DynInv, UNCHANGED <<dv, dvBlock, dvLoan>>
  PROVE  DynInv' /\ DV!items' = DV!items /\ dv' = dv
BY DEF DynInv, DV!items, DV!Byte

LEMMA DynRefuses ==
  ASSUME StructuresAssumption, DynInv, NEW answer, DV!Returns(answer)
  PROVE  DynInv' /\ DV!Abstract!Keeps(answer)
<1>1. UNCHANGED <<dv, dvBlock, dvLoan>> /\ dvRet' = answer
  BY DEF DV!Returns
<1>2. DynInv' /\ DV!items' = DV!items /\ dv' = dv
  BY <1>1, DynKeeps
<1>3. QED
  BY <1>1, <1>2 DEF DV!Abstract!Keeps

(* The token of a call that restamps it exactly if the storage moves. *)
LEMMA DynTells ==
  ASSUME Tells(dvLoan, dv.open), dv.open \in BOOLEAN, NEW moved \in BOOLEAN, DV!Lends(moved, moved),
         dv'.open = dv.open
  PROVE  Tells(dvLoan', dv'.open)
<1>1. dvLoan' = Lent(dvLoan, moved, moved)
  BY DEF DV!Lends, Lent
<1>2. QED
  BY <1>1, TellsMove

(* The token of a call that ends every borrow. *)
LEMMA DynEnds ==
  ASSUME Tells(dvLoan, dv.open), NEW restamped \in BOOLEAN, DV!Lends(restamped, TRUE),
         dv'.open \in BOOLEAN, restamped \/ ~dv'.open
  PROVE  Tells(dvLoan', dv'.open)
<1>1. dvLoan' = Lent(dvLoan, restamped, TRUE) /\ dvLoan \in Loans
  BY DEF DV!Lends, Lent, Tells
<1>2. QED
  BY <1>1, TellsEnd

LEMMA DynPuts ==
  ASSUME StructuresAssumption, DynInv, dv.open, NEW t \in Seq(Vals), Len(t) > 0,
         NEW at \in 0 .. dv.len, NEW g \in DV!WithRoom(dv.len + Len(t)), DV!Puts(g, at, t)
  PROVE  /\ DynInv' /\ DV!items' = Splice(DV!items, at, t) /\ dvRet' = "ok"
         /\ dv'.cap >= dv.len + Len(t)
         /\ dv.len + Len(t) <= dv.cap => dv'.cap = dv.cap
<1> DEFINE m == Len(t)
           n == dv.len + m
           w == g.v
           b == g.block
<1>1. /\ DynIs(dv, dvBlock) /\ Tells(dvLoan, dv.open) /\ m \in Nat /\ m > 0
      /\ dv.len \in Nat /\ n \in Nat /\ n > 0 /\ dv.len <= n
  BY DynAs, LenProperties DEF DynInv
<1>2. /\ DynIs(w, b) /\ w.open /\ w.len = dv.len /\ w.cap >= n /\ w.cap \in Nat
      /\ n <= dv.cap => w = dv
      /\ First(b[w.data], dv.len) = DV!items /\ Filled(Vals, b[w.data], dv.len)
      /\ g.restamped = (w.data # dv.data)
  BY <1>1, DynRoom
<1>3. /\ dv' = [w EXCEPT !.len = w.len + m] /\ dvRet' = "ok"
      /\ dvBlock' = [b EXCEPT ![w.data] = Spread(b[w.data], dv.len, at, t)]
      /\ DV!Lends(g.restamped, w.data # dv.data)
  BY DEF DV!Puts, DV!Takes, DV!Spread, Spread
<1> HIDE DEF m, w, b
<1> DEFINE c == Spread(b[w.data], dv.len, at, t)
<1>4. w.cap > 0 /\ w.data \in VecAddrs /\ b[w.data] \in Buffers(w.cap)
  BY <1>1, <1>2, DynText
<1>5. c \in Buffers(w.cap) /\ Filled(Vals, c, n) /\ First(c, n) = Splice(DV!items, at, t)
  BY <1>1, <1>2, <1>4, SpreadFacts DEF m
<1> HIDE DEF c
<1>6. dv' = [w EXCEPT !.len = n] /\ dvBlock' = [b EXCEPT ![w.data] = c] /\ n \in 0 .. w.cap
  BY <1>1, <1>2, <1>3 DEF c
<1> HIDE DEF n
<1>7. /\ dv' \in DynRecord /\ dv'.len = n /\ dv'.cap = w.cap /\ dv'.data = w.data
      /\ dv'.open = w.open /\ dvBlock' \in [VecAddrs -> AnyBuffer]
      /\ \A a \in VecAddrs : dvBlock'[a] = IF a = w.data THEN c ELSE b[a]
  <2>1. w \in DynRecord /\ n \in Nat /\ b \in [VecAddrs -> AnyBuffer] /\ c \in AnyBuffer
    BY <1>2, <1>5, <1>6, BufferIn DEF DynIs
  <2>2. dv' \in DynRecord /\ dv'.len = n /\ dv'.cap = w.cap /\ dv'.data = w.data /\ dv'.open = w.open
    BY <1>6, <2>1 DEF DynRecord
  <2>3. QED
    BY <1>4, <1>6, <2>1, <2>2
<1>8. DynIs(dv', dvBlock') /\ DV!items' = First(c, n)
  <2>1. DynIs(dv', dvBlock') /\ First(dvBlock'[dv'.data], dv'.len) = First(c, n)
    <3>1. n \in 0 .. w.cap
      BY <1>6
    <3>2. DynWritten(w, b, n, c, dv', dvBlock')
      BY <1>2, <1>4, <1>5, <1>7, <3>1 DEF DynWritten
    <3>3. QED
      BY <3>2, DynWrites
  <2>2. QED
    BY <2>1, DynItemsNext
<1>9. Tells(dvLoan', dv'.open)
  <2> DEFINE moved == w.data # dv.data
  <2>1. moved \in BOOLEAN /\ DV!Lends(moved, moved) /\ dv'.open = dv.open /\ dv.open \in BOOLEAN
    BY <1>1, <1>2, <1>3, <1>7 DEF DynIs, DynRecord
  <2> HIDE DEF moved
  <2>2. QED
    BY <1>1, <2>1, DynTells
<1>10. QED
  BY <1>2, <1>3, <1>5, <1>7, <1>8, <1>9 DEF DynInv, n, m

LEMMA DynAdds ==
  ASSUME StructuresAssumption, DynInv, dv.open, NEW t \in Seq(Vals), Len(t) > 0,
         NEW at \in 0 .. dv.len, NEW refusal,
         \/ \E g \in DV!WithRoom(dv.len + Len(t)) : DV!Puts(g, at, t)
         \/ DV!GrowFails(dv.len + Len(t), refusal)
  PROVE  DynInv' /\ DV!Abstract!Adds(at, t, refusal)
<1>1. /\ Len(DV!items) = dv.len /\ DV!items \in Seq(Vals) /\ at \in 0 .. Len(DV!items)
      /\ dv.cap \in Nat /\ dv.len \in Nat
  BY DynAs DEF DynInv
<1>2. CASE \E g \in DV!WithRoom(dv.len + Len(t)) : DV!Puts(g, at, t)
  <2>1. /\ DynInv' /\ DV!items' = Splice(DV!items, at, t) /\ dvRet' = "ok"
        /\ dv'.cap >= dv.len + Len(t)
        /\ dv.len + Len(t) <= dv.cap => dv'.cap = dv.cap
    BY <1>2, DynPuts
  <2>2. DV!items' = DV!Abstract!Spliced(at, t)
    BY <2>1 DEF Splice, DV!Abstract!Spliced
  <2>3. dv'.cap >= Len(DV!items) + Len(t) /\ (Len(DV!items) + Len(t) <= dv.cap => dv'.cap = dv.cap)
    <3>1. dv.len = Len(DV!items)
      BY <1>1
    <3>2. QED
      BY <2>1, <3>1
  <2>4. DV!Abstract!Adds(at, t, refusal)
    BY <2>1, <2>2, <2>3 DEF DV!Abstract!Adds
  <2>5. QED
    BY <2>1, <2>4
<1>3. CASE DV!GrowFails(dv.len + Len(t), refusal)
  <2>1. dv.len + Len(t) > dv.cap /\ DV!Returns(refusal)
    BY <1>3 DEF DV!GrowFails
  <2>2. QED
    BY <1>1, <2>1, DynRefuses DEF DV!Abstract!Adds
<1>4. QED
  BY <1>2, <1>3

LEMMA DynPushes ==
  ASSUME StructuresAssumption, DynInv, NEW x \in Vals, DV!Push(x)
  PROVE  DynInv' /\ DV!Abstract!Push(x)
<1>1. <<x>> \in Seq(Vals) /\ Len(<<x>>) = 1 /\ dv.len \in 0 .. dv.len /\ dv.len = Len(DV!items) /\ dv.open
  BY Given, DynAs DEF DynInv, DV!Push
<1>2. \/ \E g \in DV!WithRoom(dv.len + Len(<<x>>)) : DV!Puts(g, dv.len, <<x>>)
      \/ DV!GrowFails(dv.len + Len(<<x>>), "full")
  BY <1>1 DEF DV!Push
<1>3. DynInv' /\ DV!Abstract!Adds(dv.len, <<x>>, "full")
  <2>1. Len(<<x>>) > 0
    BY <1>1
  <2>2. QED
    BY <1>1, <1>2, <2>1, DynAdds
<1>4. QED
  BY <1>1, <1>3 DEF DV!Abstract!Push

LEMMA DynInserts ==
  ASSUME StructuresAssumption, DynInv, NEW x \in Vals, NEW at \in Nat, DV!Insert(at, x)
  PROVE  DynInv' /\ DV!Abstract!Insert(at, x)
<1>1. <<x>> \in Seq(Vals) /\ Len(<<x>>) = 1 /\ dv.len \in Nat /\ dv.len = Len(DV!items) /\ dv.open
  BY Given, DynAs DEF DynInv, DV!Insert
<1>2. CASE at > dv.len /\ DV!Returns("none")
  BY <1>1, <1>2, DynRefuses DEF DV!Abstract!Insert
<1>3. CASE /\ at <= dv.len
           /\ \/ \E g \in DV!WithRoom(dv.len + 1) : DV!Puts(g, at, <<x>>)
              \/ DV!GrowFails(dv.len + 1, "full")
  <2>1. at \in 0 .. dv.len /\ ~(at > Len(DV!items))
    BY <1>1, <1>3
  <2>2. \/ \E g \in DV!WithRoom(dv.len + Len(<<x>>)) : DV!Puts(g, at, <<x>>)
        \/ DV!GrowFails(dv.len + Len(<<x>>), "full")
    BY <1>1, <1>3
  <2>3. DynInv' /\ DV!Abstract!Adds(at, <<x>>, "full")
    <3>1. Len(<<x>>) > 0
      BY <1>1
    <3>2. QED
      BY <1>1, <2>1, <2>2, <3>1, DynAdds
  <2>4. QED
    BY <2>1, <2>3 DEF DV!Abstract!Insert
<1>4. QED
  BY <1>2, <1>3 DEF DV!Insert

LEMMA DynExtends ==
  ASSUME StructuresAssumption, DynInv, dv.open, NEW t \in Seq(Vals), Len(t) > 0,
         \/ \E g \in DV!WithRoom(dv.len + Len(t)) : DV!Puts(g, dv.len, t)
         \/ DV!GrowFails(dv.len + Len(t), "refused")
  PROVE  DynInv' /\ DV!Abstract!Extend(t)
<1>1. dv.len \in 0 .. dv.len /\ dv.len = Len(DV!items)
  BY DynAs DEF DynInv
<1>2. DynInv' /\ DV!Abstract!Adds(dv.len, t, "refused")
  BY <1>1, DynAdds
<1>3. QED
  BY <1>1, <1>2 DEF DV!Abstract!Extend

LEMMA DynExtendsSelf ==
  ASSUME StructuresAssumption, DynInv, NEW from \in Nat, NEW n \in Nat, n > 0,
         DV!ExtendSelf(from, n)
  PROVE  /\ DynInv' /\ DV!Abstract!Extend(SubSeq(DV!items, from + 1, from + n))
         /\ SubSeq(DV!items, from + 1, from + n) \in Seq(Vals)
         /\ Len(SubSeq(DV!items, from + 1, from + n)) = n
<1> DEFINE s == SubSeq(DV!items, from + 1, from + n)
<1>1. /\ from + n <= dv.len /\ dv.len \in Nat /\ dv.open /\ DynIs(dv, dvBlock) /\ dv.cap \in Nat
      /\ dv.len + n \in Nat /\ Filled(Vals, dvBlock[dv.data], dv.len)
      /\ DV!items = First(dvBlock[dv.data], dv.len)
  BY DynAs DEF DynInv, DV!ExtendSelf
<1>2. s \in Seq(Vals) /\ Len(s) = n /\ Len(s) > 0
  <2> DEFINE b == dvBlock[dv.data]
             k == dv.len
             q == DV!items
  <2>1. k \in Nat /\ Filled(Vals, b, k) /\ from + n <= k /\ q = First(b, k)
    BY <1>1
  <2> HIDE DEF b, k, q
  <2>2. /\ Part(b, from, n) = SubSeq(First(b, k), from + 1, from + n)
        /\ Part(b, from, n) \in Seq(Vals) /\ Len(Part(b, from, n)) = n
    BY <2>1, PartFacts
  <2>3. QED
    BY <2>1, <2>2 DEF q
<1>3. CASE \E g \in DV!WithRoom(dv.len + n) :
             DV!Puts(g, dv.len, [k \in 1 .. n |-> g.block[g.v.data][from + k - 1]])
  <2>1. PICK g \in DV!WithRoom(dv.len + n) :
          DV!Puts(g, dv.len, [k \in 1 .. n |-> g.block[g.v.data][from + k - 1]])
    BY <1>3
  <2> DEFINE b == g.block[g.v.data]
  <2>2. Filled(Vals, b, dv.len) /\ First(b, dv.len) = DV!items
    BY <1>1, DynRoom
  <2>3. DV!Puts(g, dv.len, Part(b, from, n))
    BY <2>1 DEF Part
  <2> DEFINE k == dv.len
  <2>4. k \in Nat /\ Filled(Vals, b, k) /\ from + n <= k /\ First(b, k) = DV!items
    BY <1>1, <2>2
  <2> HIDE DEF b, k
  <2>4a. Part(b, from, n) = SubSeq(First(b, k), from + 1, from + n)
    BY <2>4, PartFacts
  <2>4b. Part(b, from, n) = s
    BY <2>4, <2>4a
  <2>5. \E h \in DV!WithRoom(dv.len + n) : DV!Puts(h, dv.len, s)
    BY <2>1, <2>3, <2>4b
  <2> HIDE DEF s
  <2>6. \E h \in DV!WithRoom(dv.len + Len(s)) : DV!Puts(h, dv.len, s)
    BY <1>2, <2>5
  <2>7. DynInv' /\ DV!Abstract!Extend(s)
    BY <1>1, <1>2, <2>6, DynExtends
  <2>8. QED
    BY <1>2, <2>7 DEF s
<1>4. CASE DV!GrowFails(dv.len + n, "refused")
  <2> HIDE DEF s
  <2>1. DV!GrowFails(dv.len + Len(s), "refused")
    BY <1>2, <1>4
  <2>2. DynInv' /\ DV!Abstract!Extend(s)
    BY <1>1, <1>2, <2>1, DynExtends
  <2>3. QED
    BY <1>2, <2>2 DEF s
<1>5. QED
  BY <1>3, <1>4 DEF DV!ExtendSelf

LEMMA DynReserves ==
  ASSUME StructuresAssumption, DynInv, NEW n \in Nat, DV!Reserve(n)
  PROVE  DynInv' /\ DV!Abstract!Reserve(n)
<1>1. /\ DynIs(dv, dvBlock) /\ Tells(dvLoan, dv.open) /\ dv.open /\ dv.open \in BOOLEAN
      /\ dv.cap \in Nat /\ DV!items = First(dvBlock[dv.data], dv.len)
  BY DynAs DEF DynInv, DV!Reserve
<1>2. CASE \E g \in DV!WithRoom(n) : dv' = g.v /\ dvBlock' = g.block /\ DV!Takes(g)
  <2>1. PICK g \in DV!WithRoom(n) : dv' = g.v /\ dvBlock' = g.block /\ DV!Takes(g)
    BY <1>2
  <2>2. /\ DynIs(dv', dvBlock') /\ dv'.open /\ dv'.len = dv.len /\ dv'.cap \in Nat
        /\ dv'.cap >= n /\ (n <= dv.cap => dv' = dv)
        /\ First(dvBlock'[dv'.data], dv'.len) = DV!items
        /\ g.restamped = (dv'.data # dv.data)
    BY <1>1, <2>1, DynRoom
  <2> DEFINE moved == dv'.data # dv.data
  <2>3. DV!Lends(moved, moved) /\ dvRet' = "ok" /\ moved \in BOOLEAN
    BY <2>1, <2>2 DEF DV!Takes
  <2> HIDE DEF moved
  <2>4. dv'.open = dv.open
    BY <1>1, <2>2 DEF DynIs, DynRecord
  <2>5. Tells(dvLoan', dv'.open)
    BY <1>1, <2>3, <2>4, DynTells
  <2>6. DV!items' = DV!items
    BY <2>2, DynItemsNext
  <2>7. QED
    BY <2>2, <2>3, <2>5, <2>6 DEF DynInv, DV!Abstract!Reserve
<1>3. CASE DV!GrowFails(n, "refused")
  <2>1. n > dv.cap /\ DV!Returns("refused")
    BY <1>3 DEF DV!GrowFails
  <2>2. QED
    BY <2>1, DynRefuses DEF DV!Abstract!Reserve
<1>4. QED
  BY <1>2, <1>3 DEF DV!Reserve

LEMMA DynSets ==
  ASSUME StructuresAssumption, DynInv, NEW x \in Vals, NEW at \in Nat, DV!Set(at, x)
  PROVE  DynInv' /\ DV!Abstract!Set(at, x)
<1> DEFINE b == [dvBlock[dv.data] EXCEPT ![at] = x]
<1>1. /\ DynIs(dv, dvBlock) /\ dv.len = Len(DV!items) /\ dv.len \in 0 .. dv.cap /\ dv.cap \in Nat
      /\ dv.len \in Nat /\ Filled(Vals, dvBlock[dv.data], dv.len)
      /\ DV!items = First(dvBlock[dv.data], dv.len)
      /\ dv.cap > 0 => dv.data \in VecAddrs /\ dvBlock[dv.data] \in Buffers(dv.cap)
  BY DynAs DEF DynInv
<1>2. CASE at >= dv.len /\ DV!Returns("none")
  BY <1>1, <1>2, DynRefuses DEF DV!Abstract!Set
<1>3. CASE /\ at < dv.len /\ dvBlock' = [dvBlock EXCEPT ![dv.data] = b]
           /\ dvRet' = "set" /\ dv' = dv /\ dvLoan' = dvLoan
  <2>1. at \in 0 .. dv.len - 1 /\ dv.cap > 0
    BY <1>1, <1>3
  <2>2. /\ b \in Buffers(dv.cap) /\ Filled(Vals, b, dv.len)
        /\ First(b, dv.len) = [DV!items EXCEPT ![at + 1] = x]
    BY <1>1, <2>1, SetFacts
  <2> HIDE DEF b
  <2>3. /\ dvBlock' \in [VecAddrs -> AnyBuffer]
        /\ \A a \in VecAddrs : dvBlock'[a] = IF a = dv.data THEN b ELSE dvBlock[a]
    <3>1. dvBlock \in [VecAddrs -> AnyBuffer] /\ b \in AnyBuffer
      BY <1>1, <2>2, BufferIn DEF DynIs
    <3>2. QED
      BY <1>1, <1>3, <2>1, <3>1
  <2>4. DynWritten(dv, dvBlock, dv.len, b, dv, dvBlock')
    BY <1>1, <2>1, <2>2, <2>3 DEF DynWritten, DynIs
  <2>5. DynIs(dv', dvBlock') /\ DV!items' = First(b, dv.len)
    <3>1. DynIs(dv, dvBlock') /\ First(dvBlock'[dv.data], dv.len) = First(b, dv.len)
      BY <2>4, DynWrites
    <3>2. QED
      BY <1>3, <3>1, DynItemsNext
  <2>6. ~(at >= Len(DV!items))
    BY <1>1, <2>1
  <2>7. QED
    BY <1>3, <2>2, <2>5, <2>6 DEF DynInv, DV!Abstract!Set
<1>4. QED
  BY <1>1, <1>2, <1>3 DEF DV!Set

LEMMA DynRemoves ==
  ASSUME StructuresAssumption, DynInv, NEW at \in Nat, DV!Remove(at)
  PROVE  DynInv' /\ DV!Abstract!Remove(at)
<1> DEFINE b == Removed(dvBlock[dv.data], dv.len, at)
<1>1. /\ DynIs(dv, dvBlock) /\ dv.len = Len(DV!items) /\ dv.len \in 0 .. dv.cap /\ dv.cap \in Nat
      /\ dv.len \in Nat /\ Filled(Vals, dvBlock[dv.data], dv.len)
      /\ DV!items = First(dvBlock[dv.data], dv.len)
      /\ dv.cap > 0 => dv.data \in VecAddrs /\ dvBlock[dv.data] \in Buffers(dv.cap)
  BY DynAs DEF DynInv
<1>2. CASE at >= dv.len /\ DV!Returns("none")
  BY <1>1, <1>2, DynRefuses DEF DV!Abstract!Remove
<1>3. CASE /\ at < dv.len /\ dv' = [dv EXCEPT !.len = dv.len - 1]
           /\ dvBlock' = [dvBlock EXCEPT ![dv.data] = b]
           /\ dvRet' = DV!Byte(dv.data, at) /\ dvLoan' = dvLoan
  <2>1. at \in 0 .. dv.len - 1 /\ dv.cap > 0 /\ dv.len - 1 \in 0 .. dv.cap
    BY <1>1, <1>3
  <2>2. /\ b \in Buffers(dv.cap) /\ Filled(Vals, b, dv.len - 1)
        /\ First(b, dv.len - 1) = Drop(DV!items, at)
        /\ dvBlock[dv.data][at] = DV!items[at + 1]
    BY <1>1, <2>1, RemovedFacts
  <2> HIDE DEF b
  <2>3. /\ dvBlock' \in [VecAddrs -> AnyBuffer]
        /\ \A a \in VecAddrs : dvBlock'[a] = IF a = dv.data THEN b ELSE dvBlock[a]
    <3>1. dvBlock \in [VecAddrs -> AnyBuffer] /\ b \in AnyBuffer
      BY <1>1, <2>2, BufferIn DEF DynIs
    <3>2. QED
      BY <1>1, <1>3, <2>1, <3>1
  <2>4. /\ dv' \in DynRecord /\ dv'.len = dv.len - 1 /\ dv'.cap = dv.cap /\ dv'.data = dv.data
        /\ dv'.open = dv.open
    <3>1. dv \in DynRecord /\ dv.len - 1 \in Nat
      BY <1>1, <2>1 DEF DynIs
    <3>2. QED
      BY <1>3, <3>1 DEF DynRecord
  <2>5. DynWritten(dv, dvBlock, dv.len - 1, b, dv', dvBlock')
    BY <1>1, <2>1, <2>2, <2>3, <2>4 DEF DynWritten
  <2>6. DynIs(dv', dvBlock') /\ DV!items' = First(b, dv.len - 1)
    BY <2>4, <2>5, DynWrites, DynItemsNext
  <2>7. dvRet' = DV!items[at + 1] /\ ~(at >= Len(DV!items))
    BY <1>1, <1>3, <2>1, <2>2, DynByte
  <2>8. DV!items' = DV!Abstract!Dropped(at)
    BY <2>2, <2>6 DEF Drop, DV!Abstract!Dropped
  <2>9. QED
    BY <1>3, <2>4, <2>6, <2>7, <2>8 DEF DynInv, DV!Abstract!Remove
<1>4. QED
  BY <1>1, <1>2, <1>3 DEF DV!Remove, Removed

LEMMA DynPops ==
  ASSUME StructuresAssumption, DynInv, DV!Pop
  PROVE  DynInv' /\ DV!Abstract!Pop
<1>1. /\ DynIs(dv, dvBlock) /\ dv.len = Len(DV!items) /\ dv.len \in Nat
      /\ Filled(Vals, dvBlock[dv.data], dv.len) /\ DV!items = First(dvBlock[dv.data], dv.len)
  BY DynAs DEF DynInv
<1>2. CASE dv.len = 0 /\ DV!Returns("none")
  <2>1. DV!items = <<>>
    BY <1>1, <1>2, FirstFacts, EmptySeq
  <2>2. QED
    BY <1>2, <2>1, DynRefuses DEF DV!Abstract!Pop
<1>3. CASE /\ dv.len # 0 /\ dv' = [dv EXCEPT !.len = dv.len - 1]
           /\ dvRet' = DV!Byte(dv.data, dv.len - 1) /\ dvBlock' = dvBlock /\ dvLoan' = dvLoan
  <2> DEFINE b == dvBlock[dv.data]
             n == dv.len - 1
             w == [dv EXCEPT !.len = n]
  <2>1. /\ Filled(Vals, b, dv.len - 1)
        /\ First(b, dv.len - 1) = Drop(DV!items, dv.len - 1)
        /\ DV!items # <<>> /\ DV!items[dv.len] = b[dv.len - 1]
    BY <1>1, <1>3, PoppedFacts
  <2>2. dv.len - 1 \in 0 .. dv.len /\ dv.len - 1 \in 0 .. dv.len - 1
    BY <1>1, <1>3
  <2>4. dv' = w /\ n \in 0 .. dv.len
    BY <1>3, <2>2
  <2> HIDE DEF n
  <2>3. /\ DynIs(w, dvBlock) /\ w.len = n /\ w.cap = dv.cap /\ w.data = dv.data
        /\ w.open = dv.open
    BY <1>1, <2>4, DynShortens
  <2> HIDE DEF w
  <2> USE DEF n
  <2>5. DV!items' = First(b, dv.len - 1)
    BY <1>3, <2>3, <2>4, DynItemsNext
  <2>6. DV!items' = DV!Abstract!Dropped(Len(DV!items) - 1) /\ dvRet' = DV!items[Len(DV!items)]
    <3>1. DV!Byte(dv.data, dv.len - 1) = b[dv.len - 1]
      BY <1>1, <2>2, DynByte
    <3>2. QED
      BY <1>1, <1>3, <2>1, <2>5, <3>1 DEF Drop, DV!Abstract!Dropped
  <2>7. ~(Len(DV!items) - 1 >= Len(DV!items)) /\ (Len(DV!items) - 1) + 1 = Len(DV!items)
    BY <1>1
  <2>8. QED
    BY <1>3, <2>1, <2>3, <2>4, <2>6, <2>7 DEF DynInv, DV!Abstract!Pop, DV!Abstract!Remove
<1>4. QED
  BY <1>2, <1>3 DEF DV!Pop

LEMMA DynClears ==
  ASSUME StructuresAssumption, DynInv, DV!Clear
  PROVE  DynInv' /\ DV!Abstract!Clear
<1>1. DynIs(dv, dvBlock) /\ dv.len \in Nat
  BY DynAs DEF DynInv
<1> DEFINE w == [dv EXCEPT !.len = 0]
<1>2. dv' = w /\ dvRet' = "void" /\ dvBlock' = dvBlock /\ dvLoan' = dvLoan
  BY DEF DV!Clear
<1>3. DynIs(w, dvBlock) /\ w.len = 0 /\ w.cap = dv.cap /\ w.open = dv.open
  BY <1>1, DynShortens
<1> HIDE DEF w
<1>4. DV!items' = <<>>
  <2>1. DV!items' = First(dvBlock'[dv'.data], dv'.len)
    BY <1>2, <1>3, DynItemsNext
  <2>2. First(dvBlock'[dv'.data], dv'.len) \in Seq(Vals) /\ Len(First(dvBlock'[dv'.data], dv'.len)) = dv'.len
    BY <1>2, <1>3, DynText
  <2>3. QED
    BY <1>2, <1>3, <2>1, <2>2, EmptySeq
<1>5. QED
  BY <1>2, <1>3, <1>4 DEF DynInv, DV!Abstract!Clear

(* The vector gives up its block, if it has one: closed, or open and empty. *)
DynGivesUp(open, restamped) ==
  /\ restamped \/ ~open
  /\ dv' = [data |-> 0, len |-> 0, cap |-> 0, open |-> open]
  /\ dvBlock' = DV!Moved(dv.data, 0, 0) \/ (dvBlock' = dvBlock /\ dv.data = 0)
  /\ DV!Lends(restamped, TRUE)

LEMMA DynEmptied ==
  ASSUME StructuresAssumption, DynInv, NEW open \in BOOLEAN, NEW restamped \in BOOLEAN,
         DynGivesUp(open, restamped)
  PROVE  DynInv' /\ DV!items' = <<>> /\ dv'.cap = 0
<1> USE DEF DynGivesUp
<1> DEFINE w == [data |-> 0, len |-> 0, cap |-> 0, open |-> open]
<1>1. dv' = w /\ dv'.open = open /\ dv'.cap = 0 /\ dv'.len = 0
  OBVIOUS
<1>2. DynIs(dv, dvBlock) /\ Tells(dvLoan, dv.open)
  BY DEF DynInv
<1>3. DynIs(w, DV!Moved(dv.data, 0, 0))
  BY <1>2, DynEmpty
<1>4. dvBlock' = DV!Moved(dv.data, 0, 0)
  <2>1. CASE dvBlock' = dvBlock /\ dv.data = 0
    <3>1. dvBlock = [a \in VecAddrs |-> dvBlock[a]]
      BY <1>2 DEF DynIs
    <3>2. DV!Moved(dv.data, 0, 0) = [a \in VecAddrs |-> dvBlock[a]]
      BY <2>1, DynAssumed DEF DV!Moved
    <3>3. QED
      BY <2>1, <3>1, <3>2
  <2>2. QED
    BY <2>1
<1>5. DynIs(dv', dvBlock')
  BY <1>1, <1>3, <1>4
<1>6. Tells(dvLoan', dv'.open)
  BY <1>1, <1>2, DynEnds
<1>7. DV!items' = <<>>
  BY <1>1, <1>5, DynItemsNext, DynText
<1>8. QED
  BY <1>1, <1>5, <1>6, <1>7 DEF DynInv

LEMMA DynOpens ==
  ASSUME StructuresAssumption, DynInv, NEW n \in Nat, NEW a \in VecAddrs \cup {0},
         DV!WithCapacity(n, a)
  PROVE  DynInv' /\ DV!Abstract!Open(<<>>, n)
<1>1. /\ DynIs(dv, dvBlock) /\ Tells(dvLoan, dv.open) /\ ~dv.open /\ dv.data = 0
      /\ dvRet' = "opened" /\ DV!Lends(TRUE, TRUE)
  BY DEF DynInv, DynIs, DV!WithCapacity
<1>2. CASE dv' = DV!Opened /\ dvBlock' = dvBlock
  <2>1. DynInv' /\ DV!items' = <<>> /\ dv'.cap = 0
    <3>1. DynGivesUp(TRUE, TRUE)
      BY <1>1, <1>2 DEF DynGivesUp, DV!Opened
    <3>2. QED
      BY <3>1, DynEmptied
  <2>2. QED
    BY <1>1, <2>1 DEF DV!Abstract!Open, DV!Abstract!Free
<1>3. CASE /\ n # 0 /\ ~(n * ElemSize > UsizeMax) /\ a # 0
           /\ dv' = [DV!Opened EXCEPT !.data = a, !.cap = n]
           /\ dvBlock' = DV!Moved(0, a, n)
  <2> DEFINE w == [data |-> a, len |-> 0, cap |-> n, open |-> TRUE]
  <2>1. dv' = w
    BY <1>3 DEF DV!Opened
  <2>2. a \in VecAddrs /\ n > 0 /\ n * ElemSize <= UsizeMax
    <3>1. ElemSize \in Nat /\ UsizeMax \in Nat
      BY DynAssumed
    <3> DEFINE size == n * ElemSize
    <3>2. size \in Nat /\ ~(size > UsizeMax)
      BY <1>3, <3>1
    <3> HIDE DEF size
    <3>3. size <= UsizeMax
      BY <3>1, <3>2
    <3>4. QED
      BY <1>3, <3>3 DEF size
  <2>3. DynIs(w, DV!Moved(0, a, n))
    BY <1>1, <2>2, DynFresh
  <2>4. dv'.open = TRUE /\ dv'.len = 0 /\ dv'.cap = n
    BY <2>1
  <2> HIDE DEF w
  <2>5. DynIs(dv', dvBlock')
    BY <1>3, <2>1, <2>3
  <2>6. Tells(dvLoan', dv'.open)
    BY <1>1, <2>4, DynEnds
  <2>7. DV!items' = First(dvBlock'[dv'.data], 0)
    BY <2>4, <2>5, DynItemsNext
  <2>8. DV!items' \in Seq(Vals) /\ Len(DV!items') = 0
    BY <2>4, <2>5, <2>7, DynText
  <2>9. DV!items' = <<>>
    BY <2>8, EmptySeq
  <2>10. QED
    BY <1>1, <2>4, <2>5, <2>6, <2>9 DEF DynInv, DV!Abstract!Open
<1>4. QED
  BY <1>2, <1>3 DEF DV!WithCapacity

LEMMA DynFrees ==
  ASSUME StructuresAssumption, DynInv, DV!Free
  PROVE  DynInv' /\ DV!Abstract!Free
<1>1. /\ dv' = [data |-> 0, len |-> 0, cap |-> 0, open |-> FALSE]
      /\ dvBlock' = DV!Moved(dv.data, 0, 0) /\ DV!Lends(FALSE, TRUE) /\ dvRet' = "opened"
  BY DEF DV!Free, DV!Opened
<1>2. DynInv' /\ DV!items' = <<>> /\ dv'.cap = 0
  <2>1. DynGivesUp(FALSE, FALSE)
    BY <1>1 DEF DynGivesUp
  <2>2. QED
    BY <2>1, DynEmptied
<1>3. QED
  BY <1>1, <1>2 DEF DV!Abstract!Free

LEMMA DynShrinks ==
  ASSUME StructuresAssumption, DynInv, DV!ShrinkToFit
  PROVE  DynInv' /\ DV!Abstract!Shrink
<1>1. /\ DynIs(dv, dvBlock) /\ Tells(dvLoan, dv.open) /\ dv.open /\ dv.open \in BOOLEAN
      /\ dv.len = Len(DV!items) /\ dv.len \in Nat /\ dv.cap \in Nat /\ dv.len <= dv.cap
      /\ DV!items = First(dvBlock[dv.data], dv.len) /\ DV!items \in Seq(Vals)
  BY DynAs DEF DynInv, DV!ShrinkToFit
<1>2. CASE \/ dv.len = dv.cap /\ DV!Returns("ok")
           \/ dv.len # 0 /\ dv.len # dv.cap /\ DV!Returns("refused")
  <2>1. CASE dv.len = dv.cap /\ DV!Returns("ok")
    BY <1>1, <2>1, DynRefuses DEF DV!Abstract!Keeps, DV!Abstract!Shrink
  <2>2. CASE dv.len # 0 /\ dv.len # dv.cap /\ DV!Returns("refused")
    <3>1. DV!items # <<>> /\ Len(DV!items) < dv.cap
      BY <1>1, <2>2, EmptySeq
    <3>2. QED
      BY <2>2, <3>1, DynRefuses DEF DV!Abstract!Shrink
  <2>3. QED
    BY <1>2, <2>1, <2>2
<1>3. CASE /\ dv.len = 0 /\ dv' = DV!Opened /\ dvBlock' = DV!Moved(dv.data, 0, 0)
           /\ DV!Lends(TRUE, TRUE) /\ dvRet' = "ok"
  <2>1. DynInv' /\ DV!items' = <<>> /\ dv'.cap = 0
    <3>1. DynGivesUp(TRUE, TRUE)
      BY <1>3 DEF DynGivesUp, DV!Opened
    <3>2. QED
      BY <3>1, DynEmptied
  <2>2. DV!items = <<>>
    BY <1>1, <1>3, EmptySeq
  <2>3. QED
    BY <1>1, <1>3, <2>1, <2>2 DEF DV!Abstract!Shrink
<1>4. CASE /\ dv.len # 0
           /\ \E a \in VecAddrs :
                /\ dv' = [dv EXCEPT !.data = a, !.cap = dv.len]
                /\ dvBlock' = DV!Moved(dv.data, a, dv.len)
                /\ DV!Lends(a # dv.data, a # dv.data) /\ dvRet' = "ok"
  <2>1. PICK a \in VecAddrs :
          /\ dv' = [dv EXCEPT !.data = a, !.cap = dv.len]
          /\ dvBlock' = DV!Moved(dv.data, a, dv.len)
          /\ DV!Lends(a # dv.data, a # dv.data) /\ dvRet' = "ok"
    BY <1>4
  <2>2. dv.len * ElemSize <= UsizeMax
    <3>1. ElemSize \in Nat /\ UsizeMax \in Nat /\ dv.cap * ElemSize <= UsizeMax
      BY <1>1, DynAssumed DEF DynIs
    <3>2. dv.len * ElemSize <= dv.cap * ElemSize
      BY <1>1, <3>1, Times
    <3> DEFINE x == dv.len * ElemSize
               y == dv.cap * ElemSize
    <3>3. x \in Nat /\ y \in Nat
      BY <1>1, <3>1
    <3> HIDE DEF x, y
    <3>4. x <= y /\ y <= UsizeMax
      BY <3>1, <3>2 DEF x, y
    <3>5. x <= UsizeMax
      BY <3>1, <3>3, <3>4
    <3>6. QED
      BY <3>5 DEF x
  <2> DEFINE n == dv.len
             w == [dv EXCEPT !.data = a, !.cap = n]
             b == DV!Moved(dv.data, a, n)
             moved == a # dv.data
  <2>3. n > 0 /\ n \in Nat /\ dv.len <= n /\ n * ElemSize <= UsizeMax
    BY <1>1, <1>4, <2>2
  <2> HIDE DEF n
  <2>4. /\ w.data = a /\ w.cap = n /\ w.len = dv.len /\ w.open
        /\ DynIs(w, b) /\ First(b[a], dv.len) = DV!items
    <3>1. DynReallocs(w, b, a, n)
      BY <1>1, <2>3 DEF DynReallocs
    <3> HIDE DEF w, b
    <3>2. DynMoved(w, b, a, n)
      BY <3>1, DynMoves
    <3>3. QED
      BY <3>2 DEF DynMoved
  <2> USE DEF n
  <2>5. dv' = w /\ dvBlock' = b /\ DV!Lends(moved, moved) /\ moved \in BOOLEAN
    BY <2>1
  <2> HIDE DEF w, b, moved
  <2>6. dv'.open = dv.open
    BY <1>1, <2>4, <2>5 DEF DynIs, DynRecord
  <2>7. Tells(dvLoan', dv'.open)
    BY <1>1, <2>5, <2>6, DynTells
  <2>8. DV!items' = DV!items
    BY <2>4, <2>5, DynItemsNext
  <2>9. QED
    BY <1>1, <2>1, <2>4, <2>5, <2>7, <2>8 DEF DynInv, DV!Abstract!Shrink
<1>5. QED
  BY <1>2, <1>3, <1>4 DEF DV!ShrinkToFit

LEMMA DynBorrows ==
  ASSUME DynInv, DV!Borrow
  PROVE  DynInv' /\ UNCHANGED DV!Abstract!vars
<1>1. /\ dv.open /\ dv' = dv /\ dvBlock' = dvBlock /\ dvRet' = dvRet
      /\ dvLoan' = [taken |-> TRUE, sameId |-> TRUE, sameStorage |-> TRUE]
  BY DEF DV!Borrow
<1>2. dv.open = TRUE
  BY <1>1 DEF DynInv, DynIs, DynRecord
<1>3. Tells(dvLoan', dv'.open)
  BY <1>1, <1>2, TellsTaken
<1>4. DV!items' = DV!items
  BY <1>1 DEF DV!items, DV!Byte
<1>5. QED
  BY <1>1, <1>3, <1>4 DEF DynInv, DV!Abstract!vars

LEMMA DynFacts ==
  ASSUME StructuresAssumption, DynInv
  PROVE  DV!items \in Seq(Vals) /\ Len(DV!items) = dv.len /\ dv.len \in Nat /\ dv.cap \in Nat
BY DynAs DEF DynInv

(* What the calls do is among the steps of the abstract vector.            *)
LEMMA DynAlways ==
  ASSUME StructuresAssumption, DynInv, DynInv'
  PROVE  /\ DV!Abstract!Keeps("none") => DV!Abstract!Next
         /\ DV!Abstract!Keeps("refused") => DV!Abstract!Next
         /\ \A n \in Nat : DV!Abstract!Open(<<>>, n) => DV!Abstract!Next
         /\ \A n \in Nat : DV!Abstract!Reserve(n) => DV!Abstract!Next
<1>1. dv.cap \in Nat /\ dv'.cap \in Nat
  BY DEF DynInv, DynIs, DynRecord
<1>2. ASSUME DV!Abstract!Keeps("none") PROVE DV!Abstract!Next
  BY <1>1, <1>2 DEF DV!Abstract!Keeps, DV!Abstract!FormatFails, DV!Abstract!Next
<1>3. ASSUME DV!Abstract!Keeps("refused") PROVE DV!Abstract!Next
  <2>1. dv'.cap = dv.cap
    BY <1>3 DEF DV!Abstract!Keeps
  <2>2. dv.cap + 1 \in -1 .. dv'.cap + 1 /\ dv.cap + 1 > dv.cap
    BY <1>1, <2>1
  <2>3. DV!Abstract!Reserve(dv.cap + 1)
    BY <1>3, <2>2 DEF DV!Abstract!Reserve
  <2>4. QED
    BY <2>2, <2>3 DEF DV!Abstract!Next
<1>4. ASSUME NEW n \in Nat, DV!Abstract!Open(<<>>, n) PROVE DV!Abstract!Next
  <2>1. CASE DV!items' = <<>> /\ dvRet' = "opened" /\ dv'.cap = n
    <3>1. DV!items' \in Seq(Vals) /\ Len(DV!items') <= dv'.cap
      BY <1>1, <2>1, EmptySeq
    <3>2. QED
      BY <2>1, <3>1 DEF DV!Abstract!Swap, DV!Abstract!Next
  <2>2. CASE DV!Abstract!Free
    BY <2>2 DEF DV!Abstract!Next
  <2>3. QED
    BY <1>4, <2>1, <2>2 DEF DV!Abstract!Open
<1>5. ASSUME NEW n \in Nat, DV!Abstract!Reserve(n) PROVE DV!Abstract!Next
  <2>1. CASE dv'.cap >= n
    <3>1. n \in -1 .. dv'.cap + 1
      BY <1>1, <2>1
    <3>2. QED
      BY <1>5, <3>1 DEF DV!Abstract!Next
  <2>2. CASE DV!Abstract!Keeps("refused")
    BY <1>3, <2>2
  <2>3. QED
    BY <1>5, <2>1, <2>2 DEF DV!Abstract!Reserve
<1>6. QED
  BY <1>2, <1>3, <1>4, <1>5

LEMMA DynExtended ==
  ASSUME StructuresAssumption, DynInv, DynInv', NEW t \in Seq(Vals), Len(t) > 0, DV!Abstract!Extend(t)
  PROVE  DV!Abstract!Next
<1>1. /\ DV!items \in Seq(Vals) /\ Len(DV!items) \in Nat /\ Len(t) \in Nat
      /\ Len(DV!items) \in 0 .. Len(DV!items) /\ t \in [1 .. Len(t) -> Vals]
  BY DynFacts, LenProperties
<1>2. CASE DV!items' = DV!Abstract!Spliced(Len(DV!items), t)
  <2>1. DV!items' = Splice(DV!items, Len(DV!items), t)
    BY <1>2 DEF Splice, DV!Abstract!Spliced
  <2>2. Len(DV!items') = Len(DV!items) + Len(t)
    BY <1>1, <2>1, SpliceLength
  <2>3. Len(t) \in 1 .. Len(DV!items') \cup {dv.cap + 1}
    BY <1>1, <2>2
  <2>4. QED
    BY <1>1, <2>3 DEF DV!Abstract!Next
<1>3. CASE DV!Abstract!Keeps("refused") \/ DV!Abstract!Keeps("none")
  BY <1>3, DynAlways
<1>4. QED
  BY <1>2, <1>3 DEF DV!Abstract!Extend, DV!Abstract!Adds

LEMMA DynPlaced ==
  ASSUME StructuresAssumption, DynInv, DynInv', NEW n \in Nat,
         \/ \E x \in Vals : DV!Abstract!Insert(n, x) \/ DV!Abstract!Set(n, x)
         \/ DV!Abstract!Remove(n)
  PROVE  DV!Abstract!Next
<1>1. Len(DV!items) \in Nat
  BY DynFacts
<1>2. CASE n <= Len(DV!items)
  <2>1. n \in 0 .. Len(DV!items) + 1 /\ n \in 0 .. Len(DV!items)
    BY <1>1, <1>2
  <2>2. QED
    BY <2>1 DEF DV!Abstract!Next
<1>3. CASE n > Len(DV!items)
  <2>1. n >= Len(DV!items)
    BY <1>1, <1>3
  <2>2. DV!Abstract!Keeps("none")
    BY <1>3, <2>1 DEF DV!Abstract!Insert, DV!Abstract!Set, DV!Abstract!Remove
  <2>3. QED
    BY <2>2, DynAlways
<1>4. QED
  BY <1>1, <1>2, <1>3

LEMMA DynStep ==
  ASSUME StructuresAssumption, DynInv, [DV!Next]_(DV!vars)
  PROVE  DynInv' /\ [DV!Abstract!Next]_(DV!Abstract!vars)
<1>1. 0 .. UsizeMax \subseteq Nat
  BY DynAssumed
<1>2. CASE UNCHANGED DV!vars
  <2>1. UNCHANGED <<dv, dvBlock, dvLoan, dvRet>>
    BY <1>2 DEF DV!vars
  <2>2. QED
    BY <2>1, DynKeeps DEF DV!Abstract!vars
<1>3. CASE DV!Borrow
  BY <1>3, DynBorrows
<1>4. ASSUME DV!Next, ~DV!Borrow PROVE DynInv' /\ DV!Abstract!Next
  <2>1. ASSUME NEW n \in 0 .. UsizeMax, DV!Reserve(n) PROVE DynInv' /\ DV!Abstract!Next
    BY <1>1, <2>1, DynReserves, DynAlways
  <2>2. ASSUME NEW n \in 0 .. UsizeMax, NEW a \in VecAddrs \cup {0}, DV!WithCapacity(n, a)
        PROVE  DynInv' /\ DV!Abstract!Next
    BY <1>1, <2>2, DynOpens, DynAlways
  <2>3. ASSUME NEW x \in Vals, DV!Push(x) PROVE DynInv' /\ DV!Abstract!Next
    BY <2>3, DynPushes DEF DV!Abstract!Next
  <2>4. ASSUME NEW x \in Vals, NEW at \in 0 .. UsizeMax, DV!Insert(at, x) \/ DV!Set(at, x)
        PROVE  DynInv' /\ DV!Abstract!Next
    BY <1>1, <2>4, DynInserts, DynSets, DynPlaced
  <2>5. ASSUME NEW x \in Vals, NEW y \in Vals, NEW t \in {<<x, y>>, <<x, y, x>>}, DV!Extend(t)
        PROVE  DynInv' /\ DV!Abstract!Next
    <3>1. t \in Seq(Vals) /\ Len(t) > 0
      <4>1. CASE t = <<x, y>>
        BY <4>1, Given
      <4>2. CASE t = <<x, y, x>>
        BY <4>2, Given
      <4>3. QED
        BY <4>1, <4>2
    <3>2. QED
      BY <2>5, <3>1, DynExtends, DynExtended DEF DV!Extend
  <2>6. ASSUME NEW from \in 0 .. UsizeMax, NEW n \in 0 .. UsizeMax, n > 0, DV!ExtendSelf(from, n)
        PROVE  DynInv' /\ DV!Abstract!Next
    BY <1>1, <2>6, DynExtendsSelf, DynExtended
  <2>7. ASSUME NEW at \in 0 .. UsizeMax, DV!Remove(at) PROVE DynInv' /\ DV!Abstract!Next
    BY <1>1, <2>7, DynRemoves, DynPlaced
  <2>8. ASSUME DV!Pop \/ DV!Clear \/ DV!ShrinkToFit \/ DV!Free
        PROVE  DynInv' /\ DV!Abstract!Next
    BY <2>8, DynPops, DynClears, DynShrinks, DynFrees DEF DV!Abstract!Next
  <2>9. QED
    BY <1>4, <2>1, <2>2, <2>3, <2>4, <2>5, <2>6, <2>7, <2>8 DEF DV!Next
<1>5. QED
  BY <1>2, <1>3, <1>4

LEMMA DynCalls ==
  ASSUME StructuresAssumption, DynInv
  PROVE  [DV!Calls]_(DV!vars)
<1>1. 0 .. UsizeMax \subseteq Nat
  BY DynAssumed
<1>2. \A n \in 0 .. UsizeMax, a \in VecAddrs \cup {0} :
        DV!WithCapacity(n, a) => DV!Abstract!Open(<<>>, n)
  BY <1>1, DynOpens
<1>3. \A x \in Vals : DV!Push(x) => DV!Abstract!Push(x)
  BY DynPushes
<1>4. ASSUME NEW x \in Vals, NEW y \in Vals, NEW t \in {<<x, y>>, <<x, y, x>>}
      PROVE  DV!Extend(t) => DV!Abstract!Extend(t)
  <2>1. t \in Seq(Vals) /\ Len(t) > 0
    <3>1. CASE t = <<x, y>>
      BY <3>1, Given
    <3>2. CASE t = <<x, y, x>>
      BY <3>2, Given
    <3>3. QED
      BY <3>1, <3>2
  <2>2. QED
    BY <2>1, DynExtends DEF DV!Extend
<1>5. ASSUME NEW from \in 0 .. UsizeMax, NEW n \in 1 .. UsizeMax, DV!ExtendSelf(from, n)
      PROVE  DV!Abstract!Extend(SubSeq(DV!items, from + 1, from + n))
  <2>1. from \in Nat /\ n \in Nat /\ n > 0
    BY <1>1
  <2>2. QED
    BY <1>5, <2>1, DynExtendsSelf
<1>6. \A at \in 0 .. UsizeMax, x \in Vals :
        /\ DV!Insert(at, x) => DV!Abstract!Insert(at, x)
        /\ DV!Set(at, x) => DV!Abstract!Set(at, x)
  BY <1>1, DynInserts, DynSets
<1>7. \A n \in 0 .. UsizeMax :
        /\ DV!Remove(n) => DV!Abstract!Remove(n)
        /\ DV!Reserve(n) => DV!Abstract!Reserve(n)
  BY <1>1, DynRemoves, DynReserves
<1>8. /\ DV!Pop => DV!Abstract!Pop
      /\ DV!Clear => DV!Abstract!Clear
      /\ DV!ShrinkToFit => DV!Abstract!Shrink
      /\ DV!Free => DV!Abstract!Free
  BY DynPops, DynClears, DynShrinks, DynFrees
<1>9. QED
  BY <1>2, <1>3, <1>4, <1>5, <1>6, <1>7, <1>8 DEF DV!Calls

LEMMA DynStarts ==
  ASSUME StructuresAssumption, DV!Init
  PROVE  DynInv /\ DV!Abstract!Init
<1>1. /\ dv = [data |-> 0, len |-> 0, cap |-> 0, open |-> TRUE] /\ dvRet = "opened"
      /\ dvBlock = [a \in VecAddrs |-> DV!NoBlock]
      /\ dvLoan = [taken |-> FALSE, sameId |-> FALSE, sameStorage |-> FALSE]
  BY DEF DV!Init, DV!Opened, DV!NoLoan
<1>2. dv \in DynRecord /\ dv.data = 0 /\ dv.len = 0 /\ dv.cap = 0 /\ dv.open = TRUE
  BY <1>1 DEF DynRecord
<1>3. DV!NoBlock \in Buffers(0)
  BY DEF DV!NoBlock, Buffers
<1>4. dvBlock \in [VecAddrs -> AnyBuffer] /\ \A a \in VecAddrs : dvBlock[a] \in Buffers(0)
  BY <1>1, <1>3, BufferIn
<1>5. 0 * ElemSize <= UsizeMax /\ 0 \notin VecAddrs
  BY DynAssumed
<1>6. Filled(Vals, dvBlock[0], 0)
  BY DEF Filled
<1>7. DynIs(dv, dvBlock)
  BY <1>2, <1>4, <1>5, <1>6 DEF DynIs
<1>8. Tells(dvLoan, dv.open)
  BY <1>1, <1>2, TellsNone
<1>9. DV!items = <<>>
  BY <1>2, <1>7, DynAs, EmptySeq
<1>10. QED
  BY <1>1, <1>2, <1>7, <1>8, <1>9 DEF DynInv, DV!Abstract!Init

LEMMA DynServes == StructuresSpec => []DynInv /\ DV!Implements
<1>1. StructuresInit => DynInv /\ DV!Abstract!Init
  BY PartsStart, DynStarts, StructuresAssumption
<1>2. DynInv /\ [StructuresNext]_allVars => DynInv' /\ [DV!Abstract!Next]_(DV!Abstract!vars)
  BY PartsStep, DynStep, StructuresAssumption
<1>3. DynInv => [DV!Calls]_(DV!vars)
  BY DynCalls, StructuresAssumption
<1>4. QED
  BY <1>1, <1>2, <1>3, PTL DEF StructuresSpec, DV!Implements, DV!Abstract!Spec

(* Vec, DynVec and SmallVec: each call is the abstract call of its name,   *)
(* so one that fits is done and one that fails changes nothing, with an    *)
(* allocator that may move, fail or reuse an address.                      *)
THEOREM VectorsImplement == StructuresSpec => VectorsServe
BY VecServes, DynServes, SmallServes, PTL DEF VectorsServe

-----------------------------------------------------------------------------
(* Strings: a text in the first bytes of a buffer, and its terminator.     *)
Bytes(n) == [0 .. n - 1 -> Vals \cup {Nul, Junk}]
AnyBytes == UNION {Bytes(n) : n \in Nat}

(* The bytes of a text: a view into a StringBuf may reach over the end of  *)
(* one that was there before, and appends its terminator with it.          *)
TextBytes == Vals \cup {Nul}

(* b holds, in cap bytes, n bytes of S and a terminator. *)
Holds(S, b, cap, n) == b \in Bytes(cap) /\ n < cap /\ b[n] = Nul /\ Filled(S, b, n)

LEMMA BytesIn == ASSUME NEW n \in Nat, NEW b \in Bytes(n) PROVE b \in AnyBytes
BY DEF AnyBytes

Written(b, n, t) ==
  [i \in DOMAIN b |-> IF i < n \/ i > n + Len(t) THEN b[i]
                      ELSE IF i < n + Len(t) THEN t[i - n + 1] ELSE Nul]

LEMMA WrittenFacts ==
  ASSUME NEW S \in {Vals, TextBytes}, NEW cap \in Nat, NEW n \in Nat, NEW b \in Bytes(cap), Filled(S, b, n),
         NEW t \in Seq(S), n + Len(t) < cap
  PROVE  /\ Holds(S, Written(b, n, t), cap, n + Len(t))
         /\ First(Written(b, n, t), n + Len(t)) = Splice(First(b, n), n, t)
<1> DEFINE m == Len(t)
           c == Written(b, n, t)
           q == First(b, n)
<1>1. m \in Nat /\ n + m < cap /\ \A k \in 1 .. m : t[k] \in S
  BY LenProperties
<1>0. S \subseteq Vals \cup {Nul, Junk}
  BY DEF TextBytes
<1>2. b \in [0 .. cap - 1 -> Vals \cup {Nul, Junk}] /\ \A k \in 0 .. n - 1 : b[k] \in S
  BY DEF Bytes, Filled
<1> HIDE DEF m
<1>3. c = [i \in 0 .. cap - 1 |-> IF i < n \/ i > n + m THEN b[i]
                                  ELSE IF i < n + m THEN t[i - n + 1] ELSE Nul]
  BY <1>2 DEF Written, m
<1> HIDE DEF c
<1>4. ASSUME NEW k \in 0 .. n + m - 1 PROVE c[k] \in S
  <2>1. k \in 0 .. cap - 1 /\ ~(k > n + m) /\ k < n + m
    BY <1>1
  <2>2. CASE k < n
    BY <1>2, <1>3, <2>1, <2>2
  <2>3. CASE n <= k
    <3>1. k - n + 1 \in 1 .. m /\ ~(k < n)
      BY <1>1, <2>3
    <3>2. QED
      BY <1>1, <1>3, <2>1, <3>1
  <2>4. QED
    BY <1>1, <2>2, <2>3
<1>5. c[n + m] = Nul
  <2>1. n + m \in 0 .. cap - 1 /\ ~(n + m < n) /\ ~(n + m > n + m) /\ ~(n + m < n + m)
    BY <1>1
  <2>2. QED
    BY <1>3, <2>1
<1>6. c \in Bytes(cap)
  <2>1. ASSUME NEW k \in 0 .. cap - 1 PROVE c[k] \in Vals \cup {Nul, Junk}
    <3>1. CASE k < n + m
      <4>1. k \in 0 .. n + m - 1
        BY <1>1, <3>1
      <4>2. QED
        BY <1>0, <1>4, <4>1
    <3>2. CASE k = n + m
      BY <1>5, <3>2
    <3>3. CASE k > n + m
      BY <1>2, <1>3, <3>3
    <3>4. QED
      BY <1>1, <3>1, <3>2, <3>3
  <2>2. c \in [0 .. cap - 1 -> Vals \cup {Nul, Junk}]
    BY <1>3, <2>1
  <2>3. QED
    BY <2>2 DEF Bytes
<1>7. Filled(S, c, n + m)
  BY <1>1, <1>4 DEF Filled
<1>8. q \in Seq(S) /\ Len(q) = n /\ \A i \in 1 .. n : q[i] = b[i - 1]
  BY FirstFacts
<1> HIDE DEF q
<1>9. /\ Splice(q, n, t) \in Seq(S) /\ Len(Splice(q, n, t)) = n + m
      /\ \A i \in 1 .. n + m :
           Splice(q, n, t)[i] = IF i <= n THEN q[i] ELSE IF i <= n + m THEN t[i - n] ELSE q[i - m]
  <2>1. n \in 0 .. Len(q)
    BY <1>8
  <2>2. IsSplice(S, q, n, t)
    BY <1>8, <2>1, SpliceOf
  <2>3. QED
    BY <1>8, <2>2 DEF IsSplice, m
<1>10. ASSUME NEW i \in 1 .. n + m PROVE Splice(q, n, t)[i] = c[i - 1]
  <2>1. i - 1 \in 0 .. cap - 1 /\ ~(i - 1 > n + m) /\ i - 1 < n + m /\ i <= n + m
    BY <1>1
  <2>2. c[i - 1] = IF i - 1 < n THEN b[i - 1] ELSE t[(i - 1) - n + 1]
    BY <1>3, <2>1
  <2>3. CASE i <= n
    <3>1. i \in 1 .. n /\ i - 1 < n
      BY <2>3
    <3>2. QED
      BY <1>8, <1>9, <2>2, <2>3, <3>1
  <2>4. CASE n < i
    <3>1. ~(i - 1 < n) /\ (i - 1) - n + 1 = i - n /\ ~(i <= n)
      BY <1>1, <2>4
    <3>2. QED
      BY <1>9, <2>1, <2>2, <3>1
  <2>5. QED
    BY <2>3, <2>4
<1>11. First(c, n + m) = Splice(q, n, t)
  <2> DEFINE e == n + m
             r == Splice(q, n, t)
  <2>1. e \in Nat /\ Filled(S, c, e) /\ r \in Seq(S) /\ Len(r) = e
    BY <1>1, <1>7, <1>9
  <2>2. \A i \in 1 .. e : r[i] = c[i - 1]
    BY <1>10
  <2> HIDE DEF e, r
  <2>3. First(c, e) = r
    BY <2>1, <2>2, FirstIs
  <2>4. QED
    BY <2>3 DEF e, r
<1>12. QED
  BY <1>1, <1>5, <1>6, <1>7, <1>11 DEF Holds, c, q, m

(* Nothing is appended. *)
LEMMA SpliceNothing ==
  ASSUME NEW S, NEW q \in Seq(S)
  PROVE  Splice(q, Len(q), <<>>) = q
<1>1. <<>> \in Seq(S) /\ Len(<<>>) = 0 /\ Len(q) \in 0 .. Len(q) /\ Len(q) \in Nat
  BY EmptySeq, LenProperties
<1>2. /\ Splice(q, Len(q), <<>>) \in Seq(S)
      /\ Len(Splice(q, Len(q), <<>>)) = Len(q) + Len(<<>>)
      /\ \A i \in 1 .. Len(q) + Len(<<>>) :
           Splice(q, Len(q), <<>>)[i] = IF i <= Len(q) THEN q[i]
             ELSE IF i <= Len(q) + Len(<<>>) THEN <<>>[i - Len(q)] ELSE q[i - Len(<<>>)]
  <2>1. IsSplice(S, q, Len(q), <<>>)
    BY <1>1, SpliceOf
  <2>2. QED
    BY <2>1 DEF IsSplice
<1> DEFINE r == Splice(q, Len(q), <<>>)
<1> HIDE DEF r
<1>3. r \in Seq(S) /\ Len(r) = Len(q)
  BY <1>1, <1>2 DEF r
<1>4. \A i \in 1 .. Len(q) : r[i] = q[i]
  BY <1>1, <1>2 DEF r
<1>5. QED
  BY <1>3, <1>4, SeqEqual DEF r

(* The text is cut short, and terminated there. *)
LEMMA CutFacts ==
  ASSUME NEW S \in {Vals, TextBytes}, NEW cap \in Nat, NEW n \in Nat, n < cap, NEW b \in Bytes(cap), Filled(S, b, n), NEW k \in 0 .. n
  PROVE  /\ Holds(S, [b EXCEPT ![k] = Nul], cap, k)
         /\ First([b EXCEPT ![k] = Nul], k) = SubSeq(First(b, n), 1, k)
<1> DEFINE c == [b EXCEPT ![k] = Nul]
           q == First(b, n)
           r == SubSeq(q, 1, k)
<1>1. k \in Nat /\ k <= n /\ k < cap /\ k \in 0 .. cap - 1
  OBVIOUS
<1>2. b \in [0 .. cap - 1 -> Vals \cup {Nul, Junk}] /\ \A j \in 0 .. n - 1 : b[j] \in S
  BY DEF Bytes, Filled
<1>3. /\ c \in [0 .. cap - 1 -> Vals \cup {Nul, Junk}] /\ c[k] = Nul
      /\ \A j \in 0 .. cap - 1 : j # k => c[j] = b[j]
  BY <1>1, <1>2
<1> HIDE DEF c
<1>4. ASSUME NEW j \in 0 .. k - 1 PROVE c[j] = b[j] /\ c[j] \in S
  <2>1. j \in 0 .. cap - 1 /\ j # k /\ j \in 0 .. n - 1
    BY <1>1
  <2>2. QED
    BY <1>2, <1>3, <2>1
<1>5. Filled(S, c, k)
  BY <1>4 DEF Filled
<1>6. Holds(S, c, cap, k)
  BY <1>1, <1>3, <1>5 DEF Holds, Bytes
<1>7. q \in Seq(S) /\ Len(q) = n /\ \A i \in 1 .. n : q[i] = b[i - 1]
  BY FirstFacts
<1> HIDE DEF q
<1>8. r \in Seq(S) /\ Len(r) = k /\ \A i \in 1 .. k : r[i] = q[i]
  <2>1. \A i \in 1 .. k : q[i] \in S
    BY <1>1, <1>7, ElementOfSeq
  <2>2. QED
    BY <1>1, <2>1, SubSeqProperties
<1> HIDE DEF r
<1>9. ASSUME NEW i \in 1 .. k PROVE r[i] = c[i - 1]
  <2>1. i - 1 \in 0 .. k - 1 /\ i \in 1 .. n
    BY <1>1
  <2>2. QED
    BY <1>4, <1>7, <1>8, <2>1
<1>10. First(c, k) = r
  BY <1>1, <1>5, <1>8, <1>9, FirstIs
<1>11. QED
  BY <1>6, <1>10 DEF c, q, r

-----------------------------------------------------------------------------
(* StringBuf. *)
BufIs(b, n) ==
  \/ b = <<>> /\ n = 0
  \/ n \in Nat /\ \E cap \in BufCapacities : Holds(TextBytes, b, cap, n)

BufInv == BufIs(sb, sbLen)

LEMMA BufAssumed ==
  ASSUME StructuresAssumption
  PROVE  (\A n \in BufCapacities : n \in Nat /\ n > 1) /\ Nul \notin Vals
BY DEF StructuresAssumption, SB!StringBufAssumption

(* A buffer is not NULL, and its capacity is that of its domain. *)
LEMMA BufOpen ==
  ASSUME StructuresAssumption, NEW cap \in BufCapacities, NEW b \in Bytes(cap)
  PROVE  b # <<>> /\ (CHOOSE n \in BufCapacities : DOMAIN b = 0 .. n - 1) = cap
<1>1. DOMAIN b = 0 .. cap - 1 /\ cap \in Nat /\ cap > 1
  BY BufAssumed DEF Bytes
<1>2. 0 \in DOMAIN b
  BY <1>1
<1>3. b # <<>>
  BY <1>2
<1>4. ASSUME NEW n \in BufCapacities, DOMAIN b = 0 .. n - 1 PROVE n = cap
  <2>1. n \in Nat /\ n > 1 /\ 0 .. n - 1 = 0 .. cap - 1
    BY <1>1, <1>4, BufAssumed
  <2>2. n - 1 \in 0 .. cap - 1 /\ cap - 1 \in 0 .. n - 1
    BY <1>1, <2>1
  <2>3. QED
    BY <1>1, <2>1, <2>2
<1>5. QED
  BY <1>1, <1>3, <1>4

LEMMA BufHolds ==
  ASSUME StructuresAssumption, NEW cap \in BufCapacities, Holds(TextBytes, sb, cap, sbLen), sbLen \in Nat
  PROVE  /\ ~SB!IsNull /\ SB!BufCapacity = cap /\ SB!room = cap - 1 /\ cap \in Nat /\ sbLen < cap
         /\ SB!items = First(sb, sbLen) /\ SB!items \in Seq(TextBytes) /\ Len(SB!items) = sbLen
         /\ Filled(TextBytes, sb, sbLen) /\ sb \in Bytes(cap)
<1>1. sb \in Bytes(cap) /\ sbLen < cap /\ Filled(TextBytes, sb, sbLen) /\ cap \in Nat
  BY BufAssumed DEF Holds
<1>2. ~SB!IsNull /\ SB!BufCapacity = cap
  BY <1>1, BufOpen DEF SB!IsNull, SB!BufCapacity
<1>3. SB!room = cap - 1
  BY <1>1, <1>2 DEF SB!room, SB!Remaining
<1>4. SB!items = First(sb, sbLen)
  BY DEF SB!items, First
<1>5. SB!items \in Seq(TextBytes) /\ Len(SB!items) = sbLen
  BY <1>1, <1>4, FirstFacts
<1>6. QED
  BY <1>1, <1>2, <1>3, <1>4, <1>5

LEMMA BufHoldsNext ==
  ASSUME StructuresAssumption, NEW cap \in BufCapacities, Holds(TextBytes, sb', cap, sbLen'), sbLen' \in Nat
  PROVE  SB!room' = cap - 1 /\ SB!items' = First(sb', sbLen') /\ BufInv'
<1>1. sb' \in Bytes(cap) /\ sbLen' < cap /\ cap \in Nat /\ sbLen' \in Nat
  BY BufAssumed DEF Holds
<1>2. sb' # <<>> /\ SB!BufCapacity' = cap
  BY <1>1, BufOpen DEF SB!BufCapacity
<1>3. SB!room' = cap - 1
  <2> DEFINE n == sbLen'
  <2>1. n \in Nat /\ n < cap /\ cap \in Nat
    BY <1>1
  <2>2. SB!room' = n + IF cap < n + 1 THEN 0 ELSE cap - (n + 1)
    BY <1>2 DEF SB!room, SB!Remaining
  <2> HIDE DEF n
  <2>3. QED
    BY <2>1, <2>2
<1>4. SB!items' = First(sb', sbLen')
  BY DEF SB!items, First
<1>5. QED
  BY <1>3, <1>4 DEF BufInv, BufIs

LEMMA BufNull ==
  ASSUME sb = <<>>, sbLen = 0
  PROVE  SB!IsNull /\ SB!BufCapacity = 0 /\ SB!room = 0 /\ SB!items = <<>>
<1>1. SB!IsNull /\ SB!BufCapacity = 0
  BY DEF SB!IsNull, SB!BufCapacity
<1>2. SB!room = 0
  BY <1>1 DEF SB!room, SB!Remaining
<1>3. SB!items = <<>>
  BY SeqDef DEF SB!items
<1>4. QED
  BY <1>1, <1>2, <1>3

(* What a NULL buffer holds, and any. *)
LEMMA BufNone ==
  ASSUME StructuresAssumption, BufInv, sb = <<>>
  PROVE  sbLen = 0 /\ SB!BufCapacity = 0 /\ SB!room = 0 /\ SB!items = <<>>
<1>1. ASSUME NEW cap \in BufCapacities PROVE ~Holds(TextBytes, sb, cap, sbLen)
  BY BufOpen DEF Holds
<1>2. sbLen = 0
  BY <1>1 DEF BufInv, BufIs
<1>3. QED
  BY <1>2, BufNull

LEMMA BufItems ==
  ASSUME StructuresAssumption, BufInv
  PROVE  /\ SB!items \in Seq(TextBytes) /\ Len(SB!items) = sbLen /\ sbLen \in Nat
         /\ SB!room \in Nat /\ SB!BufCapacity \in Nat
<1>1. CASE sb = <<>>
  <2>1. SB!items = <<>> /\ sbLen = 0 /\ SB!room = 0 /\ SB!BufCapacity = 0
    BY <1>1, BufNone
  <2>2. QED
    BY <2>1, EmptySeq
<1>2. CASE sb # <<>>
  <2>1. PICK cap \in BufCapacities : Holds(TextBytes, sb, cap, sbLen) /\ sbLen \in Nat
    BY <1>2 DEF BufInv, BufIs
  <2>2. /\ SB!room = cap - 1 /\ cap \in Nat /\ SB!BufCapacity = cap
        /\ SB!items \in Seq(TextBytes) /\ Len(SB!items) = sbLen
    BY <2>1, BufHolds
  <2>3. cap > 1
    BY BufAssumed
  <2>4. QED
    BY <2>1, <2>2, <2>3
<1>3. QED
  BY <1>1, <1>2

(* The promise of a step of StringBuf beside its call. *)
BufGoal == BufInv' /\ (SB!room' # SB!room => sbRet' = "opened")

LEMMA BufKeeps ==
  ASSUME BufInv, sb' = sb, sbLen' = sbLen
  PROVE  BufInv' /\ SB!items' = SB!items /\ SB!room' = SB!room
BY DEF BufInv, SB!items, SB!room, SB!Remaining, SB!BufCapacity

LEMMA BufRefuses ==
  ASSUME StructuresAssumption, BufInv, NEW answer, SB!Returns(answer)
  PROVE  BufGoal /\ SB!Abstract!Keeps(answer)
<1>1. sb' = sb /\ sbLen' = sbLen /\ sbRet' = answer
  BY DEF SB!Returns
<1>2. BufInv' /\ SB!items' = SB!items /\ SB!room' = SB!room
  BY <1>1, BufKeeps
<1>3. QED
  BY <1>1, <1>2 DEF SB!Abstract!Keeps, BufGoal

LEMMA BufOpens ==
  ASSUME StructuresAssumption, BufInv, NEW cap \in BufCapacities, SB!Open(cap)
  PROVE  BufGoal /\ SB!Abstract!Open(<<>>, cap - 1)
<1>1. /\ sb' = [i \in 0 .. cap - 1 |-> IF i = 0 THEN Nul ELSE Junk] /\ sbLen' = 0
      /\ sbRet' = "opened"
  BY DEF SB!Open
<1>2. cap \in Nat /\ cap > 1
  BY BufAssumed
<1>3. Holds(TextBytes, sb', cap, sbLen')
  BY <1>1, <1>2 DEF Holds, Bytes, Filled
<1>4. SB!room' = cap - 1 /\ SB!items' = First(sb', 0) /\ BufInv'
  BY <1>1, <1>3, BufHoldsNext
<1>5. First(sb', 0) \in Seq(TextBytes) /\ Len(First(sb', 0)) = 0
  <2>1. Filled(TextBytes, sb', 0)
    BY DEF Filled
  <2>2. QED
    BY <2>1, FirstFacts
<1>6. First(sb', 0) = <<>>
  BY <1>5, EmptySeq
<1>7. QED
  BY <1>1, <1>4, <1>6 DEF BufGoal, SB!Abstract!Open

LEMMA BufAppends ==
  ASSUME StructuresAssumption, BufInv, sb # <<>>, NEW t \in Seq(TextBytes), NEW refusal,
         SB!AppendBytes(t, refusal)
  PROVE  /\ BufInv' /\ SB!Abstract!Adds(Len(SB!items), t, refusal) /\ SB!room' = SB!room
<1>1. PICK cap \in BufCapacities : Holds(TextBytes, sb, cap, sbLen) /\ sbLen \in Nat
  BY DEF BufInv, BufIs
<1>2. /\ SB!BufCapacity = cap /\ SB!room = cap - 1 /\ cap \in Nat /\ sbLen < cap
      /\ SB!items = First(sb, sbLen) /\ SB!items \in Seq(TextBytes) /\ Len(SB!items) = sbLen
      /\ Filled(TextBytes, sb, sbLen) /\ sb \in Bytes(cap)
  BY <1>1, BufHolds
<1>3. Len(t) \in Nat
  BY LenProperties
<1>4. CASE sbLen + Len(t) + 1 > cap
  <2>1. SB!Returns(refusal)
    BY <1>2, <1>4 DEF SB!AppendBytes
  <2>2. BufInv' /\ SB!Abstract!Keeps(refusal) /\ SB!room' = SB!room
    BY <2>1, BufRefuses DEF BufGoal, SB!Abstract!Keeps
  <2>3. Len(SB!items) + Len(t) > SB!room
    BY <1>1, <1>2, <1>3, <1>4
  <2>4. QED
    BY <2>2, <2>3 DEF SB!Abstract!Adds
<1>5. CASE ~(sbLen + Len(t) + 1 > cap)
  <2>1. sb' = Written(sb, sbLen, t) /\ sbLen' = sbLen + Len(t) /\ sbRet' = "ok"
    BY <1>2, <1>5 DEF SB!AppendBytes, Written
  <2>2. sbLen + Len(t) < cap /\ sbLen' \in Nat
    BY <1>1, <1>2, <1>3, <1>5, <2>1
  <2>3. Holds(TextBytes, sb', cap, sbLen') /\ First(sb', sbLen') = Splice(SB!items, Len(SB!items), t)
    BY <1>1, <1>2, <2>1, <2>2, WrittenFacts
  <2>4. SB!room' = SB!room /\ SB!items' = Splice(SB!items, Len(SB!items), t) /\ BufInv'
    BY <1>2, <2>2, <2>3, BufHoldsNext
  <2>5. SB!items' = SB!Abstract!Spliced(Len(SB!items), t)
    BY <2>4 DEF Splice, SB!Abstract!Spliced
  <2>6. Len(SB!items) + Len(t) <= SB!room
    BY <1>1, <1>2, <1>3, <2>2
  <2>7. SB!room' >= Len(SB!items) + Len(t)
    BY <2>4, <2>6
  <2>8. QED
    BY <2>1, <2>4, <2>5, <2>7 DEF SB!Abstract!Adds
<1>6. QED
  BY <1>4, <1>5

LEMMA BufExtends ==
  ASSUME StructuresAssumption, BufInv, sb # <<>>, NEW t \in Seq(TextBytes), SB!AppendBytes(t, "refused")
  PROVE  BufGoal /\ SB!Abstract!Extend(t)
BY BufAppends DEF BufGoal, SB!Abstract!Extend

(* A NULL buffer has no room, and says so. *)
LEMMA BufAbsent ==
  ASSUME StructuresAssumption, BufInv, sb = <<>>, SB!Returns("none"), NEW t \in Seq(TextBytes), Len(t) > 0,
         NEW refusal
  PROVE  BufGoal /\ SB!Abstract!Adds(Len(SB!items), t, refusal)
<1>1. SB!room = 0 /\ Len(SB!items) = 0 /\ Len(t) \in Nat
  BY BufNone, EmptySeq, LenProperties
<1>2. Len(SB!items) + Len(t) > SB!room
  BY <1>1
<1>3. BufGoal /\ SB!Abstract!Keeps("none")
  BY BufRefuses
<1>4. QED
  BY <1>1, <1>2, <1>3 DEF SB!Abstract!Adds

LEMMA BufGiven ==
  ASSUME NEW c \in Vals, NEW d \in Vals
  PROVE  /\ <<c>> \in Seq(TextBytes) /\ Len(<<c>>) > 0
         /\ <<c, d>> \in Seq(TextBytes) /\ Len(<<c, d>>) > 0
BY DEF TextBytes

LEMMA BufChars ==
  ASSUME StructuresAssumption, BufInv, NEW c \in Vals, SB!AppendChar(c)
  PROVE  BufGoal /\ SB!Abstract!Push(c)
<1>1. <<c>> \in Seq(TextBytes) /\ Len(<<c>>) > 0
  BY BufGiven
<1>2. CASE sb = <<>> /\ SB!Returns("none")
  BY <1>1, <1>2, BufAbsent DEF SB!Abstract!Push
<1>3. CASE sb # <<>> /\ SB!AppendBytes(<<c>>, "full")
  BY <1>1, <1>3, BufAppends DEF BufGoal, SB!Abstract!Push
<1>4. QED
  BY <1>2, <1>3 DEF SB!AppendChar, SB!IsNull

LEMMA BufTexts ==
  ASSUME StructuresAssumption, BufInv, NEW c \in Vals, NEW d \in Vals, SB!AppendText(<<c, d>>)
  PROVE  BufGoal /\ SB!Abstract!Extend(<<c, d>>)
<1>1. <<c, d>> \in Seq(TextBytes) /\ Len(<<c, d>>) > 0
  BY BufGiven
<1>2. CASE sb = <<>> /\ SB!Returns("none")
  BY <1>1, <1>2, BufAbsent DEF SB!Abstract!Extend
<1>3. CASE sb # <<>> /\ SB!AppendBytes(<<c, d>>, "refused")
  BY <1>1, <1>3, BufExtends
<1>4. QED
  BY <1>2, <1>3 DEF SB!AppendText, SB!IsNull

(* A view into the buffer is taken where it was written, if behind the end. *)
LEMMA BufSelf ==
  ASSUME StructuresAssumption, BufInv, NEW from \in Nat, NEW n \in Nat, SB!AppendSelf(from, n)
  PROVE  /\ BufGoal /\ SB!Abstract!Extend(Part(sb, from, n))
         /\ Part(sb, from, n) \in Seq(TextBytes) /\ Len(Part(sb, from, n)) > 0
<1> DEFINE t == Part(sb, from, n)
<1>1. /\ sb # <<>> /\ n > 0 /\ from + n <= SB!BufCapacity /\ SB!AppendBytes(t, "refused")
      /\ \A k \in 1 .. n : sb[from + k - 1] # Junk
  BY DEF SB!AppendSelf, SB!IsNull, Part
<1>2. PICK cap \in BufCapacities : Holds(TextBytes, sb, cap, sbLen) /\ sbLen \in Nat
  BY <1>1 DEF BufInv, BufIs
<1>3. SB!BufCapacity = cap /\ cap \in Nat /\ sb \in Bytes(cap)
  BY <1>2, BufHolds
<1>4. \A k \in 1 .. n : from + k - 1 \in 0 .. cap - 1
  BY <1>1, <1>3
<1>5. ASSUME NEW k \in 1 .. n PROVE sb[from + k - 1] \in TextBytes
  <2>1. sb \in [0 .. cap - 1 -> Vals \cup {Nul, Junk}]
    BY <1>3 DEF Bytes
  <2>2. sb[from + k - 1] \in Vals \cup {Nul, Junk}
    BY <1>4, <2>1
  <2>3. QED
    BY <1>1, <2>2 DEF TextBytes
<1>6. t = [k \in 1 .. n |-> sb[from + k - 1]]
  BY DEF Part
<1> HIDE DEF t
<1>7. t \in [1 .. n -> TextBytes]
  BY <1>5, <1>6
<1>8. t \in Seq(TextBytes)
  BY <1>7, SeqDef
<1>9. DOMAIN t = 1 .. n /\ DOMAIN t = 1 .. Len(t) /\ Len(t) \in Nat
  BY <1>7, <1>8, LenProperties
<1>10. Len(t) > 0
  BY <1>1, <1>9
<1>11. BufGoal /\ SB!Abstract!Extend(t)
  BY <1>1, <1>8, BufExtends
<1>12. QED
  BY <1>8, <1>10, <1>11 DEF t

(* A format that fails writes only behind the terminator. *)
LEMMA BufFormats ==
  ASSUME StructuresAssumption, BufInv, SB!FormatFails
  PROVE  BufGoal /\ SB!Abstract!FormatFails
<1>1. CASE SB!Returns("none")
  <2>1. SB!room \in Nat
    BY BufItems
  <2>2. QED
    BY <1>1, <2>1, BufRefuses DEF SB!Abstract!Keeps, SB!Abstract!FormatFails
<1>2. CASE \E n \in 1 .. SB!BufCapacity : \E c \in Vals :
             /\ sbLen + n + 1 <= SB!BufCapacity
             /\ sb' = [i \in DOMAIN sb |-> IF i < sbLen \/ i > sbLen + n THEN sb[i]
                                           ELSE IF i = sbLen THEN Nul ELSE c]
             /\ sbRet' = "none" /\ sbLen' = sbLen
  <2>1. sb # <<>>
    <3>1. CASE sb = <<>>
      <4>1. SB!BufCapacity = 0
        BY <3>1 DEF SB!BufCapacity
      <4>2. QED
        BY <1>2, <4>1
    <3>2. QED
      BY <3>1
  <2>2. PICK cap \in BufCapacities : Holds(TextBytes, sb, cap, sbLen) /\ sbLen \in Nat
    BY <2>1 DEF BufInv, BufIs
  <2>3. /\ SB!BufCapacity = cap /\ SB!room = cap - 1 /\ cap \in Nat /\ sbLen < cap
        /\ SB!items = First(sb, sbLen) /\ SB!items \in Seq(TextBytes) /\ Len(SB!items) = sbLen
        /\ Filled(TextBytes, sb, sbLen) /\ sb \in Bytes(cap)
    BY <2>2, BufHolds
  <2>4. PICK n \in 1 .. cap, c \in Vals :
          /\ sb' = [i \in DOMAIN sb |-> IF i < sbLen \/ i > sbLen + n THEN sb[i]
                                        ELSE IF i = sbLen THEN Nul ELSE c]
          /\ sbRet' = "none" /\ sbLen' = sbLen
    BY <1>2, <2>3
  <2>5. sb' \in Bytes(cap) /\ sb'[sbLen] = Nul /\ \A k \in 0 .. sbLen - 1 : sb'[k] = sb[k]
    <3>1. sb \in [0 .. cap - 1 -> Vals \cup {Nul, Junk}] /\ sbLen \in 0 .. cap - 1
      BY <2>2, <2>3 DEF Bytes
    <3>2. sb' \in [0 .. cap - 1 -> Vals \cup {Nul, Junk}]
      BY <2>4, <3>1
    <3>3. sb'[sbLen] = Nul
      BY <2>2, <2>4, <3>1
    <3>4. ASSUME NEW k \in 0 .. sbLen - 1 PROVE sb'[k] = sb[k]
      <4>1. k \in 0 .. cap - 1 /\ k < sbLen
        BY <2>2, <2>3
      <4>2. QED
        BY <2>4, <3>1, <4>1
    <3>5. QED
      BY <3>2, <3>3, <3>4 DEF Bytes
  <2>6. Filled(TextBytes, sb', sbLen)
    BY <2>3, <2>5 DEF Filled
  <2>7. Holds(TextBytes, sb', cap, sbLen') /\ sbLen' \in Nat
    BY <2>2, <2>3, <2>4, <2>5, <2>6 DEF Holds
  <2>8. SB!room' = cap - 1 /\ SB!items' = First(sb', sbLen') /\ BufInv'
    BY <2>7, BufHoldsNext
  <2>9. First(sb', sbLen) = SB!items
    <3>1. ASSUME NEW k \in 1 .. sbLen PROVE SB!items[k] = sb'[k - 1]
      <4>1. SB!items[k] = sb[k - 1] /\ k - 1 \in 0 .. sbLen - 1
        BY <2>2, <2>3, FirstFacts
      <4>2. QED
        BY <2>5, <4>1
    <3>2. QED
      BY <2>2, <2>3, <2>6, <3>1, FirstIs
  <2>10. SB!items' = SB!items
    BY <2>4, <2>8, <2>9
  <2>11. QED
    BY <2>3, <2>4, <2>8, <2>10 DEF BufGoal, SB!Abstract!FormatFails
<1>3. QED
  BY <1>1, <1>2 DEF SB!FormatFails

LEMMA BufCuts ==
  ASSUME StructuresAssumption, BufInv, sb # <<>>, NEW n \in Nat, n <= sbLen, NEW answer,
         SB!Cut(n, answer)
  PROVE  /\ BufInv' /\ SB!items' = SubSeq(SB!items, 1, n) /\ SB!room' = SB!room
         /\ sbRet' = answer /\ Len(SB!items) = sbLen /\ SB!items \in Seq(TextBytes) /\ sbLen \in Nat
<1>1. PICK cap \in BufCapacities : Holds(TextBytes, sb, cap, sbLen) /\ sbLen \in Nat
  BY DEF BufInv, BufIs
<1>2. /\ SB!room = cap - 1 /\ cap \in Nat /\ sbLen < cap
      /\ SB!items = First(sb, sbLen) /\ SB!items \in Seq(TextBytes) /\ Len(SB!items) = sbLen
      /\ Filled(TextBytes, sb, sbLen) /\ sb \in Bytes(cap)
  BY <1>1, BufHolds
<1>3. sb' = [sb EXCEPT ![n] = Nul] /\ sbLen' = n /\ sbRet' = answer
  BY DEF SB!Cut
<1>4. n \in 0 .. sbLen
  BY <1>1
<1> DEFINE c == [sb EXCEPT ![n] = Nul]
<1>5. Holds(TextBytes, c, cap, n) /\ First(c, n) = SubSeq(First(sb, sbLen), 1, n)
  BY <1>1, <1>2, <1>4, CutFacts
<1>6. sb' = c
  BY <1>3
<1> HIDE DEF c
<1>7. Holds(TextBytes, sb', cap, sbLen') /\ sbLen' \in Nat
  BY <1>3, <1>5, <1>6
<1>8. SB!room' = cap - 1 /\ SB!items' = First(sb', sbLen') /\ BufInv'
  BY <1>7, BufHoldsNext
<1>9. QED
  BY <1>1, <1>2, <1>3, <1>5, <1>6, <1>8

LEMMA BufClears ==
  ASSUME StructuresAssumption, BufInv, SB!Clear
  PROVE  BufGoal /\ SB!Abstract!Clear
<1>1. CASE sb = <<>> /\ SB!Returns("void")
  <2>1. sb' = sb /\ sbLen' = sbLen /\ sbRet' = "void"
    BY <1>1 DEF SB!Returns
  <2>2. SB!items = <<>>
    BY <1>1, BufNone
  <2>3. BufInv' /\ SB!items' = SB!items /\ SB!room' = SB!room
    BY <2>1, BufKeeps
  <2>4. QED
    BY <2>1, <2>2, <2>3 DEF BufGoal, SB!Abstract!Clear
<1>2. CASE sb # <<>> /\ SB!Cut(0, "void")
  <2>1. sbLen \in Nat
    BY <1>2 DEF BufInv, BufIs
  <2>2. /\ BufInv' /\ SB!items' = SubSeq(SB!items, 1, 0) /\ SB!room' = SB!room
        /\ sbRet' = "void" /\ SB!items \in Seq(TextBytes)
    BY <1>2, <2>1, BufCuts
  <2>3. SubSeq(SB!items, 1, 0) = <<>>
    BY <2>2, SubSeqEmpty
  <2>4. QED
    BY <2>2, <2>3 DEF BufGoal, SB!Abstract!Clear
<1>3. QED
  BY <1>1, <1>2 DEF SB!Clear, SB!IsNull

LEMMA BufTruncates ==
  ASSUME StructuresAssumption, BufInv, NEW n \in Nat, SB!Truncate(n)
  PROVE  BufGoal /\ SB!Abstract!Truncate(n)
<1>1. Len(SB!items) = sbLen /\ sbLen \in Nat /\ SB!room \in Nat
  BY BufItems
<1>2. CASE ~(sb # <<>> /\ n < sbLen) /\ SB!Returns("none")
  <2>1. n >= Len(SB!items)
    <3>1. sb = <<>> => sbLen = 0
      BY BufNone
    <3>2. QED
      BY <1>1, <1>2, <3>1
  <2>2. QED
    BY <1>2, <2>1, BufRefuses DEF SB!Abstract!Truncate
<1>3. CASE sb # <<>> /\ n < sbLen /\ SB!Cut(n, "cut")
  <2>1. n <= sbLen /\ ~(n >= Len(SB!items))
    BY <1>1, <1>3
  <2>2. /\ BufInv' /\ SB!items' = SubSeq(SB!items, 1, n) /\ SB!room' = SB!room
        /\ sbRet' = "cut"
    BY <1>3, <2>1, BufCuts
  <2>3. QED
    BY <2>1, <2>2 DEF BufGoal, SB!Abstract!Truncate
<1>4. QED
  BY <1>2, <1>3 DEF SB!Truncate, SB!IsNull

(* What the calls do is among the steps of the abstract sequence.          *)
LEMMA BufAlways ==
  ASSUME StructuresAssumption, BufInv
  PROVE  /\ SB!Abstract!Keeps("none") => SB!Abstract!Next
         /\ SB!Abstract!Keeps("refused") => SB!Abstract!Next
         /\ \A n \in Nat : SB!Abstract!Open(<<>>, n) => SB!Abstract!Next
<1>1. SB!room \in Nat
  BY BufItems
<1>2. ASSUME SB!Abstract!Keeps("none") PROVE SB!Abstract!Next
  BY <1>1, <1>2 DEF SB!Abstract!Keeps, SB!Abstract!FormatFails, SB!Abstract!Next
<1>3. ASSUME SB!Abstract!Keeps("refused") PROVE SB!Abstract!Next
  <2>1. SB!room' = SB!room
    BY <1>3 DEF SB!Abstract!Keeps
  <2>2. SB!room + 1 \in -1 .. SB!room' + 1 /\ SB!room + 1 > SB!room
    BY <1>1, <2>1
  <2>3. SB!Abstract!Reserve(SB!room + 1)
    BY <1>3, <2>2 DEF SB!Abstract!Reserve
  <2>4. QED
    BY <2>2, <2>3 DEF SB!Abstract!Next
<1>4. ASSUME NEW n \in Nat, SB!Abstract!Open(<<>>, n) PROVE SB!Abstract!Next
  <2>1. CASE SB!items' = <<>> /\ sbRet' = "opened" /\ SB!room' = n
    <3>1. SB!items' \in Seq(Vals \cup {Nul}) /\ Len(SB!items') <= SB!room'
      BY <1>4, <2>1, EmptySeq
    <3>2. QED
      BY <2>1, <3>1 DEF SB!Abstract!Swap, SB!Abstract!Next
  <2>2. CASE SB!Abstract!Free
    BY <2>2 DEF SB!Abstract!Next
  <2>3. QED
    BY <1>4, <2>1, <2>2 DEF SB!Abstract!Open
<1>5. QED
  BY <1>2, <1>3, <1>4

LEMMA BufExtended ==
  ASSUME StructuresAssumption, BufInv, NEW t \in Seq(TextBytes), Len(t) > 0, SB!Abstract!Extend(t)
  PROVE  SB!Abstract!Next
<1>1. /\ SB!items \in Seq(TextBytes) /\ Len(SB!items) \in Nat /\ Len(t) \in Nat
      /\ Len(SB!items) \in 0 .. Len(SB!items) /\ t \in [1 .. Len(t) -> Vals \cup {Nul}]
  BY BufItems, LenProperties DEF TextBytes
<1>2. CASE SB!items' = SB!Abstract!Spliced(Len(SB!items), t)
  <2>1. SB!items' = Splice(SB!items, Len(SB!items), t)
    BY <1>2 DEF Splice, SB!Abstract!Spliced
  <2>2. IsSplice(TextBytes, SB!items, Len(SB!items), t)
    BY <1>1, SpliceOf
  <2>3. Len(SB!items') = Len(SB!items) + Len(t)
    BY <2>1, <2>2 DEF IsSplice
  <2>4. Len(t) \in 1 .. Len(SB!items') \cup {SB!room + 1}
    BY <1>1, <2>3
  <2>5. QED
    BY <1>1, <2>4 DEF SB!Abstract!Next
<1>3. CASE SB!Abstract!Keeps("refused") \/ SB!Abstract!Keeps("none")
  BY <1>3, BufAlways
<1>4. QED
  BY <1>2, <1>3 DEF SB!Abstract!Extend, SB!Abstract!Adds

LEMMA BufStep ==
  ASSUME StructuresAssumption, BufInv, [SB!Next]_(SB!vars)
  PROVE  BufGoal /\ [SB!Abstract!Next]_(SB!Abstract!vars)
<1>1. SB!Lengths \subseteq Nat /\ Len(SB!items) \in Nat
  BY BufItems DEF SB!Lengths
<1>2. CASE UNCHANGED SB!vars
  <2>1. sb' = sb /\ sbLen' = sbLen /\ sbRet' = sbRet
    BY <1>2 DEF SB!vars
  <2>2. QED
    BY <2>1, BufKeeps DEF BufGoal, SB!Abstract!vars
<1>3. ASSUME SB!Next PROVE BufGoal /\ SB!Abstract!Next
  <2>1. ASSUME NEW n \in BufCapacities, SB!Open(n) PROVE BufGoal /\ SB!Abstract!Next
    <3>1. n - 1 \in Nat
      BY BufAssumed
    <3>2. QED
      BY <2>1, <3>1, BufOpens, BufAlways
  <2>2. ASSUME NEW c \in Vals, SB!AppendChar(c) PROVE BufGoal /\ SB!Abstract!Next
    <3>1. BufGoal /\ SB!Abstract!Push(c)
      BY <2>2, BufChars
    <3>2. c \in Vals \cup {Nul}
      OBVIOUS
    <3>3. QED
      BY <3>1, <3>2 DEF SB!Abstract!Next
  <2>3. ASSUME NEW c \in Vals, NEW d \in Vals, SB!AppendText(<<c, d>>)
        PROVE  BufGoal /\ SB!Abstract!Next
    BY <2>3, BufGiven, BufTexts, BufExtended
  <2>4. ASSUME NEW from \in SB!Lengths, NEW n \in SB!Lengths, SB!AppendSelf(from, n)
        PROVE  BufGoal /\ SB!Abstract!Next
    BY <1>1, <2>4, BufSelf, BufExtended
  <2>5. ASSUME NEW n \in SB!Lengths, SB!Truncate(n) PROVE BufGoal /\ SB!Abstract!Next
    <3>1. BufGoal /\ SB!Abstract!Truncate(n) /\ n \in Nat
      BY <1>1, <2>5, BufTruncates
    <3>2. CASE n >= Len(SB!items)
      <4>1. SB!Abstract!Keeps("none")
        BY <3>1, <3>2 DEF SB!Abstract!Truncate
      <4>2. QED
        BY <3>1, <4>1, BufAlways
    <3>3. CASE ~(n >= Len(SB!items))
      <4>1. n \in 0 .. Len(SB!items)
        BY <1>1, <3>1, <3>3
      <4>2. QED
        BY <3>1, <4>1 DEF SB!Abstract!Next
    <3>4. QED
      BY <3>2, <3>3
  <2>6. ASSUME SB!FormatFails \/ SB!Clear PROVE BufGoal /\ SB!Abstract!Next
    BY <2>6, BufFormats, BufClears DEF SB!Abstract!Next
  <2>7. QED
    BY <1>3, <2>1, <2>2, <2>3, <2>4, <2>5, <2>6 DEF SB!Next
<1>4. QED
  BY <1>2, <1>3

LEMMA BufCalls ==
  ASSUME StructuresAssumption, BufInv
  PROVE  [SB!Calls]_(SB!vars)
<1>1. SB!Lengths \subseteq Nat
  BY BufItems DEF SB!Lengths
<1>2. \A n \in BufCapacities : SB!Open(n) => SB!Abstract!Open(<<>>, n - 1)
  BY BufOpens
<1>3. \A c, d \in Vals :
        /\ SB!AppendChar(c) => SB!Abstract!Push(c)
        /\ SB!AppendText(<<c, d>>) => SB!Abstract!Extend(<<c, d>>)
  BY BufChars, BufTexts
<1>4. ASSUME NEW from \in SB!Lengths, NEW n \in SB!Lengths, SB!AppendSelf(from, n)
      PROVE  SB!Abstract!Extend([k \in 1 .. n |-> sb[from + k - 1]])
  <2>1. SB!Abstract!Extend(Part(sb, from, n))
    BY <1>1, <1>4, BufSelf
  <2>2. QED
    BY <2>1 DEF Part
<1>5. \A n \in SB!Lengths : SB!Truncate(n) => SB!Abstract!Truncate(n)
  BY <1>1, BufTruncates
<1>6. /\ SB!FormatFails => SB!Abstract!FormatFails
      /\ SB!Clear => SB!Abstract!Clear
  BY BufFormats, BufClears
<1>7. QED
  BY <1>2, <1>3, <1>4, <1>5, <1>6 DEF SB!Calls

LEMMA BufStarts ==
  ASSUME SB!Init
  PROVE  BufInv /\ SB!Abstract!Init
<1>1. sb = <<>> /\ sbLen = 0 /\ sbRet = "opened"
  BY DEF SB!Init
<1>2. SB!items = <<>> /\ SB!room = 0
  BY <1>1, BufNull
<1>3. QED
  BY <1>1, <1>2 DEF BufInv, BufIs, SB!Abstract!Init

LEMMA BufSays ==
  ASSUME StructuresAssumption, BufInv
  PROVE  SB!Terminated
<1> SUFFICES ASSUME sb # <<>>
             PROVE  /\ sbLen < SB!BufCapacity /\ sb[sbLen] = Nul
                    /\ \A k \in 0 .. sbLen - 1 : sb[k] \in Vals \cup {Nul}
  BY DEF SB!Terminated, SB!IsNull
<1>1. PICK cap \in BufCapacities : Holds(TextBytes, sb, cap, sbLen) /\ sbLen \in Nat
  BY DEF BufInv, BufIs
<1>2. SB!BufCapacity = cap
  BY <1>1, BufHolds
<1>3. QED
  BY <1>1, <1>2 DEF Holds, Filled, TextBytes

LEMMA BufServes == StructuresSpec => []BufInv /\ SB!Implements
<1>1. StructuresInit => BufInv /\ SB!Abstract!Init
  BY PartsStart, BufStarts
<1>2. BufInv /\ [StructuresNext]_allVars =>
        /\ BufInv' /\ [SB!Abstract!Next]_(SB!Abstract!vars)
        /\ [SB!room' # SB!room => sbRet' = "opened"]_(SB!vars)
  BY PartsStep, BufStep, StructuresAssumption DEF BufGoal
<1>3. BufInv => [SB!Calls]_(SB!vars)
  BY BufCalls, StructuresAssumption
<1>4. QED
  BY <1>1, <1>2, <1>3, PTL DEF StructuresSpec, SB!Implements, SB!Abstract!Spec

-----------------------------------------------------------------------------
(* DynString. *)
StrRecord == [data : StringAddrs \cup {0}, len : Nat, cap : Nat, open : BOOLEAN]

(* The string is w and the allocator's blocks are b. *)
StrIs(w, b) ==
  /\ w \in StrRecord /\ b \in [StringAddrs -> AnyBytes]
  /\ (w.data = 0) = (w.cap = 0)
  /\ ~w.open => w.data = 0
  /\ IF w.data = 0 THEN w.len = 0 ELSE Holds(Vals, b[w.data], w.cap, w.len)

StrInv == StrIs(ds, dsBlock) /\ Tells(dsLoan, ds.open)

LEMMA StrAssumed ==
  ASSUME StructuresAssumption
  PROVE  StringInitial \in Nat /\ StringInitial > 0 /\ AllocMax \in Nat /\ 0 \notin StringAddrs
BY DEF StructuresAssumption, DS!DynStringAssumption

LEMMA StrAs ==
  ASSUME NEW w, NEW b, StrIs(w, b)
  PROVE  /\ w.len \in Nat /\ w.cap \in Nat /\ w.open \in BOOLEAN /\ Filled(Vals, b[w.data], w.len)
         /\ First(b[w.data], w.len) \in Seq(Vals) /\ Len(First(b[w.data], w.len)) = w.len
         /\ w.cap > 0 => /\ w.data \in StringAddrs /\ w.len < w.cap
                         /\ b[w.data] \in Bytes(w.cap) /\ b[w.data][w.len] = Nul
         /\ w.cap = 0 => w.len = 0 /\ w.data = 0
<1>1. /\ w.len \in Nat /\ w.cap \in Nat /\ w.open \in BOOLEAN /\ w.data \in StringAddrs \cup {0}
      /\ (w.data = 0) = (w.cap = 0)
  BY DEF StrIs, StrRecord
<1>2. w.data = 0 => w.len = 0
  BY DEF StrIs
<1>3. w.data # 0 => Holds(Vals, b[w.data], w.cap, w.len)
  BY DEF StrIs
<1>4. Filled(Vals, b[w.data], w.len)
  <2>1. CASE w.data = 0
    BY <1>2, <2>1 DEF Filled
  <2>2. CASE w.data # 0
    BY <1>3, <2>2 DEF Holds
  <2>3. QED
    BY <2>1, <2>2
<1>5. First(b[w.data], w.len) \in Seq(Vals) /\ Len(First(b[w.data], w.len)) = w.len
  BY <1>1, <1>4, FirstFacts
<1>6. w.cap > 0 => /\ w.data \in StringAddrs /\ w.len < w.cap
                   /\ b[w.data] \in Bytes(w.cap) /\ b[w.data][w.len] = Nul
  BY <1>1, <1>3 DEF Holds
<1>7. QED
  BY <1>1, <1>2, <1>4, <1>5, <1>6

(* What Byte reads of the text. *)
LEMMA StrByte ==
  ASSUME StructuresAssumption, NEW w, NEW b, StrIs(w, b), NEW k \in 0 .. w.len, w.cap > 0
  PROVE  DS!Byte(b, w.data, k) = b[w.data][k]
<1>1. /\ w.len \in Nat /\ w.cap \in Nat /\ w.data \in StringAddrs /\ w.len < w.cap
      /\ b[w.data] \in Bytes(w.cap)
  BY StrAs
<1>2. k \in 0 .. w.cap - 1 /\ DOMAIN b[w.data] = 0 .. w.cap - 1 /\ w.data # 0
  BY <1>1, StrAssumed DEF Bytes
<1>3. QED
  BY <1>2 DEF DS!Byte

LEMMA StrText ==
  ASSUME StructuresAssumption, NEW w, NEW b, StrIs(w, b)
  PROVE  [i \in 1 .. w.len |-> DS!Byte(b, w.data, i - 1)] = First(b[w.data], w.len)
<1>1. w.len \in Nat /\ w.cap \in Nat /\ (w.cap = 0 => w.len = 0)
  BY StrAs
<1>2. ASSUME NEW i \in 1 .. w.len PROVE DS!Byte(b, w.data, i - 1) = b[w.data][i - 1]
  <2>1. i - 1 \in 0 .. w.len /\ w.cap > 0
    BY <1>1
  <2>2. QED
    BY <2>1, StrByte
<1>3. QED
  BY <1>2 DEF First

LEMMA StrItems ==
  ASSUME StructuresAssumption, StrIs(ds, dsBlock)
  PROVE  /\ DS!items = First(dsBlock[ds.data], ds.len) /\ DS!items \in Seq(Vals)
         /\ Len(DS!items) = ds.len /\ ds.len \in Nat /\ ds.cap \in Nat
<1>1. DS!items = First(dsBlock[ds.data], ds.len)
  BY StrText DEF DS!items
<1>2. ds.len \in Nat /\ ds.cap \in Nat /\ DS!items \in Seq(Vals) /\ Len(DS!items) = ds.len
  BY <1>1, StrAs
<1>3. QED
  BY <1>1, <1>2

LEMMA StrItemsNext ==
  ASSUME StructuresAssumption, StrIs(ds', dsBlock')
  PROVE  DS!items' = First(dsBlock'[ds'.data], ds'.len)
<1>1. [i \in 1 .. ds'.len |-> DS!Byte(dsBlock', ds'.data, i - 1)] = First(dsBlock'[ds'.data], ds'.len)
  BY StrText
<1>2. DS!items' = [i \in 1 .. ds'.len |-> DS!Byte(dsBlock', ds'.data, i - 1)]
  BY DEF DS!items, DS!Byte
<1>3. QED
  BY <1>1, <1>2

(* Another block of n bytes, a at a, with the text: in place of the old or *)
(* beside it.                                                              *)
LEMMA StrCopied ==
  ASSUME StructuresAssumption, StrIs(ds, dsBlock), NEW n \in Nat, NEW m \in Nat,
         ds.len < n, ds.cap > 0 => ds.len < m
  PROVE  Holds(Vals, DS!Copied(m, n), n, ds.len) /\ First(DS!Copied(m, n), ds.len) = DS!items
<1> DEFINE c == DS!Copied(m, n)
<1>1. /\ ds.len \in Nat /\ ds.cap \in Nat /\ Filled(Vals, dsBlock[ds.data], ds.len)
      /\ DS!items = First(dsBlock[ds.data], ds.len) /\ DS!items \in Seq(Vals) /\ Len(DS!items) = ds.len
      /\ (ds.cap = 0 => ds.len = 0 /\ ds.data = 0)
      /\ ds.cap > 0 => /\ ds.data \in StringAddrs /\ ds.len < ds.cap
                       /\ dsBlock[ds.data] \in Bytes(ds.cap) /\ dsBlock[ds.data][ds.len] = Nul
  BY StrAs, StrItems
<1>2. c = [i \in 0 .. n - 1 |-> IF ds.data = 0 THEN (IF i = 0 THEN Nul ELSE Junk)
                                ELSE IF i < m THEN DS!Byte(dsBlock, ds.data, i) ELSE Junk]
  BY DEF DS!Copied
<1> HIDE DEF c
<1>3. CASE ds.cap = 0
  <2>1. ds.data = 0 /\ ds.len = 0 /\ 0 \in 0 .. n - 1
    BY <1>1, <1>3
  <2>2. c \in Bytes(n) /\ c[0] = Nul
    BY <1>2, <2>1 DEF Bytes
  <2>3. Filled(Vals, c, 0)
    BY DEF Filled
  <2>4. First(c, 0) = DS!items
    BY <1>1, <2>1, <2>3, FirstFacts, EmptySeq
  <2>5. QED
    BY <2>1, <2>2, <2>3, <2>4 DEF Holds, c
<1>4. CASE ds.cap > 0
  <2>1. ds.data # 0 /\ ds.data \in StringAddrs
    BY <1>1, <1>4, StrAssumed
  <2>2. ASSUME NEW k \in 0 .. ds.len PROVE c[k] = dsBlock[ds.data][k]
    <3>1. k \in 0 .. n - 1 /\ k < m
      BY <1>1, <1>4
    <3>2. QED
      BY <1>2, <1>4, <2>1, <3>1, StrByte
  <2>3. c \in Bytes(n)
    <3>1. dsBlock[ds.data] \in [0 .. ds.cap - 1 -> Vals \cup {Nul, Junk}]
      BY <1>1, <1>4 DEF Bytes
    <3>2. ASSUME NEW k \in 0 .. n - 1 PROVE DS!Byte(dsBlock, ds.data, k) \in Vals \cup {Nul, Junk}
      BY <3>1 DEF DS!Byte
    <3>3. ASSUME NEW k \in 0 .. n - 1 PROVE c[k] \in Vals \cup {Nul, Junk}
      BY <1>2, <3>2
    <3>4. c \in [0 .. n - 1 -> Vals \cup {Nul, Junk}]
      BY <1>2, <3>3
    <3>5. QED
      BY <3>4 DEF Bytes
  <2>4. Filled(Vals, c, ds.len)
    BY <1>1, <2>2 DEF Filled
  <2>5. c[ds.len] = Nul
    BY <1>1, <1>4, <2>2
  <2>6. First(c, ds.len) = DS!items
    <3>1. ASSUME NEW k \in 1 .. ds.len PROVE DS!items[k] = c[k - 1]
      <4>1. DS!items[k] = dsBlock[ds.data][k - 1] /\ k - 1 \in 0 .. ds.len
        BY <1>1, FirstFacts
      <4>2. QED
        BY <2>2, <4>1
    <3>2. QED
      BY <1>1, <2>4, <3>1, FirstIs
  <2>7. QED
    BY <2>3, <2>4, <2>5, <2>6 DEF Holds, c
<1>5. QED
  BY <1>1, <1>3, <1>4

(* A string that has found its room: the text is where it was, or copied.  *)
StrRoomy(g, min) ==
  /\ g.s \in StrRecord /\ g.s.len = ds.len /\ g.s.open = ds.open /\ g.s.cap >= min
  /\ min <= ds.cap => g.s = ds
  /\ StrIs(g.s, g.block)
  /\ First(g.block[g.s.data], ds.len) = DS!items

LEMMA StrNewCap ==
  ASSUME StructuresAssumption, NEW min \in Nat, ds.cap \in Nat
  PROVE  DS!NewCap(min) \in Nat /\ DS!NewCap(min) >= min
BY StrAssumed DEF DS!NewCap

(* w and b are the open string and its blocks, with the text copied to a.  *)
StrPut(w, b, a, n, m) ==
  /\ StrIs(ds, dsBlock) /\ ds.open
  /\ a \in StringAddrs /\ n \in Nat /\ m \in Nat /\ ds.len < n
  /\ ds.cap > 0 => ds.len < m
  /\ b \in [StringAddrs -> AnyBytes] /\ b[a] = DS!Copied(m, n)
  /\ w \in StrRecord /\ w.data = a /\ w.cap = n /\ w.len = ds.len /\ w.open = ds.open

LEMMA StrMoved ==
  ASSUME StructuresAssumption, NEW w, NEW b, NEW a, NEW n, NEW m, StrPut(w, b, a, n, m)
  PROVE  StrIs(w, b) /\ First(b[w.data], ds.len) = DS!items
<1> USE DEF StrPut
<1>1. ds.len \in Nat /\ Holds(Vals, DS!Copied(m, n), n, ds.len) /\ First(DS!Copied(m, n), ds.len) = DS!items
  BY StrAs, StrCopied
<1>2. a # 0 /\ n # 0
  BY <1>1, StrAssumed
<1>3. StrIs(w, b)
  BY <1>1, <1>2 DEF StrIs
<1>4. QED
  BY <1>1, <1>3

LEMMA StrFields ==
  ASSUME StrIs(ds, dsBlock), NEW a \in StringAddrs, NEW n \in Nat,
         NEW w, w = [ds EXCEPT !.data = a, !.cap = n]
  PROVE  w \in StrRecord /\ w.data = a /\ w.cap = n /\ w.len = ds.len /\ w.open = ds.open
BY DEF StrIs, StrRecord

LEMMA StrCopyIn ==
  ASSUME StructuresAssumption, StrIs(ds, dsBlock), NEW n \in Nat, NEW m \in Nat,
         ds.len < n, ds.cap > 0 => ds.len < m
  PROVE  DS!Copied(m, n) \in AnyBytes /\ DS!NoBlock \in AnyBytes
<1>1. Holds(Vals, DS!Copied(m, n), n, ds.len)
  BY StrCopied
<1>2. DS!Copied(m, n) \in Bytes(n)
  BY <1>1 DEF Holds
<1>3. DS!NoBlock \in Bytes(0)
  BY DEF DS!NoBlock, Bytes
<1>4. QED
  BY <1>2, <1>3, BytesIn

LEMMA StrStays ==
  ASSUME StructuresAssumption, StrIs(ds, dsBlock), NEW min \in Nat, min <= ds.cap,
         NEW g, g = [s |-> ds, block |-> dsBlock]
  PROVE  StrRoomy(g, min)
<1>1. g.s = ds /\ g.block = dsBlock
  OBVIOUS
<1>2. ds \in StrRecord /\ DS!items = First(dsBlock[ds.data], ds.len)
  BY StrItems DEF StrIs
<1>3. ds.cap >= min
  BY <1>2 DEF StrRecord
<1>4. QED
  BY <1>1, <1>2, <1>3 DEF StrRoomy

LEMMA StrReallocates ==
  ASSUME StructuresAssumption, StrIs(ds, dsBlock), ds.open, NEW min \in Nat,
         NEW g \in DS!Reallocated(min)
  PROVE  StrRoomy(g, min)
<1>1. /\ ds.len \in Nat /\ ds.cap \in Nat /\ (ds.cap > 0 => ds.len < ds.cap)
      /\ (ds.cap = 0 => ds.len = 0) /\ dsBlock \in [StringAddrs -> AnyBytes]
  BY StrAs DEF StrIs
<1>2. CASE min <= ds.cap
  <2>1. g = [s |-> ds, block |-> dsBlock]
    BY <1>2 DEF DS!Reallocated
  <2>2. QED
    BY <1>2, <2>1, StrStays
<1>3. CASE ~(min <= ds.cap)
  <2> DEFINE n == DS!NewCap(min)
             m == ds.cap
             Blocks(a) == [x \in StringAddrs |-> IF x = a THEN DS!Copied(m, n)
                                                 ELSE IF x = ds.data THEN DS!NoBlock ELSE dsBlock[x]]
             Grown(a) == [ds EXCEPT !.data = a, !.cap = n]
  <2>1. PICK a \in StringAddrs : g = [s |-> Grown(a), block |-> Blocks(a)]
    BY <1>3 DEF DS!Reallocated
  <2> DEFINE b == Blocks(a)
             w == Grown(a)
  <2>2. g.s = w /\ g.block = b
    BY <2>1
  <2>3. n \in Nat /\ n >= min /\ ds.len < n /\ (ds.cap > 0 => ds.len < m) /\ m \in Nat
    BY <1>1, <1>3, StrNewCap
  <2> HIDE DEF n, m
  <2>4. DS!Copied(m, n) \in AnyBytes /\ DS!NoBlock \in AnyBytes
    BY <2>3, StrCopyIn
  <2>5. b \in [StringAddrs -> AnyBytes] /\ b[a] = DS!Copied(m, n)
    BY <1>1, <2>4
  <2> HIDE DEF b
  <2>6. w \in StrRecord /\ w.data = a /\ w.cap = n /\ w.len = ds.len /\ w.open = ds.open
    BY <2>3, StrFields
  <2> HIDE DEF w
  <2>8. StrPut(w, b, a, n, m)
    BY <2>3, <2>5, <2>6 DEF StrPut
  <2>9. StrIs(w, b) /\ First(b[w.data], ds.len) = DS!items
    BY <2>8, StrMoved
  <2>7. QED
    BY <1>3, <2>2, <2>3, <2>6, <2>9 DEF StrRoomy
<1>4. QED
  BY <1>2, <1>3

(* The old block is still there. *)
LEMMA StrDetaches ==
  ASSUME StructuresAssumption, StrIs(ds, dsBlock), ds.open, NEW min \in Nat,
         NEW g \in DS!Detached(min)
  PROVE  /\ StrRoomy(g, min)
         /\ \A k \in 0 .. ds.len - 1 : DS!Byte(g.block, ds.data, k) = dsBlock[ds.data][k]
<1>1. /\ ds.len \in Nat /\ ds.cap \in Nat /\ (ds.cap > 0 => ds.len < ds.cap /\ ds.data \in StringAddrs)
      /\ (ds.cap = 0 => ds.len = 0) /\ dsBlock \in [StringAddrs -> AnyBytes]
  BY StrAs DEF StrIs
<1>2. \A k \in 0 .. ds.len - 1 : DS!Byte(dsBlock, ds.data, k) = dsBlock[ds.data][k] /\ ds.cap > 0
  BY <1>1, StrByte
<1>3. CASE min <= ds.cap
  <2>1. g = [s |-> ds, block |-> dsBlock]
    BY <1>3 DEF DS!Detached
  <2>2. g.block = dsBlock
    BY <2>1
  <2>3. QED
    BY <1>2, <1>3, <2>1, <2>2, StrStays
<1>4. CASE ~(min <= ds.cap)
  <2> DEFINE n == DS!NewCap(min)
             m == ds.len + 1
             Blocks(a) == [dsBlock EXCEPT ![a] = DS!Copied(m, n)]
             Grown(a) == [ds EXCEPT !.data = a, !.cap = n]
  <2>1. PICK a \in StringAddrs \ {ds.data} : g = [s |-> Grown(a), block |-> Blocks(a)]
    BY <1>4 DEF DS!Detached
  <2> DEFINE b == Blocks(a)
             w == Grown(a)
  <2>2. g.s = w /\ g.block = b /\ a \in StringAddrs /\ a # ds.data
    BY <2>1
  <2>3. n \in Nat /\ n >= min /\ ds.len < n /\ (ds.cap > 0 => ds.len < m) /\ m \in Nat
    BY <1>1, <1>4, StrNewCap
  <2> HIDE DEF n, m
  <2>4. DS!Copied(m, n) \in AnyBytes
    BY <2>3, StrCopyIn
  <2>5. b \in [StringAddrs -> AnyBytes] /\ b[a] = DS!Copied(m, n)
    BY <1>1, <2>2, <2>4
  <2>6. ds.cap > 0 => b[ds.data] = dsBlock[ds.data]
    BY <1>1, <2>2
  <2> HIDE DEF b
  <2>7. w \in StrRecord /\ w.data = a /\ w.cap = n /\ w.len = ds.len /\ w.open = ds.open
    BY <2>2, <2>3, StrFields
  <2> HIDE DEF w
  <2>11. StrPut(w, b, a, n, m)
    BY <2>2, <2>3, <2>5, <2>7 DEF StrPut
  <2>12. StrIs(w, b) /\ First(b[w.data], ds.len) = DS!items
    BY <2>11, StrMoved
  <2>8. StrRoomy(g, min)
    BY <1>4, <2>2, <2>3, <2>7, <2>12 DEF StrRoomy
  <2>9. \A k \in 0 .. ds.len - 1 : DS!Byte(b, ds.data, k) = dsBlock[ds.data][k]
    BY <1>2, <2>6 DEF DS!Byte
  <2>10. QED
    BY <2>2, <2>8, <2>9
<1>5. QED
  BY <1>3, <1>4

(* The token of a call that restamps it exactly if the storage moves, and  *)
(* of one that ends every borrow.                                          *)
LEMMA StrTells ==
  ASSUME Tells(dsLoan, ds.open), ds.open \in BOOLEAN, NEW moved \in BOOLEAN, DS!Lends(moved, moved),
         ds'.open = ds.open
  PROVE  Tells(dsLoan', ds'.open)
<1>1. dsLoan' = Lent(dsLoan, moved, moved)
  BY DEF DS!Lends, Lent
<1>2. QED
  BY <1>1, TellsMove

LEMMA StrEnds ==
  ASSUME Tells(dsLoan, ds.open), NEW restamped \in BOOLEAN, DS!Lends(restamped, TRUE),
         ds'.open \in BOOLEAN, restamped \/ ~ds'.open
  PROVE  Tells(dsLoan', ds'.open)
<1>1. dsLoan' = Lent(dsLoan, restamped, TRUE) /\ dsLoan \in Loans
  BY DEF DS!Lends, Lent, Tells
<1>2. QED
  BY <1>1, TellsEnd

(* The text t is in the block c of w, where g has found room for it.       *)
StrWritten(g, n, c, w, b) ==
  /\ g.s \in StrRecord /\ g.s.cap > 0 /\ g.s.data \in StringAddrs /\ StrIs(g.s, g.block)
  /\ n \in Nat /\ Holds(Vals, c, g.s.cap, n)
  /\ w \in StrRecord /\ w.len = n /\ w.data = g.s.data /\ w.cap = g.s.cap /\ w.open = g.s.open
  /\ b \in [StringAddrs -> AnyBytes] /\ b[w.data] = c

LEMMA StrWrites ==
  ASSUME StructuresAssumption, NEW g, NEW n, NEW c, NEW w, NEW b, StrWritten(g, n, c, w, b)
  PROVE  StrIs(w, b) /\ First(b[w.data], w.len) = First(c, n)
<1> USE DEF StrWritten
<1>1. (w.data = 0) = (w.cap = 0) /\ (~w.open => w.data = 0) /\ w.data # 0
  BY StrAssumed DEF StrIs
<1>2. StrIs(w, b)
  BY <1>1 DEF StrIs
<1>3. QED
  BY <1>2

LEMMA StrAppends ==
  ASSUME StructuresAssumption, StrInv, ds.open, NEW t \in Seq(Vals), NEW min \in Nat,
         min > ds.len + Len(t), NEW g, StrRoomy(g, min), NEW answer, DS!Appends(g, t, answer)
  PROVE  /\ StrInv' /\ DS!items' = Splice(DS!items, ds.len, t) /\ dsRet' = answer
         /\ ds'.cap = g.s.cap /\ g.s.cap >= min /\ (min <= ds.cap => ds'.cap = ds.cap) /\ g.s.cap \in Nat
<1> DEFINE m == Len(t)
           n == ds.len + m
           w == g.s
           b == g.block
<1>1. /\ StrIs(ds, dsBlock) /\ Tells(dsLoan, ds.open) /\ m \in Nat /\ ds.len \in Nat
      /\ n \in Nat /\ ds.cap \in Nat /\ ds.open \in BOOLEAN /\ n < min
  BY StrAs, LenProperties DEF StrInv
<1>2. /\ w \in StrRecord /\ w.len = ds.len /\ w.open = ds.open /\ w.cap >= min /\ w.cap \in Nat
      /\ (min <= ds.cap => w = ds)
      /\ StrIs(w, b) /\ First(b[w.data], ds.len) = DS!items
  BY DEF StrRoomy, StrRecord
<1>3. w.cap > 0 /\ n < w.cap
  BY <1>1, <1>2
<1>4. w.data \in StringAddrs /\ b[w.data] \in Bytes(w.cap) /\ Filled(Vals, b[w.data], ds.len)
  BY <1>2, <1>3, StrAs
<1> DEFINE c == Written(b[w.data], ds.len, t)
<1>5. Holds(Vals, c, w.cap, n) /\ First(c, n) = Splice(DS!items, ds.len, t)
  BY <1>1, <1>2, <1>3, <1>4, WrittenFacts
<1>6. c = [i \in DOMAIN b[w.data] |->
             IF i < ds.len THEN b[w.data][i]
             ELSE IF i < ds.len + Len(t) THEN t[i - ds.len + 1]
             ELSE IF i = ds.len + Len(t) THEN Nul ELSE b[w.data][i]]
  <2>1. DOMAIN b[w.data] \subseteq Int
    BY <1>2, <1>4 DEF Bytes
  <2>2. QED
    BY <1>1, <2>1 DEF Written
<1>7. /\ ds' = [w EXCEPT !.len = w.len + Len(t)] /\ dsRet' = answer
      /\ dsBlock' = [x \in StringAddrs |-> IF x = w.data THEN c
                                           ELSE IF x = ds.data THEN DS!NoBlock ELSE b[x]]
      /\ DS!Lends(w.data # ds.data, w.data # ds.data)
  BY <1>6 DEF DS!Appends
<1> HIDE DEF c
<1>8. ds' = [w EXCEPT !.len = n]
  BY <1>2, <1>7
<1> HIDE DEF m, w, b, n
<1>9. ds' \in StrRecord /\ ds'.len = n /\ ds'.cap = w.cap /\ ds'.data = w.data /\ ds'.open = w.open
  BY <1>1, <1>2, <1>8 DEF StrRecord
<1>10. dsBlock' \in [StringAddrs -> AnyBytes] /\ dsBlock'[ds'.data] = c
  <2>1. c \in Bytes(w.cap) /\ DS!NoBlock \in Bytes(0) /\ b \in [StringAddrs -> AnyBytes]
    BY <1>2, <1>5 DEF Holds, DS!NoBlock, Bytes, StrIs
  <2>2. c \in AnyBytes /\ DS!NoBlock \in AnyBytes
    BY <1>2, <2>1, BytesIn
  <2>3. QED
    BY <1>4, <1>7, <1>9, <2>1, <2>2
<1>11. StrWritten(g, n, c, ds', dsBlock')
  BY <1>1, <1>2, <1>3, <1>4, <1>5, <1>9, <1>10 DEF StrWritten, w, b
<1>12. StrIs(ds', dsBlock') /\ First(dsBlock'[ds'.data], ds'.len) = First(c, n)
  BY <1>11, StrWrites
<1>13. DS!items' = Splice(DS!items, ds.len, t)
  BY <1>5, <1>12, StrItemsNext
<1>14. Tells(dsLoan', ds'.open)
  <2> DEFINE moved == w.data # ds.data
  <2>1. moved \in BOOLEAN /\ DS!Lends(moved, moved) /\ ds'.open = ds.open
    BY <1>2, <1>7, <1>9
  <2> HIDE DEF moved
  <2>2. QED
    BY <1>1, <2>1, StrTells
<1>15. QED
  BY <1>2, <1>7, <1>9, <1>12, <1>13, <1>14 DEF StrInv, w

LEMMA StrKeeps ==
  ASSUME StrInv, UNCHANGED <<ds, dsBlock, dsLoan>>
  PROVE  StrInv' /\ DS!items' = DS!items /\ ds' = ds
BY DEF StrInv, DS!items, DS!Byte

LEMMA StrRefuses ==
  ASSUME StructuresAssumption, StrInv, NEW answer, DS!Returns(answer)
  PROVE  StrInv' /\ DS!Abstract!Keeps(answer)
<1>1. UNCHANGED <<ds, dsBlock, dsLoan>> /\ dsRet' = answer
  BY DEF DS!Returns
<1>2. StrInv' /\ DS!items' = DS!items /\ ds' = ds
  BY <1>1, StrKeeps
<1>3. QED
  BY <1>1, <1>2 DEF DS!Abstract!Keeps

LEMMA StrAdds ==
  ASSUME StructuresAssumption, StrInv, ds.open, NEW t \in Seq(Vals), Len(t) > 0, NEW min \in Nat,
         min = ds.len + Len(t) + 1, NEW refusal,
         \/ \E g : StrRoomy(g, min) /\ DS!Appends(g, t, "ok")
         \/ DS!GrowFails(min, refusal)
  PROVE  StrInv' /\ DS!Abstract!Adds(Len(DS!items), t, refusal)
<1>1. /\ Len(DS!items) = ds.len /\ DS!items \in Seq(Vals) /\ ds.len \in Nat /\ ds.cap \in Nat
      /\ Len(t) \in Nat
  BY StrItems, LenProperties DEF StrInv
<1>2. CASE \E g : StrRoomy(g, min) /\ DS!Appends(g, t, "ok")
  <2>1. PICK g : StrRoomy(g, min) /\ DS!Appends(g, t, "ok")
    BY <1>2
  <2> DEFINE cap == g.s.cap
  <2>2. /\ StrInv' /\ DS!items' = Splice(DS!items, ds.len, t) /\ dsRet' = "ok"
        /\ ds'.cap = cap /\ cap >= min /\ (min <= ds.cap => ds'.cap = ds.cap) /\ cap \in Nat
    <3>1. min > ds.len + Len(t)
      BY <1>1
    <3>2. QED
      BY <2>1, <3>1, StrAppends
  <2> HIDE DEF cap
  <2>3. DS!items' = DS!Abstract!Spliced(Len(DS!items), t)
    BY <1>1, <2>2 DEF Splice, DS!Abstract!Spliced
  <2>4. /\ ds'.cap - 1 >= Len(DS!items) + Len(t)
        /\ Len(DS!items) + Len(t) <= ds.cap - 1 => ds'.cap - 1 = ds.cap - 1
    BY <1>1, <2>2
  <2>5. QED
    BY <2>2, <2>3, <2>4 DEF DS!Abstract!Adds
<1>3. CASE DS!GrowFails(min, refusal)
  <2>1. min > ds.cap /\ DS!Returns(refusal)
    BY <1>3 DEF DS!GrowFails
  <2>2. Len(DS!items) + Len(t) > ds.cap - 1
    BY <1>1, <2>1
  <2>3. QED
    BY <2>1, <2>2, StrRefuses DEF DS!Abstract!Adds
<1>4. QED
  BY <1>2, <1>3

LEMMA StrExtends ==
  ASSUME StructuresAssumption, StrInv, ds.open, NEW t \in Seq(Vals), Len(t) > 0, NEW min \in Nat,
         min = ds.len + Len(t) + 1,
         \/ \E g : StrRoomy(g, min) /\ DS!Appends(g, t, "ok")
         \/ DS!GrowFails(min, "refused")
  PROVE  StrInv' /\ DS!Abstract!Extend(t)
BY StrAdds DEF DS!Abstract!Extend

LEMMA StrPushes ==
  ASSUME StructuresAssumption, StrInv, NEW c \in Vals, DS!Append1(c)
  PROVE  StrInv' /\ DS!Abstract!Push(c)
<1> DEFINE min == ds.len + 2
           t == <<c>>
<1>1. /\ ds.len \in Nat /\ min \in Nat /\ ds.open /\ StrIs(ds, dsBlock)
      /\ t \in Seq(Vals) /\ Len(t) = 1
  BY StrItems, Given DEF StrInv, DS!Append1
<1>2. (\E g \in DS!Reallocated(min) : DS!Appends(g, t, "ok")) \/ DS!GrowFails(min, "full")
  BY DEF DS!Append1
<1>3. min = ds.len + Len(t) + 1 /\ Len(t) > 0
  BY <1>1
<1> HIDE DEF min, t
<1>4. (\E g : StrRoomy(g, min) /\ DS!Appends(g, t, "ok")) \/ DS!GrowFails(min, "full")
  BY <1>1, <1>2, StrReallocates
<1>5. StrInv' /\ DS!Abstract!Adds(Len(DS!items), t, "full")
  BY <1>1, <1>3, <1>4, StrAdds
<1>6. QED
  BY <1>5 DEF t, DS!Abstract!Push

LEMMA StrTexts ==
  ASSUME StructuresAssumption, StrInv, NEW c \in Vals, NEW d \in Vals, DS!AppendText(<<c, d>>)
  PROVE  StrInv' /\ DS!Abstract!Extend(<<c, d>>)
<1> DEFINE t == <<c, d>>
           min == ds.len + Len(t) + 1
<1>1. t \in Seq(Vals) /\ Len(t) > 0 /\ Len(t) \in Nat
  BY Given, LenProperties
<1> HIDE DEF t
<1>2. ds.len \in Nat /\ min \in Nat /\ ds.open /\ StrIs(ds, dsBlock)
  BY <1>1, StrItems DEF StrInv, DS!AppendText
<1>3. (\E g \in DS!Detached(min) : DS!Appends(g, t, "ok")) \/ DS!GrowFails(min, "refused")
  BY DEF DS!AppendText, t
<1>4. min = ds.len + Len(t) + 1
  OBVIOUS
<1> HIDE DEF min
<1>5. (\E g : StrRoomy(g, min) /\ DS!Appends(g, t, "ok")) \/ DS!GrowFails(min, "refused")
  BY <1>2, <1>3, StrDetaches
<1>6. StrInv' /\ DS!Abstract!Extend(t)
  BY <1>1, <1>2, <1>4, <1>5, StrExtends
<1>7. QED
  BY <1>6 DEF t

LEMMA StrSuffixes ==
  ASSUME StructuresAssumption, StrInv, NEW from \in Nat, DS!AppendSuffix(from)
  PROVE  /\ StrInv' /\ DS!Abstract!Extend(SubSeq(DS!items, from + 1, ds.len))
         /\ SubSeq(DS!items, from + 1, ds.len) \in Seq(Vals)
         /\ Len(SubSeq(DS!items, from + 1, ds.len)) > 0
<1> DEFINE min == 2 * ds.len - from + 1
           n == ds.len - from
           Read(g) == [k \in 1 .. n |-> DS!Byte(g.block, ds.data, from + k - 1)]
           Old == SubSeq(DS!items, from + 1, ds.len)
<1>1. /\ ds.open /\ from < ds.len /\ ds.len \in Nat /\ StrIs(ds, dsBlock)
      /\ Filled(Vals, dsBlock[ds.data], ds.len) /\ DS!items = First(dsBlock[ds.data], ds.len)
  BY StrAs, StrItems DEF StrInv, DS!AppendSuffix
<1>2. min \in Nat /\ n \in Nat /\ n > 0 /\ min = ds.len + n + 1 /\ from + n = ds.len
  BY <1>1
<1>3. (\E g \in DS!Detached(min) : DS!Appends(g, Read(g), "ok")) \/ DS!GrowFails(min, "refused")
  BY DEF DS!AppendSuffix
<1>4. Part(dsBlock[ds.data], from, n) = Old /\ Old \in Seq(Vals) /\ Len(Old) = n
  <2> DEFINE b == dsBlock[ds.data]
             k == ds.len
             q == DS!items
  <2>1. /\ k \in Nat /\ n \in Nat /\ Filled(Vals, b, k) /\ q = First(b, k)
        /\ from + n <= k /\ from + n = k
    BY <1>1, <1>2
  <2> HIDE DEF b, k, q, n
  <2>2. /\ Part(b, from, n) = SubSeq(First(b, k), from + 1, from + n)
        /\ Part(b, from, n) \in Seq(Vals) /\ Len(Part(b, from, n)) = n
    BY <2>1, PartFacts
  <2>3. Part(b, from, n) = SubSeq(q, from + 1, k)
    BY <2>1, <2>2
  <2>4. QED
    BY <2>2, <2>3 DEF b, k, q
<1>5. \A k \in 1 .. n : from + k - 1 \in 0 .. ds.len - 1
  BY <1>1
<1> HIDE DEF min, Old
<1>6. ASSUME NEW g \in DS!Detached(min) PROVE StrRoomy(g, min) /\ Read(g) = Old
  <2>1. /\ StrRoomy(g, min)
        /\ \A k \in 0 .. ds.len - 1 : DS!Byte(g.block, ds.data, k) = dsBlock[ds.data][k]
    BY <1>1, <1>2, StrDetaches
  <2>2. Read(g) = Part(dsBlock[ds.data], from, n)
    BY <1>5, <2>1 DEF Part
  <2>3. QED
    BY <1>4, <2>1, <2>2
<1> HIDE DEF n
<1>7. (\E g : StrRoomy(g, min) /\ DS!Appends(g, Old, "ok")) \/ DS!GrowFails(min, "refused")
  <2>1. CASE \E g \in DS!Detached(min) : DS!Appends(g, Read(g), "ok")
    <3>1. PICK g \in DS!Detached(min) : DS!Appends(g, Read(g), "ok")
      BY <2>1
    <3>2. StrRoomy(g, min) /\ Read(g) = Old
      BY <1>6
    <3>3. DS!Appends(g, Old, "ok")
      BY <3>1, <3>2
    <3>4. QED
      BY <3>2, <3>3
  <2>2. QED
    BY <1>3, <2>1
<1>8. Len(Old) > 0 /\ min = ds.len + Len(Old) + 1
  BY <1>2, <1>4
<1>9. StrInv' /\ DS!Abstract!Extend(Old)
  BY <1>1, <1>2, <1>4, <1>7, <1>8, StrExtends
<1>10. QED
  BY <1>4, <1>8, <1>9 DEF Old

LEMMA StrFormats ==
  ASSUME StructuresAssumption, StrInv, DS!FormatFails
  PROVE  StrInv' /\ DS!Abstract!FormatFails
<1>1. /\ ds.len \in Nat /\ ds.open /\ StrIs(ds, dsBlock) /\ ds.cap \in Nat
      /\ DS!items \in Seq(Vals) /\ Len(DS!items) = ds.len
  BY StrItems DEF StrInv, DS!FormatFails
<1>2. CASE DS!Returns("none")
  <2>1. StrInv' /\ DS!Abstract!Keeps("none")
    BY <1>2, StrRefuses
  <2>2. ds'.cap - 1 >= ds.cap - 1
    BY <1>1, <1>2 DEF DS!Returns
  <2>3. QED
    BY <2>1, <2>2 DEF DS!Abstract!Keeps, DS!Abstract!FormatFails
<1>3. CASE \E n \in 0 .. 2 : \E g \in DS!Detached(ds.len + n + 1) : DS!Appends(g, <<>>, "none")
  <2>1. PICK n \in 0 .. 2 : \E g \in DS!Detached(ds.len + n + 1) : DS!Appends(g, <<>>, "none")
    BY <1>3
  <2> DEFINE more == ds.len + n + 1
  <2>2. more \in Nat /\ more > ds.len + 0 /\ \E g \in DS!Detached(more) : DS!Appends(g, <<>>, "none")
    BY <1>1, <2>1
  <2> HIDE DEF more
  <2>3. PICK g \in DS!Detached(more) : DS!Appends(g, <<>>, "none")
    BY <2>2
  <2> DEFINE cap == g.s.cap
  <2>4. StrRoomy(g, more)
    BY <1>1, <2>2, StrDetaches
  <2>5. <<>> \in Seq(Vals) /\ more > ds.len + Len(<<>>)
    BY <2>2, EmptySeq
  <2>6. /\ StrInv' /\ DS!items' = Splice(DS!items, ds.len, <<>>) /\ dsRet' = "none"
        /\ ds'.cap = cap /\ cap >= more /\ (more <= ds.cap => ds'.cap = ds.cap) /\ cap \in Nat
    BY <1>1, <2>2, <2>3, <2>4, <2>5, StrAppends
  <2> HIDE DEF cap
  <2>7. DS!items' = DS!items
    BY <1>1, <2>6, SpliceNothing
  <2>8. cap >= ds.cap
    <3>1. ds.cap \in Nat /\ more \in Nat /\ cap \in Nat /\ cap >= more /\ (more <= ds.cap => cap = ds.cap)
      BY <1>1, <2>2, <2>6
    <3>2. QED
      BY <3>1
  <2>9. ds'.cap - 1 >= ds.cap - 1
    BY <1>1, <2>6, <2>8
  <2>10. QED
    BY <2>6, <2>7, <2>9 DEF DS!Abstract!FormatFails
<1>4. QED
  BY <1>2, <1>3 DEF DS!FormatFails

LEMMA StrCuts ==
  ASSUME StructuresAssumption, StrInv, ds.data # 0, NEW n \in 0 .. ds.len, NEW answer, DS!Cut(n, answer)
  PROVE  /\ StrInv' /\ DS!items' = SubSeq(DS!items, 1, n) /\ ds'.cap = ds.cap /\ dsRet' = answer
         /\ DS!items \in Seq(Vals)
<1>1. /\ StrIs(ds, dsBlock) /\ ds \in StrRecord /\ ds.len \in Nat /\ ds.cap \in Nat /\ ds.cap > 0
      /\ ds.data \in StringAddrs /\ ds.len < ds.cap /\ dsBlock[ds.data] \in Bytes(ds.cap)
      /\ Filled(Vals, dsBlock[ds.data], ds.len) /\ dsBlock \in [StringAddrs -> AnyBytes]
      /\ DS!items = First(dsBlock[ds.data], ds.len) /\ DS!items \in Seq(Vals)
      /\ (~ds.open => ds.data = 0) /\ (ds.data = 0) = (ds.cap = 0)
  BY StrAs, StrItems DEF StrInv, StrIs, StrRecord
<1> DEFINE b == dsBlock[ds.data]
           c == [b EXCEPT ![n] = Nul]
           cap == ds.cap
           k == ds.len
<1>2. k \in Nat /\ cap \in Nat /\ k < cap /\ b \in Bytes(cap) /\ Filled(Vals, b, k) /\ n \in 0 .. k
  BY <1>1
<1> HIDE DEF b, cap, k
<1>3. Holds(Vals, c, cap, n) /\ First(c, n) = SubSeq(First(b, k), 1, n)
  BY <1>2, CutFacts
<1> USE DEF b, cap, k
<1>4. ds' = [ds EXCEPT !.len = n] /\ dsBlock' = [dsBlock EXCEPT ![ds.data] = c]
      /\ dsLoan' = dsLoan /\ dsRet' = answer
  BY DEF DS!Cut
<1> HIDE DEF c
<1>5. c \in AnyBytes
  BY <1>1, <1>3, BytesIn DEF Holds
<1>6. n \in Nat /\ ds' \in StrRecord /\ ds'.len = n /\ ds'.cap = ds.cap /\ ds'.data = ds.data /\ ds'.open = ds.open
  BY <1>1, <1>4 DEF StrRecord
<1>7. dsBlock' \in [StringAddrs -> AnyBytes] /\ dsBlock'[ds'.data] = c
  BY <1>1, <1>4, <1>5, <1>6
<1>8. StrIs(ds', dsBlock')
  BY <1>1, <1>3, <1>6, <1>7 DEF StrIs
<1>9. DS!items' = First(c, n)
  BY <1>6, <1>7, <1>8, StrItemsNext
<1>10. Tells(dsLoan', ds'.open)
  BY <1>4, <1>6 DEF StrInv
<1>11. QED
  BY <1>1, <1>3, <1>4, <1>6, <1>8, <1>9, <1>10 DEF StrInv

LEMMA StrClears ==
  ASSUME StructuresAssumption, StrInv, DS!Clear
  PROVE  StrInv' /\ DS!Abstract!Clear
<1>1. CASE ds.data = 0 /\ DS!Returns("void")
  <2>1. ds' = ds /\ dsBlock' = dsBlock /\ dsLoan' = dsLoan /\ dsRet' = "void"
    BY <1>1 DEF DS!Returns
  <2>2. DS!items = <<>>
    <3>1. StrIs(ds, dsBlock) /\ ds.len = 0
      BY <1>1 DEF StrInv, StrIs
    <3>2. QED
      BY <3>1, StrItems, EmptySeq
  <2>3. StrInv' /\ DS!items' = DS!items
    BY <2>1, StrKeeps
  <2>4. QED
    BY <2>1, <2>2, <2>3 DEF DS!Abstract!Clear
<1>2. CASE ds.data # 0 /\ DS!Cut(0, "void")
  <2>1. 0 \in 0 .. ds.len
    BY StrAs DEF StrInv
  <2>2. /\ StrInv' /\ DS!items' = SubSeq(DS!items, 1, 0) /\ ds'.cap = ds.cap
        /\ dsRet' = "void" /\ DS!items \in Seq(Vals)
    BY <1>2, <2>1, StrCuts
  <2>3. SubSeq(DS!items, 1, 0) = <<>>
    BY <2>2, SubSeqEmpty
  <2>4. QED
    BY <2>2, <2>3 DEF DS!Abstract!Clear
<1>3. QED
  BY <1>1, <1>2 DEF DS!Clear

LEMMA StrTruncates ==
  ASSUME StructuresAssumption, StrInv, NEW n \in Nat, DS!Truncate(n)
  PROVE  StrInv' /\ DS!Abstract!Truncate(n)
<1>1. ds.len \in Nat /\ Len(DS!items) = ds.len /\ (ds.data = 0 => ds.len = 0)
  BY StrItems DEF StrInv, StrIs
<1>2. CASE ~(ds.data # 0 /\ n < ds.len)
  <2>1. n >= Len(DS!items) /\ DS!Returns("none")
    BY <1>1, <1>2 DEF DS!Truncate
  <2>2. QED
    BY <2>1, StrRefuses DEF DS!Abstract!Truncate
<1>3. CASE ds.data # 0 /\ n < ds.len
  <2>1. n \in 0 .. ds.len /\ DS!Cut(n, "cut") /\ ~(n >= Len(DS!items))
    BY <1>1, <1>3 DEF DS!Truncate
  <2>2. StrInv' /\ DS!items' = SubSeq(DS!items, 1, n) /\ ds'.cap = ds.cap /\ dsRet' = "cut"
    BY <1>3, <2>1, StrCuts
  <2>3. QED
    BY <2>1, <2>2 DEF DS!Abstract!Truncate
<1>4. QED
  BY <1>2, <1>3

LEMMA StrReserves ==
  ASSUME StructuresAssumption, StrInv, NEW n \in Nat, DS!Reserve(n)
  PROVE  StrInv' /\ DS!Abstract!Reserve(n - 1)
<1>1. /\ StrIs(ds, dsBlock) /\ Tells(dsLoan, ds.open) /\ ds.open /\ ds.open \in BOOLEAN
      /\ ds.cap \in Nat /\ ds.len \in Nat
  BY StrAs DEF StrInv, DS!Reserve
<1>2. CASE \E g \in DS!Reallocated(n) :
             /\ ds' = g.s /\ dsBlock' = g.block
             /\ DS!Lends(g.s.data # ds.data, g.s.data # ds.data) /\ dsRet' = "ok"
  <2>1. PICK g \in DS!Reallocated(n) :
          /\ ds' = g.s /\ dsBlock' = g.block
          /\ DS!Lends(g.s.data # ds.data, g.s.data # ds.data) /\ dsRet' = "ok"
    BY <1>2
  <2>2. StrRoomy(g, n)
    BY <1>1, StrReallocates
  <2> DEFINE moved == g.s.data # ds.data
             cap == g.s.cap
  <2>3. /\ StrIs(ds', dsBlock') /\ ds'.len = ds.len /\ ds'.cap = cap /\ cap \in Nat
        /\ ds'.open = ds.open /\ cap >= n /\ (n <= ds.cap => cap = ds.cap)
        /\ First(dsBlock'[ds'.data], ds'.len) = DS!items
    BY <2>1, <2>2 DEF StrRoomy, StrRecord
  <2>4. DS!Lends(moved, moved) /\ dsRet' = "ok" /\ moved \in BOOLEAN
    BY <2>1
  <2> HIDE DEF moved, cap
  <2>5. Tells(dsLoan', ds'.open)
    BY <1>1, <2>3, <2>4, StrTells
  <2>6. DS!items' = DS!items
    BY <2>3, StrItemsNext
  <2>7. ds'.cap - 1 >= n - 1 /\ (n - 1 <= ds.cap - 1 => ds'.cap - 1 = ds.cap - 1)
    BY <1>1, <2>3
  <2>8. QED
    BY <2>3, <2>4, <2>5, <2>6, <2>7 DEF StrInv, DS!Abstract!Reserve
<1>3. CASE DS!GrowFails(n, "refused")
  <2>1. n > ds.cap /\ DS!Returns("refused")
    BY <1>3 DEF DS!GrowFails
  <2>2. n - 1 > ds.cap - 1
    BY <1>1, <2>1
  <2>3. QED
    BY <2>1, <2>2, StrRefuses DEF DS!Abstract!Reserve
<1>4. QED
  BY <1>2, <1>3 DEF DS!Reserve

(* The string has no block, now that the call has ended: open and empty,   *)
(* or closed.                                                              *)
StrGivesUp(open, restamped) ==
  /\ restamped \/ ~open
  /\ ds' = [data |-> 0, len |-> 0, cap |-> 0, open |-> open]
  /\ dsBlock' \in [StringAddrs -> AnyBytes]
  /\ DS!Lends(restamped, TRUE)

LEMMA StrEmptied ==
  ASSUME StructuresAssumption, StrInv, NEW open \in BOOLEAN, NEW restamped \in BOOLEAN,
         StrGivesUp(open, restamped)
  PROVE  StrInv' /\ DS!items' = <<>> /\ ds'.cap = 0
<1> USE DEF StrGivesUp
<1>1. ds' \in StrRecord /\ ds'.data = 0 /\ ds'.open = open /\ ds'.cap = 0 /\ ds'.len = 0
  BY DEF StrRecord
<1>2. StrIs(ds', dsBlock')
  BY <1>1 DEF StrIs
<1>3. Tells(dsLoan', ds'.open)
  BY <1>1, StrEnds DEF StrInv
<1>4. DS!items' = <<>>
  <2>1. DS!items' = First(dsBlock'[ds'.data], ds'.len)
    BY <1>2, StrItemsNext
  <2>2. First(dsBlock'[ds'.data], ds'.len) \in Seq(Vals) /\ Len(First(dsBlock'[ds'.data], ds'.len)) = ds'.len
    BY <1>2, StrAs
  <2>3. QED
    BY <1>1, <2>1, <2>2, EmptySeq
<1>5. QED
  BY <1>1, <1>2, <1>3, <1>4 DEF StrInv

LEMMA StrFrees ==
  ASSUME StructuresAssumption, StrInv, DS!Free
  PROVE  StrInv' /\ DS!Abstract!Free
<1>1. /\ ds' = [data |-> 0, len |-> 0, cap |-> 0, open |-> FALSE]
      /\ dsBlock' = [a \in StringAddrs |-> DS!NoBlock] /\ DS!Lends(FALSE, TRUE) /\ dsRet' = "opened"
  BY DEF DS!Free, DS!Opened
<1>2. DS!NoBlock \in Bytes(0)
  BY DEF DS!NoBlock, Bytes
<1>3. dsBlock' \in [StringAddrs -> AnyBytes]
  BY <1>1, <1>2, BytesIn
<1>4. StrGivesUp(FALSE, FALSE)
  BY <1>1, <1>3 DEF StrGivesUp
<1>5. StrInv' /\ DS!items' = <<>> /\ ds'.cap = 0
  BY <1>4, StrEmptied
<1>6. ds'.cap - 1 = -1
  BY <1>5
<1>7. QED
  BY <1>1, <1>5, <1>6 DEF DS!Abstract!Free

LEMMA StrCStrings ==
  ASSUME NEW t \in Seq(Vals), NEW n \in Nat, n > Len(t)
  PROVE  Holds(Vals, DS!CString(t, n), n, Len(t)) /\ First(DS!CString(t, n), Len(t)) = t
<1> DEFINE c == DS!CString(t, n)
           m == Len(t)
<1>1. m \in Nat /\ m < n /\ \A k \in 1 .. m : t[k] \in Vals
  BY LenProperties
<1>2. c = [i \in 0 .. n - 1 |-> IF i < m THEN t[i + 1] ELSE IF i = m THEN Nul ELSE Junk]
  BY DEF DS!CString
<1> HIDE DEF c, m
<1>3. ASSUME NEW k \in 0 .. m - 1 PROVE c[k] = t[k + 1] /\ c[k] \in Vals
  <2>1. k \in 0 .. n - 1 /\ k < m /\ k + 1 \in 1 .. m
    BY <1>1
  <2>2. QED
    BY <1>1, <1>2, <2>1
<1>4. ASSUME NEW k \in 0 .. n - 1 PROVE c[k] \in Vals \cup {Nul, Junk}
  <2>1. CASE k < m
    <3>1. k \in 0 .. m - 1
      BY <1>1, <2>1
    <3>2. QED
      BY <1>3, <3>1
  <2>2. CASE ~(k < m)
    BY <1>2, <2>2
  <2>3. QED
    BY <2>1, <2>2
<1>5. c \in Bytes(n) /\ c[m] = Nul
  BY <1>1, <1>2, <1>4 DEF Bytes
<1>6. Filled(Vals, c, m)
  BY <1>3 DEF Filled
<1>7. ASSUME NEW i \in 1 .. m PROVE t[i] = c[i - 1]
  <2>1. i - 1 \in 0 .. m - 1 /\ (i - 1) + 1 = i
    BY <1>1
  <2>2. QED
    BY <1>3, <2>1
<1>8. First(c, m) = t
  BY <1>1, <1>6, <1>7, FirstIs DEF m
<1>9. QED
  BY <1>1, <1>5, <1>6, <1>8 DEF Holds, c, m

LEMMA StrOpens ==
  ASSUME StructuresAssumption, StrInv, NEW t \in Seq(Vals), NEW n \in Nat,
         NEW a \in StringAddrs \cup {0}, DS!Open(t, n, a)
  PROVE  StrInv' /\ DS!Abstract!Open(t, n - 1)
<1>1. /\ StrIs(ds, dsBlock) /\ Tells(dsLoan, ds.open) /\ dsBlock \in [StringAddrs -> AnyBytes]
      /\ n > Len(t) /\ Len(t) \in Nat /\ dsRet' = "opened" /\ DS!Lends(TRUE, TRUE)
  BY LenProperties DEF StrInv, StrIs, DS!Open
<1>2. CASE a = 0
  <2>1. StrGivesUp(TRUE, TRUE)
    BY <1>1, <1>2 DEF DS!Open, DS!Opened, StrGivesUp
  <2>2. StrInv' /\ DS!items' = <<>> /\ ds'.cap = 0
    BY <2>1, StrEmptied
  <2>3. ds'.cap - 1 = -1
    BY <2>2
  <2>4. QED
    BY <1>1, <2>2, <2>3 DEF DS!Abstract!Open, DS!Abstract!Free
<1>3. CASE a # 0
  <2> DEFINE c == DS!CString(t, n)
             m == Len(t)
  <2>1. Holds(Vals, c, n, m) /\ First(c, m) = t
    BY <1>1, StrCStrings
  <2>2. /\ ds' = [data |-> a, len |-> m, cap |-> n, open |-> TRUE]
        /\ dsBlock' = [dsBlock EXCEPT ![a] = c]
    BY <1>3 DEF DS!Open
  <2>3. m \in Nat /\ m < n /\ n # 0 /\ a \in StringAddrs
    BY <1>1, <1>3
  <2> HIDE DEF c, m
  <2>4. ds' \in StrRecord /\ ds'.len = m /\ ds'.cap = n /\ ds'.data = a /\ ds'.open = TRUE
    BY <2>2, <2>3 DEF StrRecord
  <2>5. c \in AnyBytes
    BY <2>1, BytesIn DEF Holds
  <2>6. dsBlock' \in [StringAddrs -> AnyBytes] /\ dsBlock'[ds'.data] = c
    BY <1>1, <2>2, <2>3, <2>4, <2>5
  <2>7. StrIs(ds', dsBlock')
    BY <1>3, <2>1, <2>3, <2>4, <2>6 DEF StrIs
  <2>8. DS!items' = t
    BY <2>1, <2>4, <2>6, <2>7, StrItemsNext
  <2>9. Tells(dsLoan', ds'.open)
    BY <1>1, <2>4, StrEnds
  <2>10. QED
    BY <1>1, <2>4, <2>7, <2>8, <2>9 DEF StrInv, DS!Abstract!Open
<1>4. QED
  BY <1>2, <1>3

LEMMA StrShrinks ==
  ASSUME StructuresAssumption, StrInv, DS!ShrinkToFit
  PROVE  StrInv' /\ DS!Abstract!Shrink
<1>1. /\ StrIs(ds, dsBlock) /\ Tells(dsLoan, ds.open) /\ ds.open /\ ds.open \in BOOLEAN
      /\ ds.len \in Nat /\ Len(DS!items) = ds.len /\ DS!items \in Seq(Vals)
      /\ dsBlock \in [StringAddrs -> AnyBytes] /\ ds.cap \in Nat
      /\ (ds.data = 0 => ds.cap = 0 /\ ds.len = 0) /\ (ds.data # 0 => ds.len < ds.cap)
  <2>1. /\ StrIs(ds, dsBlock) /\ Tells(dsLoan, ds.open) /\ ds.open
        /\ dsBlock \in [StringAddrs -> AnyBytes] /\ (ds.data = 0) = (ds.cap = 0)
    BY DEF StrInv, StrIs, DS!ShrinkToFit
  <2>2. QED
    BY <2>1, StrAs, StrItems
<1>2. CASE \/ (ds.data = 0 \/ (ds.len # 0 /\ ds.cap = ds.len + 1)) /\ DS!Returns("ok")
           \/ ds.data # 0 /\ ds.len # 0 /\ ds.cap # ds.len + 1 /\ DS!Returns("refused")
  <2>1. CASE ds.data = 0 /\ DS!Returns("ok")
    <3>1. DS!items = <<>> /\ ds.cap - 1 = -1
      BY <1>1, <2>1, EmptySeq
    <3>2. ds' = ds
      BY <2>1 DEF DS!Returns
    <3>3. QED
      BY <2>1, <3>1, <3>2, StrRefuses DEF DS!Abstract!Keeps, DS!Abstract!Shrink
  <2>2. CASE ds.cap = ds.len + 1 /\ DS!Returns("ok")
    <3>1. ds.cap - 1 = Len(DS!items) /\ ds' = ds
      BY <1>1, <2>2 DEF DS!Returns
    <3>2. QED
      BY <2>2, <3>1, StrRefuses DEF DS!Abstract!Keeps, DS!Abstract!Shrink
  <2>3. CASE ds.data # 0 /\ ds.len # 0 /\ ds.cap # ds.len + 1 /\ DS!Returns("refused")
    <3>1. DS!items # <<>> /\ Len(DS!items) < ds.cap - 1
      BY <1>1, <2>3, EmptySeq
    <3>2. QED
      BY <2>3, <3>1, StrRefuses DEF DS!Abstract!Shrink
  <2>4. QED
    BY <1>2, <2>1, <2>2, <2>3
<1>3. CASE /\ ds.len = 0 /\ ds' = DS!Opened /\ dsBlock' = [dsBlock EXCEPT ![ds.data] = DS!NoBlock]
           /\ DS!Lends(TRUE, TRUE) /\ dsRet' = "ok"
  <2>1. DS!NoBlock \in Bytes(0)
    BY DEF DS!NoBlock, Bytes
  <2>2. dsBlock' \in [StringAddrs -> AnyBytes]
    BY <1>1, <1>3, <2>1, BytesIn
  <2>3. StrGivesUp(TRUE, TRUE)
    BY <1>3, <2>2 DEF StrGivesUp, DS!Opened
  <2>4. StrInv' /\ DS!items' = <<>> /\ ds'.cap = 0
    BY <2>3, StrEmptied
  <2>5. DS!items = <<>> /\ ds'.cap - 1 = -1
    BY <1>1, <1>3, <2>4, EmptySeq
  <2>6. QED
    BY <1>1, <1>3, <2>4, <2>5 DEF DS!Abstract!Shrink
<1>4. CASE \E a \in StringAddrs :
             /\ ds' = [ds EXCEPT !.data = a, !.cap = ds.len + 1]
             /\ dsBlock' = [x \in StringAddrs |-> IF x = a THEN DS!Copied(ds.len + 1, ds.len + 1)
                                                  ELSE IF x = ds.data THEN DS!NoBlock ELSE dsBlock[x]]
             /\ DS!Lends(a # ds.data, a # ds.data) /\ dsRet' = "ok"
  <2> DEFINE n == ds.len + 1
  <2>1. PICK a \in StringAddrs :
             /\ ds' = [ds EXCEPT !.data = a, !.cap = n]
             /\ dsBlock' = [x \in StringAddrs |-> IF x = a THEN DS!Copied(n, n)
                                                  ELSE IF x = ds.data THEN DS!NoBlock ELSE dsBlock[x]]
             /\ DS!Lends(a # ds.data, a # ds.data) /\ dsRet' = "ok"
    BY <1>4
  <2>2. n \in Nat /\ n > 0 /\ ds.len < n /\ n - 1 = ds.len
    BY <1>1
  <2> HIDE DEF n
  <2>3. DS!Copied(n, n) \in AnyBytes /\ DS!NoBlock \in AnyBytes
    BY <1>1, <2>2, StrCopyIn
  <2>4. dsBlock' \in [StringAddrs -> AnyBytes] /\ dsBlock'[a] = DS!Copied(n, n)
    BY <1>1, <2>1, <2>3
  <2>5. /\ ds' \in StrRecord /\ ds'.data = a /\ ds'.cap = n /\ ds'.len = ds.len
        /\ ds'.open = ds.open
    BY <1>1, <2>1, <2>2 DEF StrIs, StrRecord
  <2>6. StrPut(ds', dsBlock', a, n, n)
    BY <1>1, <2>2, <2>4, <2>5 DEF StrPut
  <2>7. StrIs(ds', dsBlock') /\ First(dsBlock'[ds'.data], ds.len) = DS!items
    BY <2>6, StrMoved
  <2>8. DS!items' = DS!items
    BY <2>5, <2>7, StrItemsNext
  <2>9. ds'.cap - 1 = Len(DS!items)
    BY <1>1, <2>2, <2>5
  <2> DEFINE moved == a # ds.data
  <2>10. moved \in BOOLEAN /\ DS!Lends(moved, moved)
    BY <2>1
  <2> HIDE DEF moved
  <2>11. Tells(dsLoan', ds'.open)
    BY <1>1, <2>5, <2>10, StrTells
  <2>12. QED
    BY <2>1, <2>5, <2>7, <2>8, <2>9, <2>11 DEF StrInv, DS!Abstract!Shrink
<1>5. QED
  BY <1>2, <1>3, <1>4 DEF DS!ShrinkToFit

LEMMA StrBorrows ==
  ASSUME StrInv, DS!Borrow
  PROVE  StrInv' /\ UNCHANGED DS!Abstract!vars
<1>1. /\ ds.open /\ ds' = ds /\ dsBlock' = dsBlock /\ dsRet' = dsRet
      /\ dsLoan' = [taken |-> TRUE, sameId |-> TRUE, sameStorage |-> TRUE]
  BY DEF DS!Borrow
<1>2. ds.open = TRUE
  BY <1>1 DEF StrInv, StrIs, StrRecord
<1>3. Tells(dsLoan', ds'.open)
  BY <1>1, <1>2, TellsTaken
<1>4. DS!items' = DS!items
  BY <1>1 DEF DS!items, DS!Byte
<1>5. QED
  BY <1>1, <1>3, <1>4 DEF StrInv, DS!Abstract!vars

LEMMA StrFacts ==
  ASSUME StructuresAssumption, StrInv
  PROVE  DS!items \in Seq(Vals) /\ Len(DS!items) = ds.len /\ ds.len \in Nat /\ ds.cap \in Nat
BY StrItems DEF StrInv

(* What the calls do is among the steps of the abstract vector.            *)
LEMMA StrAlways ==
  ASSUME StructuresAssumption, StrInv, StrInv'
  PROVE  /\ DS!Abstract!Keeps("none") => DS!Abstract!Next
         /\ DS!Abstract!Keeps("refused") => DS!Abstract!Next
         /\ \A t \in Seq(Vals), n \in Nat :
              n > Len(t) /\ DS!Abstract!Open(t, n - 1) => DS!Abstract!Next
         /\ \A n \in Nat : DS!Abstract!Reserve(n - 1) => DS!Abstract!Next
<1>1. ds.cap \in Nat /\ ds'.cap \in Nat
  BY DEF StrInv, StrIs, StrRecord
<1>2. ASSUME DS!Abstract!Keeps("none") PROVE DS!Abstract!Next
  <2>1. ds'.cap - 1 >= ds.cap - 1
    BY <1>1, <1>2 DEF DS!Abstract!Keeps
  <2>2. QED
    BY <1>2, <2>1 DEF DS!Abstract!Keeps, DS!Abstract!FormatFails, DS!Abstract!Next
<1>3. ASSUME DS!Abstract!Keeps("refused") PROVE DS!Abstract!Next
  <2> DEFINE have == ds.cap - 1
             m == have + 1
  <2>1. ds'.cap - 1 = have
    BY <1>3 DEF DS!Abstract!Keeps
  <2>2. m \in -1 .. (ds'.cap - 1) + 1 /\ m > have
    BY <1>1, <2>1
  <2> HIDE DEF m
  <2>3. DS!Abstract!Reserve(m)
    BY <1>3, <2>2 DEF DS!Abstract!Reserve
  <2>4. QED
    BY <2>2, <2>3 DEF DS!Abstract!Next
<1>4. ASSUME NEW t \in Seq(Vals), NEW n \in Nat, n > Len(t), DS!Abstract!Open(t, n - 1)
      PROVE  DS!Abstract!Next
  <2>1. CASE DS!items' = t /\ dsRet' = "opened" /\ ds'.cap - 1 = n - 1
    <3>1. Len(t) \in Nat
      BY LenProperties
    <3>2. Len(t) <= ds'.cap - 1
      BY <1>1, <1>4, <2>1, <3>1
    <3>3. QED
      BY <2>1, <3>2 DEF DS!Abstract!Swap, DS!Abstract!Next
  <2>2. CASE DS!Abstract!Free
    BY <2>2 DEF DS!Abstract!Next
  <2>3. QED
    BY <1>4, <2>1, <2>2 DEF DS!Abstract!Open
<1>5. ASSUME NEW n \in Nat, DS!Abstract!Reserve(n - 1) PROVE DS!Abstract!Next
  <2> DEFINE m == n - 1
  <2>1. CASE ds'.cap - 1 >= m
    <3>1. m \in -1 .. (ds'.cap - 1) + 1
      BY <1>1, <2>1
    <3>2. DS!Abstract!Reserve(m)
      BY <1>5
    <3> HIDE DEF m
    <3>3. QED
      BY <3>1, <3>2 DEF DS!Abstract!Next
  <2>2. CASE DS!Abstract!Keeps("refused")
    BY <1>3, <2>2
  <2>3. QED
    BY <1>5, <2>1, <2>2 DEF DS!Abstract!Reserve
<1>6. QED
  BY <1>2, <1>3, <1>4, <1>5

LEMMA StrExtended ==
  ASSUME StructuresAssumption, StrInv, StrInv', NEW t \in Seq(Vals), Len(t) > 0, DS!Abstract!Extend(t)
  PROVE  DS!Abstract!Next
<1>1. /\ DS!items \in Seq(Vals) /\ Len(DS!items) \in Nat /\ Len(t) \in Nat
      /\ Len(DS!items) \in 0 .. Len(DS!items) /\ t \in [1 .. Len(t) -> Vals]
  BY StrFacts, LenProperties
<1>2. CASE DS!items' = DS!Abstract!Spliced(Len(DS!items), t)
  <2>1. DS!items' = Splice(DS!items, Len(DS!items), t)
    BY <1>2 DEF Splice, DS!Abstract!Spliced
  <2>2. Len(DS!items') = Len(DS!items) + Len(t)
    BY <1>1, <2>1, SpliceLength
  <2>3. Len(t) \in 1 .. Len(DS!items') \cup {(ds.cap - 1) + 1}
    BY <1>1, <2>2
  <2>4. QED
    BY <1>1, <2>3 DEF DS!Abstract!Next
<1>3. CASE DS!Abstract!Keeps("refused") \/ DS!Abstract!Keeps("none")
  BY <1>3, StrAlways
<1>4. QED
  BY <1>2, <1>3 DEF DS!Abstract!Extend, DS!Abstract!Adds

LEMMA StrStep ==
  ASSUME StructuresAssumption, StrInv, [DS!Next]_(DS!vars)
  PROVE  StrInv' /\ [DS!Abstract!Next]_(DS!Abstract!vars)
<1>1. 0 .. AllocMax \subseteq Nat /\ 1 .. AllocMax \subseteq Nat
  BY StrAssumed
<1>2. CASE UNCHANGED DS!vars
  <2>1. UNCHANGED <<ds, dsBlock, dsLoan, dsRet>>
    BY <1>2 DEF DS!vars
  <2>2. QED
    BY <2>1, StrKeeps DEF DS!Abstract!vars
<1>3. CASE DS!Borrow
  BY <1>3, StrBorrows
<1>4. ASSUME DS!Next, ~DS!Borrow PROVE StrInv' /\ DS!Abstract!Next
  <2>1. ASSUME NEW a \in StringAddrs \cup {0}, NEW n \in 1 .. AllocMax,
               DS!Open(<<>>, n, a) \/ (\E c, d \in Vals : DS!Open(<<c, d>>, n, a))
        PROVE  StrInv' /\ DS!Abstract!Next
    <3>1. PICK t \in Seq(Vals) : DS!Open(t, n, a)
      <4>1. <<>> \in Seq(Vals) /\ \A c, d \in Vals : <<c, d>> \in Seq(Vals)
        BY EmptySeq, Given
      <4>2. QED
        BY <2>1, <4>1
    <3>2. n \in Nat /\ n > Len(t)
      BY <1>1, <3>1 DEF DS!Open
    <3>3. StrInv' /\ DS!Abstract!Open(t, n - 1)
      BY <3>1, <3>2, StrOpens
    <3>4. QED
      BY <3>2, <3>3, StrAlways
  <2>2. ASSUME NEW c \in Vals, DS!Append1(c) PROVE StrInv' /\ DS!Abstract!Next
    BY <2>2, StrPushes DEF DS!Abstract!Next
  <2>3. ASSUME NEW c \in Vals, NEW d \in Vals, DS!AppendText(<<c, d>>)
        PROVE  StrInv' /\ DS!Abstract!Next
    <3>1. <<c, d>> \in Seq(Vals) /\ Len(<<c, d>>) > 0
      BY Given
    <3>2. QED
      BY <2>3, <3>1, StrTexts, StrExtended
  <2>4. ASSUME NEW from \in 0 .. AllocMax, DS!AppendSuffix(from) PROVE StrInv' /\ DS!Abstract!Next
    BY <1>1, <2>4, StrSuffixes, StrExtended
  <2>5. ASSUME NEW n \in 0 .. AllocMax, DS!Truncate(n) PROVE StrInv' /\ DS!Abstract!Next
    <3>1. n \in Nat /\ StrInv' /\ DS!Abstract!Truncate(n) /\ Len(DS!items) \in Nat
      BY <1>1, <2>5, StrTruncates, StrFacts
    <3>2. CASE n \in 0 .. Len(DS!items)
      BY <3>1, <3>2 DEF DS!Abstract!Next
    <3>3. CASE n > Len(DS!items)
      <4>1. n >= Len(DS!items)
        BY <3>1, <3>3
      <4>2. QED
        BY <3>1, <4>1, StrAlways DEF DS!Abstract!Truncate
    <3>4. QED
      BY <3>1, <3>2, <3>3
  <2>6. ASSUME NEW n \in 0 .. AllocMax, DS!Reserve(n) PROVE StrInv' /\ DS!Abstract!Next
    BY <1>1, <2>6, StrReserves, StrAlways
  <2>7. ASSUME DS!FormatFails \/ DS!Clear \/ DS!ShrinkToFit \/ DS!Free
        PROVE  StrInv' /\ DS!Abstract!Next
    BY <2>7, StrFormats, StrClears, StrShrinks, StrFrees DEF DS!Abstract!Next
  <2>8. QED
    BY <1>4, <2>1, <2>2, <2>3, <2>4, <2>5, <2>6, <2>7 DEF DS!Next
<1>5. QED
  BY <1>2, <1>3, <1>4

LEMMA StrCalls ==
  ASSUME StructuresAssumption, StrInv
  PROVE  [DS!Calls]_(DS!vars)
<1>1. 0 .. AllocMax \subseteq Nat /\ 1 .. AllocMax \subseteq Nat
  BY StrAssumed
<1>2. \A a \in StringAddrs \cup {0}, n \in 1 .. AllocMax :
        /\ DS!Open(<<>>, n, a) => DS!Abstract!Open(<<>>, n - 1)
        /\ \A c, d \in Vals : DS!Open(<<c, d>>, n, a) => DS!Abstract!Open(<<c, d>>, n - 1)
  <2>1. <<>> \in Seq(Vals) /\ \A c, d \in Vals : <<c, d>> \in Seq(Vals)
    BY EmptySeq, Given
  <2>2. QED
    BY <1>1, <2>1, StrOpens
<1>3. \A c \in Vals : DS!Append1(c) => DS!Abstract!Push(c)
  BY StrPushes
<1>4. \A c, d \in Vals : DS!AppendText(<<c, d>>) => DS!Abstract!Extend(<<c, d>>)
  BY StrTexts
<1>5. \A n \in 0 .. AllocMax :
        /\ DS!AppendSuffix(n) => DS!Abstract!Extend(SubSeq(DS!items, n + 1, ds.len))
        /\ DS!Truncate(n) => DS!Abstract!Truncate(n)
        /\ DS!Reserve(n) => DS!Abstract!Reserve(n - 1)
  BY <1>1, StrSuffixes, StrTruncates, StrReserves
<1>6. /\ DS!FormatFails => DS!Abstract!FormatFails
      /\ DS!Clear => DS!Abstract!Clear
      /\ DS!ShrinkToFit => DS!Abstract!Shrink
      /\ DS!Free => DS!Abstract!Free
  BY StrFormats, StrClears, StrShrinks, StrFrees
<1>7. QED
  BY <1>2, <1>3, <1>4, <1>5, <1>6 DEF DS!Calls

LEMMA StrStarts ==
  ASSUME StructuresAssumption, DS!Init
  PROVE  StrInv /\ DS!Abstract!Init
<1>1. /\ ds = [data |-> 0, len |-> 0, cap |-> 0, open |-> TRUE] /\ dsRet = "opened"
      /\ dsBlock = [a \in StringAddrs |-> DS!NoBlock]
      /\ dsLoan = [taken |-> FALSE, sameId |-> FALSE, sameStorage |-> FALSE]
  BY DEF DS!Init, DS!Opened, DS!NoLoan
<1>2. ds \in StrRecord /\ ds.data = 0 /\ ds.len = 0 /\ ds.cap = 0 /\ ds.open = TRUE
  BY <1>1 DEF StrRecord
<1>3. DS!NoBlock \in Bytes(0)
  BY DEF DS!NoBlock, Bytes
<1>4. dsBlock \in [StringAddrs -> AnyBytes]
  BY <1>1, <1>3, BytesIn
<1>5. StrIs(ds, dsBlock)
  BY <1>2, <1>4 DEF StrIs
<1>6. Tells(dsLoan, ds.open)
  BY <1>1, <1>2, TellsNone
<1>7. DS!items = <<>> /\ ds.cap - 1 \in Nat \cup {-1}
  BY <1>2, <1>5, StrItems, EmptySeq
<1>8. QED
  BY <1>1, <1>5, <1>6, <1>7 DEF StrInv, DS!Abstract!Init

LEMMA StrSays ==
  ASSUME StructuresAssumption, StrInv
  PROVE  DS!Terminated /\ DS!BorrowTellsMoves
<1>1. StrIs(ds, dsBlock) /\ Tells(dsLoan, ds.open)
  BY DEF StrInv
<1>2. DS!BorrowTellsMoves
  BY <1>1 DEF Tells, DS!BorrowTellsMoves
<1>3. ASSUME ds.data # 0
      PROVE  /\ ds.len < ds.cap /\ DS!Byte(dsBlock, ds.data, ds.len) = Nul
             /\ \A i \in 0 .. ds.len - 1 : DS!Byte(dsBlock, ds.data, i) \in Vals
  <2>1. /\ ds.len \in Nat /\ ds.cap \in Nat /\ Filled(Vals, dsBlock[ds.data], ds.len) /\ ds.cap > 0
        /\ ds.len < ds.cap /\ dsBlock[ds.data][ds.len] = Nul
    BY <1>1, <1>3, StrAs
  <2>2. \A i \in 0 .. ds.len : DS!Byte(dsBlock, ds.data, i) = dsBlock[ds.data][i]
    BY <1>1, <2>1, StrByte
  <2>3. ds.len \in 0 .. ds.len /\ \A i \in 0 .. ds.len - 1 : i \in 0 .. ds.len
    BY <2>1
  <2>4. QED
    BY <2>1, <2>2, <2>3 DEF Filled
<1>4. QED
  BY <1>2, <1>3 DEF DS!Terminated

LEMMA StrServes == StructuresSpec => []StrInv /\ DS!Implements
<1>1. StructuresInit => StrInv /\ DS!Abstract!Init
  BY PartsStart, StrStarts, StructuresAssumption
<1>2. StrInv /\ [StructuresNext]_allVars => StrInv' /\ [DS!Abstract!Next]_(DS!Abstract!vars)
  BY PartsStep, StrStep, StructuresAssumption
<1>3. StrInv => [DS!Calls]_(DS!vars)
  BY StrCalls, StructuresAssumption
<1>4. QED
  BY <1>1, <1>2, <1>3, PTL DEF StructuresSpec, DS!Implements, DS!Abstract!Spec

(* What DynString's and StringBuf's str answer is a C string of their      *)
(* length, also after a formatting that wrote over the end and failed.     *)
THEOREM StringsEndInNul == StructuresSpec => []StringsTerminated
<1>1. StrInv /\ BufInv => StringsTerminated
  BY StrSays, BufSays, StructuresAssumption DEF StringsTerminated
<1>2. QED
  BY <1>1, StrServes, BufServes, PTL

(* DynString and StringBuf: each call is the abstract call of its name, so *)
(* one that fits is done, and one that fails leaves the text; only a       *)
(* formatting that fails may leave more room.                              *)
THEOREM StringsImplement == StructuresSpec => StringsServe
BY StrServes, BufServes, PTL DEF StringsServe

(* A borrow from a DynVec or a DynString is accepted while the storage it  *)
(* was taken from is theirs, and refused from the call that moves it on.   *)
THEOREM BorrowsAreTold == StructuresSpec => []BorrowsTellMoves
<1>1. DynInv /\ StrInv => BorrowsTellMoves
  BY DynSays, StrSays, StructuresAssumption DEF BorrowsTellMoves
<1>2. QED
  BY <1>1, DynServes, StrServes, PTL

-----------------------------------------------------------------------------
(* What the parts that state a type invariant say of their values, and of  *)
(* the values their slots must not have together.                          *)
THEOREM PartsTyped == StructuresSpec => []TypesOK
<1>1. StructuresInit => DequeIInv /\ QueueIInv /\ InternIInv
  BY PartsStart, InitDequeIInv, InitQueueIInv, InitInternIInv
<1>2. DequeIInv /\ QueueIInv /\ InternIInv /\ [StructuresNext]_allVars =>
        DequeIInv' /\ QueueIInv' /\ InternIInv'
  BY PartsStep, NextDequeIInv, NextQueueIInv, NextInternIInv
<1>3. DequeIInv /\ QueueIInv /\ InternIInv => TypeOK /\ PQTypeOK /\ InternTypeOK
  BY DEF DequeIInv, QueueIInv, InternIInv
<1>4. DynInv /\ SmallInv => DV!TypeOK /\ SV!TypeOK
  BY DynSays, SmallSays
<1>5. StructuresSpec => [](DequeIInv /\ QueueIInv /\ InternIInv)
  BY <1>1, <1>2, PTL DEF StructuresSpec
<1>6. QED
  BY <1>3, <1>4, <1>5, DynServes, SmallServes, PTL DEF TypesOK
=============================================================================
