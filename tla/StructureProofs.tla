-------------------------- MODULE StructureProofs ---------------------------
(***************************************************************************)
(* The ring deque, the binary heap and the intern pool, then the checked   *)
(* arithmetic, sort and search, ranges and bitsets: parts that share no    *)
(* state and no operator, proved one after the other.                      *)
(***************************************************************************)
EXTENDS Structures, FiniteSetTheorems, SequenceTheorems, WellFoundedInduction, TLAPS

(***************************************************************************)
(* The ring keeps its indices in its buffer and serves a sequence, for any *)
(* number of deques, buffers of any capacity, and any values.              *)
(*                                                                         *)
(* TypeOK and RingAgrees are inductive together: an index stays in the     *)
(* buffer because the indices and the size agree, and a push reaches only  *)
(* its own deque because no two share a buffer.                            *)
(***************************************************************************)

DequeIInv == TypeOK /\ RingAgrees

-----------------------------------------------------------------------------
(* Going round the ring once at most. *)
LEMMA ModOnce ==
  \A c \in Nat \ {0} : \A h \in 0 .. c - 1 : \A z \in 0 .. c :
    (h + z) % c = IF h + z < c THEN h + z ELSE h + z - c
OBVIOUS

(* The steps of the indices, without %. *)
LEMMA RingFacts ==
  ASSUME DequeIInv, NEW d \in Deques, HasBuffer(d)
  PROVE  LET s == dq[d] IN
         /\ s.buffer \in Deques /\ s.capacity = BufferOf[s.buffer]
         /\ s.capacity \in Nat \ {0}
         /\ s.head \in 0 .. s.capacity - 1 /\ s.tail \in 0 .. s.capacity - 1
         /\ s.size \in 0 .. s.capacity
         /\ s.tail = IF s.head + s.size < s.capacity THEN s.head + s.size
                                                     ELSE s.head + s.size - s.capacity
         /\ \A i \in 0 .. s.capacity - 1 :
              /\ Up(d, i) = IF i + 1 = s.capacity THEN 0 ELSE i + 1
              /\ Down(d, i) = IF i = 0 THEN s.capacity - 1 ELSE i - 1
<1> DEFINE s == dq[d]
<1>1. /\ s.buffer \in Deques /\ s.capacity = BufferOf[s.buffer]
      /\ s.head \in 0 .. s.capacity - 1 /\ s.tail \in 0 .. s.capacity - 1
      /\ s.size \in 0 .. s.capacity
  BY DEF DequeIInv, TypeOK, StructOK, HasBuffer, Empty
<1>2. s.capacity \in Nat \ {0}
  BY <1>1, DequeAssumption
<1>3. s.tail = (s.head + s.size) % s.capacity
  BY DEF DequeIInv, RingAgrees
<1> HIDE DEF s
<1>4. s.tail = IF s.head + s.size < s.capacity THEN s.head + s.size
                                               ELSE s.head + s.size - s.capacity
  BY <1>1, <1>2, <1>3, ModOnce
<1>5. ASSUME NEW i \in 0 .. s.capacity - 1
      PROVE  (i + 1) % s.capacity = IF i + 1 = s.capacity THEN 0 ELSE i + 1
  <2>1. 1 \in 0 .. s.capacity
    BY <1>2
  <2>2. (i + 1) % s.capacity = IF i + 1 < s.capacity THEN i + 1 ELSE i + 1 - s.capacity
    BY <1>2, <2>1, ModOnce
  <2>3. QED
    BY <1>2, <2>2
<1>6. QED
  BY <1>1, <1>2, <1>4, <1>5 DEF s, Up, Down

LEMMA InitDequeIInv == Init => DequeIInv
<1> SUFFICES ASSUME Init PROVE DequeIInv
  OBVIOUS
<1>1. ASSUME NEW d \in Deques PROVE dq[d] \in {Empty, Opened(d)}
  BY DEF Init
<1>2. ASSUME NEW d \in Deques
      PROVE  /\ StructOK(dq[d])
             /\ HasBuffer(d) => dq[d] = Opened(d)
  <2>1. BufferOf[d] \in Nat /\ BufferOf[d] > 0
    BY DequeAssumption
  <2>2. QED
    BY <1>1, <2>1 DEF StructOK, Opened, Empty, HasBuffer
<1>3. ASSUME NEW d \in Deques PROVE mem[d] \in [0 .. BufferOf[d] - 1 -> Vals]
  <2>1. mem[d] \in Contents /\ DOMAIN mem[d] = 0 .. BufferOf[d] - 1
    BY DEF Init
  <2>2. PICK e \in Deques : mem[d] \in [0 .. BufferOf[e] - 1 -> Vals]
    BY <2>1 DEF Contents
  <2>3. QED
    BY <2>1, <2>2
<1>4. TypeOK
  <2>1. dq \in [Deques -> Struct]
    BY <1>1, DequeAssumption DEF Init, Struct, Empty, Opened
  <2>2. mem \in [Deques -> Contents]
    BY DEF Init
  <2>3. QED
    BY <1>2, <1>3, <2>1, <2>2 DEF TypeOK, Init, Ok
<1>5. RingAgrees
  <2>1. ASSUME NEW d \in Deques, HasBuffer(d)
        PROVE  dq[d].tail = (dq[d].head + dq[d].size) % dq[d].capacity
    <3>1. BufferOf[d] \in Nat \ {0}
      BY DequeAssumption
    <3>2. 0 = (0 + 0) % BufferOf[d]
      BY <3>1
    <3>3. dq[d] = Opened(d)
      BY <1>2, <2>1
    <3>4. QED
      BY <3>2, <3>3 DEF Opened
  <2>2. ASSUME NEW d \in Deques, HasBuffer(d) PROVE dq[d].buffer = d
    <3>1. dq[d] = Opened(d)
      BY <1>2, <2>2
    <3>2. QED
      BY <3>1 DEF Opened
  <2>3. QED
    BY <2>1, <2>2 DEF RingAgrees, HasBuffer
<1>6. QED
  BY <1>4, <1>5 DEF DequeIInv

-----------------------------------------------------------------------------
(* What a call on d does to the structs. *)
Turned(d, head, tail, size) ==
  /\ dq' \in [Deques -> Struct]
  /\ dq'[d].buffer = dq[d].buffer /\ dq'[d].capacity = dq[d].capacity
  /\ dq'[d].head = head /\ dq'[d].tail = tail /\ dq'[d].size = size
  /\ \A e \in Deques : e # d => dq'[e] = dq[e]

(* One deque's indices move, one slot of its buffer may be written, and    *)
(* its buffer stays its own.                                               *)
LEMMA MovesIInv ==
  ASSUME DequeIInv, NEW d \in Deques, HasBuffer(d),
         NEW head \in 0 .. dq[d].capacity - 1, NEW size \in 0 .. dq[d].capacity,
         NEW tail \in 0 .. dq[d].capacity - 1,
         tail = IF head + size < dq[d].capacity THEN head + size
                                                ELSE head + size - dq[d].capacity,
         Turned(d, head, tail, size),
         mem' \in [Deques -> Contents],
         \A e \in Deques : mem'[e] \in [0 .. BufferOf[e] - 1 -> Vals],
         ret'.val \in Vals \cup {None}
  PROVE  DequeIInv'
<1>1. /\ dq[d].buffer \in Deques /\ dq[d].capacity = BufferOf[dq[d].buffer]
      /\ dq[d].capacity \in Nat \ {0}
  BY RingFacts
<1>2. TypeOK'
  <2>1. StructOK(dq'[d])
    BY <1>1 DEF Turned, StructOK
  <2>2. \A e \in Deques : StructOK(dq'[e])
    BY <2>1 DEF Turned, DequeIInv, TypeOK
  <2>3. QED
    BY <2>2 DEF Turned, TypeOK
<1>3. tail = (head + size) % dq[d].capacity
  BY <1>1, ModOnce
<1>4. RingAgrees'
  <2>1. \A e \in Deques : HasBuffer(e)' =>
          dq'[e].tail = (dq'[e].head + dq'[e].size) % dq'[e].capacity
    BY <1>3 DEF Turned, DequeIInv, RingAgrees, HasBuffer
  <2>2. \A e \in Deques : dq'[e].buffer = dq[e].buffer
    BY DEF Turned
  <2>3. \A e, f \in Deques : (HasBuffer(e)' /\ dq'[e].buffer = dq'[f].buffer) => e = f
    BY <2>2 DEF DequeIInv, RingAgrees, HasBuffer
  <2>4. QED
    BY <2>1, <2>3 DEF RingAgrees
<1>5. QED
  BY <1>2, <1>4 DEF DequeIInv

(* A write of an element into a deque's buffer, inside it. *)
LEMMA Writes ==
  ASSUME DequeIInv, NEW d \in Deques, HasBuffer(d), NEW i \in 0 .. dq[d].capacity - 1, NEW v \in Vals,
         mem' = [mem EXCEPT ![dq[d].buffer][i] = v]
  PROVE  /\ mem' \in [Deques -> Contents]
         /\ \A e \in Deques : mem'[e] \in [0 .. BufferOf[e] - 1 -> Vals]
         /\ mem'[dq[d].buffer][i] = v
         /\ \A j \in 0 .. dq[d].capacity - 1 : j # i => mem'[dq[d].buffer][j] = mem[dq[d].buffer][j]
         /\ \A e \in Deques : e # dq[d].buffer => mem'[e] = mem[e]
<1> DEFINE b == dq[d].buffer
<1>1. b \in Deques /\ dq[d].capacity = BufferOf[b]
  BY RingFacts
<1> HIDE DEF b
<1>2. mem \in [Deques -> Contents] /\ \A e \in Deques : mem[e] \in [0 .. BufferOf[e] - 1 -> Vals]
  BY DEF DequeIInv, TypeOK
<1>3. mem' = [mem EXCEPT ![b] = [mem[b] EXCEPT ![i] = v]]
  BY DEF b
<1>4. [mem[b] EXCEPT ![i] = v] \in [0 .. BufferOf[b] - 1 -> Vals]
  BY <1>1, <1>2
<1>5. [mem[b] EXCEPT ![i] = v] \in Contents
  BY <1>1, <1>4 DEF Contents
<1>6. /\ mem' \in [Deques -> Contents]
      /\ \A e \in Deques : mem'[e] \in [0 .. BufferOf[e] - 1 -> Vals]
  BY <1>1, <1>2, <1>3, <1>4, <1>5
<1>7. QED
  BY <1>1, <1>2, <1>3, <1>6 DEF b

LEMMA PushFrontIInv ==
  ASSUME DequeIInv, NEW d \in Deques, NEW v \in Vals, PushFront(d, v)
  PROVE  DequeIInv'
<1>1. HasBuffer(d) /\ ~(dq[d].size >= dq[d].capacity)
  BY DEF PushFront, IsFull
<1> DEFINE head == Down(d, dq[d].head)
           size == dq[d].size + 1
<1>2. /\ head \in 0 .. dq[d].capacity - 1 /\ size \in 0 .. dq[d].capacity
      /\ dq[d].tail \in 0 .. dq[d].capacity - 1
      /\ dq[d].tail = IF head + size < dq[d].capacity THEN head + size
                                                     ELSE head + size - dq[d].capacity
  <2>1. head = IF dq[d].head = 0 THEN dq[d].capacity - 1 ELSE dq[d].head - 1
    BY <1>1, RingFacts
  <2> HIDE DEF head
  <2>2. /\ dq[d].capacity \in Nat \ {0} /\ dq[d].size \in 0 .. dq[d].capacity
        /\ dq[d].head \in 0 .. dq[d].capacity - 1 /\ dq[d].tail \in 0 .. dq[d].capacity - 1
        /\ dq[d].tail = IF dq[d].head + dq[d].size < dq[d].capacity THEN dq[d].head + dq[d].size
                       ELSE dq[d].head + dq[d].size - dq[d].capacity
    BY <1>1, RingFacts
  <2>3. QED
    BY <1>1, <2>1, <2>2
<1>3. Turned(d, head, dq[d].tail, size)
  <2>1. dq' = [dq EXCEPT ![d].head = head, ![d].size = @ + 1]
    BY DEF PushFront
  <2>2. head \in Nat /\ size \in Nat
    BY <1>2
  <2> HIDE DEF head
  <2>3. QED
    BY <2>1, <2>2 DEF Turned, DequeIInv, TypeOK, Struct
<1>4. mem' = [mem EXCEPT ![dq[d].buffer][head] = v] /\ ret' = Ok
  BY DEF PushFront
<1> HIDE DEF head, size
<1>5. QED
  BY <1>1, <1>2, <1>3, <1>4, Writes, MovesIInv DEF Ok

LEMMA PushBackIInv ==
  ASSUME DequeIInv, NEW d \in Deques, NEW v \in Vals, PushBack(d, v)
  PROVE  DequeIInv'
<1>1. HasBuffer(d) /\ ~(dq[d].size >= dq[d].capacity)
  BY DEF PushBack, IsFull
<1> DEFINE tail == Up(d, dq[d].tail)
           size == dq[d].size + 1
<1>2. /\ dq[d].head \in 0 .. dq[d].capacity - 1 /\ size \in 0 .. dq[d].capacity
      /\ tail \in 0 .. dq[d].capacity - 1 /\ dq[d].tail \in 0 .. dq[d].capacity - 1
      /\ tail = IF dq[d].head + size < dq[d].capacity THEN dq[d].head + size
                                                     ELSE dq[d].head + size - dq[d].capacity
  BY <1>1, RingFacts
<1>3. Turned(d, dq[d].head, tail, size)
  <2>1. dq' = [dq EXCEPT ![d].tail = tail, ![d].size = @ + 1]
    BY DEF PushBack
  <2>2. tail \in Nat /\ size \in Nat
    BY <1>2
  <2> HIDE DEF tail
  <2>3. QED
    BY <2>1, <2>2 DEF Turned, DequeIInv, TypeOK, Struct
<1>4. mem' = [mem EXCEPT ![dq[d].buffer][dq[d].tail] = v] /\ ret' = Ok
  BY DEF PushBack
<1> HIDE DEF tail, size
<1>5. QED
  BY <1>1, <1>2, <1>3, <1>4, Writes, MovesIInv DEF Ok

(* An element read from the buffer is one. *)
LEMMA Reads ==
  ASSUME DequeIInv, NEW d \in Deques, HasBuffer(d), NEW i \in 0 .. dq[d].capacity - 1
  PROVE  At(d, i) \in Vals
BY RingFacts DEF At, DequeIInv, TypeOK

LEMMA PopFrontIInv ==
  ASSUME DequeIInv, NEW d \in Deques, PopFront(d)
  PROVE  DequeIInv'
<1>1. HasBuffer(d) /\ dq[d].size # 0
  BY DEF PopFront
<1> DEFINE head == Up(d, dq[d].head)
           size == dq[d].size - 1
<1>2. /\ head \in 0 .. dq[d].capacity - 1 /\ size \in 0 .. dq[d].capacity
      /\ dq[d].tail \in 0 .. dq[d].capacity - 1 /\ dq[d].head \in 0 .. dq[d].capacity - 1
      /\ dq[d].tail = IF head + size < dq[d].capacity THEN head + size
                                                     ELSE head + size - dq[d].capacity
  <2>1. head = IF dq[d].head + 1 = dq[d].capacity THEN 0 ELSE dq[d].head + 1
    BY <1>1, RingFacts
  <2> HIDE DEF head
  <2>2. QED
    BY <1>1, <2>1, RingFacts
<1>3. Turned(d, head, dq[d].tail, size)
  <2>1. dq' = [dq EXCEPT ![d].head = head, ![d].size = @ - 1]
    BY DEF PopFront
  <2>2. head \in Nat /\ size \in Nat
    BY <1>2
  <2> HIDE DEF head
  <2>3. QED
    BY <2>1, <2>2 DEF Turned, DequeIInv, TypeOK, Struct
<1>4. mem' = mem /\ ret'.val \in Vals
  BY <1>1, <1>2, Reads DEF PopFront, Value
<1> HIDE DEF head, size
<1>5. QED
  BY <1>1, <1>2, <1>3, <1>4, MovesIInv DEF DequeIInv, TypeOK

LEMMA PopBackIInv ==
  ASSUME DequeIInv, NEW d \in Deques, PopBack(d)
  PROVE  DequeIInv'
<1>1. HasBuffer(d) /\ dq[d].size # 0
  BY DEF PopBack
<1> DEFINE tail == Down(d, dq[d].tail)
           size == dq[d].size - 1
<1>2. /\ dq[d].head \in 0 .. dq[d].capacity - 1 /\ size \in 0 .. dq[d].capacity
      /\ tail \in 0 .. dq[d].capacity - 1
      /\ tail = IF dq[d].head + size < dq[d].capacity THEN dq[d].head + size
                                                     ELSE dq[d].head + size - dq[d].capacity
  BY <1>1, RingFacts
<1>3. Turned(d, dq[d].head, tail, size)
  <2>1. dq' = [dq EXCEPT ![d].tail = tail, ![d].size = @ - 1]
    BY DEF PopBack
  <2>2. tail \in Nat /\ size \in Nat
    BY <1>2
  <2> HIDE DEF tail
  <2>3. QED
    BY <2>1, <2>2 DEF Turned, DequeIInv, TypeOK, Struct
<1>4. mem' = mem /\ ret'.val \in Vals
  BY <1>1, <1>2, Reads DEF PopBack, Value
<1> HIDE DEF tail, size
<1>5. QED
  BY <1>1, <1>2, <1>3, <1>4, MovesIInv DEF DequeIInv, TypeOK

LEMMA ClearDequeIInv ==
  ASSUME DequeIInv, NEW d \in Deques, Clear(d)
  PROVE  DequeIInv'
<1>1. CASE HasBuffer(d)
  <2>1. 0 \in 0 .. dq[d].capacity - 1 /\ 0 \in 0 .. dq[d].capacity
        /\ 0 = IF 0 + 0 < dq[d].capacity THEN 0 + 0 ELSE 0 + 0 - dq[d].capacity
    BY <1>1, RingFacts
  <2>2. Turned(d, 0, 0, 0)
    <3>1. dq' = [dq EXCEPT ![d].size = 0, ![d].head = 0, ![d].tail = 0]
      BY DEF Clear
    <3>2. QED
      BY <3>1 DEF Turned, DequeIInv, TypeOK, Struct
  <2>3. QED
    <3>1. mem' = mem /\ ret'.val = None
      BY DEF Clear, Ok
    <3>2. QED
      BY <1>1, <2>1, <2>2, <3>1, MovesIInv DEF DequeIInv, TypeOK
<1>2. CASE ~HasBuffer(d)
  <2>1. dq[d] = Empty
    BY <1>2, DequeAssumption DEF HasBuffer, DequeIInv, TypeOK, StructOK
  <2>2. dq' = dq /\ mem' = mem /\ ret' = Ok
    BY <2>1 DEF Clear, Empty, DequeIInv, TypeOK
  <2>3. QED
    BY <2>2 DEF DequeIInv, TypeOK, RingAgrees, HasBuffer, Ok
<1>3. QED
  BY <1>1, <1>2

LEMMA SwapDequeIInv ==
  ASSUME DequeIInv, NEW d \in Deques, NEW e \in Deques, Swap(d, e)
  PROVE  DequeIInv'
<1>1. /\ dq'[d] = dq[e] /\ dq'[e] = dq[d] /\ mem' = mem /\ ret' = Ok
      /\ \A f \in Deques : f # d /\ f # e => dq'[f] = dq[f]
      /\ dq' \in [Deques -> Struct]
  BY DEF Swap, DequeIInv, TypeOK
<1>2. TypeOK'
  BY <1>1 DEF DequeIInv, TypeOK, Ok
<1>3. RingAgrees'
  BY <1>1 DEF DequeIInv, RingAgrees, HasBuffer
<1>4. QED
  BY <1>2, <1>3 DEF DequeIInv

(* What only answers, and leaves the rings alone. *)
LEMMA AnswersDequeIInv ==
  ASSUME DequeIInv, NEW d \in Deques, PushRefused(d) \/ PopRefused(d) \/ PeekFront(d) \/ PeekBack(d)
  PROVE  DequeIInv' /\ UNCHANGED <<mem, dq>>
<1>1. UNCHANGED <<mem, dq>>
  BY DEF PushRefused, PopRefused, PeekFront, PeekBack, Returns
<1>2. ret'.val \in Vals \cup {None}
  <2>1. CASE PushRefused(d) \/ PopRefused(d)
    BY <2>1 DEF PushRefused, PopRefused, Returns, Err
  <2>2. dq[d].size # 0 => HasBuffer(d)
    BY DequeAssumption DEF DequeIInv, TypeOK, StructOK, Empty, HasBuffer
  <2>3. CASE PeekFront(d)
    BY <2>2, <2>3, RingFacts, Reads DEF PeekFront, Returns, Err, Value
  <2>4. CASE PeekBack(d)
    <3>1. HasBuffer(d) => Down(d, dq[d].tail) \in 0 .. dq[d].capacity - 1
      BY RingFacts
    <3>2. QED
      BY <2>2, <2>4, <3>1, Reads DEF PeekBack, Returns, Err, Value
  <2>5. QED
    BY <2>1, <2>3, <2>4
<1>3. QED
  BY <1>1, <1>2 DEF DequeIInv, TypeOK, RingAgrees, HasBuffer

LEMMA NextDequeIInv == DequeIInv /\ [Next]_vars => DequeIInv'
<1> SUFFICES ASSUME DequeIInv, [Next]_vars PROVE DequeIInv'
  OBVIOUS
<1>1. CASE UNCHANGED vars
  BY <1>1 DEF vars, DequeIInv, TypeOK, RingAgrees, HasBuffer
<1>2. CASE Next
  BY <1>2, PushFrontIInv, PushBackIInv, PopFrontIInv, PopBackIInv, ClearDequeIInv, SwapDequeIInv,
     AnswersDequeIInv DEF Next
<1>3. QED
  BY <1>1, <1>2

LEMMA SpecDequeIInv == Spec => []DequeIInv
BY InitDequeIInv, NextDequeIInv, PTL DEF Spec

(* No index leaves its buffer, and no push writes outside one. *)
THEOREM DequeTypeOK == Spec => []TypeOK
<1>1. DequeIInv => TypeOK
  BY DEF DequeIInv
<1>2. QED
  BY <1>1, SpecDequeIInv, PTL

(* A full ring and an empty one, alike in head and tail, are told apart by *)
(* the size, and no two deques come to share a buffer.                     *)
THEOREM DequeRingAgrees == Spec => []RingAgrees
<1>1. DequeIInv => RingAgrees
  BY DEF DequeIInv
<1>2. QED
  BY <1>1, SpecDequeIInv, PTL

-----------------------------------------------------------------------------
(* The sequence a struct shows in the contents of its buffer. *)
Seen(s, m) == [i \in 1 .. s.size |-> m[(s.head + i - 1) % s.capacity]]

Round(c, x) == IF x < c THEN x ELSE x - c

LEMMA ModRound ==
  ASSUME NEW c \in Nat \ {0}, NEW h \in 0 .. c - 1, NEW z \in 0 .. c
  PROVE  (h + z) % c = Round(c, h + z)
BY DEF Round

Fits(s, m) ==
  \/ s.size = 0 /\ s.capacity = 0
  \/ /\ s.capacity \in Nat \ {0} /\ s.size \in 0 .. s.capacity
     /\ s.head \in 0 .. s.capacity - 1
     /\ m \in [0 .. s.capacity - 1 -> Vals]

LEMMA SeenFacts ==
  ASSUME NEW s, NEW m, Fits(s, m)
  PROVE  /\ Seen(s, m) \in Seq(Vals) /\ Len(Seen(s, m)) = s.size
         /\ \A i \in 1 .. s.size :
              /\ Seen(s, m)[i] = m[Round(s.capacity, s.head + (i - 1))]
              /\ Round(s.capacity, s.head + (i - 1)) \in 0 .. s.capacity - 1
<1> DEFINE q == Seen(s, m)
<1>1. s.size \in Nat
  BY DEF Fits
<1>2. ASSUME NEW i \in 1 .. s.size
      PROVE  /\ (s.head + i - 1) % s.capacity = Round(s.capacity, s.head + (i - 1))
             /\ Round(s.capacity, s.head + (i - 1)) \in 0 .. s.capacity - 1
             /\ m[Round(s.capacity, s.head + (i - 1))] \in Vals
  <2>1. /\ s.capacity \in Nat \ {0} /\ s.size \in 0 .. s.capacity
        /\ s.head \in 0 .. s.capacity - 1 /\ m \in [0 .. s.capacity - 1 -> Vals]
    BY DEF Fits
  <2>2. i - 1 \in 0 .. s.capacity /\ s.head + i - 1 = s.head + (i - 1)
    BY <2>1
  <2>3. (s.head + (i - 1)) % s.capacity = Round(s.capacity, s.head + (i - 1))
    BY <2>1, <2>2, ModRound
  <2>4. Round(s.capacity, s.head + (i - 1)) \in 0 .. s.capacity - 1
    BY <2>1, <2>2 DEF Round
  <2>5. QED
    BY <2>1, <2>2, <2>3, <2>4
<1>3. q \in [1 .. s.size -> Vals]
  BY <1>2 DEF Seen
<1>4. q \in Seq(Vals) /\ Len(q) = s.size
  BY <1>1, <1>3
<1>5. QED
  BY <1>2, <1>4 DEF Seen

(* What the abstract deque sees of the ring. *)
View(d) ==
  /\ items[d] \in Seq(Vals) /\ Len(items[d]) = dq[d].size
  /\ \A i \in 1 .. dq[d].size :
       /\ items[d][i] = mem[dq[d].buffer][Round(dq[d].capacity, dq[d].head + (i - 1))]
       /\ Round(dq[d].capacity, dq[d].head + (i - 1)) \in 0 .. dq[d].capacity - 1
  /\ room[d] = dq[d].capacity /\ room[d] \in Nat
  /\ room[d] > 0 <=> HasBuffer(d)
  /\ dq[d].size \in 0 .. room[d]

DequeViews ==
  /\ items \in [Deques -> Seq(Vals)] /\ room \in [Deques -> Nat]
  /\ \A d \in Deques : View(d)

LEMMA ViewFacts == DequeIInv => DequeViews
<1> SUFFICES ASSUME DequeIInv PROVE DequeViews
  OBVIOUS
<1>1. ASSUME NEW d \in Deques PROVE View(d)
  <2>1. items[d] = Seen(dq[d], mem[dq[d].buffer])
    BY DEF items, Seen, At
  <2>2. /\ Fits(dq[d], mem[dq[d].buffer])
        /\ dq[d].capacity \in Nat /\ dq[d].size \in 0 .. dq[d].capacity
        /\ dq[d].capacity > 0 <=> HasBuffer(d)
    <3>1. CASE HasBuffer(d)
      <4>1. mem[dq[d].buffer] \in [0 .. dq[d].capacity - 1 -> Vals]
        BY <3>1, RingFacts DEF DequeIInv, TypeOK
      <4>2. QED
        BY <3>1, <4>1, RingFacts DEF Fits
    <3>2. CASE ~HasBuffer(d)
      <4>1. dq[d].size = 0 /\ dq[d].capacity = 0
        BY <3>2, DequeAssumption DEF HasBuffer, DequeIInv, TypeOK, StructOK, Empty
      <4>2. QED
        BY <3>2, <4>1 DEF Fits
    <3>3. QED
      BY <3>1, <3>2
  <2>3. room[d] = dq[d].capacity
    BY DEF room
  <2> DEFINE q == Seen(dq[d], mem[dq[d].buffer])
  <2>4. /\ q \in Seq(Vals) /\ Len(q) = dq[d].size
        /\ \A i \in 1 .. dq[d].size :
             /\ q[i] = mem[dq[d].buffer][Round(dq[d].capacity, dq[d].head + (i - 1))]
             /\ Round(dq[d].capacity, dq[d].head + (i - 1)) \in 0 .. dq[d].capacity - 1
    BY <2>2, SeenFacts
  <2> HIDE DEF q
  <2>5. items[d] = q
    BY <2>1 DEF q
  <2>6. QED
    BY <2>2, <2>3, <2>4, <2>5 DEF View
<1>2. items \in [Deques -> Seq(Vals)] /\ room \in [Deques -> Nat]
  <2>1. \A d \in Deques : items[d] \in Seq(Vals) /\ room[d] \in Nat
    BY <1>1 DEF View
  <2>2. QED
    BY <2>1 DEF items, room
<1>3. QED
  BY <1>1, <1>2 DEF DequeViews

LEMMA ViewFactsNext == DequeIInv' => DequeViews'
BY ViewFacts, PTL

-----------------------------------------------------------------------------
(* Steps round the ring. *)

LEMMA RoundApart ==
  ASSUME NEW c \in Nat \ {0}, NEW h \in 0 .. c - 1, NEW i \in 1 .. c, NEW j \in 1 .. c, i # j
  PROVE  Round(c, h + (i - 1)) # Round(c, h + (j - 1))
BY DEF Round

LEMMA RoundBack ==
  \A c \in Nat \ {0} : \A h \in 0 .. c - 1 : \A g \in Int :
    g = (IF h = 0 THEN c - 1 ELSE h - 1) =>
      /\ g \in 0 .. c - 1 /\ Round(c, g + (1 - 1)) = g
      /\ \A i \in 2 .. c : Round(c, g + (i - 1)) = Round(c, h + ((i - 1) - 1))
BY DEF Round

LEMMA RoundOn ==
  ASSUME NEW c \in Nat \ {0}, NEW h \in 0 .. c - 1, NEW g,
         g = IF h + 1 = c THEN 0 ELSE h + 1
  PROVE  /\ g \in 0 .. c - 1
         /\ \A i \in 1 .. c - 1 : Round(c, g + (i - 1)) = Round(c, h + ((i + 1) - 1))
BY DEF Round

LEMMA SameSeq ==
  \A s, t \in Seq(Vals) : Len(s) = Len(t) /\ (\A i \in 1 .. Len(s) : s[i] = t[i]) => s = t
BY SeqEqual

(* A call on d changes what d shows, and nothing else. *)
LEMMA Effect ==
  ASSUME DequeViews, DequeViews', NEW d \in Deques, NEW q,
         \A e \in Deques : e # d => dq'[e] = dq[e],
         dq'[d].capacity = dq[d].capacity,
         \A e \in Deques : e # d /\ HasBuffer(e) => mem'[dq[e].buffer] = mem[dq[e].buffer],
         items'[d] = q
  PROVE  items' = [items EXCEPT ![d] = q] /\ room' = room
<1>1. ASSUME NEW e \in Deques, e # d PROVE items'[e] = items[e]
  <2>1. /\ items[e] \in Seq(Vals) /\ items'[e] \in Seq(Vals)
        /\ Len(items[e]) = dq[e].size /\ Len(items'[e]) = dq[e].size
    BY <1>1 DEF DequeViews, View
  <2>2. ASSUME NEW i \in 1 .. dq[e].size PROVE items'[e][i] = items[e][i]
    <3>1. HasBuffer(e)
      BY <2>2 DEF DequeViews, View
    <3>2. mem'[dq'[e].buffer] = mem[dq[e].buffer] /\ dq'[e] = dq[e]
      BY <1>1, <3>1
    <3>3. items[e][i] = mem[dq[e].buffer][Round(dq[e].capacity, dq[e].head + (i - 1))]
      BY DEF DequeViews, View
    <3>4. items'[e][i] = mem'[dq'[e].buffer][Round(dq'[e].capacity, dq'[e].head + (i - 1))]
      BY <3>2 DEF DequeViews, View
    <3>5. QED
      BY <3>2, <3>3, <3>4
  <2>3. /\ Len(items'[e]) = Len(items[e])
        /\ \A i \in 1 .. Len(items'[e]) : items'[e][i] = items[e][i]
    BY <2>1, <2>2
  <2>4. QED
    BY <2>1, <2>3, SameSeq, Zenon
<1>2. ASSUME NEW e \in Deques PROVE room'[e] = room[e]
  <2>1. room[e] = dq[e].capacity /\ room'[e] = dq'[e].capacity
    BY DEF DequeViews, View
  <2>2. QED
    BY <2>1
<1>3. QED
  BY <1>1, <1>2 DEF DequeViews

-----------------------------------------------------------------------------
(* The calls. *)

LEMMA PushBackImplements ==
  ASSUME DequeIInv, DequeViews, DequeViews', NEW d \in Deques, NEW v \in Vals, PushBack(d, v)
  PROVE  Abstract!PushBack(d, v)
<1> DEFINE b == dq[d].buffer
           c == dq[d].capacity
           h == dq[d].head
           n == dq[d].size
           q == Append(items[d], v)
<1>1. /\ HasBuffer(d) /\ ~(n >= c) /\ ret' = Ok
      /\ mem' = [mem EXCEPT ![b][dq[d].tail] = v]
      /\ dq' = [dq EXCEPT ![d].tail = Up(d, @), ![d].size = @ + 1]
  BY DEF PushBack, IsFull
<1>2. /\ c \in Nat \ {0} /\ h \in 0 .. c - 1 /\ n \in 0 .. c /\ n < c /\ b \in Deques
      /\ dq[d].tail \in 0 .. c - 1 /\ dq[d].tail = Round(c, h + n)
  BY <1>1, RingFacts DEF Round
<1>3. /\ dq'[d].buffer = b /\ dq'[d].capacity = c /\ dq'[d].head = h /\ dq'[d].size = n + 1
      /\ \A e \in Deques : e # d => dq'[e] = dq[e]
  BY <1>1 DEF DequeIInv, TypeOK, Struct
<1>4. /\ mem'[b][dq[d].tail] = v
      /\ \A j \in 0 .. c - 1 : j # dq[d].tail => mem'[b][j] = mem[b][j]
      /\ \A e \in Deques : e # b => mem'[e] = mem[e]
  <2> DEFINE t == dq[d].tail
  <2>1. mem \in [Deques -> Contents] /\ mem[b] \in [0 .. c - 1 -> Vals]
    BY <1>1, <1>2, RingFacts DEF DequeIInv, TypeOK
  <2>2. mem' = [mem EXCEPT ![b] = [mem[b] EXCEPT ![t] = v]]
    BY <1>1
  <2>3. b \in Deques /\ t \in 0 .. c - 1
    BY <1>2
  <2> HIDE DEF b, c, h, n, q, t
  <2>4. /\ mem'[b][t] = v
        /\ \A j \in 0 .. c - 1 : j # t => mem'[b][j] = mem[b][j]
        /\ \A e \in Deques : e # b => mem'[e] = mem[e]
    BY <2>1, <2>2, <2>3
  <2>5. QED
    BY <2>4 DEF t
<1>5. \A e \in Deques : e # d /\ HasBuffer(e) => mem'[dq[e].buffer] = mem[dq[e].buffer]
  BY <1>1, <1>4, RingFacts DEF DequeIInv, RingAgrees
<1>6. /\ items[d] \in Seq(Vals) /\ Len(items[d]) = n
      /\ \A i \in 1 .. n : /\ items[d][i] = mem[b][Round(c, h + (i - 1))]
                           /\ Round(c, h + (i - 1)) \in 0 .. c - 1
  BY DEF DequeViews, View
<1>7. /\ items'[d] \in Seq(Vals) /\ Len(items'[d]) = n + 1
      /\ \A i \in 1 .. n + 1 : items'[d][i] = mem'[b][Round(c, h + (i - 1))]
  BY <1>3 DEF DequeViews, View
<1>8. /\ q \in Seq(Vals) /\ Len(q) = n + 1 /\ q[n + 1] = v
      /\ \A i \in 1 .. n : q[i] = items[d][i]
  BY <1>6, AppendProperties
<1>9. room[d] = c
  BY DEF DequeViews, View
<1> HIDE DEF b, c, h, n, q
<1>10. ASSUME NEW i \in 1 .. n + 1 PROVE items'[d][i] = q[i]
  <2>1. CASE i = n + 1
    <3>1. i - 1 = n
      BY <1>2, <2>1
    <3>2. items'[d][i] = mem'[b][Round(c, h + n)]
      BY <1>7, <3>1
    <3>3. mem'[b][Round(c, h + n)] = v /\ q[i] = v
      BY <1>2, <1>4, <1>8, <2>1
    <3>4. QED
      BY <3>2, <3>3
  <2>2. CASE i # n + 1
    <3>1. i \in 1 .. n /\ i \in 1 .. c /\ n + 1 \in 1 .. c /\ (n + 1) - 1 = n
      BY <1>2, <2>2
    <3>2. Round(c, h + (i - 1)) # Round(c, h + ((n + 1) - 1))
      BY <1>2, <2>2, <3>1, RoundApart
    <3>3. Round(c, h + (i - 1)) # dq[d].tail
      BY <1>2, <3>1, <3>2
    <3>4. QED
      BY <1>4, <1>6, <1>7, <1>8, <3>1, <3>3
  <2>3. QED
    BY <2>1, <2>2
<1>11. items'[d] = q
  BY <1>7, <1>8, <1>10, SameSeq
<1>12. items' = [items EXCEPT ![d] = q] /\ room' = room
  BY <1>3, <1>5, <1>11, Effect DEF c
<1>13. Len(items[d]) < room[d]
  BY <1>2, <1>6, <1>9
<1>14. QED
  BY <1>1, <1>12, <1>13 DEF q, Ok, Abstract!PushBack, Abstract!Pushes, Abstract!Ok

LEMMA PushFrontImplements ==
  ASSUME DequeIInv, DequeViews, DequeViews', NEW d \in Deques, NEW v \in Vals, PushFront(d, v)
  PROVE  Abstract!PushFront(d, v)
<1> DEFINE b == dq[d].buffer
           c == dq[d].capacity
           h == dq[d].head
           n == dq[d].size
           g == Down(d, dq[d].head)
           q == <<v>> \o items[d]
<1>1. /\ HasBuffer(d) /\ ~(n >= c) /\ ret' = Ok
      /\ mem' = [mem EXCEPT ![b][g] = v]
      /\ dq' = [dq EXCEPT ![d].head = g, ![d].size = @ + 1]
  BY DEF PushFront, IsFull
<1>2. /\ c \in Nat \ {0} /\ h \in 0 .. c - 1 /\ n \in 0 .. c /\ n < c /\ b \in Deques
      /\ g = IF h = 0 THEN c - 1 ELSE h - 1
  BY <1>1, RingFacts
<1>3. /\ dq'[d].buffer = b /\ dq'[d].capacity = c /\ dq'[d].head = g /\ dq'[d].size = n + 1
      /\ \A e \in Deques : e # d => dq'[e] = dq[e]
  <2>1. dq \in [Deques -> Struct]
    BY DEF DequeIInv, TypeOK
  <2> HIDE DEF g
  <2>2. QED
    BY <1>1, <2>1 DEF Struct
<1>4. /\ g \in 0 .. c - 1 /\ Round(c, g + (1 - 1)) = g
      /\ \A i \in 2 .. c : Round(c, g + (i - 1)) = Round(c, h + ((i - 1) - 1))
  <2> HIDE DEF b, c, h, n, g, q
  <2>1. g \in Int
    BY <1>2
  <2>2. QED
    BY <1>2, <2>1, RoundBack, Zenon
<1>5. /\ mem'[b][g] = v
      /\ \A j \in 0 .. c - 1 : j # g => mem'[b][j] = mem[b][j]
      /\ \A e \in Deques : e # b => mem'[e] = mem[e]
  <2>1. mem \in [Deques -> Contents] /\ mem[b] \in [0 .. c - 1 -> Vals]
    BY <1>1, <1>2, RingFacts DEF DequeIInv, TypeOK
  <2>2. mem' = [mem EXCEPT ![b] = [mem[b] EXCEPT ![g] = v]]
    BY <1>1
  <2> HIDE DEF b, c, h, n, g, q
  <2>3. QED
    BY <1>2, <1>4, <2>1, <2>2
<1>6. \A e \in Deques : e # d /\ HasBuffer(e) => mem'[dq[e].buffer] = mem[dq[e].buffer]
  BY <1>1, <1>5, RingFacts DEF DequeIInv, RingAgrees
<1>7. /\ items[d] \in Seq(Vals) /\ Len(items[d]) = n
      /\ \A i \in 1 .. n : /\ items[d][i] = mem[b][Round(c, h + (i - 1))]
                           /\ Round(c, h + (i - 1)) \in 0 .. c - 1
  BY DEF DequeViews, View
<1>8. /\ items'[d] \in Seq(Vals) /\ Len(items'[d]) = n + 1
      /\ \A i \in 1 .. n + 1 : items'[d][i] = mem'[b][Round(c, g + (i - 1))]
  <2> HIDE DEF g
  <2>1. QED
    BY <1>3 DEF DequeViews, View
<1>9. /\ q \in Seq(Vals) /\ Len(q) = n + 1 /\ q[1] = v
      /\ \A i \in 2 .. n + 1 : q[i] = items[d][i - 1]
  <2>1. <<v>> \in Seq(Vals) /\ Len(<<v>>) = 1 /\ <<v>>[1] = v
    OBVIOUS
  <2>2. n \in Nat
    BY <1>2
  <2> HIDE DEF n
  <2>3. QED
    BY <1>7, <2>1, <2>2, ConcatProperties
<1>10. room[d] = c
  BY DEF DequeViews, View
<1> HIDE DEF b, c, h, n, g, q
<1>11. ASSUME NEW i \in 1 .. n + 1 PROVE items'[d][i] = q[i]
  <2>1. CASE i = 1
    BY <1>4, <1>5, <1>8, <1>9, <2>1
  <2>2. CASE i # 1
    <3>1. /\ i - 1 \in 1 .. n /\ i - 1 \in 1 .. c /\ i \in 1 .. c /\ 1 \in 1 .. c
          /\ i \in 2 .. n + 1 /\ i \in 2 .. c
      BY <1>2, <2>2
    <3>2. Round(c, g + (i - 1)) # g
      <4>1. Round(c, g + (i - 1)) # Round(c, g + (1 - 1))
        BY <1>2, <1>4, <2>2, <3>1, RoundApart
      <4>2. QED
        BY <1>4, <4>1
    <3>3. /\ Round(c, g + (i - 1)) = Round(c, h + ((i - 1) - 1))
          /\ Round(c, h + ((i - 1) - 1)) \in 0 .. c - 1
          /\ items[d][i - 1] = mem[b][Round(c, h + ((i - 1) - 1))]
      BY <1>4, <1>7, <3>1
    <3>4. items'[d][i] = mem'[b][Round(c, g + (i - 1))] /\ q[i] = items[d][i - 1]
      BY <1>8, <1>9, <3>1
    <3>5. QED
      BY <1>5, <3>2, <3>3, <3>4
  <2>3. QED
    BY <2>1, <2>2
<1>12. items'[d] = q
  BY <1>8, <1>9, <1>11, SameSeq
<1>13. items' = [items EXCEPT ![d] = q] /\ room' = room
  BY <1>3, <1>6, <1>12, Effect DEF c
<1>14. Len(items[d]) < room[d]
  BY <1>2, <1>7, <1>10
<1>15. QED
  BY <1>1, <1>13, <1>14 DEF q, Ok, Abstract!PushFront, Abstract!Pushes, Abstract!Ok

LEMMA PopFrontImplements ==
  ASSUME DequeIInv, DequeViews, DequeViews', NEW d \in Deques, PopFront(d)
  PROVE  Abstract!PopFront(d)
<1> DEFINE b == dq[d].buffer
           c == dq[d].capacity
           h == dq[d].head
           n == dq[d].size
           g == Up(d, dq[d].head)
           q == Tail(items[d])
<1>1. /\ HasBuffer(d) /\ n # 0 /\ ret' = Value(mem[b][h]) /\ mem' = mem
      /\ dq' = [dq EXCEPT ![d].head = g, ![d].size = @ - 1]
  BY DEF PopFront, At
<1>2. /\ c \in Nat \ {0} /\ h \in 0 .. c - 1 /\ n \in 0 .. c
      /\ g = IF h + 1 = c THEN 0 ELSE h + 1
  BY <1>1, RingFacts
<1>3. /\ dq'[d].buffer = b /\ dq'[d].capacity = c /\ dq'[d].head = g /\ dq'[d].size = n - 1
      /\ \A e \in Deques : e # d => dq'[e] = dq[e]
  <2>1. dq \in [Deques -> Struct]
    BY DEF DequeIInv, TypeOK
  <2> HIDE DEF g
  <2>2. QED
    BY <1>1, <2>1 DEF Struct
<1>4. \A i \in 1 .. c - 1 : Round(c, g + (i - 1)) = Round(c, h + ((i + 1) - 1))
  <2> HIDE DEF b, c, h, n, g, q
  <2>1. QED
    BY <1>2, RoundOn
<1>5. /\ items[d] \in Seq(Vals) /\ Len(items[d]) = n
      /\ \A i \in 1 .. n : items[d][i] = mem[b][Round(c, h + (i - 1))]
  BY DEF DequeViews, View
<1>6. /\ items'[d] \in Seq(Vals) /\ Len(items'[d]) = n - 1
      /\ \A i \in 1 .. n - 1 : items'[d][i] = mem[b][Round(c, g + (i - 1))]
  <2>1. /\ items'[d] \in Seq(Vals) /\ Len(items'[d]) = dq'[d].size
        /\ \A i \in 1 .. dq'[d].size :
             items'[d][i] = mem'[dq'[d].buffer][Round(dq'[d].capacity, dq'[d].head + (i - 1))]
    BY DEF DequeViews, View
  <2> HIDE DEF b, c, h, n, g, q
  <2>2. QED
    BY <1>1, <1>3, <2>1
<1>7. /\ items[d] # <<>> /\ q \in Seq(Vals) /\ Len(q) = n - 1
      /\ \A i \in 1 .. n - 1 : q[i] = items[d][i + 1]
  <2>1. n \in Nat /\ n # 0
    BY <1>1, <1>2
  <2> HIDE DEF n
  <2>2. items[d] # <<>>
    BY <1>5, <2>1
  <2>3. QED
    BY <1>5, <2>1, <2>2, HeadTailProperties
<1> HIDE DEF b, c, h, n, g, q
<1>8. ASSUME NEW i \in 1 .. n - 1 PROVE items'[d][i] = q[i]
  <2>1. i \in 1 .. c - 1 /\ i + 1 \in 1 .. n
    BY <1>2
  <2>2. QED
    BY <1>4, <1>5, <1>6, <1>7, <2>1
<1>9. items'[d] = q
  <2>1. n - 1 \in Nat
    BY <1>1, <1>2
  <2>2. QED
    BY <1>6, <1>7, <1>8, <2>1, SameSeq
<1>10. items' = [items EXCEPT ![d] = q] /\ room' = room
  BY <1>1, <1>3, <1>9, Effect DEF c
<1>11. items[d][1] = mem[b][h]
  <2>1. 1 \in 1 .. n /\ Round(c, h + (1 - 1)) = h
    BY <1>1, <1>2 DEF Round
  <2>2. QED
    BY <1>5, <2>1
<1>12. QED
  BY <1>1, <1>7, <1>10, <1>11 DEF q, Value, Abstract!PopFront, Abstract!Pops, Abstract!Value

LEMMA PopBackImplements ==
  ASSUME DequeIInv, DequeViews, DequeViews', NEW d \in Deques, PopBack(d)
  PROVE  Abstract!PopBack(d)
<1> DEFINE b == dq[d].buffer
           c == dq[d].capacity
           h == dq[d].head
           n == dq[d].size
           t == Down(d, dq[d].tail)
           q == SubSeq(items[d], 1, Len(items[d]) - 1)
<1>1. /\ HasBuffer(d) /\ n # 0 /\ ret' = Value(mem[b][t]) /\ mem' = mem
      /\ dq' = [dq EXCEPT ![d].tail = t, ![d].size = @ - 1]
  BY DEF PopBack, At
<1>2. /\ c \in Nat \ {0} /\ h \in 0 .. c - 1 /\ n \in 0 .. c
      /\ t = Round(c, h + (n - 1))
  BY <1>1, RingFacts DEF Round
<1>3. /\ dq'[d].buffer = b /\ dq'[d].capacity = c /\ dq'[d].head = h /\ dq'[d].size = n - 1
      /\ \A e \in Deques : e # d => dq'[e] = dq[e]
  <2>1. dq \in [Deques -> Struct]
    BY DEF DequeIInv, TypeOK
  <2> HIDE DEF t
  <2>2. QED
    BY <1>1, <2>1 DEF Struct
<1>4. /\ items[d] \in Seq(Vals) /\ Len(items[d]) = n
      /\ \A i \in 1 .. n : items[d][i] = mem[b][Round(c, h + (i - 1))]
  BY DEF DequeViews, View
<1>5. /\ items'[d] \in Seq(Vals) /\ Len(items'[d]) = n - 1
      /\ \A i \in 1 .. n - 1 : items'[d][i] = mem[b][Round(c, h + (i - 1))]
  <2>1. /\ items'[d] \in Seq(Vals) /\ Len(items'[d]) = dq'[d].size
        /\ \A i \in 1 .. dq'[d].size :
             items'[d][i] = mem'[dq'[d].buffer][Round(dq'[d].capacity, dq'[d].head + (i - 1))]
    BY DEF DequeViews, View
  <2> HIDE DEF b, c, h, n, t, q
  <2>2. QED
    BY <1>1, <1>3, <2>1
<1>6. n \in 1 .. c /\ n \in Nat /\ n - 1 \in Nat
  BY <1>1, <1>2
<1> HIDE DEF b, c, h, n, t
<1>7. items[d] # <<>>
  BY <1>4, <1>6
<1>8. /\ q \in Seq(Vals) /\ Len(q) = n - 1
      /\ \A i \in 1 .. n - 1 : q[i] = items[d][i]
  <2>1. Len(items[d]) - 1 = n - 1 /\ n - 1 <= Len(items[d])
    BY <1>4, <1>6
  <2>2. \A i \in 1 .. n - 1 : items[d][i] \in Vals
    BY <1>4, <1>6
  <2>3. QED
    BY <1>4, <1>6, <2>1, <2>2
<1> HIDE DEF q
<1>9. ASSUME NEW i \in 1 .. n - 1 PROVE items'[d][i] = q[i]
  <2>1. i \in 1 .. n
    BY <1>6
  <2>2. QED
    BY <1>4, <1>5, <1>8, <2>1
<1>10. items'[d] = q
  BY <1>5, <1>6, <1>8, <1>9, SameSeq
<1>11. items' = [items EXCEPT ![d] = q] /\ room' = room
  BY <1>1, <1>3, <1>10, Effect DEF c
<1>12. items[d][Len(items[d])] = mem[b][t]
  BY <1>2, <1>4, <1>6
<1>13. QED
  BY <1>1, <1>7, <1>11, <1>12 DEF q, Value, Abstract!PopBack, Abstract!Pops, Abstract!Value

(* A call that changes no deque shows none. *)
LEMMA Still == UNCHANGED <<mem, dq>> => items' = items /\ room' = room
BY DEF items, room, At

LEMMA PushRefusedImplements ==
  ASSUME DequeIInv, DequeViews, NEW d \in Deques, NEW v \in Vals, PushRefused(d)
  PROVE  Abstract!PushFront(d, v) /\ Abstract!PushBack(d, v)
<1>1. items' = items /\ room' = room
  BY Still DEF PushRefused, Returns
<1>2. CASE ~HasBuffer(d) /\ Returns(Err("ERR_INVALID_ARG"))
  <2>1. room[d] = 0
    BY <1>2 DEF DequeViews, View
  <2>2. QED
    BY <1>1, <1>2, <2>1 DEF Returns, Err, Abstract!PushFront, Abstract!PushBack, Abstract!Pushes,
                            Abstract!NoBuffer, Abstract!Unchanged, Abstract!Err
<1>3. CASE HasBuffer(d) /\ IsFull(d) /\ Returns(Err("ERR_CAPACITY_EXCEEDED"))
  <2>1. room[d] > 0 /\ Len(items[d]) = room[d]
    BY <1>3 DEF DequeViews, View, IsFull
  <2>2. QED
    BY <1>1, <1>3, <2>1 DEF Returns, Err, Abstract!PushFront, Abstract!PushBack, Abstract!Pushes,
                                  Abstract!Unchanged, Abstract!Err
<1>4. QED
  BY <1>2, <1>3 DEF PushRefused

LEMMA PopRefusedImplements ==
  ASSUME DequeViews, NEW d \in Deques, PopRefused(d)
  PROVE  Abstract!PopFront(d) /\ Abstract!PopBack(d)
<1>1. items' = items /\ room' = room
  BY Still DEF PopRefused, Returns
<1>2. CASE ~HasBuffer(d) /\ Returns(Err("ERR_INVALID_ARG"))
  <2>1. room[d] = 0
    BY <1>2 DEF DequeViews, View
  <2>2. QED
    BY <1>1, <1>2, <2>1 DEF Returns, Err, Abstract!PopFront, Abstract!PopBack, Abstract!Pops,
                            Abstract!NoBuffer, Abstract!Unchanged, Abstract!Err
<1>3. CASE HasBuffer(d) /\ dq[d].size = 0 /\ Returns(Err("ERR_INVALID_STATE"))
  <2>1. room[d] > 0 /\ items[d] = <<>>
    BY <1>3 DEF DequeViews, View
  <2>2. QED
    BY <1>1, <1>3, <2>1 DEF Returns, Err, Abstract!PopFront, Abstract!PopBack, Abstract!Pops,
                            Abstract!Unchanged, Abstract!Err
<1>4. QED
  BY <1>2, <1>3 DEF PopRefused

LEMMA PeekFrontImplements ==
  ASSUME DequeIInv, DequeViews, NEW d \in Deques, PeekFront(d)
  PROVE  Abstract!Peeks(d, 1)
<1>1. items' = items /\ room' = room
  BY Still DEF PeekFront, Returns
<1>2. items[d] \in Seq(Vals) /\ Len(items[d]) = dq[d].size
  BY DEF DequeViews, View
<1>3. CASE dq[d].size = 0
  <2>1. items[d] = <<>>
    BY <1>2, <1>3
  <2>2. QED
    BY <1>1, <1>3, <2>1 DEF PeekFront, Returns, Err, Abstract!Peeks, Abstract!Unchanged,
                            Abstract!Err
<1>4. CASE dq[d].size # 0
  <2>1. HasBuffer(d)
    BY <1>4 DEF DequeViews, View
  <2>2. /\ 1 \in 1 .. dq[d].size /\ items[d] # <<>>
        /\ Round(dq[d].capacity, dq[d].head + (1 - 1)) = dq[d].head
    BY <1>2, <1>4, <2>1, RingFacts DEF Round
  <2>3. items[d][1] = mem[dq[d].buffer][dq[d].head]
    BY <2>2 DEF DequeViews, View
  <2>4. QED
    BY <1>1, <1>4, <2>2, <2>3 DEF PeekFront, Returns, Value, At, Abstract!Peeks,
                                  Abstract!Unchanged, Abstract!Value
<1>5. QED
  BY <1>3, <1>4

LEMMA PeekBackImplements ==
  ASSUME DequeIInv, DequeViews, NEW d \in Deques, PeekBack(d)
  PROVE  Abstract!Peeks(d, Len(items[d]))
<1>1. items' = items /\ room' = room
  BY Still DEF PeekBack, Returns
<1>2. items[d] \in Seq(Vals) /\ Len(items[d]) = dq[d].size
  BY DEF DequeViews, View
<1>3. CASE dq[d].size = 0
  <2>1. items[d] = <<>>
    BY <1>2, <1>3
  <2>2. QED
    BY <1>1, <1>3, <2>1 DEF PeekBack, Returns, Err, Abstract!Peeks, Abstract!Unchanged,
                            Abstract!Err
<1>4. CASE dq[d].size # 0
  <2> DEFINE n == dq[d].size
             t == Down(d, dq[d].tail)
  <2>1. HasBuffer(d)
    BY <1>4 DEF DequeViews, View
  <2>2. /\ n \in 1 .. n /\ items[d] # <<>>
        /\ Round(dq[d].capacity, dq[d].head + (n - 1)) = t
    <3>1. n \in Nat \ {0}
      BY <1>4, <2>1, RingFacts
    <3>2. Round(dq[d].capacity, dq[d].head + (n - 1)) = t
      BY <1>4, <2>1, RingFacts DEF Round
    <3> HIDE DEF t
    <3>3. QED
      BY <1>2, <3>1, <3>2
  <2>3. items[d][n] = mem[dq[d].buffer][Round(dq[d].capacity, dq[d].head + (n - 1))]
    BY <2>2 DEF DequeViews, View
  <2>4. ret' = Value(mem[dq[d].buffer][t])
    BY <1>4 DEF PeekBack, Returns, At
  <2> HIDE DEF t, n
  <2>5. Len(items[d]) = n
    BY <1>2 DEF n
  <2>6. QED
    BY <1>1, <2>2, <2>3, <2>4, <2>5 DEF Value, Abstract!Peeks, Abstract!Unchanged,
                                        Abstract!Value
<1>5. QED
  BY <1>3, <1>4

LEMMA ClearImplements ==
  ASSUME DequeIInv, DequeViews, DequeViews', NEW d \in Deques, Clear(d)
  PROVE  Abstract!Clear(d)
<1>1. /\ dq'[d].capacity = dq[d].capacity /\ dq'[d].size = 0
      /\ \A e \in Deques : e # d => dq'[e] = dq[e]
  BY DEF Clear, DequeIInv, TypeOK, Struct
<1>2. mem' = mem /\ ret' = Ok
  BY DEF Clear
<1>3. items'[d] = <<>>
  <2>1. items'[d] \in Seq(Vals) /\ Len(items'[d]) = dq'[d].size
    BY DEF DequeViews, View
  <2>2. QED
    BY <1>1, <2>1
<1>4. items' = [items EXCEPT ![d] = <<>>] /\ room' = room
  BY <1>1, <1>2, <1>3, Effect
<1>5. QED
  BY <1>2, <1>4 DEF Ok, Abstract!Clear, Abstract!Ok

LEMMA SwapImplements ==
  ASSUME DequeIInv, NEW d \in Deques, NEW e \in Deques, Swap(d, e)
  PROVE  Abstract!Swap(d, e)
<1>1. /\ mem' = mem /\ ret' = Ok
      /\ \A f \in Deques : dq'[f] = IF f = e THEN dq[d] ELSE IF f = d THEN dq[e] ELSE dq[f]
  BY DEF Swap, DequeIInv, TypeOK
<1>2. items' = [items EXCEPT ![d] = items[e], ![e] = items[d]]
  <2>1. ASSUME NEW f \in Deques
        PROVE  items'[f] = IF f = e THEN items[d] ELSE IF f = d THEN items[e] ELSE items[f]
    <3> DEFINE Ring(m, r) == [i \in 1 .. r.size |-> m[r.buffer][(r.head + i - 1) % r.capacity]]
    <3>1. \A g \in Deques : items[g] = Ring(mem, dq[g])
      BY DEF items, At
    <3>2. items'[f] = Ring(mem', dq'[f])
      BY DEF items, At
    <3> HIDE DEF Ring
    <3>3. CASE f = e
      BY <1>1, <3>1, <3>2, <3>3
    <3>4. CASE f # e /\ f = d
      BY <1>1, <3>1, <3>2, <3>4
    <3>5. CASE f # e /\ f # d
      BY <1>1, <3>1, <3>2, <3>5
    <3>6. QED
      BY <3>3, <3>4, <3>5
  <2>2. items' = [f \in Deques |-> items'[f]] /\ items = [f \in Deques |-> items[f]]
    BY DEF items
  <2> HIDE DEF items
  <2>3. QED
    BY <2>1, <2>2
<1>3. room' = [room EXCEPT ![d] = room[e], ![e] = room[d]]
  <2>1. \A f \in Deques : room'[f] = IF f = e THEN room[d] ELSE IF f = d THEN room[e] ELSE room[f]
    BY <1>1 DEF room
  <2>2. room' = [f \in Deques |-> room'[f]] /\ room = [f \in Deques |-> room[f]]
    BY DEF room
  <2>3. QED
    BY <2>1, <2>2
<1>4. QED
  BY <1>1, <1>2, <1>3 DEF Ok, Abstract!Swap, Abstract!Ok

-----------------------------------------------------------------------------
(* The ring implements the sequence: its initial states and its steps are  *)
(* those of DequeSpec, seen through items and room.                        *)
LEMMA InitImplements == Init => Abstract!Init
<1> SUFFICES ASSUME Init PROVE Abstract!Init
  OBVIOUS
<1>1. DequeIInv
  BY InitDequeIInv
<1>2. DequeViews
  BY <1>1, ViewFacts
<1>3. ASSUME NEW d \in Deques PROVE items[d] = <<>>
  <2>1. dq[d].size = 0
    BY DEF Init, Empty, Opened
  <2>2. items[d] \in Seq(Vals) /\ Len(items[d]) = dq[d].size
    BY <1>2 DEF DequeViews, View
  <2>3. QED
    BY <2>1, <2>2
<1>4. items = [d \in Deques |-> <<>>]
  BY <1>2, <1>3 DEF DequeViews
<1>5. QED
  BY <1>2, <1>4 DEF DequeViews, Init, Ok, Abstract!Init, Abstract!Ok

LEMMA StepImplements ==
  DequeIInv /\ DequeIInv' /\ [Next]_vars => [Abstract!Next]_(Abstract!vars)
<1> SUFFICES ASSUME DequeIInv, DequeIInv', [Next]_vars
             PROVE  [Abstract!Next]_(Abstract!vars)
  OBVIOUS
<1>1. DequeViews /\ DequeViews'
  BY ViewFacts, ViewFactsNext
<1>2. CASE \E d \in Deques, v \in Vals : PushFront(d, v) \/ PushBack(d, v)
  BY <1>1, <1>2, PushFrontImplements, PushBackImplements DEF Abstract!Next
<1>3. CASE \E d \in Deques : PushRefused(d) \/ PopRefused(d)
  <2>1. CASE \E d \in Deques : PushRefused(d)
    <3>1. PICK d \in Deques : PushRefused(d)
      BY <2>1
    <3>2. PICK v \in Vals : TRUE
      <4>1. mem[d] \in [0 .. BufferOf[d] - 1 -> Vals] /\ 0 \in 0 .. BufferOf[d] - 1
        BY DequeAssumption DEF DequeIInv, TypeOK
      <4>2. QED
        BY <4>1
    <3>3. Abstract!PushBack(d, v)
      BY <1>1, <3>1, PushRefusedImplements
    <3>4. QED
      BY <3>3 DEF Abstract!Next
  <2>2. CASE \E d \in Deques : PopRefused(d)
    BY <1>1, <2>2, PopRefusedImplements DEF Abstract!Next
  <2>3. QED
    BY <1>3, <2>1, <2>2
<1>4. CASE \E d \in Deques : PopFront(d) \/ PopBack(d) \/ PeekFront(d) \/ PeekBack(d)
  BY <1>1, <1>4, PopFrontImplements, PopBackImplements, PeekFrontImplements,
     PeekBackImplements DEF Abstract!Next
<1>5. CASE \E d \in Deques : Clear(d)
  BY <1>1, <1>5, ClearImplements DEF Abstract!Next
<1>6. CASE \E d, e \in Deques : Swap(d, e)
  BY <1>6, SwapImplements DEF Abstract!Next
<1>7. CASE UNCHANGED vars
  <2>1. items' = items /\ room' = room /\ ret' = ret
    BY <1>7, Still DEF vars
  <2>2. QED
    BY <2>1 DEF Abstract!vars
<1>8. QED
  BY <1>2, <1>3, <1>4, <1>5, <1>6, <1>7 DEF Next

LEMMA CallsImplement == DequeIInv /\ DequeIInv' => Calls
<1> SUFFICES ASSUME DequeIInv, DequeIInv' PROVE Calls
  OBVIOUS
<1>1. DequeViews /\ DequeViews'
  BY ViewFacts, ViewFactsNext
<1>2. ASSUME NEW d \in Deques, NEW v \in Vals
      PROVE  /\ PushFront(d, v) => Abstract!PushFront(d, v)
             /\ PushBack(d, v) => Abstract!PushBack(d, v)
             /\ PushRefused(d) => Abstract!PushFront(d, v) /\ Abstract!PushBack(d, v)
  BY <1>1, PushFrontImplements, PushBackImplements, PushRefusedImplements
<1>3. ASSUME NEW d \in Deques
      PROVE  /\ PopFront(d) => Abstract!PopFront(d)
             /\ PopBack(d) => Abstract!PopBack(d)
             /\ PopRefused(d) => Abstract!PopFront(d) /\ Abstract!PopBack(d)
  BY <1>1, PopFrontImplements, PopBackImplements, PopRefusedImplements
<1>4. ASSUME NEW d \in Deques
      PROVE  /\ PeekFront(d) => Abstract!Peeks(d, 1)
             /\ PeekBack(d) => Abstract!Peeks(d, Len(items[d]))
             /\ Clear(d) => Abstract!Clear(d)
  BY <1>1, PeekFrontImplements, PeekBackImplements, ClearImplements
<1>5. \A d, e \in Deques : Swap(d, e) => Abstract!Swap(d, e)
  BY SwapImplements
<1>6. QED
  BY <1>2, <1>3, <1>4, <1>5 DEF Calls

(* However often the ring has wrapped and the structs have been swapped,   *)
(* every call does and returns what the call of its name on a sequence     *)
(* would.                                                                  *)
THEOREM DequeImplements == Spec => Implements
<1>1. Init => Abstract!Init
  BY InitImplements
<1>2. DequeIInv /\ DequeIInv' /\ [Next]_vars => [Abstract!Next]_(Abstract!vars)
  BY StepImplements
<1>3. DequeIInv /\ DequeIInv' /\ [Next]_vars => [Calls]_vars
  BY CallsImplement
<1>4. QED
  BY <1>1, <1>2, <1>3, SpecDequeIInv, PTL DEF Spec, Implements, Abstract!Spec

(***************************************************************************)
(* The heap is in order between calls, and what pop answers ranks below    *)
(* everything else, for every capacity and every comparator.               *)
(*                                                                         *)
(* HeapOrdered says nothing of the states inside a sift, so it is not      *)
(* inductive.  IInv says of those which one element may be out of order,   *)
(* and that its parent and its children agree all the same: that is what   *)
(* a swap with either of them needs to put that pair right without         *)
(* spoiling another.                                                       *)
(***************************************************************************)

Children(i) == {Left(i), Right(i)}

(* Every child of i that is in the heap ranks no less than the element at j. *)
Below(j, i) == \A c \in Children(i) : c < len => LessEq(heap, j, c)

(* Between calls: no parent outranks a child. *)
IdleInv == step = "idle" => \A i \in Slots : Below(i, i)

(* Sifting up: only idx may be out of order with its parent, and, where a  *)
(* removal has just put another element there, with its children.          *)
UpInv ==
  step \in {"push", "remove"} =>
    /\ idx < len
    /\ step = "remove" => base < len /\ idx <= base
    /\ \A i \in Slots : \A c \in Children(i) :
         (c < len /\ c # idx /\ (i = idx => step = "push" \/ idx # base)) => LessEq(heap, i, c)
    /\ idx > 0 => Below(Parent(idx), idx)

(* Sifting down: the subtrees from the index on are in order, idx apart. *)
From == IF step = "build" THEN base ELSE 0

DownInv ==
  step \in {"sink", "build"} =>
    /\ \A i \in Slots : (i >= From /\ i # idx) => Below(i, i)
    /\ idx >= From
    /\ (idx > 0 /\ Parent(idx) >= From) => Below(Parent(idx), idx)

QueueIInv == PQTypeOK /\ IdleInv /\ UpInv /\ DownInv

-----------------------------------------------------------------------------
(* priority_queue_parent and priority_queue_left, _right are inverse. *)
LEMMA TreeFacts ==
  ASSUME NEW i \in Nat
  PROVE  /\ Left(i) \in Nat /\ Right(i) \in Nat /\ Left(i) > i /\ Right(i) > i
         /\ Left(i) # Right(i)
         /\ Parent(Left(i)) = i /\ Parent(Right(i)) = i
         /\ i > 0 => /\ Parent(i) \in Nat /\ Parent(i) < i
                     /\ i = Left(Parent(i)) \/ i = Right(Parent(i))
BY DEF Left, Right, Parent

LEMMA ChildFacts ==
  ASSUME NEW i \in Nat, NEW c \in Children(i)
  PROVE  c \in Nat /\ c > i /\ Parent(c) = i
BY TreeFacts DEF Children

LEMMA ParentFacts ==
  ASSUME NEW i \in Nat, i > 0
  PROVE  Parent(i) \in Nat /\ Parent(i) < i /\ i \in Children(Parent(i))
BY TreeFacts DEF Children

(* The comparator is a total preorder. *)
LEMMA OrderFacts ==
  ASSUME NEW h \in [Slots -> Elems], NEW i \in Slots, NEW j \in Slots, NEW k \in Slots
  PROVE  /\ LessEq(h, i, i)
         /\ LessEq(h, i, j) /\ LessEq(h, j, k) => LessEq(h, i, k)
         /\ ~LessEq(h, i, j) => LessEq(h, j, i)
BY PQAssumption DEF LessEq

(* pq_sift_down_'s choice. *)
LEMMA SmallestFacts ==
  ASSUME PQTypeOK
  PROVE  /\ Smallest(idx) = idx => Below(idx, idx)
         /\ Smallest(idx) # idx =>
              /\ Smallest(idx) \in Children(idx) /\ Smallest(idx) < len
              /\ LessEq(heap, Smallest(idx), idx)
              /\ Below(Smallest(idx), idx)
<1>1. /\ idx \in Slots /\ idx \in Nat /\ len \in Nat /\ len <= Capacity /\ Capacity \in Nat
      /\ \A e \in Elems : Rank[e] \in Nat
  BY PQAssumption DEF PQTypeOK, Slots
<1>2. \A c \in Children(idx) : c < len => c \in Slots
  BY <1>1, TreeFacts DEF Children, Slots
<1>3. \A c \in Children(idx) \cup {idx} : c < len \/ c = idx => Rank[heap[c]] \in Nat
  BY <1>1, <1>2 DEF PQTypeOK
<1>4. Left(idx) # idx /\ Right(idx) # idx
  BY <1>1, TreeFacts
<1>5. QED
  BY <1>1, <1>3, <1>4 DEF Smallest, Smaller, Below, Children, LessEq

-----------------------------------------------------------------------------
LEMMA InitQueueIInv == PQInit => QueueIInv
<1> SUFFICES ASSUME PQInit PROVE QueueIInv
  OBVIOUS
<1>1. PQTypeOK
  BY PQAssumption DEF PQInit, PQTypeOK, Slots
<1>2. \A i \in Slots : Below(i, i)
  <2>1. \A i \in Slots : \A c \in Children(i) : ~(c < 0)
    BY ChildFacts, PQAssumption DEF Slots
  <2>2. QED
    BY <2>1 DEF Below, PQInit
<1>3. QED
  BY <1>1, <1>2 DEF PQInit, QueueIInv, IdleInv, UpInv, DownInv

LEMMA TypeInv == PQTypeOK /\ [PQNext]_pqvars => PQTypeOK'
<1> SUFFICES ASSUME PQTypeOK, [PQNext]_pqvars PROVE PQTypeOK'
  OBVIOUS
<1> USE PQAssumption DEF PQTypeOK, Slots, Answers, Sifts
<1>1. ASSUME NEW e \in Elems, NEW i \in Slots, Fill(i, e) PROVE PQTypeOK'
  BY <1>1 DEF Fill
<1>2. ASSUME NEW e \in Elems, Push(e) PROVE PQTypeOK'
  BY <1>2 DEF Push
<1>3. CASE Pop
  BY <1>3 DEF Pop
<1>4. CASE Peek
  BY <1>4 DEF Peek
<1>5. ASSUME NEW i \in Slots, RemoveAt(i) PROVE PQTypeOK'
  BY <1>5 DEF RemoveAt
<1>6. ASSUME NEW n \in 0 .. Capacity + 1, Heapify(n) PROVE PQTypeOK'
  <2>1. \A m \in 2 .. Capacity : Parent(m - 1) \in 0 .. Capacity - 1
    BY DEF Parent
  <2>2. QED
    BY <1>6, <2>1 DEF Heapify
<1>7. CASE SiftUp
  <2>1. idx > 0 => Parent(idx) \in 0 .. Capacity - 1
    BY ParentFacts
  <2>2. QED
    BY <1>7, <2>1 DEF SiftUp, OutOfOrder, Swapped
<1>8. CASE SiftUpEnds
  BY <1>8 DEF SiftUpEnds
<1>9. CASE SiftDown
  <2>1. Smallest(idx) \in 0 .. Capacity - 1
    BY SmallestFacts, ChildFacts
  <2>2. QED
    BY <1>9, <2>1 DEF SiftDown, Swapped
<1>10. CASE SiftDownEnds
  BY <1>10 DEF SiftDownEnds
<1>11. CASE UNCHANGED pqvars
  BY <1>11 DEF pqvars
<1>12. QED
  BY <1>1, <1>2, <1>3, <1>4, <1>5, <1>6, <1>7, <1>8, <1>9, <1>10, <1>11 DEF PQNext

-----------------------------------------------------------------------------
(* The calls' own steps. *)

LEMMA FillIInv ==
  ASSUME QueueIInv, NEW i \in Slots, NEW e \in Elems, Fill(i, e)
  PROVE  IdleInv' /\ UpInv' /\ DownInv'
<1>1. \A j \in Slots : Below(j, j)'
  <2> SUFFICES ASSUME NEW j \in Slots, NEW c \in Children(j), c < len
               PROVE  LessEq(heap', j, c)
    BY DEF Below, Fill
  <2>1. c \in Nat /\ c > j /\ j \in Nat
    BY ChildFacts, PQAssumption DEF Slots
  <2>2. i \in Nat /\ len \in Nat /\ i >= len
    BY PQAssumption DEF Slots, QueueIInv, PQTypeOK, Fill
  <2>3. heap'[j] = heap[j] /\ heap'[c] = heap[c]
    BY <2>1, <2>2 DEF Fill, QueueIInv, PQTypeOK
  <2>4. LessEq(heap, j, c)
    BY DEF QueueIInv, IdleInv, Fill, Below
  <2>5. QED
    BY <2>3, <2>4 DEF LessEq
<1>2. QED
  BY <1>1 DEF Fill, IdleInv, UpInv, DownInv

LEMMA PushQueueIInv ==
  ASSUME QueueIInv, NEW e \in Elems, Push(e)
  PROVE  IdleInv' /\ UpInv' /\ DownInv'
<1>1. len \in Nat /\ Capacity \in Nat /\ Slots \subseteq Nat
  BY PQAssumption DEF QueueIInv, PQTypeOK, Slots
<1>2. CASE len >= Capacity
  BY <1>1, <1>2 DEF Push, Answers, QueueIInv, IdleInv, UpInv, DownInv, Below, From
<1>3. CASE len < Capacity
  <2>1. /\ step = "idle" /\ step' = "push" /\ idx' = len /\ len' = len + 1
        /\ heap' = [heap EXCEPT ![len] = e]
    BY <1>1, <1>3 DEF Push, Answers, Sifts
  <2>2. ASSUME NEW i \in Slots, NEW c \in Children(i), c < len + 1, c # len
        PROVE  LessEq(heap', i, c)
    <3>1. c \in Nat /\ i \in Nat /\ i < c /\ c < len
      BY <1>1, <2>2, ChildFacts
    <3>2. heap'[i] = heap[i] /\ heap'[c] = heap[c]
      BY <1>1, <2>1, <3>1 DEF QueueIInv, PQTypeOK
    <3>3. LessEq(heap, i, c)
      BY <2>1, <3>1 DEF QueueIInv, IdleInv, Below
    <3>4. QED
      BY <3>2, <3>3 DEF LessEq
  <2>3. \A c \in Children(len) : ~(c < len + 1)
    BY <1>1, ChildFacts
  <2>4. UpInv'
    <3>1. \A i \in Slots : \A c \in Children(i) : (c < len' /\ c # idx') => LessEq(heap', i, c)
      BY <2>1, <2>2
    <3>2. \A c \in Children(idx') : ~(c < len')
      BY <2>1, <2>3
    <3>3. idx' < len'
      BY <1>1, <2>1
    <3>4. QED
      BY <2>1, <3>1, <3>2, <3>3 DEF UpInv, Below
  <2>5. QED
    BY <2>1, <2>4 DEF IdleInv, DownInv
<1>4. QED
  BY <1>1, <1>2, <1>3

LEMMA PopQueueIInv ==
  ASSUME QueueIInv, Pop
  PROVE  IdleInv' /\ UpInv' /\ DownInv'
<1>1. len \in Nat /\ Capacity \in Nat /\ Slots \subseteq Nat
  BY PQAssumption DEF QueueIInv, PQTypeOK, Slots
<1>2. CASE len = 0
  BY <1>1, <1>2 DEF Pop, Answers, QueueIInv, IdleInv, UpInv, DownInv, Below, From
<1>3. CASE len > 0
  <2>1. /\ step = "idle" /\ len' = len - 1
        /\ heap' = [heap EXCEPT ![0] = heap[len - 1]]
        /\ IF len > 1 THEN step' = "sink" /\ idx' = 0 ELSE step' = step
    BY <1>1, <1>3 DEF Pop, Answers, Sifts
  <2>2. ASSUME NEW i \in Slots, i # 0, NEW c \in Children(i), c < len - 1
        PROVE  LessEq(heap', i, c)
    <3>1. c \in Nat /\ i \in Nat /\ i < c /\ c < len
      BY <1>1, <2>2, ChildFacts
    <3>2. heap'[i] = heap[i] /\ heap'[c] = heap[c]
      BY <1>1, <2>1, <2>2, <3>1 DEF QueueIInv, PQTypeOK
    <3>3. LessEq(heap, i, c)
      BY <2>1, <3>1 DEF QueueIInv, IdleInv, Below
    <3>4. QED
      BY <3>2, <3>3 DEF LessEq
  <2>3. len = 1 => \A i \in Slots : \A c \in Children(i) : ~(c < len - 1)
    BY <1>1, ChildFacts
  <2>4. IdleInv'
    BY <1>1, <1>3, <2>1, <2>3 DEF IdleInv, Below
  <2>5. step' = "sink" => DownInv'
    <3>1. \A i \in Slots : i # 0 => \A c \in Children(i) : c < len' => LessEq(heap', i, c)
      BY <2>1, <2>2
    <3>2. step' = "sink" => idx' = 0
      BY <1>1, <1>3, <2>1
    <3>3. QED
      BY <1>1, <3>1, <3>2 DEF DownInv, Below, From
  <2>6. QED
    BY <2>1, <2>4, <2>5 DEF UpInv, DownInv
<1>4. QED
  BY <1>1, <1>2, <1>3

LEMMA PeekQueueIInv ==
  ASSUME QueueIInv, Peek
  PROVE  IdleInv' /\ UpInv' /\ DownInv'
BY DEF Peek, Answers, QueueIInv, IdleInv, UpInv, DownInv, Below, From

LEMMA RemoveAtIInv ==
  ASSUME QueueIInv, NEW r \in Slots, RemoveAt(r)
  PROVE  IdleInv' /\ UpInv' /\ DownInv'
<1>1. len \in Nat /\ Capacity \in Nat /\ Slots \subseteq Nat /\ r \in Nat
      /\ len <= Capacity
  BY PQAssumption DEF QueueIInv, PQTypeOK, Slots
<1>2. CASE r >= len
  BY <1>1, <1>2 DEF RemoveAt, Answers, QueueIInv, IdleInv, UpInv, DownInv, Below, From
<1>3. CASE r < len /\ r = len - 1
  <2>1. step = "idle" /\ step' = "idle" /\ heap' = heap /\ len' = len - 1
    BY <1>1, <1>3 DEF RemoveAt
  <2>2. \A i \in Slots : Below(i, i)'
    <3> SUFFICES ASSUME NEW i \in Slots, NEW c \in Children(i), c < len - 1
                 PROVE  LessEq(heap, i, c)
      BY <2>1 DEF Below
    <3>1. c \in Nat /\ c < len
      BY <1>1, ChildFacts
    <3>2. QED
      BY <2>1, <3>1 DEF QueueIInv, IdleInv, Below
  <2>3. QED
    BY <2>1, <2>2 DEF IdleInv, UpInv, DownInv
<1>4. CASE r < len /\ r # len - 1
  <2>1. /\ step = "idle" /\ step' = "remove" /\ idx' = r /\ base' = r /\ len' = len - 1
        /\ heap' = [heap EXCEPT ![r] = heap[len - 1]]
    BY <1>1, <1>4 DEF RemoveAt, Sifts
  <2>2. \A i \in Slots, j \in Slots : i # r /\ j # r =>
           (LessEq(heap', i, j) <=> LessEq(heap, i, j))
    BY <2>1 DEF LessEq, QueueIInv, PQTypeOK
  <2>3. \A i \in Slots : \A c \in Children(i) : c < len => c \in Slots /\ LessEq(heap, i, c)
    BY <1>1, <2>1, ChildFacts DEF QueueIInv, IdleInv, Below, Slots
  <2>4. ASSUME NEW i \in Slots, i # r, NEW c \in Children(i), c < len - 1, c # r
        PROVE  LessEq(heap', i, c)
    <3>1. c \in Nat /\ c < len
      BY <1>1, <2>4, ChildFacts
    <3>2. QED
      BY <2>2, <2>3, <2>4, <3>1
  <2>5. ASSUME r > 0, NEW c \in Children(r), c < len - 1
        PROVE  LessEq(heap', Parent(r), c)
    <3>1. c \in Nat /\ c < len /\ c # r
      BY <1>1, <2>5, ChildFacts
    <3>2. Parent(r) \in Slots /\ Parent(r) # r /\ r \in Children(Parent(r))
      BY <1>1, <2>5, ParentFacts DEF Slots
    <3>3. LessEq(heap, Parent(r), r) /\ LessEq(heap, r, c) /\ c \in Slots
      BY <1>4, <2>3, <3>1, <3>2
    <3>4. QED
      BY <2>2, <3>1, <3>2, <3>3, OrderFacts DEF QueueIInv, PQTypeOK
  <2>6. r < len - 1
    BY <1>1, <1>4
  <2>7. UpInv'
    <3>1. \A i \in Slots : \A c \in Children(i) : (c < len' /\ c # r /\ i # r) => LessEq(heap', i, c)
      BY <2>1, <2>4
    <3>2. r > 0 => \A c \in Children(r) : c < len' => LessEq(heap', Parent(r), c)
      BY <2>1, <2>5
    <3>3. r < len' /\ r <= r
      BY <1>1, <2>1, <2>6
    <3>4. QED
      BY <2>1, <3>1, <3>2, <3>3 DEF UpInv, Below
  <2>8. QED
    BY <2>1, <2>7 DEF IdleInv, DownInv
<1>5. QED
  BY <1>1, <1>2, <1>3, <1>4

LEMMA HeapifyIInv ==
  ASSUME QueueIInv, NEW n \in 0 .. Capacity + 1, Heapify(n)
  PROVE  IdleInv' /\ UpInv' /\ DownInv'
<1> DEFINE m == IF n > Capacity THEN Capacity ELSE n
<1>1. m \in Nat /\ Slots \subseteq Nat
  BY PQAssumption DEF Slots
<1>2. step = "idle" /\ len' = m /\ heap' = heap
  BY DEF Heapify
<1>3. CASE m < 2
  <2>1. step' = "idle"
    BY <1>2, <1>3 DEF Heapify
  <2>2. \A i \in Slots : \A c \in Children(i) : ~(c < m)
    BY <1>1, <1>3, ChildFacts
  <2>3. QED
    BY <1>2, <2>1, <2>2 DEF IdleInv, UpInv, DownInv, Below
<1>4. CASE ~(m < 2)
  <2>1. step' = "build" /\ idx' = Parent(m - 1) /\ base' = Parent(m - 1)
    BY <1>2, <1>4 DEF Heapify, Sifts
  <2>2. Parent(m - 1) \in Nat /\ 2 * Parent(m - 1) + 2 >= m - 1
    BY <1>1, <1>4 DEF Parent
  <2>3. \A i \in Slots : i > Parent(m - 1) => \A c \in Children(i) : ~(c < m)
    BY <1>1, <2>2 DEF Children, Left, Right
  <2>4. Parent(m - 1) > 0 => Parent(Parent(m - 1)) < Parent(m - 1) /\ Parent(Parent(m - 1)) \in Nat
    BY <2>2, ParentFacts
  <2>5. QED
    BY <1>1, <1>2, <2>1, <2>2, <2>3, <2>4 DEF IdleInv, UpInv, DownInv, Below, From
<1>5. QED
  BY <1>3, <1>4

-----------------------------------------------------------------------------
(* The iterations of the loops. *)

LEMMA SwapFacts ==
  ASSUME PQTypeOK, NEW i \in Slots, NEW j \in Slots, i # j, heap' = Swapped(i, j)
  PROVE  /\ heap'[i] = heap[j] /\ heap'[j] = heap[i]
         /\ \A k \in Slots : k # i /\ k # j => heap'[k] = heap[k]
BY DEF PQTypeOK, Swapped

LEMMA SiftUpIInv ==
  ASSUME QueueIInv, SiftUp
  PROVE  IdleInv' /\ UpInv' /\ DownInv'
<1> DEFINE p == Parent(idx)
<1>1. /\ step \in {"push", "remove"} /\ step' = step /\ base' = base /\ len' = len /\ idx' = p
      /\ idx > 0 /\ ~LessEq(heap, p, idx) /\ heap' = Swapped(p, idx)
  BY DEF SiftUp, OutOfOrder
<1>2. /\ len \in Nat /\ len <= Capacity /\ Slots \subseteq Nat /\ idx \in Slots /\ idx < len
      /\ \A k \in Nat : k < len => k \in Slots
  BY <1>1, PQAssumption DEF QueueIInv, PQTypeOK, UpInv, Slots
<1>3. p \in Slots /\ p \in Nat /\ idx \in Nat /\ p < idx /\ idx \in Children(p)
  BY <1>1, <1>2, ParentFacts
<1> HIDE DEF p
<1>4. \A i \in Slots : \A c \in Children(i) :
        /\ c \in Nat /\ c > i /\ Parent(c) = i
        /\ c < len => c \in Slots
  BY <1>2, ChildFacts
<1>5. /\ heap'[p] = heap[idx] /\ heap'[idx] = heap[p]
      /\ \A k \in Slots : k # p /\ k # idx => heap'[k] = heap[k]
  BY <1>1, <1>2, <1>3, SwapFacts DEF QueueIInv
<1>6. LessEq(heap, idx, p)
  BY <1>1, <1>2, <1>3, OrderFacts DEF QueueIInv, PQTypeOK
<1>7. \A i \in Slots : \A c \in Children(i) :
        (c < len /\ c # idx /\ i # idx) => LessEq(heap, i, c)
  BY <1>1 DEF QueueIInv, UpInv
<1>8. \A c \in Children(idx) : c < len => LessEq(heap, p, c)
  BY <1>1 DEF p, QueueIInv, UpInv, Below
<1>9. ASSUME NEW i \in Slots, NEW c \in Children(i), c < len, c # p
      PROVE  LessEq(heap', i, c)
  <2>1. c \in Slots /\ c > i /\ Parent(c) = i
    BY <1>4, <1>9
  <2>2. CASE i = idx
    <3>1. c # idx
      BY <1>2, <2>1, <2>2
    <3>2. QED
      BY <1>5, <1>8, <1>9, <2>1, <2>2, <3>1 DEF LessEq
  <2>3. CASE i = p /\ c = idx
    BY <1>5, <1>6, <2>3 DEF LessEq
  <2>4. CASE i = p /\ c # idx
    <3>1. LessEq(heap, p, c)
      BY <1>2, <1>3, <1>7, <1>9, <2>4
    <3>2. LessEq(heap, idx, c)
      BY <1>2, <1>3, <1>6, <2>1, <3>1, OrderFacts DEF QueueIInv, PQTypeOK
    <3>3. QED
      BY <1>5, <1>9, <2>1, <2>4, <3>2 DEF LessEq
  <2>5. CASE i # p /\ i # idx
    <3>1. c # idx
      BY <2>1, <2>5 DEF p
    <3>2. LessEq(heap, i, c)
      BY <1>7, <1>9, <2>5, <3>1
    <3>3. QED
      BY <1>5, <1>9, <2>1, <2>5, <3>1, <3>2 DEF LessEq
  <2>6. QED
    BY <2>2, <2>3, <2>4, <2>5
<1>10. ASSUME p > 0, NEW c \in Children(p), c < len
       PROVE  LessEq(heap', Parent(p), c)
  <2>1. /\ Parent(p) \in Slots /\ Parent(p) \in Nat /\ Parent(p) < p
        /\ p \in Children(Parent(p))
    BY <1>2, <1>3, <1>10, ParentFacts DEF Slots
  <2>2. LessEq(heap, Parent(p), p)
    BY <1>2, <1>3, <1>7, <2>1
  <2>3. c \in Slots /\ c \in Nat /\ c > p
    BY <1>3, <1>4, <1>10
  <2>4. heap'[Parent(p)] = heap[Parent(p)]
    BY <1>2, <1>3, <1>5, <2>1
  <2>5. CASE c = idx
    BY <1>5, <2>2, <2>4, <2>5 DEF LessEq
  <2>6. CASE c # idx
    <3>1. LessEq(heap, p, c)
      BY <1>2, <1>3, <1>7, <1>10, <2>6
    <3>2. LessEq(heap, Parent(p), c)
      BY <1>3, <2>1, <2>2, <2>3, <3>1, OrderFacts DEF QueueIInv, PQTypeOK
    <3>3. heap'[c] = heap[c]
      BY <1>2, <1>3, <1>5, <2>3, <2>6
    <3>4. QED
      BY <2>4, <3>2, <3>3 DEF LessEq
  <2>7. QED
    BY <2>5, <2>6
<1>11. UpInv'
  <2>1. \A i \in Slots : \A c \in Children(i) : (c < len' /\ c # idx') => LessEq(heap', i, c)
    BY <1>1, <1>9
  <2>2. idx' > 0 => \A c \in Children(idx') : c < len' => LessEq(heap', Parent(idx'), c)
    BY <1>1, <1>10
  <2>3. step' = "remove" => base' < len' /\ idx' <= base'
    BY <1>1, <1>2, <1>3 DEF QueueIInv, UpInv, PQTypeOK
  <2>4. idx' < len'
    BY <1>1, <1>2, <1>3
  <2>5. QED
    BY <2>1, <2>2, <2>3, <2>4 DEF UpInv, Below
<1>12. QED
  BY <1>1, <1>11 DEF IdleInv, DownInv

LEMMA SiftUpEndsIInv ==
  ASSUME QueueIInv, SiftUpEnds
  PROVE  IdleInv' /\ UpInv' /\ DownInv'
<1>1. /\ step \in {"push", "remove"} /\ len' = len /\ heap' = heap
      /\ idx > 0 => LessEq(heap, Parent(idx), idx)
  BY DEF SiftUpEnds, OutOfOrder
<1>2. /\ len \in Nat /\ len <= Capacity /\ Slots \subseteq Nat /\ idx \in Nat /\ base \in Nat
      /\ idx \in Slots /\ base \in Slots
      /\ step = "remove" => base < len /\ idx <= base
      /\ \A k \in Nat : k < len => k \in Slots
  BY <1>1, PQAssumption DEF QueueIInv, PQTypeOK, UpInv, Slots
<1>3. ASSUME NEW i \in Slots, step = "push" \/ i # base, NEW c \in Children(i), c < len
      PROVE  LessEq(heap, i, c)
  <2>1. c \in Nat /\ Parent(c) = i /\ c > i
    BY <1>2, ChildFacts
  <2>2. CASE c = idx
    BY <1>1, <1>2, <2>1, <2>2
  <2>3. CASE c # idx
    BY <1>1, <1>3, <2>3 DEF QueueIInv, UpInv
  <2>4. QED
    BY <2>2, <2>3
<1>4. CASE step = "push"
  <2>1. step' = "idle"
    BY <1>4 DEF SiftUpEnds, Sifts
  <2>2. \A i \in Slots : \A c \in Children(i) : c < len' => LessEq(heap', i, c)
    BY <1>1, <1>3, <1>4
  <2>3. QED
    BY <2>1, <2>2 DEF IdleInv, UpInv, DownInv, Below
<1>5. CASE step = "remove"
  <2>1. step' = "sink" /\ idx' = base
    BY <1>5 DEF SiftUpEnds, Sifts
  <2>2. \A i \in Slots : i # base => \A c \in Children(i) : c < len' => LessEq(heap', i, c)
    BY <1>1, <1>3
  <2>3. ASSUME base > 0, NEW c \in Children(base), c < len
        PROVE  LessEq(heap, Parent(base), c)
    <3>1. Parent(base) \in Slots /\ Parent(base) # base /\ base \in Children(Parent(base))
      BY <1>2, <2>3, ParentFacts, PQAssumption DEF Slots
    <3>2. c \in Slots /\ c > base
      BY <1>2, <2>3, ChildFacts
    <3>3. CASE idx = base
      <4>1. Below(Parent(idx), idx)
        BY <1>1, <2>3, <3>3 DEF QueueIInv, UpInv
      <4>2. QED
        BY <2>3, <3>3, <4>1 DEF Below
    <3>4. CASE idx # base
      <4>1. LessEq(heap, Parent(base), base)
        BY <1>2, <1>3, <1>5, <3>1
      <4>2. c # idx
        BY <1>2, <1>5, <3>2
      <4>3. LessEq(heap, base, c)
        BY <1>1, <1>2, <2>3, <3>4, <4>2 DEF QueueIInv, UpInv
      <4>4. QED
        BY <1>2, <3>1, <3>2, <4>1, <4>3, OrderFacts DEF QueueIInv, PQTypeOK
    <3>5. QED
      BY <3>3, <3>4
  <2>4. base > 0 => \A c \in Children(base) : c < len' => LessEq(heap', Parent(base), c)
    BY <1>1, <2>3
  <2>5. DownInv'
    BY <1>2, <2>1, <2>2, <2>4 DEF DownInv, Below, From
  <2>6. QED
    BY <2>1, <2>5 DEF IdleInv, UpInv
<1>6. QED
  BY <1>1, <1>4, <1>5

LEMMA SiftDownIInv ==
  ASSUME QueueIInv, SiftDown
  PROVE  IdleInv' /\ UpInv' /\ DownInv'
<1> DEFINE s == Smallest(idx)
<1>1. /\ step \in {"sink", "build"} /\ step' = step /\ base' = base /\ len' = len /\ idx' = s
      /\ heap' = Swapped(idx, s)
      /\ s # idx /\ s \in Children(idx) /\ s < len /\ LessEq(heap, s, idx) /\ Below(s, idx)
  BY SmallestFacts DEF SiftDown, QueueIInv
<1> HIDE DEF s
<1>2. /\ len \in Nat /\ len <= Capacity /\ Slots \subseteq Nat /\ idx \in Nat /\ idx \in Slots
      /\ \A k \in Nat : k < len => k \in Slots
  BY PQAssumption DEF QueueIInv, PQTypeOK, Slots
<1>3. From \in Nat /\ From' = From /\ idx >= From
  BY <1>1, <1>2 DEF From, QueueIInv, DownInv, PQTypeOK
<1>4. s \in Slots /\ s \in Nat /\ s > idx /\ Parent(s) = idx
  BY <1>1, <1>2, ChildFacts
<1>5. /\ heap'[idx] = heap[s] /\ heap'[s] = heap[idx]
      /\ \A k \in Slots : k # s /\ k # idx => heap'[k] = heap[k]
  BY <1>1, <1>2, <1>4, SwapFacts DEF QueueIInv
<1>6. \A i \in Slots : \A c \in Children(i) :
        (c < len /\ i >= From /\ i # idx) => LessEq(heap, i, c)
  BY <1>1 DEF QueueIInv, DownInv, Below
<1>7. ASSUME NEW i \in Slots, i >= From, i # s, NEW c \in Children(i), c < len
      PROVE  LessEq(heap', i, c)
  <2>1. c \in Nat /\ c \in Slots /\ c > i /\ Parent(c) = i
    BY <1>2, <1>7, ChildFacts
  <2>2. CASE i = idx /\ c = s
    BY <1>1, <1>5, <2>2 DEF LessEq
  <2>3. CASE i = idx /\ c # s
    <3>1. LessEq(heap, s, c) /\ c # idx
      BY <1>1, <1>2, <1>7, <2>1, <2>3 DEF Below
    <3>2. QED
      BY <1>5, <2>1, <2>3, <3>1 DEF LessEq
  <2>4. CASE i # idx /\ c = idx
    <3>1. idx > 0
      BY <1>2, <2>1, <2>4
    <3>2. LessEq(heap, i, s)
      BY <1>1, <1>7, <2>1, <2>4, <3>1 DEF QueueIInv, DownInv, Below
    <3>3. QED
      BY <1>5, <1>7, <2>4, <3>2 DEF LessEq
  <2>5. CASE i # idx /\ c # idx
    <3>1. LessEq(heap, i, c)
      BY <1>6, <1>7, <2>5
    <3>2. c # s
      BY <1>4, <2>1, <2>5
    <3>3. QED
      BY <1>5, <1>7, <2>1, <2>5, <3>1, <3>2 DEF LessEq
  <2>6. QED
    BY <2>2, <2>3, <2>4, <2>5
<1>8. ASSUME NEW c \in Children(s), c < len
      PROVE  LessEq(heap', idx, c)
  <2>1. c \in Nat /\ c \in Slots /\ c > s
    BY <1>2, <1>4, <1>8, ChildFacts
  <2>2. LessEq(heap, s, c)
    BY <1>2, <1>3, <1>4, <1>6, <1>8
  <2>3. c # s /\ c # idx
    BY <1>2, <1>4, <2>1
  <2>4. QED
    BY <1>5, <2>1, <2>2, <2>3 DEF LessEq
<1>9. DownInv'
  <2>1. \A i \in Slots : (i >= From' /\ i # idx') =>
          \A c \in Children(i) : c < len' => LessEq(heap', i, c)
    BY <1>1, <1>3, <1>7
  <2>2. \A c \in Children(idx') : c < len' => LessEq(heap', Parent(idx'), c)
    BY <1>1, <1>4, <1>8
  <2>3. idx' >= From'
    BY <1>1, <1>2, <1>3, <1>4
  <2>4. QED
    BY <2>1, <2>2, <2>3 DEF DownInv, Below
<1>10. QED
  BY <1>1, <1>9 DEF IdleInv, UpInv

LEMMA SiftDownEndsIInv ==
  ASSUME QueueIInv, SiftDownEnds
  PROVE  IdleInv' /\ UpInv' /\ DownInv'
<1>1. /\ step \in {"sink", "build"} /\ len' = len /\ heap' = heap /\ Below(idx, idx)
  BY SmallestFacts DEF SiftDownEnds, QueueIInv
<1>2. base \in Nat /\ Slots \subseteq Nat
  BY PQAssumption DEF QueueIInv, PQTypeOK, Slots
<1>3. \A i \in Slots : i >= From => \A c \in Children(i) : c < len' => LessEq(heap', i, c)
  BY <1>1 DEF QueueIInv, DownInv, Below
<1>4. CASE step = "sink" \/ base = 0
  <2>1. step' = "idle" /\ From = 0
    BY <1>1, <1>4 DEF SiftDownEnds, Sifts, From
  <2>2. \A i \in Slots : \A c \in Children(i) : c < len' => LessEq(heap', i, c)
    BY <1>2, <1>3, <2>1
  <2>3. QED
    BY <2>1, <2>2 DEF IdleInv, UpInv, DownInv, Below
<1>5. CASE ~(step = "sink" \/ base = 0)
  <2>1. /\ step' = "build" /\ idx' = base - 1 /\ From' = base - 1 /\ From = base
        /\ base - 1 \in Nat
    BY <1>1, <1>2, <1>5 DEF SiftDownEnds, Sifts, From
  <2>2. \A i \in Slots : i >= From' /\ i # idx' => i >= From
    BY <1>2, <2>1
  <2>3. idx' > 0 => Parent(idx') < From'
    BY <2>1, ParentFacts
  <2>4. idx' > 0 => ~(Parent(idx') >= From')
    BY <2>1, <2>3, ParentFacts
  <2>5. idx' >= From'
    BY <2>1
  <2>6. DownInv'
    BY <1>3, <2>2, <2>4, <2>5 DEF DownInv, Below
  <2>7. QED
    BY <2>1, <2>6 DEF IdleInv, UpInv
<1>6. QED
  BY <1>4, <1>5

LEMMA NextQueueIInv == QueueIInv /\ [PQNext]_pqvars => QueueIInv'
<1> SUFFICES ASSUME QueueIInv, [PQNext]_pqvars PROVE QueueIInv'
  OBVIOUS
<1>1. PQTypeOK'
  BY TypeInv DEF QueueIInv
<1>2. IdleInv' /\ UpInv' /\ DownInv'
  <2>1. CASE UNCHANGED pqvars
    BY <2>1 DEF pqvars, QueueIInv, IdleInv, UpInv, DownInv, Below, From
  <2>2. CASE PQNext
    BY <2>2, FillIInv, PushQueueIInv, PopQueueIInv, PeekQueueIInv, RemoveAtIInv, HeapifyIInv,
       SiftUpIInv, SiftUpEndsIInv, SiftDownIInv, SiftDownEndsIInv DEF PQNext
  <2>3. QED
    BY <2>1, <2>2
<1>3. QED
  BY <1>1, <1>2 DEF QueueIInv

LEMMA SpecQueueIInv == PQSpec => []QueueIInv
BY InitQueueIInv, NextQueueIInv, PTL DEF PQSpec

(* No call writes outside the buffer. *)
THEOREM QueueTypeOK == PQSpec => []PQTypeOK
<1>1. QueueIInv => PQTypeOK
  BY DEF QueueIInv
<1>2. QED
  BY <1>1, SpecQueueIInv, PTL

(* The order priority_queue.h says its own contracts cannot specify: between *)
(* calls no parent outranks a child, whatever was pushed, popped, removed    *)
(* from the middle or put in order in place.                                 *)
THEOREM QueueHeapOrdered == PQSpec => []HeapOrdered
<1>1. QueueIInv => HeapOrdered
  BY DEF QueueIInv, IdleInv, Below, Children, HeapOrdered
<1>2. QED
  BY <1>1, SpecQueueIInv, PTL

-----------------------------------------------------------------------------
(* The prover has no induction over data, but a set of numbers has a least *)
(* one: of the elements that would rank below the root, take the first.    *)

LEMMA SmallerIsWellFounded ==
  \E R : IsWellFoundedOn(R, Nat) /\ \A m, n \in Nat : n < m => <<n, m>> \in R
<1>1. \A m, n \in Nat : n < m => <<n, m>> \in OpToRel(<, Nat)
  BY Zenon DEF OpToRel
<1>2. QED
  BY <1>1, NatLessThanWellFounded, Zenon

LEMMA LeastNumber ==
  ASSUME NEW S \in SUBSET Nat, S # {}
  PROVE  \E m \in S : \A n \in S : m <= n
<1>1. PICK R : IsWellFoundedOn(R, Nat) /\ \A m, n \in Nat : n < m => <<n, m>> \in R
  BY SmallerIsWellFounded
<1>2. \E m \in S : \A n \in S : <<n, m>> \notin R
  BY <1>1, WFMin, Zenon
<1>3. PICK m \in S : \A n \in S : <<n, m>> \notin R
  BY <1>2
<1>4. \A n \in S : ~(n < m)
  BY <1>1, <1>3, Zenon
<1>5. \A n \in S : m <= n
  BY <1>4
<1>6. QED
  BY <1>5

(* The root is a least element of the queue. *)
RootIsLeast == step = "idle" => \A i \in Slots : i < len => LessEq(heap, 0, i)

LEMMA OrderedRoot == QueueIInv => RootIsLeast
<1> SUFFICES ASSUME QueueIInv, step = "idle", NEW j \in Slots, j < len, ~LessEq(heap, 0, j)
             PROVE  FALSE
  BY DEF RootIsLeast
<1> DEFINE S == {i \in Slots : i < len /\ ~LessEq(heap, 0, i)}
<1>1. Slots \subseteq Nat /\ 0 \in Slots /\ len \in Nat
  BY PQAssumption DEF QueueIInv, PQTypeOK, Slots
<1>2. S \in SUBSET Nat /\ S # {}
  BY <1>1
<1>3. PICK m \in S : \A n \in S : m <= n
  BY <1>2, LeastNumber
<1>4. m \in Slots /\ m \in Nat /\ m < len /\ ~LessEq(heap, 0, m)
  BY <1>1, <1>3
<1>5. m > 0
  BY <1>1, <1>4, OrderFacts DEF QueueIInv, PQTypeOK
<1>6. /\ Parent(m) \in Slots /\ Parent(m) \in Nat /\ Parent(m) < m
      /\ m \in Children(Parent(m))
  BY <1>4, <1>5, ParentFacts, PQAssumption DEF Slots
<1>7. Parent(m) \notin S
  BY <1>3, <1>4, <1>6
<1>8. Parent(m) < len
  BY <1>1, <1>4, <1>6
<1>9. LessEq(heap, 0, Parent(m))
  BY <1>6, <1>7, <1>8
<1>10. LessEq(heap, Parent(m), m)
  BY <1>4, <1>6 DEF QueueIInv, IdleInv, Below
<1>11. QED
  BY <1>1, <1>4, <1>6, <1>9, <1>10, OrderFacts DEF QueueIInv, PQTypeOK

(* What pq_pop and pq_peek answer ranks no higher than any element of the  *)
(* queue they answer for.                                                  *)
LeastAnswered ==
  (Pop \/ Peek) /\ len > 0 => \A i \in Slots : i < len => Rank[got'] <= Rank[heap[i]]

THEOREM QueueAnswersLeast == PQSpec => [][LeastAnswered]_pqvars
<1>1. QueueIInv /\ [PQNext]_pqvars => [LeastAnswered]_pqvars
  <2> SUFFICES ASSUME QueueIInv, Pop \/ Peek, len > 0, NEW i \in Slots, i < len
               PROVE  Rank[got'] <= Rank[heap[i]]
    BY DEF LeastAnswered
  <2>1. step = "idle" /\ got' = heap[0]
    BY DEF Pop, Peek, Answers, QueueIInv, PQTypeOK
  <2>2. LessEq(heap, 0, i)
    BY <2>1, OrderedRoot DEF RootIsLeast
  <2>3. QED
    BY <2>1, <2>2 DEF LessEq
<1>2. QED
  BY <1>1, SpecQueueIInv, PTL DEF PQSpec

-----------------------------------------------------------------------------
(* The bag an array holds: a sift is a permutation of it, whichever way it *)
(* runs.                                                                   *)

Places(h, n, e) == {i \in 0 .. n - 1 : h[i] = e}
BagOf(h, n) == [e \in Elems |-> Cardinality(Places(h, n, e))]

LEMMA PlacesFinite ==
  ASSUME NEW h, NEW n \in Nat, NEW e
  PROVE  IsFiniteSet(Places(h, n, e)) /\ Cardinality(Places(h, n, e)) \in 0 .. n
<1>1. IsFiniteSet(0 .. n - 1) /\ Cardinality(0 .. n - 1) = n
  BY FS_Interval
<1>2. Places(h, n, e) \in SUBSET (0 .. n - 1)
  BY DEF Places
<1>3. IsFiniteSet(Places(h, n, e)) /\ Cardinality(Places(h, n, e)) <= n
  BY <1>1, <1>2, FS_Subset
<1>4. QED
  BY <1>3, FS_CardinalityType

LEMMA BagIs == bag = BagOf(heap, len) /\ bag' = BagOf(heap', len')
BY DEF bag, BagOf, Places

LEMMA BagType ==
  ASSUME NEW h, NEW n \in Nat
  PROVE  BagOf(h, n) \in [Elems -> 0 .. n]
BY PlacesFinite DEF BagOf

(* Only the slots below the length count. *)
LEMMA BagSame ==
  ASSUME NEW h, NEW g, NEW n \in Nat, \A i \in 0 .. n - 1 : g[i] = h[i]
  PROVE  BagOf(g, n) = BagOf(h, n)
<1>1. \A e \in Elems : Places(g, n, e) = Places(h, n, e)
  BY DEF Places
<1>2. QED
  BY <1>1 DEF BagOf

(* A push. *)
LEMMA BagAdd ==
  ASSUME NEW h, NEW g, NEW n \in Nat, g[n] \in Elems, \A i \in 0 .. n - 1 : g[i] = h[i]
  PROVE  \A e \in Elems :
           BagOf(g, n + 1)[e] = BagOf(h, n)[e] + (IF e = g[n] THEN 1 ELSE 0)
<1>1. ASSUME NEW e \in Elems
      PROVE  Cardinality(Places(g, n + 1, e))
               = Cardinality(Places(h, n, e)) + (IF e = g[n] THEN 1 ELSE 0)
  <2>1. n \notin Places(h, n, e)
    BY DEF Places
  <2>2. Places(g, n + 1, e) = IF e = g[n] THEN Places(h, n, e) \cup {n} ELSE Places(h, n, e)
    BY DEF Places
  <2>3. IsFiniteSet(Places(h, n, e)) /\ Cardinality(Places(h, n, e)) \in Nat
    BY PlacesFinite
  <2>4. Cardinality(Places(h, n, e) \cup {n}) = Cardinality(Places(h, n, e)) + 1
    BY <2>1, <2>3, FS_AddElement
  <2>5. QED
    BY <2>2, <2>3, <2>4
<1>2. QED
  BY <1>1 DEF BagOf

(* An element of a finite set replaced. *)
LEMMA Replaced ==
  ASSUME NEW S, IsFiniteSet(S), NEW x \in S, NEW y, y \notin S
  PROVE  Cardinality((S \ {x}) \cup {y}) = Cardinality(S)
<1>1. IsFiniteSet(S \ {x}) /\ Cardinality(S \ {x}) = Cardinality(S) - 1
  BY FS_RemoveElement
<1>2. Cardinality((S \ {x}) \cup {y}) = Cardinality(S \ {x}) + 1
  BY <1>1, FS_AddElement
<1>3. QED
  BY <1>1, <1>2, FS_CardinalityType

(* pq_swap_. *)
LEMMA BagSwapped ==
  ASSUME NEW h, NEW g, NEW n \in Nat, NEW i \in 0 .. n - 1, NEW j \in 0 .. n - 1,
         g[i] = h[j], g[j] = h[i], \A k \in 0 .. n - 1 : k \notin {i, j} => g[k] = h[k]
  PROVE  BagOf(g, n) = BagOf(h, n)
<1>1. ASSUME NEW e \in Elems
      PROVE  Cardinality(Places(g, n, e)) = Cardinality(Places(h, n, e))
  <2>1. CASE h[i] = h[j] \/ (h[i] # e /\ h[j] # e)
    <3>1. Places(g, n, e) = Places(h, n, e)
      BY <2>1 DEF Places
    <3>2. QED
      BY <3>1
  <2>2. CASE h[i] = e /\ h[j] # e
    <3>1. Places(g, n, e) = (Places(h, n, e) \ {i}) \cup {j}
      BY <2>2 DEF Places
    <3>2. i \in Places(h, n, e) /\ j \notin Places(h, n, e)
      BY <2>2 DEF Places
    <3>3. QED
      BY <3>1, <3>2, PlacesFinite, Replaced
  <2>3. CASE h[i] # e /\ h[j] = e
    <3>1. Places(g, n, e) = (Places(h, n, e) \ {j}) \cup {i}
      BY <2>3 DEF Places
    <3>2. j \in Places(h, n, e) /\ i \notin Places(h, n, e)
      BY <2>3 DEF Places
    <3>3. QED
      BY <3>1, <3>2, PlacesFinite, Replaced
  <2>4. QED
    BY <2>1, <2>2, <2>3
<1>2. QED
  BY <1>1 DEF BagOf

LEMMA BagLast ==
  ASSUME NEW s, NEW g, NEW n \in Nat, n > 0, s[n - 1] \in Elems,
         \A k \in 0 .. (n - 1) - 1 : s[k] = g[k], NEW e \in Elems
  PROVE  BagOf(s, n)[e] = BagOf(g, n - 1)[e] + (IF e = s[n - 1] THEN 1 ELSE 0)
<1> DEFINE m == n - 1
<1>1. m \in Nat /\ m + 1 = n /\ s[m] \in Elems /\ \A k \in 0 .. m - 1 : s[k] = g[k]
  OBVIOUS
<1> HIDE DEF m
<1>2. BagOf(s, m + 1)[e] = BagOf(g, m)[e] + (IF e = s[m] THEN 1 ELSE 0)
  BY <1>1, BagAdd
<1>3. QED
  BY <1>1, <1>2 DEF m

(* A removal: the last element fills the gap. *)
LEMMA BagDrop ==
  ASSUME NEW h \in [Slots -> Elems], NEW n \in Nat, n <= Capacity, NEW i \in 0 .. n - 1,
         NEW g, i < n - 1 => g[i] = h[n - 1], \A k \in 0 .. n - 1 : k # i => g[k] = h[k]
  PROVE  \A e \in Elems :
           BagOf(g, n - 1)[e] = BagOf(h, n)[e] - (IF e = h[i] THEN 1 ELSE 0)
<1> DEFINE s == [h EXCEPT ![i] = h[n - 1], ![n - 1] = h[i]]
<1>1. /\ n - 1 \in Nat /\ n - 1 \in Slots /\ i \in Slots /\ n - 1 \in 0 .. n - 1
      /\ (n - 1) + 1 = n /\ 0 .. n - 1 \subseteq Slots /\ h[i] \in Elems
  BY PQAssumption DEF Slots
<1>2. /\ s[i] = h[n - 1] /\ s[n - 1] = h[i]
      /\ \A k \in 0 .. n - 1 : k \notin {i, n - 1} => s[k] = h[k]
  BY <1>1
<1>3. \A k \in 0 .. (n - 1) - 1 : g[k] = s[k] /\ s[k] = g[k]
  <2>1. \A k \in 0 .. (n - 1) - 1 : k # n - 1 /\ k \in Slots
    BY <1>1 DEF Slots
  <2>2. QED
    BY <1>1, <2>1
<1> HIDE DEF s
<1>4. BagOf(s, n) = BagOf(h, n)
  BY <1>1, <1>2, BagSwapped
<1>5. ASSUME NEW e \in Elems
      PROVE  BagOf(h, n)[e] = BagOf(g, n - 1)[e] + (IF e = h[i] THEN 1 ELSE 0)
  <2>1. n > 0 /\ s[n - 1] \in Elems /\ \A k \in 0 .. (n - 1) - 1 : s[k] = g[k]
    BY <1>1, <1>2, <1>3
  <2>2. BagOf(s, n)[e] = BagOf(g, n - 1)[e] + (IF e = s[n - 1] THEN 1 ELSE 0)
    BY <2>1, BagLast
  <2>3. QED
    BY <1>2, <1>4, <2>2
<1>6. \A e \in Elems : BagOf(g, n - 1)[e] \in Int
  <2>1. BagOf(g, n - 1) \in [Elems -> 0 .. n - 1]
    BY <1>1, BagType, Zenon
  <2>2. QED
    BY <1>1, <2>1
<1>7. QED
  <2> SUFFICES ASSUME NEW e \in Elems
               PROVE  BagOf(g, n - 1)[e] = BagOf(h, n)[e] - (IF e = h[i] THEN 1 ELSE 0)
    OBVIOUS
  <2>1. QED
    BY <1>5, <1>6

(* Nothing is in the bag but what the array holds. *)
LEMMA BagHolds ==
  ASSUME NEW h, NEW n \in Nat, NEW e \in Elems
  PROVE  BagOf(h, n)[e] > 0 <=> \E i \in 0 .. n - 1 : h[i] = e
<1>1. IsFiniteSet(Places(h, n, e)) /\ Cardinality(Places(h, n, e)) \in Nat
  BY PlacesFinite
<1>2. Cardinality(Places(h, n, e)) = 0 <=> Places(h, n, e) = {}
  BY <1>1, FS_EmptySet
<1>3. QED
  BY <1>1, <1>2 DEF BagOf, Places

(* Numbering the copies of each element counts the slots: one more of each *)
(* slot's own element as the array grows by one.                           *)
CopiesOf(h, n) == {s \in Elems \X (1 .. Capacity) : s[2] <= BagOf(h, n)[s[1]]}

LEMMA CopiesGrow ==
  ASSUME NEW h \in [Slots -> Elems], NEW n \in Slots
  PROVE  \E c : c \notin CopiesOf(h, n) /\ CopiesOf(h, n + 1) = CopiesOf(h, n) \cup {c}
<1> DEFINE k == BagOf(h, n)[h[n]] + 1
           c == <<h[n], k>>
<1>1. n \in Nat /\ Capacity \in Nat /\ n + 1 \in 1 .. Capacity /\ h[n] \in Elems
  BY PQAssumption DEF Slots
<1>2. \A e \in Elems : BagOf(h, n)[e] \in 0 .. n
  BY <1>1, BagType
<1>3. k \in 1 .. Capacity
  BY <1>1, <1>2
<1>4. \A e \in Elems : BagOf(h, n + 1)[e] = BagOf(h, n)[e] + (IF e = h[n] THEN 1 ELSE 0)
  BY <1>1, BagAdd
<1>5. BagOf(h, n)[h[n]] = k - 1
  BY <1>1, <1>2
<1> HIDE DEF k
<1>6. c \notin CopiesOf(h, n)
  BY <1>1, <1>3, <1>5 DEF CopiesOf
<1>7. ASSUME NEW e \in Elems, NEW z \in 1 .. Capacity
      PROVE  z <= BagOf(h, n + 1)[e] <=> z <= BagOf(h, n)[e] \/ (e = h[n] /\ z = k)
  BY <1>1, <1>2, <1>3, <1>4, <1>5
<1>8. ASSUME NEW e \in Elems, NEW z \in 1 .. Capacity
      PROVE  <<e, z>> \in CopiesOf(h, n + 1) <=> <<e, z>> \in CopiesOf(h, n) \cup {c}
  BY <1>7 DEF CopiesOf
<1>9. /\ CopiesOf(h, n + 1) \subseteq Elems \X (1 .. Capacity)
      /\ CopiesOf(h, n) \cup {c} \subseteq Elems \X (1 .. Capacity)
  BY <1>1, <1>3 DEF CopiesOf
<1>10. CopiesOf(h, n + 1) = CopiesOf(h, n) \cup {c}
  BY <1>8, <1>9
<1>11. QED
  BY <1>6, <1>10

(* The copies in the bag are as many as the queue is long. *)
LEMMA CopiesCount ==
  ASSUME NEW h \in [Slots -> Elems], NEW n \in 0 .. Capacity
  PROVE  IsFiniteSet(CopiesOf(h, n)) /\ Cardinality(CopiesOf(h, n)) = n
<1> DEFINE Good(m) == IsFiniteSet(CopiesOf(h, m)) /\ Cardinality(CopiesOf(h, m)) = m
           Bad == {m \in 0 .. Capacity : ~Good(m)}
<1>1. Capacity \in Nat
  BY PQAssumption
<1>2. Good(0)
  <2>1. \A e \in Elems : BagOf(h, 0)[e] = 0
    <3>1. \A e \in Elems : Places(h, 0, e) = {}
      BY DEF Places
    <3>2. QED
      BY <3>1, FS_EmptySet DEF BagOf
  <2>2. CopiesOf(h, 0) = {}
    BY <1>1, <2>1 DEF CopiesOf
  <2>3. QED
    BY <2>2, FS_EmptySet
<1>3. ASSUME NEW m \in Slots, Good(m) PROVE Good(m + 1)
  <2>1. PICK c : c \notin CopiesOf(h, m) /\ CopiesOf(h, m + 1) = CopiesOf(h, m) \cup {c}
    BY CopiesGrow
  <2>2. QED
    BY <1>3, <2>1, FS_AddElement
<1> HIDE DEF Good
<1>4. ASSUME Bad # {} PROVE FALSE
  <2>1. Bad \in SUBSET Nat
    BY <1>1
  <2>2. PICK m \in Bad : \A k \in Bad : m <= k
    BY <1>4, <2>1, LeastNumber
  <2>3. m \in 0 .. Capacity /\ ~Good(m)
    OBVIOUS
  <2>4. m # 0
    BY <1>2, <2>3
  <2>5. m - 1 \in Slots /\ m - 1 \in 0 .. Capacity /\ (m - 1) + 1 = m /\ ~(m <= m - 1)
    BY <1>1, <2>3, <2>4 DEF Slots
  <2>6. Good(m - 1)
    BY <2>2, <2>5
  <2>7. Good((m - 1) + 1)
    BY <1>3, <2>5, <2>6
  <2>8. QED
    BY <2>3, <2>5, <2>7
<1>5. Good(n)
  BY <1>4
<1>6. QED
  BY <1>5 DEF Good

-----------------------------------------------------------------------------
(* The bag of the heap, as the abstract queue speaks of it. *)
LEMMA QueueCardinality == \A S : ABag!Cardinality(S) = Cardinality(S)
BY DEF ABag!Cardinality, Cardinality

LEMMA QueueViews ==
  ASSUME QueueIInv
  PROVE  /\ heap \in [Slots -> Elems] /\ len \in 0 .. Capacity /\ Capacity \in Nat
         /\ 0 .. len - 1 \subseteq Slots
         /\ bag \in [Elems -> 0 .. Capacity]
         /\ \A e \in Elems : e \in ABag!Held <=> \E i \in 0 .. len - 1 : heap[i] = e
         /\ ABag!Full <=> len = Capacity
<1>1. heap \in [Slots -> Elems] /\ len \in 0 .. Capacity /\ len \in Nat /\ Capacity \in Nat
  BY PQAssumption DEF QueueIInv, PQTypeOK
<1>2. 0 .. len - 1 \subseteq Slots
  BY <1>1 DEF Slots
<1>3. bag \in [Elems -> 0 .. len] /\ 0 .. len \subseteq 0 .. Capacity
  BY <1>1, BagIs, BagType
<1>4. bag \in [Elems -> 0 .. Capacity]
  BY <1>3
<1>5. ASSUME NEW e \in Elems
      PROVE  e \in ABag!Held <=> \E i \in 0 .. len - 1 : heap[i] = e
  BY <1>1, BagIs, BagHolds DEF ABag!Held
<1>6. ABag!Copies = CopiesOf(heap, len)
  BY BagIs DEF ABag!Copies, CopiesOf
<1>7. ABag!Cardinality(ABag!Copies) = len
  BY <1>1, <1>6, CopiesCount, QueueCardinality
<1>8. ABag!Full <=> len = Capacity
  BY <1>7 DEF ABag!Full
<1>9. QED
  BY <1>1, <1>2, <1>4, <1>5, <1>8

LEMMA InitServes == PQInit => ABag!Init
<1> SUFFICES ASSUME PQInit PROVE ABag!Init
  OBVIOUS
<1>1. len = 0 /\ got = "ok"
  BY DEF PQInit
<1>2. \A e \in Elems : Places(heap, 0, e) = {}
  BY DEF Places
<1>3. bag = [e \in Elems |-> 0]
  BY <1>1, <1>2, BagIs, FS_EmptySet DEF BagOf
<1>4. QED
  BY <1>1, <1>3 DEF ABag!Init

LEMMA FillServes ==
  ASSUME QueueIInv, NEW i \in Slots, NEW e \in Elems, Fill(i, e)
  PROVE  UNCHANGED <<bag, got>>
<1>1. /\ i >= len /\ heap' = [heap EXCEPT ![i] = e] /\ len' = len /\ got' = got
  BY DEF Fill
<1>2. len \in Nat /\ \A j \in 0 .. len - 1 : j # i /\ j \in Slots
  BY <1>1, QueueViews DEF Slots
<1>3. \A j \in 0 .. len - 1 : heap'[j] = heap[j]
  BY <1>1, <1>2, QueueViews
<1>4. BagOf(heap', len) = BagOf(heap, len)
  BY <1>2, <1>3, BagSame
<1>5. QED
  BY <1>1, <1>4, BagIs

LEMMA PushServes ==
  ASSUME QueueIInv, NEW e \in Elems, Push(e)
  PROVE  ABag!Push(e)
<1>1. CASE len >= Capacity /\ Answers("ERR_CAPACITY_EXCEEDED")
  <2>1. ABag!Full
    BY <1>1, QueueViews
  <2>2. bag' = bag /\ got' = "ERR_CAPACITY_EXCEEDED"
    BY <1>1, BagIs DEF Answers
  <2>3. QED
    BY <2>1, <2>2 DEF ABag!Push, ABag!Keeps
<1>2. CASE len < Capacity /\ heap' = [heap EXCEPT ![len] = e] /\ len' = len + 1 /\ got' = "ok"
  <2>1. ~ABag!Full
    BY <1>2, QueueViews
  <2>2. len \in Nat /\ len \in Slots /\ \A i \in 0 .. len - 1 : i # len
    BY <1>2, QueueViews DEF Slots
  <2>3. heap'[len] = e /\ \A i \in 0 .. len - 1 : heap'[i] = heap[i]
    BY <1>2, <2>2, QueueViews
  <2>4. \A f \in Elems :
          BagOf(heap', len + 1)[f] = BagOf(heap, len)[f] + (IF f = heap'[len] THEN 1 ELSE 0)
    BY <2>2, <2>3, BagAdd
  <2>5. \A f \in Elems : bag'[f] = bag[f] + (IF f = e THEN 1 ELSE 0)
    BY <1>2, <2>3, <2>4, BagIs
  <2>6. bag' = [bag EXCEPT ![e] = @ + 1]
    <3>1. \A f \in Elems : bag[f] \in Int
      BY QueueViews
    <3>2. \A f \in Elems : bag'[f] = [bag EXCEPT ![e] = @ + 1][f]
      BY <2>5, <3>1, QueueViews
    <3>3. bag' = [f \in Elems |-> bag'[f]]
      BY BagIs DEF BagOf
    <3>4. QED
      BY <3>2, <3>3, QueueViews
  <2>7. QED
    BY <1>2, <2>1, <2>6 DEF ABag!Push
<1>3. QED
  BY <1>1, <1>2 DEF Push

(* pq_remove_at's effect, and pq_pop's: one element less. *)
LEMMA DropServes ==
  ASSUME QueueIInv, NEW i \in Slots, i < len, len' = len - 1,
         i < len - 1 => heap'[i] = heap[len - 1],
         \A k \in 0 .. len - 1 : k # i => heap'[k] = heap[k]
  PROVE  heap[i] \in Elems /\ heap[i] \in ABag!Held /\ bag' = ABag!Without(heap[i])
<1>1. len \in Nat /\ len <= Capacity /\ i \in 0 .. len - 1 /\ heap[i] \in Elems
  BY QueueViews DEF Slots
<1>2. heap[i] \in ABag!Held
  BY <1>1, QueueViews
<1>3. \A e \in Elems :
        BagOf(heap', len - 1)[e] = BagOf(heap, len)[e] - (IF e = heap[i] THEN 1 ELSE 0)
  <2>1. heap \in [Slots -> Elems]
    BY QueueViews
  <2>2. ASSUME NEW g, i < len - 1 => g[i] = heap[len - 1],
               \A k \in 0 .. len - 1 : k # i => g[k] = heap[k]
        PROVE  \A e \in Elems :
                 BagOf(g, len - 1)[e] = BagOf(heap, len)[e] - (IF e = heap[i] THEN 1 ELSE 0)
    BY <1>1, <2>1, <2>2, BagDrop
  <2>3. QED
    BY <2>2
<1>4. \A e \in Elems : bag'[e] = bag[e] - (IF e = heap[i] THEN 1 ELSE 0)
  BY <1>3, BagIs
<1>5. bag' = ABag!Without(heap[i])
  <2>1. \A e \in Elems : bag[e] \in Int
    BY QueueViews
  <2>2. \A e \in Elems : bag'[e] = [bag EXCEPT ![heap[i]] = @ - 1][e]
    BY <1>1, <1>4, <2>1, QueueViews
  <2>3. bag' = [e \in Elems |-> bag'[e]]
    BY BagIs DEF BagOf
  <2>4. QED
    BY <2>2, <2>3, QueueViews DEF ABag!Without
<1>6. QED
  BY <1>1, <1>2, <1>5

(* Between calls the root is one of the bag's least elements. *)
LEMMA RootServes ==
  ASSUME QueueIInv, step = "idle", len > 0
  PROVE  heap[0] \in ABag!Least
<1>1. 0 \in 0 .. len - 1 /\ heap[0] \in Elems /\ \A i \in 0 .. len - 1 : i \in Slots /\ i < len
  BY QueueViews
<1>2. heap[0] \in ABag!Held
  BY <1>1, QueueViews
<1>3. ASSUME NEW e \in ABag!Held PROVE Rank[heap[0]] <= Rank[e]
  <2>1. e \in Elems
    BY DEF ABag!Held
  <2>2. PICK i \in 0 .. len - 1 : heap[i] = e
    BY <2>1, QueueViews
  <2>3. LessEq(heap, 0, i)
    BY <1>1, OrderedRoot DEF RootIsLeast
  <2>4. QED
    BY <2>2, <2>3 DEF LessEq
<1>4. QED
  BY <1>1, <1>2, <1>3 DEF ABag!Least

LEMMA NoneHeld ==
  ASSUME QueueIInv, len = 0
  PROVE  ABag!Held = {}
<1>1. \A e \in Elems : e \notin ABag!Held
  BY QueueViews
<1>2. QED
  BY <1>1 DEF ABag!Held

LEMMA AnswersServe ==
  ASSUME NEW answer, Answers(answer)
  PROVE  ABag!Keeps(answer)
BY BagIs DEF Answers, ABag!Keeps

LEMMA PopServes == QueueIInv /\ Pop => ABag!Pop
<1> SUFFICES ASSUME QueueIInv, Pop PROVE ABag!Pop
  OBVIOUS
<1>1. step = "idle"
  BY DEF Pop
<1>2. CASE len = 0 /\ Answers("none")
  BY <1>2, NoneHeld, AnswersServe DEF ABag!Pop
<1>3. CASE len > 0 /\ got' = heap[0] /\ len' = len - 1 /\ heap' = [heap EXCEPT ![0] = heap[len - 1]]
  <2>1. heap[0] \in ABag!Least
    BY <1>1, <1>3, RootServes
  <2>2. /\ 0 \in Slots /\ heap'[0] = heap[len - 1]
        /\ \A k \in 0 .. len - 1 : k # 0 => heap'[k] = heap[k]
    BY <1>3, QueueViews
  <2>3. bag' = ABag!Without(heap[0])
    BY <1>3, <2>2, DropServes
  <2>4. QED
    BY <1>3, <2>1, <2>3 DEF ABag!Pop
<1>4. QED
  BY <1>2, <1>3 DEF Pop

LEMMA PeekServes == QueueIInv /\ Peek => ABag!Peek
<1> SUFFICES ASSUME QueueIInv, Peek PROVE ABag!Peek
  OBVIOUS
<1>1. step = "idle" /\ len \in Nat
  BY QueueViews DEF Peek
<1>2. CASE len = 0
  BY <1>2, NoneHeld, AnswersServe DEF Peek, ABag!Peek
<1>3. CASE len > 0
  BY <1>1, <1>3, RootServes, AnswersServe DEF Peek, ABag!Peek
<1>4. QED
  BY <1>1, <1>2, <1>3

LEMMA RemoveAtServes ==
  ASSUME QueueIInv, NEW i \in Slots, RemoveAt(i)
  PROVE  ABag!RemoveAt
<1>1. CASE i >= len /\ Answers("ERR_OUT_OF_RANGE")
  BY <1>1, AnswersServe DEF ABag!RemoveAt
<1>2. CASE /\ i < len /\ len' = len - 1 /\ got' = "ok"
           /\ IF i = len - 1 THEN UNCHANGED heap ELSE heap' = [heap EXCEPT ![i] = heap[len - 1]]
  <2>1. i < len - 1 => heap'[i] = heap[len - 1]
    BY <1>2, QueueViews DEF Slots
  <2>2. \A k \in 0 .. len - 1 : k # i => heap'[k] = heap[k]
    BY <1>2, QueueViews
  <2>3. heap[i] \in ABag!Held /\ bag' = ABag!Without(heap[i])
    BY <1>2, <2>1, <2>2, DropServes
  <2>4. QED
    BY <1>2, <2>3 DEF ABag!RemoveAt
<1>3. QED
  BY <1>1, <1>2 DEF RemoveAt

LEMMA HeapifyServes ==
  ASSUME QueueIInv, QueueIInv', NEW n \in 0 .. Capacity + 1, Heapify(n)
  PROVE  ABag!Heapify
<1>1. (bag \in [Elems -> 0 .. Capacity])'
  BY QueueViews, PTL
<1>2. QED
  BY <1>1 DEF Heapify, ABag!Heapify

(* pq_swap_ inside the queue. *)
LEMMA SwapServes ==
  ASSUME QueueIInv, NEW i \in 0 .. len - 1, NEW j \in 0 .. len - 1, heap' = Swapped(i, j), len' = len
  PROVE  bag' = bag
<1>1. i \in Slots /\ j \in Slots /\ len \in Nat
  BY QueueViews
<1>2. /\ heap'[i] = heap[j] /\ heap'[j] = heap[i]
      /\ \A k \in 0 .. len - 1 : k \notin {i, j} => heap'[k] = heap[k]
  BY <1>1, QueueViews DEF Swapped
<1>3. BagOf(heap', len) = BagOf(heap, len)
  BY <1>1, <1>2, BagSwapped
<1>4. QED
  BY <1>3, BagIs

LEMMA SiftUpServes == QueueIInv /\ SiftUp => UNCHANGED <<bag, got>>
<1> SUFFICES ASSUME QueueIInv, SiftUp PROVE UNCHANGED <<bag, got>>
  OBVIOUS
<1>1. /\ idx \in Nat /\ idx > 0 /\ idx < len /\ heap' = Swapped(Parent(idx), idx)
      /\ len' = len /\ got' = got
  BY DEF SiftUp, OutOfOrder, QueueIInv, UpInv, PQTypeOK, Slots
<1>2. Parent(idx) \in 0 .. len - 1 /\ idx \in 0 .. len - 1
  BY <1>1, ParentFacts, QueueViews
<1>3. QED
  BY <1>1, <1>2, SwapServes

LEMMA SiftDownServes == QueueIInv /\ SiftDown => UNCHANGED <<bag, got>>
<1> SUFFICES ASSUME QueueIInv, SiftDown PROVE UNCHANGED <<bag, got>>
  OBVIOUS
<1>1. /\ idx \in Nat /\ Smallest(idx) # idx /\ heap' = Swapped(idx, Smallest(idx))
      /\ len' = len /\ got' = got
  BY DEF SiftDown, QueueIInv, PQTypeOK, Slots
<1>2. Smallest(idx) \in Children(idx) /\ Smallest(idx) < len
  BY <1>1, SmallestFacts DEF QueueIInv
<1>3. Smallest(idx) \in 0 .. len - 1 /\ idx \in 0 .. len - 1
  BY <1>1, <1>2, ChildFacts, QueueViews
<1>4. QED
  BY <1>1, <1>3, SwapServes

LEMMA SiftEndsServe == SiftUpEnds \/ SiftDownEnds => UNCHANGED <<bag, got>>
BY BagIs DEF SiftUpEnds, SiftDownEnds

LEMMA StepServes ==
  ASSUME QueueIInv, QueueIInv', [PQNext]_pqvars
  PROVE  [ABag!Next]_<<bag, got>>
<1>1. ASSUME NEW e \in Elems, Push(e) PROVE ABag!Next
  BY <1>1, PushServes DEF ABag!Next
<1>2. ASSUME NEW i \in Slots, NEW e \in Elems, Fill(i, e) PROVE UNCHANGED <<bag, got>>
  BY <1>2, FillServes
<1>3. ASSUME NEW i \in Slots, RemoveAt(i) PROVE ABag!Next
  BY <1>3, RemoveAtServes DEF ABag!Next
<1>4. ASSUME NEW n \in 0 .. Capacity + 1, Heapify(n) PROVE ABag!Next
  BY <1>4, HeapifyServes DEF ABag!Next
<1>5. CASE Pop \/ Peek
  BY <1>5, PopServes, PeekServes DEF ABag!Next
<1>6. CASE UNCHANGED pqvars
  BY <1>6, BagIs DEF pqvars
<1>7. QED
  BY <1>1, <1>2, <1>3, <1>4, <1>5, <1>6, SiftUpServes, SiftDownServes, SiftEndsServe DEF PQNext

(* The heap serves a bag that gives back a least element first: no sift     *)
(* loses, doubles or changes one, a push is refused exactly when as many    *)
(* are held as there are slots, and what pop and peek answer is least.      *)
THEOREM QueueServes == PQSpec => Serves
<1>1. PQInit => ABag!Init
  BY InitServes
<1>2. QueueIInv /\ QueueIInv' /\ [PQNext]_pqvars => [ABag!Next]_<<bag, got>>
  BY StepServes
<1>3. QED
  BY <1>1, <1>2, SpecQueueIInv, PTL DEF PQSpec, Serves, ABag!Spec

(***************************************************************************)
(* Interning gives one pointer to a text, for a pool and an arena of any   *)
(* size, any texts and any hash.                                           *)
(*                                                                         *)
(* What makes it so is the shape of the probe runs: a text that was handed *)
(* out lies behind slots that are all taken by other texts, so a later     *)
(* search cannot stop before it.                                           *)
(***************************************************************************)

(* t is n slots along its probe run, with the pointer it was given. *)
Lies(t, n) ==
  /\ entries[Probe(t, n)].text = t /\ entries[Probe(t, n)].ptr = handed[t]
  /\ Passed(t, n)

ProbeRuns == \A t \in Texts : handed[t] # Null => \E n \in PoolSlots : Lies(t, n)

(* Each pointer was new when it was given, and each entry was handed out. *)
PointersApart ==
  /\ \A t \in Texts : handed[t] <= fill
  /\ \A t, u \in Texts : handed[t] # Null /\ handed[t] = handed[u] => t = u
  /\ \A i \in PoolSlots : ~Vacant(i) => handed[entries[i].text] = entries[i].ptr

ViewAgrees == handed[view.text] # Null => view.ptr = handed[view.text]

InternIInv == InternTypeOK /\ ProbeRuns /\ PointersApart /\ ViewAgrees

-----------------------------------------------------------------------------
LEMMA ProbeInPool ==
  ASSUME InternTypeOK, NEW t \in Texts, NEW n \in Nat
  PROVE  Probe(t, n) \in PoolSlots
<1>1. hash[t] \in Nat /\ PoolSize \in Nat \ {0}
  BY InternAssumption DEF InternTypeOK, PoolSlots
<1> DEFINE h == hash[t]
<1> HIDE DEF h
<1>2. \A a \in Nat : \A c \in Nat \ {0} : a % c \in 0 .. c - 1
  OBVIOUS
<1>3. h + n \in Nat
  BY <1>1 DEF h
<1>4. (h + n) % PoolSize \in 0 .. PoolSize - 1
  BY <1>1, <1>2, <1>3
<1>5. QED
  BY <1>4 DEF Probe, PoolSlots, h

(* An entry is taken as a whole. *)
LEMMA Taken ==
  ASSUME InternTypeOK, NEW i \in PoolSlots, ~Vacant(i)
  PROVE  entries[i].text \in Texts /\ entries[i].ptr \in Nat /\ entries[i].ptr # Null
BY DEF InternTypeOK, Vacant

(* A search that stopped at a vacant slot, or went all round, was for a    *)
(* text that had not been handed out.                                      *)
LEMMA NotHanded ==
  ASSUME InternIInv, NEW t \in Texts, NEW n \in Nat, Passed(t, n),
         n = PoolSize \/ (n \in PoolSlots /\ Vacant(Probe(t, n)))
  PROVE  handed[t] = Null
<1> SUFFICES ASSUME handed[t] # Null PROVE FALSE
  OBVIOUS
<1>1. PICK m \in PoolSlots : Lies(t, m)
  BY DEF InternIInv, ProbeRuns
<1>2. m \in Nat /\ m < PoolSize
  BY <1>1, InternAssumption DEF PoolSlots
<1>3. CASE m < n
  <2>1. m \in 0 .. n - 1
    BY <1>2, <1>3
  <2>2. QED
    BY <1>1, <2>1 DEF Passed, Lies
<1>4. CASE m = n
  BY <1>1, <1>2, <1>4 DEF Lies, Vacant
<1>5. CASE m > n
  <2>1. n \in 0 .. m - 1 /\ n \in PoolSlots /\ n # PoolSize
    BY <1>2, <1>5 DEF PoolSlots
  <2>2. QED
    BY <1>1, <2>1 DEF Passed, Lies
<1>6. QED
  BY <1>2, <1>3, <1>4, <1>5

LEMMA InitInternIInv == InternInit => InternIInv
<1> SUFFICES ASSUME InternInit PROVE InternIInv
  OBVIOUS
<1>1. InternTypeOK
  BY InternAssumption DEF InternInit, InternTypeOK, Vacant, Null
<1>2. ProbeRuns
  BY DEF InternInit, ProbeRuns
<1>3. PointersApart
  BY DEF InternInit, PointersApart, Vacant, Null
<1>4. ViewAgrees
  BY InternAssumption DEF InternInit, ViewAgrees
<1>5. QED
  BY <1>1, <1>2, <1>3, <1>4 DEF InternIInv

-----------------------------------------------------------------------------
(* A call that puts nothing into the table, and answers t with p. *)
LEMMA AnswersInternIInv ==
  ASSUME InternIInv, ready' \in BOOLEAN, NEW t \in Texts, NEW p,
         handed[t] = p, Views(t, p), UNCHANGED <<entries, fill>>
  PROVE  InternIInv'
<1>1. handed' = handed
  BY DEF InternIInv, InternTypeOK, Views
<1>2. InternTypeOK'
  BY <1>1 DEF InternIInv, InternTypeOK, Views, Vacant
<1>3. ProbeRuns'
  BY <1>1 DEF InternIInv, ProbeRuns, Lies, Passed, Vacant, Probe, Views
<1>4. PointersApart'
  BY <1>1 DEF InternIInv, PointersApart, Vacant
<1>5. ViewAgrees'
  BY <1>1 DEF ViewAgrees, Views
<1>6. QED
  BY <1>2, <1>3, <1>4, <1>5 DEF InternIInv

LEMMA FoundIInv ==
  ASSUME InternIInv, ready' \in BOOLEAN, NEW t \in Texts, Found(t)
  PROVE  InternIInv'
<1>1. PICK n \in PoolSlots : /\ entries[Probe(t, n)].text = t
                             /\ Views(t, entries[Probe(t, n)].ptr)
                             /\ UNCHANGED <<entries, fill>>
  BY DEF Found
<1>2. Probe(t, n) \in PoolSlots
  BY ProbeInPool DEF PoolSlots, InternIInv
<1>3. handed[t] = entries[Probe(t, n)].ptr
  BY <1>1, <1>2, InternAssumption DEF InternIInv, InternTypeOK, PointersApart
<1>4. QED
  BY <1>1, <1>3, AnswersInternIInv

LEMMA FullIInv ==
  ASSUME InternIInv, ready' \in BOOLEAN, NEW t \in Texts, Full(t)
  PROVE  InternIInv'
BY NotHanded, AnswersInternIInv, InternAssumption DEF Full, Refused

(* Putting t into the vacant slot where its search stopped. *)
LEMMA PutIInv ==
  ASSUME InternIInv, ready' \in BOOLEAN, NEW t \in Texts, NEW n \in PoolSlots,
         Passed(t, n), Vacant(Probe(t, n)), handed[t] = Null,
         entries' = [entries EXCEPT ![Probe(t, n)] = [text |-> t, ptr |-> fill + 1]],
         fill' = fill + SizeOf[t] + 1, Views(t, fill + 1)
  PROVE  InternIInv'
<1> DEFINE s == Probe(t, n)
           p == fill + 1
<1>1. /\ s \in PoolSlots /\ fill \in Nat /\ p \in Nat /\ p # Null /\ p > fill
      /\ fill' \in Nat /\ fill' >= p
  <2>1. s \in PoolSlots
    BY ProbeInPool DEF InternIInv, PoolSlots
  <2>2. fill \in Nat /\ SizeOf[t] \in Nat
    BY InternAssumption DEF InternIInv, InternTypeOK
  <2>3. QED
    BY <2>1, <2>2 DEF Null
<1>2. handed \in [Texts -> Nat] /\ handed' = [handed EXCEPT ![t] = p]
  BY DEF Views, InternIInv, InternTypeOK
<1>3. /\ entries \in [PoolSlots -> [text : Texts \cup {NoText}, ptr : Nat]]
      /\ entries' = [entries EXCEPT ![s] = [text |-> t, ptr |-> p]]
      /\ Vacant(s)
  BY DEF InternIInv, InternTypeOK
<1>4. hash' = hash /\ view' = [text |-> t, ptr |-> p]
  BY DEF Views
<1> HIDE DEF s, p
<1>5. /\ entries'[s] = [text |-> t, ptr |-> p]
      /\ \A i \in PoolSlots : i # s => entries'[i] = entries[i]
      /\ entries' \in [PoolSlots -> [text : Texts \cup {NoText}, ptr : Nat]]
  <2> DEFINE e == [text |-> t, ptr |-> p]
  <2>1. e \in [text : Texts \cup {NoText}, ptr : Nat]
    BY <1>1
  <2> HIDE DEF e
  <2>2. entries' = [entries EXCEPT ![s] = e]
    BY <1>3 DEF e
  <2>3. /\ entries'[s] = e /\ \A i \in PoolSlots : i # s => entries'[i] = entries[i]
        /\ entries' \in [PoolSlots -> [text : Texts \cup {NoText}, ptr : Nat]]
    BY <1>1, <1>3, <2>1, <2>2
  <2>4. QED
    BY <2>3 DEF e
<1>6. /\ handed'[t] = p /\ \A u \in Texts : u # t => handed'[u] = handed[u]
      /\ handed' \in [Texts -> Nat]
  BY <1>1, <1>2
<1>7. InternTypeOK'
  <2>1. ASSUME NEW i \in PoolSlots PROVE (Vacant(i) = (entries[i].text = NoText))'
    <3>1. CASE i = s
      BY <1>1, <1>5, <3>1, InternAssumption DEF Vacant
    <3>2. CASE i # s
      BY <1>5, <3>2 DEF Vacant, InternIInv, InternTypeOK
    <3>3. QED
      BY <3>1, <3>2
  <2>2. view' \in [text : Texts, ptr : Nat] /\ hash' \in [Texts -> PoolSlots]
    BY <1>1, <1>4 DEF InternIInv, InternTypeOK
  <2>3. QED
    BY <1>1, <1>5, <1>6, <2>1, <2>2 DEF InternTypeOK
<1>8. ProbeRuns'
  <2>1. ASSUME NEW u \in Texts, NEW k \in Nat PROVE Probe(u, k)' = Probe(u, k)
    BY <1>4 DEF Probe
  <2>2. ASSUME NEW u \in Texts, handed'[u] # Null PROVE \E m \in PoolSlots : Lies(u, m)'
    <3>1. CASE u = t
      <4>1. ASSUME NEW k \in 0 .. n - 1
            PROVE  (~Vacant(Probe(t, k)) /\ entries[Probe(t, k)].text # t)'
        <5>1. ~Vacant(Probe(t, k)) /\ entries[Probe(t, k)].text # t
          BY DEF Passed
        <5>2. Probe(t, k) \in PoolSlots
          BY ProbeInPool DEF InternIInv
        <5>3. Probe(t, k) # s
          BY <1>3, <5>1
        <5>4. Probe(t, k)' = Probe(t, k)
          BY <2>1
        <5>5. QED
          BY <1>5, <5>1, <5>2, <5>3, <5>4 DEF Vacant
      <4>2. Passed(t, n)'
        BY <4>1 DEF Passed
      <4>3. Probe(t, n)' = s
        BY <2>1 DEF s, PoolSlots
      <4>4. Lies(t, n)'
        BY <1>5, <1>6, <4>2, <4>3 DEF Lies
      <4>5. QED
        BY <3>1, <4>4
    <3>2. CASE u # t
      <4>1. PICK m \in PoolSlots : Lies(u, m)
        BY <1>6, <2>2, <3>2 DEF InternIInv, ProbeRuns
      <4>2. m \in Nat /\ Probe(u, m) \in PoolSlots /\ ~Vacant(Probe(u, m))
        BY <1>6, <2>2, <3>2, <4>1, ProbeInPool DEF InternIInv, PoolSlots, Lies, Vacant
      <4>3. ASSUME NEW k \in 0 .. m - 1
            PROVE  (~Vacant(Probe(u, k)) /\ entries[Probe(u, k)].text # u)'
        <5>1. ~Vacant(Probe(u, k)) /\ entries[Probe(u, k)].text # u
          BY <4>1 DEF Lies, Passed
        <5>2. Probe(u, k) \in PoolSlots
          BY ProbeInPool DEF InternIInv
        <5>3. Probe(u, k) # s
          BY <1>3, <5>1
        <5>4. Probe(u, k)' = Probe(u, k)
          BY <2>1
        <5>5. QED
          BY <1>5, <5>1, <5>2, <5>3, <5>4 DEF Vacant
      <4>4. Passed(u, m)'
        BY <4>3 DEF Passed
      <4>5. Probe(u, m) # s /\ Probe(u, m)' = Probe(u, m)
        BY <1>3, <2>1, <4>2
      <4>6. entries'[Probe(u, m)'] = entries[Probe(u, m)]
        BY <1>5, <4>2, <4>5
      <4>7. Lies(u, m)'
        BY <1>6, <3>2, <4>1, <4>4, <4>6 DEF Lies
      <4>8. QED
        BY <4>7
    <3>3. QED
      BY <3>1, <3>2
  <2>3. QED
    BY <2>2 DEF ProbeRuns
<1>9. PointersApart'
  <2>1. \A u \in Texts : handed[u] <= fill /\ handed[u] \in Nat
    BY <1>2 DEF InternIInv, PointersApart
  <2>2. \A u \in Texts : handed'[u] <= fill'
    BY <1>1, <1>6, <2>1
  <2>3. ASSUME NEW u \in Texts, NEW w \in Texts, handed'[u] # Null, handed'[u] = handed'[w]
        PROVE  u = w
    <3>1. CASE u # t /\ w # t
      BY <1>6, <2>3, <3>1 DEF InternIInv, PointersApart
    <3>2. CASE u = t /\ w # t
      BY <1>1, <1>6, <2>1, <2>3, <3>2
    <3>3. CASE u # t /\ w = t
      BY <1>1, <1>6, <2>1, <2>3, <3>3
    <3>4. QED
      BY <3>1, <3>2, <3>3
  <2>4. ASSUME NEW i \in PoolSlots, ~Vacant(i)'
        PROVE  handed'[entries'[i].text] = entries'[i].ptr
    <3>1. CASE i = s
      BY <1>5, <1>6, <3>1
    <3>2. CASE i # s
      <4>1. entries'[i] = entries[i] /\ ~Vacant(i)
        BY <1>5, <2>4, <3>2 DEF Vacant
      <4>2. entries[i].text \in Texts /\ entries[i].ptr # Null
        BY <4>1, Taken DEF InternIInv
      <4>3. handed[entries[i].text] = entries[i].ptr
        BY <4>1 DEF InternIInv, PointersApart
      <4>4. entries[i].text # t
        BY <4>2, <4>3
      <4>5. QED
        BY <1>6, <4>1, <4>2, <4>3, <4>4
    <3>3. QED
      BY <3>1, <3>2
  <2>5. QED
    BY <2>2, <2>3, <2>4 DEF PointersApart
<1>10. ViewAgrees'
  BY <1>4, <1>6 DEF ViewAgrees
<1>11. QED
  BY <1>7, <1>8, <1>9, <1>10 DEF InternIInv

LEMMA AddedIInv ==
  ASSUME InternIInv, ready' \in BOOLEAN, NEW t \in Texts, Added(t)
  PROVE  InternIInv'
<1>1. PICK n \in PoolSlots :
        /\ Passed(t, n) /\ Vacant(Probe(t, n))
        /\ IF fill + SizeOf[t] + 1 > ArenaRoom THEN Refused(t)
           ELSE /\ entries' = [entries EXCEPT ![Probe(t, n)] = [text |-> t, ptr |-> fill + 1]]
                /\ fill' = fill + SizeOf[t] + 1
                /\ Views(t, fill + 1)
  BY DEF Added
<1>2. handed[t] = Null
  BY <1>1, NotHanded DEF PoolSlots
<1>3. CASE fill + SizeOf[t] + 1 > ArenaRoom
  BY <1>1, <1>2, <1>3, AnswersInternIInv DEF Refused
<1>4. CASE ~(fill + SizeOf[t] + 1 > ArenaRoom)
  BY <1>1, <1>2, <1>4, PutIInv
<1>5. QED
  BY <1>3, <1>4

LEMMA NextInternIInv == InternIInv /\ [InternNext]_internVars => InternIInv'
<1> SUFFICES ASSUME InternIInv, [InternNext]_internVars PROVE InternIInv'
  OBVIOUS
<1>1. ASSUME NEW t \in Texts, InternString(t), ready' \in BOOLEAN PROVE InternIInv'
  BY <1>1, FoundIInv, AddedIInv, FullIInv DEF InternString
<1>2. CASE PoolInit
  BY <1>1, <1>2, InternAssumption DEF PoolInit
<1>3. CASE \E t \in Texts : ready /\ InternString(t) /\ UNCHANGED ready
  BY <1>1, <1>3
<1>4. CASE UNCHANGED internVars
  <2>1. InternTypeOK'
    BY <1>4 DEF internVars, InternIInv, InternTypeOK, Vacant
  <2>2. ProbeRuns'
    BY <1>4 DEF internVars, InternIInv, ProbeRuns, Lies, Passed, Vacant, Probe
  <2>3. PointersApart' /\ ViewAgrees'
    BY <1>4 DEF internVars, InternIInv, PointersApart, ViewAgrees, Vacant
  <2>4. QED
    BY <2>1, <2>2, <2>3 DEF InternIInv
<1>5. QED
  BY <1>2, <1>3, <1>4 DEF InternNext

LEMMA SpecInternIInv == InternSpec => []InternIInv
<1>1. QED
  BY InitInternIInv, NextInternIInv, PTL DEF InternSpec

-----------------------------------------------------------------------------
(* An entry has a text exactly when it has a pointer, and views name texts.*)
THEOREM InternTypes == InternSpec => []InternTypeOK
<1>1. InternIInv => InternTypeOK
  BY DEF InternIInv
<1>2. QED
  BY <1>1, SpecInternIInv, PTL

(* intern_string answers a text that it answered before with the pointer   *)
(* of then, and two texts never with the same one, whichever hashes        *)
(* collide and however full the table and the arena are.                   *)
THEOREM InternsOnce == InternSpec => []InternedOnce
<1>1. InternIInv => InternedOnce
  BY DEF InternIInv, PointersApart, ViewAgrees, InternedOnce
<1>2. QED
  BY <1>1, SpecInternIInv, PTL

-----------------------------------------------------------------------------
(* Each part of the composition keeps to its own specification. *)
LEMMA PartsStart ==
  StructuresInit =>
    /\ Init /\ PQInit /\ InternInit
    /\ DV!Init /\ SV!Init /\ FV!Init /\ DS!Init /\ SB!Init /\ BS!Init /\ RG!Init /\ CK!Init
    /\ SS!Init
BY DEF StructuresInit

LEMMA PartsStep ==
  [StructuresNext]_allVars =>
    /\ [Next]_vars /\ [PQNext]_pqvars /\ [InternNext]_internVars
    /\ [DV!Next]_(DV!vars) /\ [SV!Next]_(SV!vars) /\ [FV!Next]_(FV!vars)
    /\ [DS!Next]_(DS!vars) /\ [SB!Next]_(SB!vars) /\ [BS!Next]_(BS!vars)
    /\ [RG!Next]_(RG!vars) /\ [CK!Next]_(CK!vars) /\ [SS!Next]_(SS!vars)
BY DEF StructuresNext, Only, allVars, dvVars, svVars, fvVars, dsVars, sbVars, bsVars, rgVars,
       ckVars, ssVars, DV!vars, SV!vars, FV!vars, DS!vars, SB!vars, BS!vars, RG!vars, CK!vars,
       SS!vars

LEMMA Times ==
  ASSUME NEW m \in Nat, NEW n \in Nat, m <= n, NEW k \in Nat
  PROVE  m * k <= n * k
<1>1. n - m \in Nat /\ (n - m) * k \in Nat
  OBVIOUS
<1>2. n * k = m * k + (n - m) * k
  BY <1>1
<1>3. QED
  BY <1>1, <1>2

-----------------------------------------------------------------------------
(* Checked: each call decides without an overflow whether its result has a *)
(* place in the type.                                                      *)
LEMMA DivBounds ==
  ASSUME NEW a \in Nat, NEW b \in Nat, b > 0
  PROVE  /\ a \div b \in Nat /\ b * (a \div b) <= a /\ a < b * (a \div b) + b
         /\ a % b \in 0 .. b - 1 /\ a % b = a - b * (a \div b)
<1>1. a \div b \in Nat /\ a % b \in 0 .. b - 1
  OBVIOUS
<1>2. a % b = a - b * (a \div b)
  OBVIOUS
<1>3. b * (a \div b) <= a /\ a < b * (a \div b) + b
  OBVIOUS
<1>4. QED
  BY <1>1, <1>2, <1>3

LEMMA TimesCommutes == \A x, y \in Int : x * y = y * x
OBVIOUS

LEMMA ProductInt == \A x, y \in Int : x * y \in Int
OBVIOUS

LEMMA ProductNat == \A x, y \in Nat : x * y \in Nat
OBVIOUS

LEMMA TimesOver ==
  ASSUME NEW x \in Nat, NEW y \in Nat, NEW b \in Nat, x <= y
  PROVE  b * x <= b * y
<1>1. x * b <= y * b
  BY Times
<1>2. QED
  BY <1>1, TimesCommutes

(* Comparing with a quotient decides on the product. *)
LEMMA DivGreater ==
  ASSUME NEW a \in Nat, NEW b \in Nat, b > 0, NEW m \in Nat
  PROVE  (a > m \div b) = (a * b > m)
<1> DEFINE q == m \div b
           bq == b * q
           ba == b * a
<1>1. q \in Nat /\ bq <= m /\ m < bq + b /\ bq \in Nat /\ ba \in Nat
  BY DivBounds
<1>2. ba = a * b
  BY TimesCommutes
<1>3. CASE a > q
  <2>1. q + 1 <= a /\ q + 1 \in Nat
    BY <1>1, <1>3
  <2>2. b * (q + 1) <= ba
    BY <2>1, TimesOver
  <2>3. b * (q + 1) = bq + b
    BY <1>1
  <2> HIDE DEF bq, ba
  <2>4. ba > m
    BY <1>1, <2>2, <2>3
  <2>5. QED
    BY <1>2, <1>3, <2>4
<1>4. CASE ~(a > q)
  <2>1. a <= q
    BY <1>1, <1>4
  <2>2. ba <= bq
    BY <1>1, <2>1, TimesOver
  <2> HIDE DEF bq, ba
  <2>3. ~(ba > m)
    BY <1>1, <2>2
  <2>4. QED
    BY <1>2, <1>4, <2>3
<1>5. QED
  BY <1>3, <1>4

LEMMA ModSmall == \A c \in Nat : \A x \in Nat : x < c => x % c = x
OBVIOUS

LEMMA ModRange == \A c \in Nat : \A x \in Int : c > 0 => x % c \in 0 .. c - 1
OBVIOUS

LEMMA MaxAssumed ==
  ASSUME StructuresAssumption
  PROVE  CheckedMax \in Nat /\ CheckedMax > 0
BY DEF StructuresAssumption, CK!CheckedAssumption

LEMMA UsizeIs ==
  ASSUME StructuresAssumption
  PROVE  /\ CK!CANON_USIZE_MAX \in Nat /\ CK!CANON_USIZE_MAX > 0 /\ CK!Usize = 0 .. CK!CANON_USIZE_MAX
         /\ \A x \in Int : CK!Wrapped(x) = x % (CK!CANON_USIZE_MAX + 1) /\ CK!Wrapped(x) \in CK!Usize
         /\ \A x \in Nat : x <= CK!CANON_USIZE_MAX => CK!Wrapped(x) = x
<1> DEFINE m == CK!CANON_USIZE_MAX
           c == m + 1
<1>1. m \in Nat /\ m > 0 /\ CK!Usize = 0 .. m
  BY MaxAssumed DEF CK!CANON_USIZE_MAX, CK!Usize
<1> HIDE DEF m
<1>2. c \in Nat /\ c > 0 /\ c - 1 = m
  BY <1>1
<1>3. \A x : CK!Wrapped(x) = x % c
  BY DEF CK!Wrapped, m
<1> HIDE DEF c
<1>4. \A x \in Int : CK!Wrapped(x) \in CK!Usize
  BY <1>1, <1>2, <1>3, ModRange
<1>5. ASSUME NEW x \in Nat, x <= m PROVE CK!Wrapped(x) = x
  <2>1. x < c
    BY <1>1, <1>2, <1>5
  <2>2. QED
    BY <1>2, <1>3, <2>1, ModSmall
<1>6. QED
  BY <1>1, <1>3, <1>4, <1>5 DEF m, c

LEMMA AddExact ==
  ASSUME StructuresAssumption, NEW a \in CK!Usize, NEW b \in CK!Usize
  PROVE  CK!Exact(CK!CheckedAdd(a, b), CK!Usize, TRUE, a + b)
<1> DEFINE m == CK!CANON_USIZE_MAX
           c == m + 1
<1>1. /\ m \in Nat /\ CK!Usize = 0 .. m /\ CK!Wrapped(a + b) = (a + b) % c
      /\ a \in 0 .. m /\ b \in 0 .. m
  BY UsizeIs
<1> HIDE DEF m
<1>2. c \in Nat \ {0} /\ a \in 0 .. c - 1 /\ b \in 0 .. c
  BY <1>1
<1>3. CK!Wrapped(a + b) = IF a + b < c THEN a + b ELSE a + b - c
  BY <1>1, <1>2, ModOnce
<1>4. (a + b < c) = (a + b \in 0 .. m)
  BY <1>1
<1>5. ~(a + b < c) => ~(CK!Wrapped(a + b) >= a)
  BY <1>1, <1>3
<1>6. a + b < c => CK!Wrapped(a + b) = a + b /\ a + b >= a
  BY <1>1, <1>3
<1>7. QED
  BY <1>1, <1>4, <1>5, <1>6 DEF CK!Exact, CK!CheckedAdd, CK!Judged, CK!Yields, CK!Refuses

LEMMA SubExact ==
  ASSUME StructuresAssumption, NEW a \in CK!Usize, NEW b \in CK!Usize
  PROVE  CK!Exact(CK!CheckedSub(a, b), CK!Usize, TRUE, a - b)
<1>1. /\ CK!CANON_USIZE_MAX \in Nat /\ CK!Usize = 0 .. CK!CANON_USIZE_MAX
      /\ \A x \in Nat : x <= CK!CANON_USIZE_MAX => CK!Wrapped(x) = x
  BY UsizeIs
<1>2. (b <= a) = (a - b \in CK!Usize)
  BY <1>1
<1>3. b <= a => CK!Wrapped(a - b) = a - b
  BY <1>1
<1>4. QED
  BY <1>2, <1>3 DEF CK!Exact, CK!CheckedSub, CK!Judged, CK!Yields, CK!Refuses

LEMMA MulExact ==
  ASSUME StructuresAssumption, NEW a \in CK!Usize, NEW b \in CK!Usize
  PROVE  CK!Exact(CK!CheckedMul(a, b), CK!Usize, TRUE, a * b)
<1>1. CK!CANON_USIZE_MAX \in Nat /\ CK!Usize = 0 .. CK!CANON_USIZE_MAX
  BY UsizeIs
<1>2. /\ \A x \in Nat : x <= CK!CANON_USIZE_MAX => CK!Wrapped(x) = x
      /\ \A x \in Int : CK!Wrapped(x) \in CK!Usize
  BY UsizeIs
<1>3. a \in Nat /\ b \in Nat
  BY <1>1
<1>4. CASE a = 0 \/ b = 0
  <2>1. a * b = 0 /\ 0 \in CK!Usize
    BY <1>3, <1>4, <1>1
  <2>2. QED
    BY <1>4, <2>1 DEF CK!Exact, CK!CheckedMul, CK!Yields
<1>5. CASE a > 0 /\ b > 0
  <2> DEFINE p == a * b
             w == CK!Wrapped(p)
  <2>1. p \in Nat /\ p \in Int /\ p = b * a
    BY <1>3, ProductNat, TimesCommutes
  <2>2. w \in 0 .. CK!CANON_USIZE_MAX /\ (p <= CK!CANON_USIZE_MAX => w = p)
    BY <1>1, <1>2, <2>1
  <2>3. (w \div a = b) <=> (p <= CK!CANON_USIZE_MAX)
    <3>1. CASE p <= CK!CANON_USIZE_MAX
      <4>1. w = a * b + 0
        BY <1>3, <2>1, <2>2, <3>1
      <4>2. w \in Int /\ a > 0
        BY <1>5, <2>1, <2>2, <3>1
      <4> HIDE DEF w
      <4>3. w \div a = b
        BY <1>3, <4>1, <4>2
      <4>4. QED
        BY <3>1, <4>3
    <3>2. CASE ~(p <= CK!CANON_USIZE_MAX)
      <4>1. w \in Nat /\ w < p
        BY <1>1, <2>1, <2>2, <3>2
      <4> HIDE DEF w
      <4>2. a * (w \div a) <= w
        BY <1>3, <1>5, <4>1, DivBounds
      <4>3. ASSUME w \div a = b PROVE FALSE
        <5>1. p <= w
          BY <4>2, <4>3
        <5> HIDE DEF p
        <5>2. QED
          BY <2>1, <4>1, <5>1
      <4>4. QED
        BY <3>2, <4>3
    <3>3. QED
      BY <3>1, <3>2
  <2>4. (p \in CK!Usize) <=> (p <= CK!CANON_USIZE_MAX)
    BY <1>1, <2>1
  <2>5. CK!CheckedMul(a, b) = CK!Judged(w \div a = b, w)
    BY <1>5 DEF CK!CheckedMul
  <2> HIDE DEF p, w
  <2>6. CK!Exact(CK!CheckedMul(a, b), CK!Usize, TRUE, p)
    <3>1. CASE p <= CK!CANON_USIZE_MAX
      <4>1. CK!CheckedMul(a, b) = CK!Yields(p) /\ p \in CK!Usize
        BY <2>2, <2>3, <2>4, <2>5, <3>1 DEF CK!Judged
      <4>2. QED
        BY <4>1 DEF CK!Exact
    <3>2. CASE ~(p <= CK!CANON_USIZE_MAX)
      <4>1. CK!CheckedMul(a, b) = CK!Refuses(w) /\ ~(p \in CK!Usize)
        BY <2>3, <2>4, <2>5, <3>2 DEF CK!Judged
      <4>2. QED
        BY <4>1 DEF CK!Exact, CK!Refuses
    <3>3. QED
      BY <3>1, <3>2
  <2>7. QED
    BY <2>6 DEF p
<1>6. a = 0 \/ b = 0 \/ (a > 0 /\ b > 0)
  BY <1>3
<1>7. QED
  BY <1>4, <1>5, <1>6

LEMMA DivModExact ==
  ASSUME StructuresAssumption, NEW a \in CK!Usize, NEW b \in CK!Usize, b # 0
  PROVE  /\ CK!CheckedDiv(a, b) = CK!Yields(a \div b) /\ CK!CheckedMod(a, b) = CK!Yields(a % b)
         /\ (a \div b) * b + (a % b) = a /\ a % b \in 0 .. b - 1
         /\ a \div b \in CK!Usize /\ a % b \in CK!Usize
<1>1. CK!CANON_USIZE_MAX \in Nat /\ CK!Usize = 0 .. CK!CANON_USIZE_MAX
  BY UsizeIs
<1>2. a \in Nat /\ b \in Nat /\ b > 0 /\ a <= CK!CANON_USIZE_MAX
  BY <1>1
<1> DEFINE q == a \div b
           m == a % b
           p == b * q
<1>3. q \in Nat /\ p <= a /\ m \in 0 .. b - 1 /\ m = a - p /\ p \in Nat
  BY <1>2, DivBounds
<1>4. p = q * b
  BY <1>2, <1>3, TimesCommutes
<1>5. q <= p
  <2>1. q * 1 <= q * b
    BY <1>2, <1>3, TimesOver
  <2>2. q * 1 = q
    BY <1>3
  <2> HIDE DEF p
  <2>3. QED
    BY <1>4, <2>1, <2>2
<1>6. CK!CheckedDiv(a, b) = CK!Yields(q) /\ CK!CheckedMod(a, b) = CK!Yields(m)
  BY DEF CK!CheckedDiv, CK!CheckedMod
<1> HIDE DEF p, q, m
<1>7. p + m = a /\ q \in 0 .. CK!CANON_USIZE_MAX /\ m \in 0 .. CK!CANON_USIZE_MAX
  BY <1>1, <1>2, <1>3, <1>5
<1>8. q * b + m = a
  BY <1>4, <1>7
<1>9. q \in CK!Usize /\ m \in CK!Usize
  BY <1>1, <1>7
<1>10. /\ CK!CheckedDiv(a, b) = CK!Yields(q) /\ CK!CheckedMod(a, b) = CK!Yields(m)
       /\ q * b + m = a /\ m \in 0 .. b - 1 /\ q \in CK!Usize /\ m \in CK!Usize
  BY <1>3, <1>6, <1>8, <1>9
<1>11. QED
  BY <1>10 DEF q, m

-----------------------------------------------------------------------------
LEMMA IsizeIs ==
  ASSUME StructuresAssumption
  PROVE  /\ CK!IsizeMin = -CheckedMax - 1 /\ CK!Isize = -CheckedMax - 1 .. CheckedMax
         /\ CheckedMax \in Nat /\ CheckedMax > 0
BY MaxAssumed DEF CK!Isize, CK!IsizeMin

LEMMA AddIsizeExact ==
  ASSUME StructuresAssumption, NEW a \in CK!Isize, NEW b \in CK!Isize
  PROVE  CK!Exact(CK!CheckedAddIsize(a, b), CK!Isize, TRUE, a + b)
<1>1. /\ CK!IsizeMin = -CheckedMax - 1 /\ CK!Isize = -CheckedMax - 1 .. CheckedMax
      /\ CheckedMax \in Nat /\ CheckedMax > 0
  BY IsizeIs
<1>2. (\/ a > 0 /\ b > 0 /\ b > CheckedMax - a
       \/ a < 0 /\ b < 0 /\ b < CK!IsizeMin - a) <=> a + b \notin CK!Isize
  BY <1>1
<1>3. QED
  BY <1>2 DEF CK!Exact, CK!CheckedAddIsize, CK!Refuses

LEMMA SubIsizeExact ==
  ASSUME StructuresAssumption, NEW a \in CK!Isize, NEW b \in CK!Isize
  PROVE  CK!Exact(CK!CheckedSubIsize(a, b), CK!Isize, TRUE, a - b)
<1>1. /\ CK!IsizeMin = -CheckedMax - 1 /\ CK!Isize = -CheckedMax - 1 .. CheckedMax
      /\ CheckedMax \in Nat /\ CheckedMax > 0
  BY IsizeIs
<1>2. (\/ b > 0 /\ a < CK!IsizeMin + b
       \/ b < 0 /\ a > CheckedMax + b) <=> a - b \notin CK!Isize
  BY <1>1
<1>3. QED
  BY <1>2 DEF CK!Exact, CK!CheckedSubIsize, CK!Refuses

(* Quotient by the signs. *)
LEMMA QuotientIs ==
  ASSUME NEW a \in Int, NEW b \in Int
  PROVE  /\ a >= 0 /\ b > 0 => CK!Quotient(a, b) = a \div b
         /\ a < 0 /\ b < 0 => CK!Quotient(a, b) = (-a) \div (-b)
         /\ a >= 0 /\ b < 0 => CK!Quotient(a, b) = -(a \div (-b))
         /\ a < 0 /\ b > 0 => CK!Quotient(a, b) = -((-a) \div b)
<1>1. CASE a >= 0 /\ b > 0
  BY <1>1 DEF CK!Quotient
<1>2. CASE a < 0 /\ b < 0
  BY <1>2 DEF CK!Quotient
<1>3. CASE a >= 0 /\ b < 0
  BY <1>3 DEF CK!Quotient
<1>4. CASE a < 0 /\ b > 0
  BY <1>4 DEF CK!Quotient
<1>5. QED
  BY <1>1, <1>2, <1>3, <1>4

LEMMA SignedProducts ==
  ASSUME NEW a \in Int, NEW b \in Int
  PROVE  /\ (-a) * (-b) = a * b /\ a * (-b) = -(a * b) /\ (-a) * b = -(a * b)
         /\ a * b \in Int
OBVIOUS

(* The bound of each combination of signs is that of the product. *)
LEMMA MulBounds ==
  ASSUME StructuresAssumption, NEW a \in CK!Isize, NEW b \in CK!Isize
  PROVE  /\ a > 0 /\ b > 0 => (a > CK!Quotient(CheckedMax, b) <=> a * b > CheckedMax)
         /\ a < 0 /\ b < 0 => (a < CK!Quotient(CheckedMax, b) <=> a * b > CheckedMax)
         /\ a > 0 /\ b < 0 => (b < CK!Quotient(CK!IsizeMin, a) <=> a * b < CK!IsizeMin)
         /\ a < 0 /\ b > 0 => (a < CK!Quotient(CK!IsizeMin, b) <=> a * b < CK!IsizeMin)
<1>1. /\ CK!IsizeMin = -CheckedMax - 1 /\ CK!Isize = -CheckedMax - 1 .. CheckedMax
      /\ CheckedMax \in Nat /\ CheckedMax > 0
  BY IsizeIs
<1> DEFINE p == a * b
<1>2. a \in Int /\ b \in Int /\ CK!IsizeMin \in Int /\ CK!IsizeMin < 0 /\ CheckedMax + 1 \in Nat
  BY <1>1
<1>3. (-a) * (-b) = p /\ a * (-b) = -p /\ (-a) * b = -p /\ p \in Int
  BY <1>2, SignedProducts
<1>4. ASSUME a > 0, b > 0 PROVE a > CK!Quotient(CheckedMax, b) <=> p > CheckedMax
  <2>1. CK!Quotient(CheckedMax, b) = CheckedMax \div b
    BY <1>1, <1>2, <1>4, QuotientIs
  <2>2. QED
    BY <1>1, <1>2, <1>4, <2>1, DivGreater
<1>5. ASSUME a < 0, b < 0 PROVE a < CK!Quotient(CheckedMax, b) <=> p > CheckedMax
  <2> DEFINE q == CheckedMax \div (-b)
             x == -a
             y == -b
  <2>1. CK!Quotient(CheckedMax, b) = -q /\ x \in Nat /\ y \in Nat /\ y > 0 /\ a = -x
    BY <1>1, <1>2, <1>5, QuotientIs
  <2>2. q \in Nat
    BY <1>1, <2>1, DivBounds
  <2>3. (x > q) = (x * y > CheckedMax)
    BY <1>1, <2>1, DivGreater
  <2> HIDE DEF p, q, x, y
  <2>4. (a < -q) <=> (x > q)
    BY <2>1, <2>2
  <2>5. QED
    BY <1>3, <2>1, <2>3, <2>4 DEF x, y
<1>6. ASSUME a > 0, b < 0 PROVE b < CK!Quotient(CK!IsizeMin, a) <=> p < CK!IsizeMin
  <2> DEFINE m == CheckedMax + 1
             q == m \div a
             y == -b
             r == y * a
  <2>1. m \in Nat /\ a \in Nat /\ y \in Nat /\ b = -y /\ CK!IsizeMin = -m /\ -(-m) = m
    BY <1>1, <1>2, <1>6
  <2> HIDE DEF m
  <2>2. CK!Quotient(CK!IsizeMin, a) = -q
    BY <1>2, <1>6, <2>1, QuotientIs
  <2>3. q \in Nat
    BY <1>6, <2>1, DivBounds
  <2>4. (y > q) = (r > m)
    BY <1>6, <2>1, DivGreater
  <2>5. r = -p
    BY <1>2, <1>3, <2>1, TimesCommutes
  <2> HIDE DEF p, q, y, r
  <2>6. (b < -q) <=> (y > q)
    BY <2>1, <2>3
  <2>7. (p < -m) <=> (r > m)
    BY <1>3, <2>1, <2>5
  <2>8. QED
    BY <2>1, <2>2, <2>4, <2>6, <2>7
<1>7. ASSUME a < 0, b > 0 PROVE a < CK!Quotient(CK!IsizeMin, b) <=> p < CK!IsizeMin
  <2> DEFINE m == CheckedMax + 1
             q == m \div b
             x == -a
             r == x * b
  <2>1. m \in Nat /\ b \in Nat /\ x \in Nat /\ a = -x /\ CK!IsizeMin = -m /\ -(-m) = m
    BY <1>1, <1>2, <1>7
  <2> HIDE DEF m
  <2>2. CK!Quotient(CK!IsizeMin, b) = -q
    BY <1>2, <1>7, <2>1, QuotientIs
  <2>3. q \in Nat
    BY <1>7, <2>1, DivBounds
  <2>4. (x > q) = (r > m)
    BY <1>7, <2>1, DivGreater
  <2>5. r = -p
    BY <1>3
  <2> HIDE DEF p, q, x, r
  <2>6. (a < -q) <=> (x > q)
    BY <2>1, <2>3
  <2>7. (p < -m) <=> (r > m)
    BY <1>3, <2>1, <2>5
  <2>8. QED
    BY <2>1, <2>2, <2>4, <2>6, <2>7
<1>8. QED
  BY <1>4, <1>5, <1>6, <1>7

(* -1 is the only factor of ISIZE_MIN that leaves isize, and 1 none of any. *)
LEMMA MulIsizeExact ==
  ASSUME StructuresAssumption, NEW a \in CK!Isize, NEW b \in CK!Isize
  PROVE  CK!Exact(CK!CheckedMulIsize(a, b), CK!Isize, TRUE, a * b)
<1>1. /\ CK!IsizeMin = -CheckedMax - 1 /\ CK!Isize = -CheckedMax - 1 .. CheckedMax
      /\ CheckedMax \in Nat /\ CheckedMax > 0
  BY IsizeIs
<1>2. a \in Int /\ b \in Int
  BY <1>1
<1> DEFINE p == a * b
<1>3. p \in Int
  BY <1>2, ProductInt
<1>4. CASE a = 0 \/ b = 0
  <2>1. p = 0 /\ 0 \in CK!Isize
    BY <1>1, <1>2, <1>4
  <2>2. CK!CheckedMulIsize(a, b) = CK!Yields(0)
    BY <1>4 DEF CK!CheckedMulIsize
  <2>3. QED
    BY <2>1, <2>2 DEF CK!Exact
<1>5. CASE a # 0 /\ b # 0 /\ (a = 1 \/ b = 1)
  <2>1. p \in CK!Isize
    <3>1. CASE a = 1
      BY <1>2, <3>1
    <3>2. CASE b = 1
      BY <1>2, <3>2
    <3>3. QED
      BY <1>5, <3>1, <3>2
  <2>2. CK!CheckedMulIsize(a, b) = CK!Yields(p)
    BY <1>5 DEF CK!CheckedMulIsize
  <2>3. QED
    BY <2>1, <2>2 DEF CK!Exact
<1>6. CASE a # 0 /\ b # 0 /\ a # 1 /\ b # 1
  <2> DEFINE Over ==
        \/ a = CK!IsizeMin \/ b = CK!IsizeMin
        \/ a > 0 /\ b > 0 /\ a > CK!Quotient(CheckedMax, b)
        \/ a < 0 /\ b < 0 /\ a < CK!Quotient(CheckedMax, b)
        \/ a > 0 /\ b < 0 /\ b < CK!Quotient(CK!IsizeMin, a)
        \/ a < 0 /\ b > 0 /\ a < CK!Quotient(CK!IsizeMin, b)
  <2>1. CK!CheckedMulIsize(a, b) = IF Over THEN CK!Refuses(a) ELSE CK!Yields(p)
    BY <1>6 DEF CK!CheckedMulIsize
  <2>2. a > 0 /\ b > 0 => p > 0
    BY <1>2
  <2>3. a < 0 /\ b < 0 => p > 0
    BY <1>2
  <2>4. a > 0 /\ b < 0 => p < 0
    BY <1>2
  <2>5. a < 0 /\ b > 0 => p < 0
    BY <1>2
  <2>6. ASSUME a = CK!IsizeMin PROVE p \notin CK!Isize
    <3> DEFINE m == CheckedMax + 1
    <3>1. p = -(m * b) /\ m \in Nat /\ m > 0
      BY <1>1, <1>2, <2>6
    <3>2. CASE b >= 2
      <4>1. m * 2 <= m * b
        BY <1>2, <3>1, <3>2, TimesOver
      <4> DEFINE x == m * b
      <4>2. x >= 2 * m /\ p = -x /\ x \in Int
        BY <1>2, <3>1, <4>1
      <4> HIDE DEF x, p
      <4>3. p < -m
        BY <3>1, <4>2
      <4>4. QED
        BY <1>1, <4>3
    <3>3. CASE b <= -1
      <4> DEFINE y == -b
                 x == m * y
      <4>1. y \in Nat /\ 1 <= y /\ x \in Nat
        BY <1>2, <3>1, <3>3
      <4>2. p = x
        BY <1>2, <3>1
      <4>3. m * 1 <= x
        BY <3>1, <4>1, TimesOver
      <4> HIDE DEF x, p
      <4>4. p >= m
        BY <3>1, <4>1, <4>2, <4>3
      <4>5. QED
        BY <1>1, <4>1, <4>2, <4>4
    <3>4. QED
      BY <1>2, <1>6, <3>2, <3>3
  <2>7. ASSUME b = CK!IsizeMin PROVE p \notin CK!Isize
    <3> DEFINE m == CheckedMax + 1
    <3>1. p = -(m * a) /\ m \in Nat /\ m > 0
      BY <1>1, <1>2, <2>7
    <3>2. CASE a >= 2
      <4>1. m * 2 <= m * a
        BY <1>2, <3>1, <3>2, TimesOver
      <4> DEFINE x == m * a
      <4>2. x >= 2 * m /\ p = -x /\ x \in Int
        BY <1>2, <3>1, <4>1
      <4> HIDE DEF x, p
      <4>3. p < -m
        BY <3>1, <4>2
      <4>4. QED
        BY <1>1, <4>3
    <3>3. CASE a <= -1
      <4> DEFINE y == -a
                 x == m * y
      <4>1. y \in Nat /\ 1 <= y /\ x \in Nat
        BY <1>2, <3>1, <3>3
      <4>2. p = x
        BY <1>2, <3>1
      <4>3. m * 1 <= x
        BY <3>1, <4>1, TimesOver
      <4> HIDE DEF x, p
      <4>4. p >= m
        BY <3>1, <4>1, <4>2, <4>3
      <4>5. QED
        BY <1>1, <4>1, <4>2, <4>4
    <3>4. QED
      BY <1>2, <1>6, <3>2, <3>3
  <2>8. /\ a > 0 /\ b > 0 => (a > CK!Quotient(CheckedMax, b) <=> p > CheckedMax)
        /\ a < 0 /\ b < 0 => (a < CK!Quotient(CheckedMax, b) <=> p > CheckedMax)
        /\ a > 0 /\ b < 0 => (b < CK!Quotient(CK!IsizeMin, a) <=> p < CK!IsizeMin)
        /\ a < 0 /\ b > 0 => (a < CK!Quotient(CK!IsizeMin, b) <=> p < CK!IsizeMin)
    BY MulBounds
  <2> HIDE DEF p
  <2>9. Over <=> p \notin CK!Isize
    <3>1. p \notin CK!Isize <=> p > CheckedMax \/ p < CK!IsizeMin
      BY <1>1, <1>3
    <3>2. \/ a > 0 /\ b > 0
          \/ a < 0 /\ b < 0
          \/ a > 0 /\ b < 0
          \/ a < 0 /\ b > 0
      BY <1>2, <1>6
    <3>3. CASE a > 0 /\ b > 0
      BY <1>1, <1>2, <1>3, <2>2, <2>6, <2>7, <2>8, <3>1, <3>3
    <3>4. CASE a < 0 /\ b < 0
      BY <1>1, <1>2, <1>3, <2>3, <2>6, <2>7, <2>8, <3>1, <3>4
    <3>5. CASE a > 0 /\ b < 0
      BY <1>1, <1>2, <1>3, <2>4, <2>6, <2>7, <2>8, <3>1, <3>5
    <3>6. CASE a < 0 /\ b > 0
      BY <1>1, <1>2, <1>3, <2>5, <2>6, <2>7, <2>8, <3>1, <3>6
    <3>7. QED
      BY <3>2, <3>3, <3>4, <3>5, <3>6
  <2> HIDE DEF Over
  <2>10. CK!Exact(CK!CheckedMulIsize(a, b), CK!Isize, TRUE, p)
    BY <2>1, <2>9 DEF CK!Exact, CK!Refuses
  <2>11. QED
    BY <2>10 DEF p
<1>7. QED
  BY <1>4, <1>5, <1>6

(* What C's division gives: at most the dividend, and of its sign or that  *)
(* of the divisor.                                                         *)
LEMMA DivShrinks ==
  ASSUME NEW x \in Nat, NEW y \in Nat, y > 0
  PROVE  /\ x \div y \in Nat /\ x \div y <= x
         /\ y > 1 /\ x > 0 => x \div y < x
<1> DEFINE q == x \div y
           p == y * q
<1>1. q \in Nat /\ p <= x /\ p \in Nat
  BY DivBounds
<1>2. q * 1 <= q * y
  BY <1>1, TimesOver
<1>3. q * y = p /\ q * 1 = q
  BY <1>1, TimesCommutes
<1>4. y > 1 => q * 2 <= p
  <2>1. y > 1 => q * 2 <= q * y
    BY <1>1, TimesOver
  <2>2. QED
    BY <1>3, <2>1
<1> HIDE DEF p, q
<1>5. q <= x
  BY <1>1, <1>2, <1>3
<1>6. y > 1 /\ x > 0 => q < x
  BY <1>1, <1>4
<1>7. QED
  BY <1>1, <1>5, <1>6 DEF q

LEMMA DivIsizeExact ==
  ASSUME StructuresAssumption, NEW a \in CK!Isize, NEW b \in CK!Isize
  PROVE  /\ CK!Exact(CK!CheckedDivIsize(a, b), CK!Isize, b # 0, IF b = 0 THEN 0 ELSE CK!Quotient(a, b))
         /\ CK!CheckedModIsize(a, b).ok = CK!CheckedDivIsize(a, b).ok
         /\ CK!CheckedDivIsize(a, b).val \in CK!Isize /\ CK!CheckedModIsize(a, b).val \in CK!Isize
<1>1. /\ CK!IsizeMin = -CheckedMax - 1 /\ CK!Isize = -CheckedMax - 1 .. CheckedMax
      /\ CheckedMax \in Nat /\ CheckedMax > 0
  BY IsizeIs
<1>2. a \in Int /\ b \in Int /\ a \in CK!Isize
  BY <1>1
<1> DEFINE q == CK!Quotient(a, b)
           r == a - b * q
<1>3. CASE b = 0
  BY <1>3, <1>2 DEF CK!Exact, CK!CheckedDivIsize, CK!CheckedModIsize, CK!Refuses
<1>4. CASE b # 0 /\ a = CK!IsizeMin /\ b = -1
  <2>1. q = (CheckedMax + 1) \div 1
    <3>1. -a = CheckedMax + 1 /\ a < 0
      BY <1>1, <1>2, <1>4
    <3>2. -b = 1 /\ b < 0
      <4>1. b + 1 = 0
        BY <1>2, <1>4
      <4>2. QED
        BY <1>2, <4>1
    <3>3. q = (-a) \div (-b)
      BY <1>2, <3>1, <3>2, QuotientIs
    <3>4. QED
      BY <3>1, <3>2, <3>3
  <2>2. q = CheckedMax + 1
    BY <1>1, <2>1
  <2>3. q \notin CK!Isize
    BY <1>1, <2>2
  <2>4. QED
    BY <1>2, <1>4, <2>3 DEF CK!Exact, CK!CheckedDivIsize, CK!CheckedModIsize, CK!Refuses
<1>5. CASE b # 0 /\ ~(a = CK!IsizeMin /\ b = -1)
  <2>1. q \in CK!Isize /\ r \in CK!Isize
    <3>1. CASE a >= 0 /\ b > 0
      <4>1. q = a \div b
        BY <1>2, <3>1, QuotientIs
      <4>2. q \in Nat /\ q <= a /\ b * q <= a /\ b * q \in Nat
        BY <1>2, <3>1, <4>1, DivShrinks, DivBounds
      <4> DEFINE p == b * q
      <4> HIDE DEF p, q
      <4>3. QED
        BY <1>1, <1>2, <3>1, <4>2 DEF p
    <3>2. CASE a < 0 /\ b < 0
      <4> DEFINE x == -a
                 y == -b
      <4>1. q = x \div y /\ x \in Nat /\ y \in Nat /\ y > 0 /\ x > 0
        BY <1>2, <3>2, QuotientIs
      <4>2. q \in Nat /\ q <= x /\ y * q <= x /\ y * q \in Nat /\ (y > 1 => q < x)
        BY <4>1, DivShrinks, DivBounds
      <4> DEFINE p == y * q
      <4>3. b * q = -p
        BY <1>2, <4>2
      <4> HIDE DEF p, q
      <4>4. r = p - x
        BY <1>2, <4>2, <4>3 DEF p
      <4>5. QED
        BY <1>1, <1>2, <1>5, <3>2, <4>2, <4>4 DEF p
    <3>3. CASE a >= 0 /\ b < 0
      <4> DEFINE y == -b
                 z == a \div y
      <4>1. q = -z /\ y \in Nat /\ y > 0 /\ a \in Nat
        BY <1>2, <3>3, QuotientIs
      <4>2. z \in Nat /\ z <= a /\ y * z <= a /\ y * z \in Nat
        BY <4>1, DivShrinks, DivBounds
      <4> DEFINE p == y * z
      <4>3. b * q = p
        BY <1>2, <4>1, <4>2
      <4> HIDE DEF p, q, z, y
      <4>4. QED
        BY <1>1, <1>2, <3>3, <4>1, <4>2, <4>3 DEF p
    <3>4. CASE a < 0 /\ b > 0
      <4> DEFINE x == -a
                 z == x \div b
      <4>1. q = -z /\ x \in Nat /\ b \in Nat /\ x > 0
        BY <1>2, <3>4, QuotientIs
      <4>2. z \in Nat /\ z <= x /\ b * z <= x /\ b * z \in Nat
        BY <3>4, <4>1, DivShrinks, DivBounds
      <4> DEFINE p == b * z
      <4>3. b * q = -p
        BY <1>2, <4>1, <4>2
      <4> HIDE DEF p, q, z
      <4>4. r = p - x
        BY <1>2, <4>2, <4>3 DEF p
      <4>5. QED
        BY <1>1, <1>2, <3>4, <4>1, <4>2, <4>4 DEF p
    <3>5. QED
      BY <1>2, <1>5, <3>1, <3>2, <3>3, <3>4
  <2>2. CK!CheckedDivIsize(a, b) = CK!Yields(q) /\ CK!CheckedModIsize(a, b) = CK!Yields(r)
    BY <1>5 DEF CK!CheckedDivIsize, CK!CheckedModIsize
  <2> HIDE DEF q, r
  <2>3. /\ CK!Exact(CK!Yields(q), CK!Isize, b # 0, IF b = 0 THEN 0 ELSE q)
        /\ CK!Yields(r).ok = CK!Yields(q).ok
        /\ CK!Yields(q).val \in CK!Isize /\ CK!Yields(r).val \in CK!Isize
    BY <1>5, <2>1 DEF CK!Exact, CK!Yields
  <2>4. QED
    BY <2>2, <2>3 DEF q
<1>6. QED
  BY <1>3, <1>4, <1>5

-----------------------------------------------------------------------------
CheckedInv == ckU \in CK!Usize /\ ckI \in CK!Isize

(* What an exact call leaves in its result. *)
LEMMA ExactStays ==
  ASSUME NEW answer, NEW type, NEW x, CK!Exact(answer, type, TRUE, x), answer.ok
  PROVE  answer.val \in type
BY DEF CK!Exact, CK!Yields

LEMMA UnsignedStays ==
  ASSUME StructuresAssumption, NEW a \in CK!Usize, NEW b \in CK!Usize
  PROVE  /\ CK!CheckedAdd(a, b).val \in CK!Usize /\ CK!CheckedSub(a, b).val \in CK!Usize
         /\ CK!CheckedMul(a, b).val \in CK!Usize /\ CK!CheckedDiv(a, b).val \in CK!Usize
         /\ CK!CheckedMod(a, b).val \in CK!Usize
<1>1. /\ CK!CANON_USIZE_MAX \in Nat /\ CK!Usize = 0 .. CK!CANON_USIZE_MAX
      /\ \A x \in Int : CK!Wrapped(x) \in CK!Usize
  BY UsizeIs
<1>2. a \in Int /\ b \in Int /\ a + b \in Int /\ a - b \in Int /\ 0 \in CK!Usize
  BY <1>1
<1>3. a * b \in Int
  BY <1>2, ProductInt
<1>4. CK!CheckedAdd(a, b).val \in CK!Usize /\ CK!CheckedSub(a, b).val \in CK!Usize
  BY <1>1, <1>2 DEF CK!CheckedAdd, CK!CheckedSub, CK!Judged, CK!Yields, CK!Refuses
<1>5. CK!CheckedMul(a, b).val \in CK!Usize
  <2> DEFINE p == a * b
             w == CK!Wrapped(p)
  <2>1. w \in CK!Usize
    BY <1>1, <1>3
  <2>2. CK!CheckedMul(a, b) \in {CK!Yields(0), CK!Yields(w), CK!Refuses(w)}
    BY DEF CK!CheckedMul, CK!Judged
  <2> HIDE DEF w
  <2>3. QED
    BY <1>2, <2>1, <2>2 DEF CK!Yields, CK!Refuses
<1>6. CK!CheckedDiv(a, b).val \in CK!Usize /\ CK!CheckedMod(a, b).val \in CK!Usize
  <2>1. CASE b = 0
    BY <2>1 DEF CK!CheckedDiv, CK!CheckedMod, CK!Refuses
  <2>2. CASE b # 0
    BY <2>2, DivModExact DEF CK!Yields
  <2>3. QED
    BY <2>1, <2>2
<1>7. QED
  BY <1>4, <1>5, <1>6

LEMMA SignedStays ==
  ASSUME StructuresAssumption, NEW a \in CK!Isize, NEW b \in CK!Isize
  PROVE  /\ CK!CheckedAddIsize(a, b).val \in CK!Isize /\ CK!CheckedSubIsize(a, b).val \in CK!Isize
         /\ CK!CheckedMulIsize(a, b).val \in CK!Isize /\ CK!CheckedDivIsize(a, b).val \in CK!Isize
         /\ CK!CheckedModIsize(a, b).val \in CK!Isize
<1>1. /\ CK!CheckedAddIsize(a, b) = CK!Refuses(a) \/ CK!CheckedAddIsize(a, b).ok
      /\ CK!CheckedSubIsize(a, b) = CK!Refuses(a) \/ CK!CheckedSubIsize(a, b).ok
  BY DEF CK!CheckedAddIsize, CK!CheckedSubIsize, CK!Yields
<1>2. CK!CheckedMulIsize(a, b) = CK!Refuses(a) \/ CK!CheckedMulIsize(a, b).ok
  <2> DEFINE p == a * b
  <2>1. CK!CheckedMulIsize(a, b) \in {CK!Refuses(a), CK!Yields(0), CK!Yields(p)}
    BY DEF CK!CheckedMulIsize
  <2> HIDE DEF p
  <2>2. QED
    BY <2>1 DEF CK!Yields
<1>3. CK!Refuses(a).val \in CK!Isize
  BY DEF CK!Refuses
<1>4. /\ CK!CheckedAddIsize(a, b).ok => CK!CheckedAddIsize(a, b).val \in CK!Isize
      /\ CK!CheckedSubIsize(a, b).ok => CK!CheckedSubIsize(a, b).val \in CK!Isize
      /\ CK!CheckedMulIsize(a, b).ok => CK!CheckedMulIsize(a, b).val \in CK!Isize
  BY AddIsizeExact, SubIsizeExact, MulIsizeExact, ExactStays
<1>5. QED
  BY <1>1, <1>2, <1>3, <1>4, DivIsizeExact

LEMMA CheckedStep ==
  ASSUME StructuresAssumption, CheckedInv, [CK!Next]_(CK!vars)
  PROVE  CheckedInv'
<1> USE DEF CheckedInv
<1>1. CASE \E b \in CK!Usize : CK!Add(b) \/ CK!Sub(b) \/ CK!Mul(b) \/ CK!Div(b) \/ CK!Mod(b)
  <2>1. PICK b \in CK!Usize : CK!Add(b) \/ CK!Sub(b) \/ CK!Mul(b) \/ CK!Div(b) \/ CK!Mod(b)
    BY <1>1
  <2>2. /\ ckI' = ckI
        /\ ckU' \in {CK!CheckedAdd(ckU, b).val, CK!CheckedSub(ckU, b).val, CK!CheckedMul(ckU, b).val,
                     CK!CheckedDiv(ckU, b).val, CK!CheckedMod(ckU, b).val}
    BY <2>1 DEF CK!Add, CK!Sub, CK!Mul, CK!Div, CK!Mod, CK!Unsigned
  <2>3. QED
    BY <2>2, UnsignedStays
<1>2. CASE \E b \in CK!Isize : \/ CK!AddIsize(b) \/ CK!SubIsize(b) \/ CK!MulIsize(b)
                               \/ CK!DivIsize(b) \/ CK!ModIsize(b)
  <2>1. PICK b \in CK!Isize : \/ CK!AddIsize(b) \/ CK!SubIsize(b) \/ CK!MulIsize(b)
                              \/ CK!DivIsize(b) \/ CK!ModIsize(b)
    BY <1>2
  <2>2. /\ ckU' = ckU
        /\ ckI' \in {CK!CheckedAddIsize(ckI, b).val, CK!CheckedSubIsize(ckI, b).val,
                     CK!CheckedMulIsize(ckI, b).val, CK!CheckedDivIsize(ckI, b).val,
                     CK!CheckedModIsize(ckI, b).val}
    BY <2>1 DEF CK!AddIsize, CK!SubIsize, CK!MulIsize, CK!DivIsize, CK!ModIsize, CK!Signed
  <2>3. QED
    BY <2>2, SignedStays
<1>3. CASE UNCHANGED CK!vars
  BY <1>3 DEF CK!vars
<1>4. QED
  BY <1>1, <1>2, <1>3 DEF CK!Next

LEMMA CheckedSays ==
  ASSUME StructuresAssumption, CheckedInv
  PROVE  CheckedExact
<1>1. ckU \in CK!Usize /\ ckI \in CK!Isize
  BY DEF CheckedInv
<1>2. ASSUME NEW b \in CK!Usize
      PROVE  /\ CK!Exact(CK!CheckedAdd(ckU, b), CK!Usize, TRUE, ckU + b)
             /\ CK!Exact(CK!CheckedSub(ckU, b), CK!Usize, TRUE, ckU - b)
             /\ CK!Exact(CK!CheckedMul(ckU, b), CK!Usize, TRUE, ckU * b)
  BY <1>1, AddExact, SubExact, MulExact
<1>3. ASSUME NEW b \in CK!Usize, b # 0
      PROVE  LET q == CK!CheckedDiv(ckU, b).val
                 m == CK!CheckedMod(ckU, b).val
             IN q * b + m = ckU /\ m \in 0 .. b - 1
  <2> DEFINE q == CK!CheckedDiv(ckU, b).val
             m == CK!CheckedMod(ckU, b).val
  <2>1. /\ CK!CheckedDiv(ckU, b) = CK!Yields(ckU \div b) /\ CK!CheckedMod(ckU, b) = CK!Yields(ckU % b)
        /\ (ckU \div b) * b + (ckU % b) = ckU /\ ckU % b \in 0 .. b - 1
    BY <1>1, <1>3, DivModExact
  <2>2. q = ckU \div b /\ m = ckU % b
    BY <2>1 DEF CK!Yields
  <2> HIDE DEF q, m
  <2>3. q * b + m = ckU /\ m \in 0 .. b - 1
    BY <2>1, <2>2
  <2>4. QED
    BY <2>3 DEF q, m
<1>4. ASSUME NEW b \in CK!Isize
      PROVE  /\ CK!Exact(CK!CheckedAddIsize(ckI, b), CK!Isize, TRUE, ckI + b)
             /\ CK!Exact(CK!CheckedSubIsize(ckI, b), CK!Isize, TRUE, ckI - b)
             /\ CK!Exact(CK!CheckedMulIsize(ckI, b), CK!Isize, TRUE, ckI * b)
             /\ CK!Exact(CK!CheckedDivIsize(ckI, b), CK!Isize, b # 0,
                         IF b = 0 THEN 0 ELSE CK!Quotient(ckI, b))
             /\ CK!CheckedModIsize(ckI, b).ok = CK!CheckedDivIsize(ckI, b).ok
  BY <1>1, AddIsizeExact, SubIsizeExact, MulIsizeExact, DivIsizeExact
<1>5. CK!CheckedExact
  BY <1>2, <1>3, <1>4 DEF CK!CheckedExact
<1>6. QED
  BY <1>5 DEF CheckedExact

(* Every checked call says yes exactly when its result has a place in the  *)
(* type, and then answers it, whatever numbers came before, for any width. *)
THEOREM ChecksAreExact == StructuresSpec => []CheckedExact
<1>1. StructuresInit => CheckedInv
  <2>1. StructuresInit => ckU = 0 /\ ckI = 0
    BY PartsStart DEF CK!Init
  <2>2. 0 \in CK!Usize /\ 0 \in CK!Isize
    BY UsizeIs, IsizeIs, StructuresAssumption
  <2>3. QED
    BY <2>1, <2>2 DEF CheckedInv
<1>2. CheckedInv /\ [StructuresNext]_allVars => CheckedInv'
  BY PartsStep, CheckedStep, StructuresAssumption
<1>3. CheckedInv => CheckedExact
  BY CheckedSays, StructuresAssumption
<1>4. QED
  BY <1>1, <1>2, <1>3, PTL DEF StructuresSpec

-----------------------------------------------------------------------------
(* SortSearch: the sort, as its stack of calls stands at any moment.       *)
(*                                                                         *)
(* The ranges are worked on from left to right: behind the innermost call  *)
(* nothing has moved yet, and of a merge that waits the half it has left   *)
(* behind is in order.                                                     *)

Items == [key : Keys, from : Nat]
Arrays(n) == [0 .. n - 1 -> Items]

Less(e, g) == e.key < g.key \/ (e.key = g.key /\ e.from < g.from)

(* The elements of lo .. hi - 1 are those that came there, in order. *)
Stays(a, lo, hi) ==
  /\ \A x \in lo .. hi - 1 : a[x].from \in lo .. hi - 1
  /\ \A z \in lo .. hi - 1 : \E x \in lo .. hi - 1 : a[x].from = z
Ordered(a, lo, hi) ==
  /\ Stays(a, lo, hi)
  /\ \A x, y \in lo .. hi - 1 : x < y => Less(a[x], a[y])

Untouched(a, lo, hi) == \A x \in lo .. hi - 1 : a[x].from = x

(* All of lo .. i is in order but the element at j, which came last and is *)
(* less than those behind it.                                              *)
Sinking(a, lo, i, j) ==
  /\ Stays(a, lo, i + 1)
  /\ a[j].from = i
  /\ \A x \in lo .. i : x # j => a[x].from # i
  /\ \A x, y \in lo .. i : x < y /\ y # j => Less(a[x], a[y])

(* out is what the two halves have given, before all they still hold. *)
GivenOut(c, x) == x \in c.l .. c.i - 1 \/ x \in c.m .. c.j - 1
Held(c, x) == x \in c.i .. c.m - 1 \/ x \in c.j .. c.r - 1
Merging(a, c) ==
  /\ Ordered(a, c.l, c.m) /\ Ordered(a, c.m, c.r)
  /\ c.i \in c.l .. c.m /\ c.j \in c.m .. c.r
  /\ Len(c.out) = (c.i - c.l) + (c.j - c.m)
  /\ \A k \in 1 .. Len(c.out) : \E x \in c.l .. c.r - 1 : GivenOut(c, x) /\ c.out[k] = a[x]
  /\ \A x \in c.l .. c.r - 1 : GivenOut(c, x) => \E k \in 1 .. Len(c.out) : c.out[k] = a[x]
  /\ \A k, k2 \in 1 .. Len(c.out) : k < k2 => Less(c.out[k], c.out[k2])
  /\ \A k \in 1 .. Len(c.out), x \in c.l .. c.r - 1 : Held(c, x) => Less(c.out[k], a[x])

SortFrames == [f : {"sort"}, l : Nat, r : Nat]
InsertFrames == [f : {"insert"}, l : Nat, r : Nat, i : Nat, j : Nat]
MergeFrames ==
  [f : {"merge"}, l : Nat, m : Nat, r : Nat, i : Nat, j : Nat, out : Seq(Items)]
Frames == SortFrames \cup InsertFrames \cup MergeFrames

(* A range of the array, which a merge has in two halves. *)
FitsArray(c, n) ==
  /\ c.l < c.r /\ c.r <= n
  /\ c.f = "merge" => c.l < c.m /\ c.m < c.r

(* What a waiting call has not begun. *)
Waiting(c) ==
  /\ c.f # "insert"
  /\ c.f = "merge" => c.i = c.l /\ c.j = c.m /\ c.out = <<>>

(* The call at k does one half of the merge that waits for it. *)
RightOf(c, g) == g.f = "merge" /\ c.l = g.m /\ c.r = g.r
LeftOf(c, g) == g.f = "merge" /\ c.l = g.l /\ c.r = g.m
Serves2(q, k, n) ==
  \/ k = Len(q) /\ q[k].l = 0 /\ q[k].r = n
  \/ k < Len(q) /\ RightOf(q[k], q[k + 1])
  \/ k + 1 < Len(q) /\ q[k + 1].f = "sort" /\ RightOf(q[k + 1], q[k + 2]) /\ LeftOf(q[k], q[k + 2])

Stacked(q, n) ==
  /\ q \in Seq(Frames) /\ Len(q) > 0
  /\ \A k \in 1 .. Len(q) : FitsArray(q[k], n) /\ Serves2(q, k, n) /\ (k > 1 => Waiting(q[k]))
  /\ \A k, k2 \in 1 .. Len(q) :
       k < k2 /\ q[k2].f = "merge" => q[k2].m <= q[k].l \/ q[k].r <= q[k2].m

(* How far the innermost call is. *)
Far(a, c, n) ==
  /\ c.f = "sort" => Untouched(a, c.l, n)
  /\ c.f = "insert" => /\ c.i \in c.l + 1 .. c.r /\ c.j \in c.l .. c.i
                       /\ IF c.j = c.i THEN Ordered(a, c.l, c.i) /\ Untouched(a, c.i, n)
                          ELSE c.i < c.r /\ Sinking(a, c.l, c.i, c.j) /\ Untouched(a, c.i + 1, n)
  /\ c.f = "merge" => Merging(a, c) /\ Untouched(a, c.r, n)

LeftBehind(a, q) ==
  \A k \in 2 .. Len(q) :
    q[k].f = "merge" /\ q[k].m <= q[1].l => Ordered(a, q[k].l, q[k].m)

Sorting(a, q, n) == Stacked(q, n) /\ Far(a, q[1], n) /\ LeftBehind(a, q)

(* A search has its bound between low and high. *)
Before(e, f, key) == e.key < key \/ (f = "upper" /\ e.key = key)
SearchFrames == [f : {"lower", "upper"}, key : Keys, low : Nat, high : Nat]
Searching(a, q, n) ==
  /\ q \in Seq(SearchFrames) /\ Len(q) = 1
  /\ q[1].low <= q[1].high /\ q[1].high <= n
  /\ \A x \in 0 .. n - 1 :
       /\ x < q[1].low => Before(a[x], q[1].f, q[1].key)
       /\ x >= q[1].high => ~Before(a[x], q[1].f, q[1].key)

Delimits(a, g) ==
  g # SS!NotFound => \A x \in DOMAIN a : (x < g.at) = Before(a[x], g.f, g.key)

SortState(a, q, g, n) ==
  /\ n \in Nat /\ a \in Arrays(n)
  /\ \/ Sorting(a, q, n) /\ g = SS!NotFound
     \/ q = <<>> /\ Ordered(a, 0, n) /\ Delimits(a, g)
     \/ Searching(a, q, n) /\ Ordered(a, 0, n) /\ Delimits(a, g)

SortInv == SortState(ss, ssCalls, ssFound, SS!Size)

-----------------------------------------------------------------------------
(* The order of the elements, and what a change of the array leaves of it. *)
LEMMA LessFacts ==
  /\ \A e, g, h \in Items : Less(e, g) /\ Less(g, h) => Less(e, h)
  /\ \A e, g \in Items : e.key < g.key => Less(e, g)
  /\ \A e, g \in Items : e.key <= g.key /\ e.from < g.from => Less(e, g)
  /\ \A e \in Items : e.key \in Int /\ e.from \in Nat
<1>1. Keys \subseteq Int
  BY StructuresAssumption DEF SS!SortAssumption
<1>2. \A e \in Items : e.key \in Int /\ e.from \in Nat
  BY <1>1 DEF Items
<1>3. ASSUME NEW e \in Items, NEW g \in Items, NEW h \in Items, Less(e, g), Less(g, h)
      PROVE  Less(e, h)
  <2>1. /\ e.key \in Int /\ g.key \in Int /\ h.key \in Int
        /\ e.from \in Nat /\ g.from \in Nat /\ h.from \in Nat
    BY <1>2
  <2>2. QED
    BY <1>3, <2>1 DEF Less
<1>4. ASSUME NEW e \in Items, NEW g \in Items, e.key < g.key PROVE Less(e, g)
  BY <1>4 DEF Less
<1>5. ASSUME NEW e \in Items, NEW g \in Items, e.key <= g.key, e.from < g.from
      PROVE  Less(e, g)
  <2>1. e.key \in Int /\ g.key \in Int
    BY <1>2
  <2>2. e.key < g.key \/ e.key = g.key
    BY <1>5, <2>1
  <2>3. QED
    BY <1>5, <2>2 DEF Less
<1>6. QED
  BY <1>2, <1>3, <1>4, <1>5

(* SortSearch counts with its own instance of Cardinality. *)
LEMMA SortCardinality == \A S : SS!Cardinality(S) = Cardinality(S)
BY DEF SS!Cardinality, Cardinality

LEMMA SizeIs ==
  ASSUME NEW n \in Nat, NEW a \in Arrays(n)
  PROVE  (IF a = <<>> THEN 0 ELSE Cardinality(DOMAIN a)) = n
<1>1. DOMAIN a = 0 .. n - 1
  BY DEF Arrays
<1>2. CASE n = 0
  <2>1. DOMAIN a = {} /\ a = [x \in DOMAIN a |-> a[x]]
    BY <1>1, <1>2 DEF Arrays
  <2>2. a = <<>>
    BY <2>1
  <2>3. QED
    BY <1>2, <2>2
<1>3. CASE n > 0
  <2>1. 0 \in DOMAIN a
    BY <1>1, <1>3
  <2>2. a # <<>>
    BY <2>1
  <2>3. Cardinality(0 .. n - 1) = n
    BY <1>3, FS_Interval
  <2>4. QED
    BY <1>1, <2>2, <2>3
<1>4. QED
  BY <1>2, <1>3

LEMMA OrderedSame ==
  ASSUME NEW a, NEW b, NEW lo \in Nat, NEW hi \in Nat, Ordered(a, lo, hi),
         \A x \in lo .. hi - 1 : b[x] = a[x]
  PROVE  Ordered(b, lo, hi)
BY DEF Ordered, Stays

LEMMA OrderedOne ==
  ASSUME NEW a, NEW lo \in Nat, NEW hi \in Nat, NEW n \in Nat, hi <= lo + 1, hi <= n,
         Untouched(a, lo, n)
  PROVE  Ordered(a, lo, hi)
<1>1. ASSUME NEW x \in lo .. hi - 1 PROVE x = lo /\ a[x].from = x
  BY DEF Untouched
<1>2. Stays(a, lo, hi)
  BY <1>1 DEF Stays
<1>3. ASSUME NEW x \in lo .. hi - 1, NEW y \in lo .. hi - 1 PROVE ~(x < y)
  BY <1>1
<1>4. QED
  BY <1>2, <1>3 DEF Ordered

-----------------------------------------------------------------------------
(* Sorting by insertion. *)

LEMMA SinkStarts ==
  ASSUME NEW n \in Nat, NEW a \in Arrays(n), NEW lo \in Nat, NEW i \in Nat, lo <= i, i < n,
         Ordered(a, lo, i), Untouched(a, i, n)
  PROVE  Sinking(a, lo, i, i)
<1>1. a[i].from = i
  BY DEF Untouched
<1>2. ASSUME NEW x \in lo .. i PROVE x \in lo .. i - 1 \/ x = i
  OBVIOUS
<1>3. \A x \in lo .. i - 1 : a[x].from \in lo .. i - 1
  BY DEF Ordered, Stays
<1>4. Stays(a, lo, i + 1)
  <2>1. (i + 1) - 1 = i
    OBVIOUS
  <2>2. \A x \in lo .. i : a[x].from \in lo .. i
    BY <1>1, <1>2, <1>3
  <2>3. ASSUME NEW z \in lo .. i PROVE \E x \in lo .. i : a[x].from = z
    <3>1. CASE z = i
      BY <1>1, <3>1
    <3>2. CASE z # i
      <4>1. z \in lo .. i - 1
        BY <3>2
      <4>2. \E x \in lo .. i - 1 : a[x].from = z
        BY <4>1 DEF Ordered, Stays
      <4>3. QED
        BY <4>2
    <3>3. QED
      BY <3>1, <3>2
  <2>4. QED
    BY <2>1, <2>2, <2>3 DEF Stays
<1>5. \A x \in lo .. i : x # i => a[x].from # i
  BY <1>2, <1>3
<1>6. ASSUME NEW x \in lo .. i, NEW y \in lo .. i, x < y, y # i
      PROVE  Less(a[x], a[y])
  <2>1. x \in lo .. i - 1 /\ y \in lo .. i - 1
    BY <1>6
  <2>2. QED
    BY <1>6, <2>1 DEF Ordered
<1>7. QED
  BY <1>1, <1>4, <1>5, <1>6 DEF Sinking

LEMMA SinkStops ==
  ASSUME NEW n \in Nat, NEW a \in Arrays(n), NEW lo \in Nat, NEW i \in Nat, i < n,
         NEW j \in lo .. i, Sinking(a, lo, i, j), j = lo \/ a[j - 1].key <= a[j].key
  PROVE  Ordered(a, lo, i + 1)
<1>1. \A x \in lo .. i : a[x] \in Items
  BY DEF Arrays
<1>2. ASSUME NEW x \in lo .. i, x < j
      PROVE  Less(a[x], a[j])
  <2>1. /\ j - 1 \in lo .. i /\ j - 1 # j /\ j # lo /\ j - 1 \in Nat /\ x <= j - 1
        /\ (i + 1) - 1 = i
    BY <1>2
  <2>2. a[j - 1].from \in lo .. i /\ a[j - 1].from # i /\ a[j].from = i
    BY <2>1 DEF Sinking, Stays
  <2>3. a[j - 1].from < a[j].from
    BY <2>2
  <2>4. Less(a[j - 1], a[j])
    BY <1>1, <2>1, <2>3, LessFacts
  <2>5. CASE x = j - 1
    BY <2>4, <2>5
  <2>6. CASE x # j - 1
    <3>1. Less(a[x], a[j - 1])
      BY <2>1, <2>6 DEF Sinking
    <3>2. QED
      BY <1>1, <2>1, <2>4, <3>1, LessFacts
  <2>7. QED
    BY <2>5, <2>6
<1>3. \A x, y \in lo .. i : x < y => Less(a[x], a[y])
  BY <1>2 DEF Sinking
<1>4. (i + 1) - 1 = i
  OBVIOUS
<1>5. QED
  BY <1>3, <1>4 DEF Sinking, Ordered

LEMMA SinkGoesOn ==
  ASSUME NEW n \in Nat, NEW a \in Arrays(n), NEW b \in Arrays(n), NEW lo \in Nat,
         NEW i \in Nat, i < n, NEW j \in lo + 1 .. i, Sinking(a, lo, i, j),
         a[j].key < a[j - 1].key,
         b[j] = a[j - 1], b[j - 1] = a[j], \A x \in lo .. i : x # j /\ x # j - 1 => b[x] = a[x]
  PROVE  Sinking(b, lo, i, j - 1)
<1>1. \A x \in lo .. i : a[x] \in Items
  BY DEF Arrays
<1>2. j \in lo .. i /\ j - 1 \in lo .. i /\ (i + 1) - 1 = i /\ j - 1 < j
  OBVIOUS
<1>3. Stays(b, lo, i + 1)
  <2>1. \A x \in lo .. i : a[x].from \in lo .. i
    BY <1>2 DEF Sinking, Stays
  <2>2. \A x \in lo .. i : b[x].from \in lo .. i
    BY <1>2, <2>1
  <2>3. ASSUME NEW z \in lo .. i PROVE \E x \in lo .. i : b[x].from = z
    <3>1. PICK x \in lo .. i : a[x].from = z
      BY <1>2 DEF Sinking, Stays
    <3>2. CASE x = j
      BY <1>2, <3>1, <3>2
    <3>3. CASE x = j - 1
      BY <1>2, <3>1, <3>3
    <3>4. CASE x # j /\ x # j - 1
      BY <3>1, <3>4
    <3>5. QED
      BY <3>2, <3>3, <3>4
  <2>4. QED
    BY <1>2, <2>2, <2>3 DEF Stays
<1>4. b[j - 1].from = i
  BY DEF Sinking
<1>5. ASSUME NEW x \in lo .. i, x # j - 1 PROVE b[x].from # i
  <2>1. \A w \in lo .. i : w # j => a[w].from # i
    BY DEF Sinking
  <2>2. CASE x = j
    BY <1>2, <2>1, <2>2
  <2>3. CASE x # j
    BY <1>5, <2>1, <2>3
  <2>4. QED
    BY <2>2, <2>3
<1>6. \A x, y \in lo .. i : x < y /\ y # j => Less(a[x], a[y])
  BY DEF Sinking
<1>7. Less(a[j], a[j - 1])
  BY <1>1, <1>2, LessFacts
<1>8. ASSUME NEW x \in lo .. i, NEW y \in lo .. i, x < y, y # j - 1
      PROVE  Less(b[x], b[y])
  <2>1. CASE y = j
    <3>1. CASE x = j - 1
      BY <1>7, <2>1, <3>1
    <3>2. CASE x # j - 1
      <4>1. x < j - 1 /\ x # j /\ j - 1 # j
        BY <1>2, <1>8, <2>1, <3>2
      <4>2. b[x] = a[x] /\ Less(a[x], a[j - 1])
        BY <1>2, <1>6, <3>2, <4>1
      <4>3. QED
        BY <2>1, <4>2
    <3>3. QED
      BY <3>1, <3>2
  <2>2. CASE y # j
    <3>1. b[y] = a[y]
      BY <1>8, <2>2
    <3>2. CASE x = j
      <4>1. j - 1 < y /\ Less(a[j - 1], a[y])
        BY <1>2, <1>6, <1>8, <2>2, <3>2
      <4>2. QED
        BY <3>1, <3>2, <4>1
    <3>3. CASE x = j - 1
      <4>1. j < y
        BY <1>2, <1>8, <2>2, <3>3
      <4>2. Less(a[j], a[y])
        BY <1>2, <1>6, <2>2, <4>1
      <4>3. QED
        BY <3>1, <3>3, <4>2
    <3>4. CASE x # j /\ x # j - 1
      BY <1>6, <1>8, <2>2, <3>1, <3>4
    <3>5. QED
      BY <3>2, <3>3, <3>4
  <2>3. QED
    BY <2>1, <2>2
<1>9. QED
  BY <1>3, <1>4, <1>5, <1>8 DEF Sinking

-----------------------------------------------------------------------------
(* Merging two halves. *)

LEMMA MergeStarts ==
  ASSUME NEW a, NEW c \in MergeFrames, c.l < c.m, c.m < c.r,
         Ordered(a, c.l, c.m), Ordered(a, c.m, c.r), Waiting(c)
  PROVE  Merging(a, c)
<1>1. /\ c.l \in Nat /\ c.m \in Nat /\ c.r \in Nat /\ c.f = "merge"
  BY DEF MergeFrames
<1>2. c.i = c.l /\ c.j = c.m /\ c.out = <<>>
  BY <1>1 DEF Waiting
<1>3. Len(c.out) = 0 /\ 1 .. Len(c.out) = {}
  BY <1>2
<1>4. \A x \in c.l .. c.r - 1 : ~GivenOut(c, x)
  BY <1>1, <1>2 DEF GivenOut
<1>5. c.i \in c.l .. c.m /\ c.j \in c.m .. c.r /\ Len(c.out) = (c.i - c.l) + (c.j - c.m)
  BY <1>1, <1>2, <1>3
<1>6. QED
  BY <1>3, <1>4, <1>5 DEF Merging

(* The merge goes from c to d by taking the element at p, the least left. *)
Takes(a, c, d, p) ==
  /\ d.l = c.l /\ d.m = c.m /\ d.r = c.r
  /\ d.i \in c.l .. c.m /\ d.j \in c.m .. c.r
  /\ d.i + d.j = c.i + c.j + 1
  /\ d.out = Append(c.out, a[p])
  /\ p \in c.l .. c.r - 1 /\ Held(c, p)
  /\ \A x \in c.l .. c.r - 1 : /\ GivenOut(d, x) <=> GivenOut(c, x) \/ x = p
                               /\ Held(d, x) => Held(c, x) /\ Less(a[p], a[x])

LEMMA MergeTakes ==
  ASSUME NEW n \in Nat, NEW a \in Arrays(n), NEW c \in MergeFrames, c.l < c.m, c.m < c.r, c.r <= n,
         NEW d, NEW p, Merging(a, c), Takes(a, c, d, p)
  PROVE  Merging(a, d)
<1>1. /\ c.l \in Nat /\ c.m \in Nat /\ c.r \in Nat /\ c.i \in Nat /\ c.j \in Nat
      /\ c.out \in Seq(Items) /\ Len(c.out) \in Nat
  BY DEF MergeFrames
<1>2. /\ d.l = c.l /\ d.m = c.m /\ d.r = c.r /\ d.out = Append(c.out, a[p])
      /\ p \in c.l .. c.r - 1 /\ Held(c, p) /\ d.i + d.j = c.i + c.j + 1
      /\ d.i \in c.l .. c.m /\ d.j \in c.m .. c.r
  BY DEF Takes
<1>3. a[p] \in Items
  BY <1>1, <1>2 DEF Arrays
<1>4. /\ Len(d.out) = Len(c.out) + 1 /\ d.out[Len(c.out) + 1] = a[p]
      /\ \A k \in 1 .. Len(c.out) : d.out[k] = c.out[k]
  BY <1>1, <1>2, <1>3
<1>5. Len(c.out) = (c.i - c.l) + (c.j - c.m)
  BY DEF Merging
<1>6. Len(d.out) = (d.i - d.l) + (d.j - d.m)
  <2> DEFINE i2 == d.i
             j2 == d.j
             l == c.l
             m == c.m
             i == c.i
             j == c.j
             e == Len(c.out)
  <2>1. /\ i2 \in Int /\ j2 \in Int /\ l \in Int /\ m \in Int /\ i \in Int /\ j \in Int /\ e \in Int
        /\ i2 + j2 = i + j + 1 /\ e = (i - l) + (j - m)
    BY <1>1, <1>2, <1>5
  <2> HIDE DEF i2, j2, l, m, i, j, e
  <2>2. e + 1 = (i2 - l) + (j2 - m)
    BY <2>1
  <2>3. Len(c.out) + 1 = (d.i - c.l) + (d.j - c.m)
    BY <2>2 DEF i2, j2, l, m, i, j, e
  <2>4. QED
    BY <1>2, <1>4, <2>3
<1>7. ASSUME NEW k \in 1 .. Len(d.out)
      PROVE  k \in 1 .. Len(c.out) \/ k = Len(c.out) + 1
  BY <1>1, <1>4
<1>8. \A x \in c.l .. c.r - 1 : GivenOut(d, x) <=> GivenOut(c, x) \/ x = p
  BY DEF Takes
<1>9. ASSUME NEW k \in 1 .. Len(d.out)
      PROVE  \E x \in c.l .. c.r - 1 : GivenOut(d, x) /\ d.out[k] = a[x]
  <2>1. CASE k \in 1 .. Len(c.out)
    <3>1. PICK x \in c.l .. c.r - 1 : GivenOut(c, x) /\ c.out[k] = a[x]
      BY <2>1 DEF Merging
    <3>2. QED
      BY <1>4, <1>8, <2>1, <3>1
  <2>2. CASE k = Len(c.out) + 1
    BY <1>2, <1>4, <1>8, <2>2
  <2>3. QED
    BY <1>7, <2>1, <2>2
<1>10. ASSUME NEW x \in c.l .. c.r - 1, GivenOut(d, x)
       PROVE  \E k \in 1 .. Len(d.out) : d.out[k] = a[x]
  <2>1. CASE GivenOut(c, x)
    <3>1. PICK k \in 1 .. Len(c.out) : c.out[k] = a[x]
      BY <2>1 DEF Merging
    <3>2. k \in 1 .. Len(d.out)
      BY <1>1, <1>4
    <3>3. QED
      BY <1>4, <3>1, <3>2
  <2>2. CASE x = p
    <3>1. Len(c.out) + 1 \in 1 .. Len(d.out)
      BY <1>1, <1>4
    <3>2. QED
      BY <1>4, <2>2, <3>1
  <2>3. QED
    BY <1>8, <1>10, <2>1, <2>2
<1>11. ASSUME NEW k \in 1 .. Len(d.out), NEW k2 \in 1 .. Len(d.out), k < k2
       PROVE  Less(d.out[k], d.out[k2])
  <2>1. k \in 1 .. Len(c.out)
    BY <1>1, <1>4, <1>11
  <2>2. CASE k2 \in 1 .. Len(c.out)
    <3>1. Less(c.out[k], c.out[k2])
      BY <1>11, <2>1, <2>2 DEF Merging
    <3>2. QED
      BY <1>4, <2>1, <2>2, <3>1
  <2>3. CASE k2 = Len(c.out) + 1
    <3>1. Less(c.out[k], a[p])
      BY <1>2, <2>1 DEF Merging
    <3>2. QED
      BY <1>4, <2>1, <2>3, <3>1
  <2>4. QED
    BY <1>7, <2>2, <2>3
<1>12. ASSUME NEW k \in 1 .. Len(d.out), NEW x \in c.l .. c.r - 1, Held(d, x)
       PROVE  Less(d.out[k], a[x])
  <2>1. Held(c, x) /\ Less(a[p], a[x])
    BY <1>12 DEF Takes
  <2>2. CASE k \in 1 .. Len(c.out)
    <3>1. Less(c.out[k], a[x])
      BY <2>1, <2>2 DEF Merging
    <3>2. QED
      BY <1>4, <2>2, <3>1
  <2>3. CASE k = Len(c.out) + 1
    BY <1>4, <2>1, <2>3
  <2>4. QED
    BY <1>7, <2>2, <2>3
<1>13. Ordered(a, d.l, d.m) /\ Ordered(a, d.m, d.r)
  BY <1>2 DEF Merging
<1>14. QED
  BY <1>2, <1>6, <1>9, <1>10, <1>11, <1>12, <1>13 DEF Merging

(* Of two equal elements the left one came first. *)
LEMMA HalvesApart ==
  ASSUME NEW n \in Nat, NEW a \in Arrays(n), NEW c \in MergeFrames, c.l < c.m, c.m < c.r, c.r <= n,
         Merging(a, c), NEW x \in c.l .. c.m - 1, NEW y \in c.m .. c.r - 1
  PROVE  a[x] \in Items /\ a[y] \in Items /\ a[x].from < a[y].from
<1>1. c.l \in Nat /\ c.m \in Nat /\ c.r \in Nat
  BY DEF MergeFrames
<1>2. a[x] \in Items /\ a[y] \in Items
  BY <1>1 DEF Arrays
<1>3. a[x].from \in c.l .. c.m - 1 /\ a[y].from \in c.m .. c.r - 1
  BY DEF Merging, Ordered, Stays
<1>4. QED
  BY <1>1, <1>2, <1>3

LEMMA TakesLeftLeast ==
  ASSUME NEW n \in Nat, NEW a \in Arrays(n), NEW c \in MergeFrames, c.l < c.m, c.m < c.r, c.r <= n,
         Merging(a, c), c.i < c.m, c.j < c.r => a[c.i].key <= a[c.j].key,
         NEW x \in c.l .. c.r - 1, x \in c.i + 1 .. c.m - 1 \/ x \in c.j .. c.r - 1
  PROVE  Less(a[c.i], a[x])
<1>1. /\ c.l \in Nat /\ c.m \in Nat /\ c.r \in Nat /\ c.i \in c.l .. c.m /\ c.j \in c.m .. c.r
  BY DEF MergeFrames, Merging
<1>2. c.i \in c.l .. c.m - 1
  BY <1>1
<1>3. CASE x \in c.i + 1 .. c.m - 1
  <2>1. x \in c.l .. c.m - 1 /\ c.i < x
    BY <1>1, <1>3
  <2>2. QED
    BY <1>2, <2>1 DEF Merging, Ordered
<1>4. CASE x \in c.j .. c.r - 1
  <2>1. c.j \in c.m .. c.r - 1 /\ x \in c.m .. c.r - 1 /\ c.j < c.r /\ c.j <= x
    BY <1>1, <1>4
  <2>2. /\ a[c.i] \in Items /\ a[c.j] \in Items /\ a[x] \in Items
        /\ a[c.i].from < a[c.j].from
    BY <1>2, <2>1, HalvesApart
  <2>3. Less(a[c.i], a[c.j])
    BY <2>1, <2>2, LessFacts
  <2>4. CASE x = c.j
    BY <2>3, <2>4
  <2>5. CASE c.j < x
    <3>1. Less(a[c.j], a[x])
      BY <2>1, <2>5 DEF Merging, Ordered
    <3>2. QED
      BY <2>2, <2>3, <3>1, LessFacts
  <2>6. QED
    BY <1>1, <2>1, <2>4, <2>5
<1>5. QED
  BY <1>3, <1>4

LEMMA TakesRightLeast ==
  ASSUME NEW n \in Nat, NEW a \in Arrays(n), NEW c \in MergeFrames, c.l < c.m, c.m < c.r, c.r <= n,
         Merging(a, c), c.j < c.r, c.i < c.m => a[c.j].key < a[c.i].key,
         NEW x \in c.l .. c.r - 1, x \in c.i .. c.m - 1 \/ x \in c.j + 1 .. c.r - 1
  PROVE  Less(a[c.j], a[x])
<1>1. /\ c.l \in Nat /\ c.m \in Nat /\ c.r \in Nat /\ c.i \in c.l .. c.m /\ c.j \in c.m .. c.r
  BY DEF MergeFrames, Merging
<1>2. c.j \in c.m .. c.r - 1
  BY <1>1
<1>3. CASE x \in c.j + 1 .. c.r - 1
  <2>1. x \in c.m .. c.r - 1 /\ c.j < x
    BY <1>1, <1>3
  <2>2. QED
    BY <1>2, <2>1 DEF Merging, Ordered
<1>4. CASE x \in c.i .. c.m - 1
  <2>1. c.i \in c.l .. c.m - 1 /\ x \in c.l .. c.m - 1 /\ c.i < c.m /\ c.i <= x
    BY <1>1, <1>4
  <2>2. a[c.i] \in Items /\ a[c.j] \in Items /\ a[x] \in Items
    BY <1>2, <2>1, HalvesApart
  <2>3. Less(a[c.j], a[c.i])
    BY <2>1, <2>2, LessFacts
  <2>4. CASE x = c.i
    BY <2>3, <2>4
  <2>5. CASE c.i < x
    <3>1. Less(a[c.i], a[x])
      BY <2>1, <2>5 DEF Merging, Ordered
    <3>2. QED
      BY <2>2, <2>3, <3>1, LessFacts
  <2>6. QED
    BY <1>1, <2>1, <2>4, <2>5
<1>5. QED
  BY <1>3, <1>4

LEMMA MergeEnds ==
  ASSUME NEW n \in Nat, NEW a \in Arrays(n), NEW c \in MergeFrames, c.l < c.m, c.m < c.r, c.r <= n,
         Merging(a, c), c.i = c.m, c.j = c.r,
         NEW b, \A x \in c.l .. c.r - 1 : b[x] = c.out[x - c.l + 1]
  PROVE  Ordered(b, c.l, c.r) /\ \A x \in c.l .. c.r - 1 : b[x] \in Items
<1>1. c.l \in Nat /\ c.m \in Nat /\ c.r \in Nat
  BY DEF MergeFrames
<1>2. Len(c.out) = c.r - c.l
  BY <1>1 DEF Merging
<1>3. \A x \in c.l .. c.r - 1 : GivenOut(c, x)
  BY <1>1 DEF GivenOut
<1>4. \A y \in c.l .. c.r - 1 : a[y] \in Items /\ a[y].from \in c.l .. c.r - 1
  <2>1. ASSUME NEW y \in c.l .. c.r - 1
        PROVE  a[y] \in Items /\ a[y].from \in c.l .. c.r - 1
    <3>1. a[y] \in Items
      BY <1>1 DEF Arrays
    <3>2. y \in c.l .. c.m - 1 \/ y \in c.m .. c.r - 1
      BY <1>1
    <3>3. a[y].from \in c.l .. c.m - 1 \/ a[y].from \in c.m .. c.r - 1
      BY <3>2 DEF Merging, Ordered, Stays
    <3>4. QED
      BY <1>1, <3>1, <3>3
  <2>2. QED
    BY <2>1
<1>5. ASSUME NEW x \in c.l .. c.r - 1
      PROVE  b[x] \in Items /\ b[x].from \in c.l .. c.r - 1
  <2>1. x - c.l + 1 \in 1 .. Len(c.out)
    BY <1>1, <1>2
  <2>2. PICK y \in c.l .. c.r - 1 : c.out[x - c.l + 1] = a[y]
    BY <2>1 DEF Merging
  <2>3. QED
    BY <1>4, <2>2
<1>6. ASSUME NEW z \in c.l .. c.r - 1
      PROVE  \E x \in c.l .. c.r - 1 : b[x].from = z
  <2>1. \E y \in c.l .. c.r - 1 : a[y].from = z
    <3>1. CASE z \in c.l .. c.m - 1
      <4>1. PICK y \in c.l .. c.m - 1 : a[y].from = z
        BY <3>1 DEF Merging, Ordered, Stays
      <4>2. y \in c.l .. c.r - 1
        BY <1>1
      <4>3. QED
        BY <4>1, <4>2
    <3>2. CASE z \in c.m .. c.r - 1
      <4>1. PICK y \in c.m .. c.r - 1 : a[y].from = z
        BY <3>2 DEF Merging, Ordered, Stays
      <4>2. y \in c.l .. c.r - 1
        BY <1>1
      <4>3. QED
        BY <4>1, <4>2
    <3>3. QED
      BY <1>1, <3>1, <3>2
  <2>2. PICK y \in c.l .. c.r - 1 : a[y].from = z
    BY <2>1
  <2>3. PICK k \in 1 .. Len(c.out) : c.out[k] = a[y]
    BY <1>3 DEF Merging
  <2>4. k + c.l - 1 \in c.l .. c.r - 1 /\ (k + c.l - 1) - c.l + 1 = k
    <3>1. \A l, r, e \in Int : \A h \in 1 .. e :
            e = r - l => h + l - 1 \in l .. r - 1 /\ (h + l - 1) - l + 1 = h
      OBVIOUS
    <3>2. Len(c.out) \in Int
      BY <1>1, <1>2
    <3>3. QED
      BY <1>1, <1>2, <3>1, <3>2
  <2>5. b[k + c.l - 1] = a[y]
    BY <2>3, <2>4
  <2>6. QED
    BY <2>2, <2>4, <2>5
<1>7. ASSUME NEW x \in c.l .. c.r - 1, NEW y \in c.l .. c.r - 1, x < y
      PROVE  Less(b[x], b[y])
  <2>1. /\ x - c.l + 1 \in 1 .. Len(c.out) /\ y - c.l + 1 \in 1 .. Len(c.out)
        /\ x - c.l + 1 < y - c.l + 1
    <3> DEFINE l == c.l
               r == c.r
               e == Len(c.out)
    <3>1. l \in Nat /\ r \in Nat /\ e = r - l /\ x \in l .. r - 1 /\ y \in l .. r - 1 /\ x < y
      BY <1>1, <1>2, <1>7
    <3> HIDE DEF l, r, e
    <3>2. x - l + 1 \in 1 .. e /\ y - l + 1 \in 1 .. e /\ x - l + 1 < y - l + 1
      BY <3>1
    <3>3. QED
      BY <3>2 DEF l, r, e
  <2>2. Less(c.out[x - c.l + 1], c.out[y - c.l + 1])
    BY <2>1 DEF Merging
  <2>3. QED
    BY <2>2
<1>8. QED
  BY <1>5, <1>6, <1>7 DEF Ordered, Stays

-----------------------------------------------------------------------------
(* The stack of calls. *)

LEMMA FrameFacts ==
  \A c \in Frames :
    /\ c.l \in Nat /\ c.r \in Nat /\ c.f \in {"sort", "insert", "merge"}
    /\ c.f = "sort" => c \in SortFrames
    /\ c.f = "insert" => c \in InsertFrames /\ c.i \in Nat /\ c.j \in Nat
    /\ c.f = "merge" => /\ c \in MergeFrames /\ c.m \in Nat /\ c.i \in Nat /\ c.j \in Nat
                        /\ c.out \in Seq(Items)
BY DEF Frames, SortFrames, InsertFrames, MergeFrames

LEMMA StackedFacts ==
  ASSUME NEW q, NEW n \in Nat, Stacked(q, n)
  PROVE  /\ q \in Seq(Frames) /\ Len(q) \in Nat /\ Len(q) >= 1 /\ q # <<>> /\ q[1] \in Frames
         /\ Head(q) = q[1]
         /\ \A k \in 1 .. Len(q) :
              /\ q[k] \in Frames /\ q[k].l \in Nat /\ q[k].r \in Nat
              /\ q[k].l < q[k].r /\ q[k].r <= n
              /\ q[k].f = "merge" => q[k].m \in Nat /\ q[k].l < q[k].m /\ q[k].m < q[k].r
<1>1. q \in Seq(Frames) /\ Len(q) \in Nat /\ Len(q) >= 1
  BY DEF Stacked
<1>2. q # <<>> /\ q[1] \in Frames /\ Head(q) = q[1]
  BY <1>1
<1>3. \A k \in 1 .. Len(q) : q[k] \in Frames /\ FitsArray(q[k], n)
  BY <1>1 DEF Stacked
<1>4. QED
  BY <1>1, <1>2, <1>3, FrameFacts DEF FitsArray

LEMMA HeadReplaced ==
  ASSUME NEW S, NEW q \in Seq(S), Len(q) >= 1, NEW c \in S
  PROVE  /\ <<c>> \o Tail(q) \in Seq(S) /\ Len(<<c>> \o Tail(q)) = Len(q)
         /\ (<<c>> \o Tail(q))[1] = c
         /\ \A k \in 2 .. Len(q) : (<<c>> \o Tail(q))[k] = q[k]
<1>1. q # <<>> /\ Tail(q) \in Seq(S) /\ Len(Tail(q)) = Len(q) - 1
  OBVIOUS
<1>2. \A k \in 1 .. Len(q) - 1 : Tail(q)[k] = q[k + 1]
  BY <1>1
<1>3. <<c>> \in Seq(S) /\ Len(<<c>>) = 1 /\ <<c>>[1] = c
  OBVIOUS
<1> DEFINE t == Tail(q)
           w == <<c>>
<1> HIDE DEF t, w
<1>4. w \o t \in Seq(S) /\ Len(w \o t) = Len(q) /\ (w \o t)[1] = c
  BY <1>1, <1>3 DEF t, w
<1>5. ASSUME NEW k \in 2 .. Len(q) PROVE (w \o t)[k] = q[k]
  <2>1. k - 1 \in 1 .. Len(q) - 1 /\ (k - 1) + 1 = k
    OBVIOUS
  <2>2. t[k - 1] = q[k]
    BY <1>2, <2>1 DEF t
  <2>3. (w \o t)[k] = t[k - 1]
    BY <1>1, <1>3 DEF t, w
  <2>4. QED
    BY <2>2, <2>3
<1>6. QED
  BY <1>4, <1>5 DEF t, w

LEMMA HeadUnfolded ==
  ASSUME NEW S, NEW q \in Seq(S), Len(q) >= 1, NEW c \in S, NEW d \in S, NEW e \in S
  PROVE  /\ <<c, d, e>> \o Tail(q) \in Seq(S) /\ Len(<<c, d, e>> \o Tail(q)) = Len(q) + 2
         /\ (<<c, d, e>> \o Tail(q))[1] = c /\ (<<c, d, e>> \o Tail(q))[2] = d
         /\ (<<c, d, e>> \o Tail(q))[3] = e
         /\ \A k \in 4 .. Len(q) + 2 : (<<c, d, e>> \o Tail(q))[k] = q[k - 2]
<1>1. q # <<>> /\ Tail(q) \in Seq(S) /\ Len(Tail(q)) = Len(q) - 1
  OBVIOUS
<1>2. \A k \in 1 .. Len(q) - 1 : Tail(q)[k] = q[k + 1]
  BY <1>1
<1>3. /\ <<c, d, e>> \in Seq(S) /\ Len(<<c, d, e>>) = 3
      /\ <<c, d, e>>[1] = c /\ <<c, d, e>>[2] = d /\ <<c, d, e>>[3] = e
  OBVIOUS
<1> DEFINE t == Tail(q)
           w == <<c, d, e>>
<1> HIDE DEF t, w
<1>4. /\ w \o t \in Seq(S) /\ Len(w \o t) = Len(q) + 2
      /\ (w \o t)[1] = c /\ (w \o t)[2] = d /\ (w \o t)[3] = e
  BY <1>1, <1>3 DEF t, w
<1>5. ASSUME NEW k \in 4 .. Len(q) + 2 PROVE (w \o t)[k] = q[k - 2]
  <2>1. k - 3 \in 1 .. Len(q) - 1 /\ (k - 3) + 1 = k - 2
    OBVIOUS
  <2>2. t[k - 3] = q[k - 2]
    BY <1>2, <2>1 DEF t
  <2>3. (w \o t)[k] = t[k - 3]
    BY <1>1, <1>3 DEF t, w
  <2>4. QED
    BY <2>2, <2>3
<1>6. QED
  BY <1>4, <1>5 DEF t, w

(* The innermost call goes on with its range. *)
LEMMA StackGoes ==
  ASSUME NEW q, NEW n \in Nat, Stacked(q, n), NEW c \in Frames, FitsArray(c, n),
         c.l = q[1].l, c.r = q[1].r
  PROVE  /\ Stacked(<<c>> \o Tail(q), n) /\ (<<c>> \o Tail(q))[1] = c
         /\ \A a : LeftBehind(a, q) => LeftBehind(a, <<c>> \o Tail(q))
<1> DEFINE p == <<c>> \o Tail(q)
<1>1. q \in Seq(Frames) /\ Len(q) \in Nat /\ Len(q) >= 1
  BY StackedFacts
<1>2. /\ p \in Seq(Frames) /\ Len(p) = Len(q) /\ p[1] = c
      /\ \A k \in 2 .. Len(q) : p[k] = q[k]
  BY <1>1, HeadReplaced
<1> HIDE DEF p
<1>3. \A k \in 1 .. Len(q) : p[k].l = q[k].l /\ p[k].r = q[k].r
  <2>1. ASSUME NEW k \in 1 .. Len(q) PROVE p[k].l = q[k].l /\ p[k].r = q[k].r
    <3>1. k = 1 \/ k \in 2 .. Len(q)
      BY <1>1
    <3>2. QED
      BY <1>2, <3>1
  <2>2. QED
    BY <2>1
<1>4. ASSUME NEW k \in 1 .. Len(q)
      PROVE  FitsArray(p[k], n) /\ Serves2(p, k, n) /\ (k > 1 => Waiting(p[k]))
  <2>1. FitsArray(q[k], n) /\ Serves2(q, k, n) /\ (k > 1 => Waiting(q[k]))
    BY DEF Stacked
  <2>2. k = 1 \/ k \in 2 .. Len(q)
    BY <1>1
  <2>3. FitsArray(p[k], n) /\ (k > 1 => Waiting(p[k]))
    BY <1>2, <2>1, <2>2
  <2>4. k < Len(q) => k + 1 \in 1 .. Len(q) /\ p[k + 1] = q[k + 1]
    BY <1>1, <1>2
  <2>5. k + 1 < Len(q) => p[k + 2] = q[k + 2]
    BY <1>1, <1>2
  <2>6. p[k].l = q[k].l /\ p[k].r = q[k].r
    BY <1>3
  <2>7. k + 1 < Len(q) => k < Len(q)
    BY <1>1
  <2>8. Serves2(p, k, n)
    BY <1>2, <2>1, <2>4, <2>5, <2>6, <2>7 DEF Serves2, RightOf, LeftOf
  <2>9. QED
    BY <2>3, <2>8
<1>5. ASSUME NEW k \in 1 .. Len(q), NEW k2 \in 1 .. Len(q), k < k2, p[k2].f = "merge"
      PROVE  p[k2].m <= p[k].l \/ p[k].r <= p[k2].m
  <2>1. p[k2] = q[k2]
    BY <1>1, <1>2, <1>5
  <2>2. QED
    BY <1>3, <1>5, <2>1 DEF Stacked
<1>6. Stacked(p, n)
  BY <1>1, <1>2, <1>4, <1>5 DEF Stacked
<1>7. ASSUME NEW a, LeftBehind(a, q) PROVE LeftBehind(a, p)
  BY <1>1, <1>2, <1>7 DEF LeftBehind
<1>8. QED
  BY <1>2, <1>6, <1>7 DEF p

(* A range is sorted in two halves that are then merged. *)
LEMMA StackUnfolds ==
  ASSUME NEW q, NEW n \in Nat, Stacked(q, n), NEW m \in Nat, q[1].l < m, m < q[1].r
  PROVE  LET p == <<SS!Sort(q[1].l, m), SS!Sort(m, q[1].r), SS!Merge(q[1].l, m, q[1].r)>> \o Tail(q)
         IN  /\ Stacked(p, n) /\ p[1] = SS!Sort(q[1].l, m)
             /\ \A a : LeftBehind(a, q) => LeftBehind(a, p)
<1> DEFINE p == <<SS!Sort(q[1].l, m), SS!Sort(m, q[1].r), SS!Merge(q[1].l, m, q[1].r)>> \o Tail(q)
           l == q[1].l
           r == q[1].r
           c == SS!Sort(l, m)
           d == SS!Sort(m, r)
           e == SS!Merge(l, m, r)
<1>1. /\ q \in Seq(Frames) /\ Len(q) \in Nat /\ Len(q) >= 1 /\ 1 \in 1 .. Len(q)
      /\ l \in Nat /\ r \in Nat /\ r <= n /\ l < m /\ m < r
  BY StackedFacts
<1>2. /\ c.f = "sort" /\ c.l = l /\ c.r = m
      /\ d.f = "sort" /\ d.l = m /\ d.r = r
      /\ e.f = "merge" /\ e.l = l /\ e.m = m /\ e.r = r /\ e.i = l /\ e.j = m /\ e.out = <<>>
  BY DEF SS!Sort, SS!Merge
<1>3. c \in Frames /\ d \in Frames /\ e \in Frames
  <2>1. l \in Nat /\ r \in Nat /\ <<>> \in Seq(Items)
    BY <1>1
  <2> HIDE DEF l, r
  <2>2. QED
    BY <2>1 DEF SS!Sort, SS!Merge, Frames, SortFrames, MergeFrames
<1>4. p = <<c, d, e>> \o Tail(q)
  OBVIOUS
<1> HIDE DEF c, d, e, p
<1>5. /\ p \in Seq(Frames) /\ Len(p) = Len(q) + 2 /\ p[1] = c /\ p[2] = d /\ p[3] = e
      /\ \A k \in 4 .. Len(q) + 2 : p[k] = q[k - 2]
  BY <1>1, <1>3, <1>4, HeadUnfolded
<1>6. ASSUME NEW k \in 3 .. Len(q) + 2 PROVE p[k].l = q[k - 2].l /\ p[k].r = q[k - 2].r
  <2>1. k = 3 \/ k \in 4 .. Len(q) + 2
    BY <1>1
  <2>2. CASE k = 3
    BY <1>2, <1>5, <2>2
  <2>3. CASE k \in 4 .. Len(q) + 2
    BY <1>5, <2>3
  <2>4. QED
    BY <2>1, <2>2, <2>3
<1>7. /\ FitsArray(c, n) /\ FitsArray(d, n) /\ FitsArray(e, n) /\ Waiting(d) /\ Waiting(e)
  BY <1>1, <1>2 DEF FitsArray, Waiting
<1>8. Serves2(p, 1, n) /\ Serves2(p, 2, n)
  BY <1>1, <1>2, <1>5 DEF Serves2, RightOf, LeftOf
<1>9. ASSUME NEW k \in 3 .. Len(q) + 2
      PROVE  FitsArray(p[k], n) /\ Serves2(p, k, n) /\ Waiting(p[k])
  <2>1. k - 2 \in 1 .. Len(q) /\ FitsArray(q[k - 2], n) /\ Serves2(q, k - 2, n)
    <3>1. k - 2 \in 1 .. Len(q)
      BY <1>1
    <3>2. \A x \in 1 .. Len(q) : FitsArray(q[x], n) /\ Serves2(q, x, n)
      BY DEF Stacked
    <3>3. QED
      BY <3>1, <3>2
  <2>2. k = 3 \/ k \in 4 .. Len(q) + 2
    BY <1>1
  <2>3. FitsArray(p[k], n) /\ Waiting(p[k])
    <3>1. CASE k = 3
      BY <1>5, <1>7, <3>1
    <3>2. CASE k \in 4 .. Len(q) + 2
      <4>1. k - 2 > 1 /\ p[k] = q[k - 2]
        BY <1>5, <3>2
      <4>2. Waiting(q[k - 2])
        BY <2>1, <4>1 DEF Stacked
      <4>3. QED
        BY <2>1, <4>1, <4>2
    <3>3. QED
      BY <2>2, <3>1, <3>2
  <2>4. k < Len(p) => p[k + 1] = q[(k - 2) + 1] /\ k - 2 < Len(q)
    <3>1. k < Len(p) => k + 1 \in 4 .. Len(q) + 2 /\ k - 2 < Len(q) /\ (k + 1) - 2 = (k - 2) + 1
      BY <1>1, <1>5
    <3>2. k + 1 \in 4 .. Len(q) + 2 => p[k + 1] = q[(k + 1) - 2]
      BY <1>5
    <3>3. QED
      BY <3>1, <3>2
  <2>5. k + 1 < Len(p) => p[k + 2] = q[(k - 2) + 2] /\ (k - 2) + 1 < Len(q) /\ k < Len(p)
    <3>1. k + 1 < Len(p) => /\ k + 2 \in 4 .. Len(q) + 2 /\ (k - 2) + 1 < Len(q) /\ k < Len(p)
                            /\ (k + 2) - 2 = (k - 2) + 2
      BY <1>1, <1>5
    <3>2. k + 2 \in 4 .. Len(q) + 2 => p[k + 2] = q[(k + 2) - 2]
      BY <1>5
    <3>3. QED
      BY <3>1, <3>2
  <2>6. /\ k = Len(p) <=> k - 2 = Len(q)
        /\ k < Len(p) <=> k - 2 < Len(q)
        /\ k + 1 < Len(p) <=> (k - 2) + 1 < Len(q)
    BY <1>1, <1>5
  <2>7. Serves2(p, k, n)
    BY <1>6, <2>1, <2>4, <2>5, <2>6 DEF Serves2, RightOf, LeftOf
  <2>8. QED
    BY <2>3, <2>7
<1>10. ASSUME NEW k \in 1 .. Len(p)
       PROVE  FitsArray(p[k], n) /\ Serves2(p, k, n) /\ (k > 1 => Waiting(p[k]))
  <2>1. k = 1 \/ k = 2 \/ k \in 3 .. Len(q) + 2
    BY <1>1, <1>5
  <2>2. CASE k = 1
    BY <1>5, <1>7, <1>8, <2>2
  <2>3. CASE k = 2
    BY <1>5, <1>7, <1>8, <2>3
  <2>4. CASE k \in 3 .. Len(q) + 2
    BY <1>9, <2>4
  <2>5. QED
    BY <2>1, <2>2, <2>3, <2>4
<1>11. ASSUME NEW k \in 1 .. Len(p), NEW k2 \in 1 .. Len(p), k < k2, p[k2].f = "merge"
       PROVE  p[k2].m <= p[k].l \/ p[k].r <= p[k2].m
  <2>1. CASE k2 = 2
    BY <1>2, <1>5, <1>11, <2>1
  <2>2. CASE k2 = 3
    <3>1. k = 1 \/ k = 2
      BY <1>11, <2>2
    <3>2. QED
      BY <1>1, <1>2, <1>5, <2>2, <3>1
  <2>3. CASE k2 \in 4 .. Len(q) + 2
    <3>1. /\ p[k2] = q[k2 - 2] /\ k2 - 2 \in 1 .. Len(q) /\ 1 < k2 - 2 /\ q[k2 - 2].f = "merge"
      <4>1. p[k2] = q[k2 - 2]
        BY <1>5, <2>3
      <4>2. k2 - 2 \in 1 .. Len(q) /\ 1 < k2 - 2
        BY <1>1, <2>3
      <4>3. QED
        BY <1>11, <4>1, <4>2
    <3>2. CASE k = 1 \/ k = 2
      <4>1. q[k2 - 2].m <= l \/ r <= q[k2 - 2].m
        BY <1>1, <3>1 DEF Stacked
      <4>2. p[k].l \in {l, m} /\ p[k].r \in {m, r}
        BY <1>2, <1>5, <3>2
      <4>3. q[k2 - 2].m \in Nat
        BY <3>1, StackedFacts
      <4>4. q[k2 - 2].m <= p[k].l \/ p[k].r <= q[k2 - 2].m
        <5> DEFINE z == q[k2 - 2].m
                   y == p[k].l
                   w == p[k].r
        <5>1. /\ z \in Nat /\ y \in {l, m} /\ w \in {m, r} /\ (z <= l \/ r <= z)
              /\ l \in Nat /\ r \in Nat /\ l < m /\ m < r
          BY <1>1, <4>1, <4>2, <4>3
        <5> HIDE DEF z, y, w, l, r
        <5>2. z <= y \/ w <= z
          BY <5>1
        <5>3. QED
          BY <5>2 DEF z, y, w
      <4>5. QED
        BY <3>1, <4>4
    <3>3. CASE k \in 3 .. Len(q) + 2
      <4>1. k - 2 \in 1 .. Len(q) /\ k - 2 < k2 - 2
        BY <1>1, <1>11, <3>3
      <4>2. q[k2 - 2].m <= q[k - 2].l \/ q[k - 2].r <= q[k2 - 2].m
        BY <3>1, <4>1 DEF Stacked
      <4>3. QED
        BY <1>6, <3>1, <3>3, <4>2
    <3>4. QED
      BY <1>1, <1>5, <3>2, <3>3
  <2>4. k2 = 2 \/ k2 = 3 \/ k2 \in 4 .. Len(q) + 2
    <3>1. Len(p) = Len(q) + 2
      BY <1>5
    <3>2. QED
      BY <1>1, <1>11, <3>1
  <2>5. QED
    BY <2>1, <2>2, <2>3, <2>4
<1>12. Stacked(p, n)
  <2>1. p \in Seq(Frames) /\ Len(p) > 0
    BY <1>1, <1>5
  <2>2. QED
    BY <1>10, <1>11, <2>1 DEF Stacked
<1>13. ASSUME NEW a, LeftBehind(a, q), NEW k \in 2 .. Len(p), p[k].f = "merge", p[k].m <= p[1].l
       PROVE  Ordered(a, p[k].l, p[k].m)
  <2>1. p[1].l = l
    BY <1>2, <1>5
  <2>2. k # 2 /\ k # 3
    BY <1>1, <1>2, <1>5, <1>13, <2>1
  <2>3. k \in 4 .. Len(q) + 2 /\ k - 2 \in 2 .. Len(q) /\ p[k] = q[k - 2]
    BY <1>1, <1>5, <2>2
  <2>4. QED
    BY <1>13, <2>1, <2>3 DEF LeftBehind
<1>14. QED
  BY <1>5, <1>12, <1>13 DEF LeftBehind, c, p

(* The innermost call has its range in order, and returns. *)
LEMMA StackReturns ==
  ASSUME NEW q, NEW n \in Nat, NEW a \in Arrays(n), NEW b \in Arrays(n),
         Stacked(q, n), LeftBehind(a, q), Untouched(a, q[1].r, n),
         Ordered(b, q[1].l, q[1].r),
         \A x \in 0 .. n - 1 : x < q[1].l \/ x >= q[1].r => b[x] = a[x]
  PROVE  \/ Tail(q) = <<>> /\ Ordered(b, 0, n)
         \/ Sorting(b, Tail(q), n)
<1> DEFINE p == Tail(q)
           l == q[1].l
           r == q[1].r
<1>1. /\ q \in Seq(Frames) /\ Len(q) \in Nat /\ Len(q) >= 1 /\ 1 \in 1 .. Len(q) /\ q # <<>>
      /\ l \in Nat /\ r \in Nat /\ r <= n /\ l < r
  BY StackedFacts
<1>2. p \in Seq(Frames) /\ Len(p) = Len(q) - 1 /\ \A k \in 1 .. Len(q) - 1 : p[k] = q[k + 1]
  BY <1>1
<1>3. Serves2(q, 1, n)
  BY <1>1 DEF Stacked
<1> HIDE DEF p, l, r
<1>4. CASE Len(q) = 1
  <2>1. p = <<>>
    BY <1>2, <1>4
  <2>2. l = 0 /\ r = n
    BY <1>3, <1>4 DEF Serves2, l, r
  <2>3. QED
    BY <2>1, <2>2 DEF p, l, r
<1>5. CASE Len(q) > 1
  <2>1. ASSUME NEW k \in 1 .. Len(p)
        PROVE  FitsArray(p[k], n) /\ Serves2(p, k, n) /\ (k > 1 => Waiting(p[k]))
    <3>1. k + 1 \in 1 .. Len(q) /\ k + 1 > 1 /\ p[k] = q[k + 1]
      BY <1>1, <1>2
    <3>2. FitsArray(q[k + 1], n) /\ Serves2(q, k + 1, n) /\ Waiting(q[k + 1])
      BY <3>1 DEF Stacked
    <3>3. /\ k = Len(p) <=> k + 1 = Len(q)
          /\ k < Len(p) <=> k + 1 < Len(q)
          /\ k + 1 < Len(p) <=> (k + 1) + 1 < Len(q)
      BY <1>1, <1>2
    <3>4. /\ k < Len(p) => p[k + 1] = q[(k + 1) + 1]
          /\ k + 1 < Len(p) => k < Len(p) /\ p[k + 2] = q[(k + 1) + 2]
      <4>1. k < Len(p) => k + 1 \in 1 .. Len(q) - 1
        BY <1>1, <1>2
      <4>2. k + 1 < Len(p) => k < Len(p) /\ k + 2 \in 1 .. Len(q) - 1 /\ (k + 2) + 1 = (k + 1) + 2
        BY <1>1, <1>2
      <4>3. k < Len(p) => p[k + 1] = q[(k + 1) + 1]
        BY <1>2, <4>1
      <4>4. k + 1 < Len(p) => p[k + 2] = q[(k + 2) + 1]
        BY <1>2, <4>2
      <4>5. QED
        BY <4>2, <4>3, <4>4
    <3>5. Serves2(p, k, n)
      BY <3>1, <3>2, <3>3, <3>4 DEF Serves2
    <3>6. QED
      BY <3>1, <3>2, <3>5
  <2>2. ASSUME NEW k \in 1 .. Len(p), NEW k2 \in 1 .. Len(p), k < k2, p[k2].f = "merge"
        PROVE  p[k2].m <= p[k].l \/ p[k].r <= p[k2].m
    <3>1. /\ k + 1 \in 1 .. Len(q) /\ k2 + 1 \in 1 .. Len(q) /\ k + 1 < k2 + 1
          /\ p[k] = q[k + 1] /\ p[k2] = q[k2 + 1]
      BY <1>1, <1>2, <2>2
    <3>2. QED
      BY <2>2, <3>1 DEF Stacked
  <2>3. Stacked(p, n)
    BY <1>1, <1>2, <1>5, <2>1, <2>2 DEF Stacked
  <2>4. /\ 2 \in 1 .. Len(q) /\ 2 \in 2 .. Len(q) /\ p[1] = q[2] /\ Waiting(q[2]) /\ FitsArray(q[2], n)
        /\ q[2] \in Frames
    <3>1. 2 \in 1 .. Len(q) /\ 2 \in 2 .. Len(q) /\ 1 \in 1 .. Len(q) - 1 /\ 1 + 1 = 2
      BY <1>1, <1>5
    <3>2. p[1] = q[2] /\ q[2] \in Frames
      BY <1>1, <1>2, <3>1
    <3>3. Waiting(q[2]) /\ FitsArray(q[2], n)
      BY <3>1 DEF Stacked
    <3>4. QED
      BY <3>1, <3>2, <3>3
  <2>5. ASSUME NEW lo \in Nat, NEW hi \in Nat, hi <= l, Ordered(a, lo, hi)
        PROVE  Ordered(b, lo, hi)
    <3>1. \A x \in lo .. hi - 1 : x \in 0 .. n - 1 /\ x < l
      BY <1>1, <2>5
    <3>2. \A x \in lo .. hi - 1 : b[x] = a[x]
      BY <3>1 DEF l
    <3>3. QED
      BY <2>5, <3>2, OrderedSame
  <2>6. ASSUME NEW k \in 2 .. Len(q), q[k].f = "merge", q[k].m <= l
        PROVE  Ordered(b, q[k].l, q[k].m)
    <3>1. Ordered(a, q[k].l, q[k].m)
      BY <2>6 DEF LeftBehind, l
    <3>2. q[k].l \in Nat /\ q[k].m \in Nat
      BY <1>1, <2>6, StackedFacts
    <3>3. QED
      BY <2>5, <2>6, <3>1, <3>2
  <2>7. Untouched(b, r, n)
    <3>1. \A x \in r .. n - 1 : x \in 0 .. n - 1 /\ x >= r
      BY <1>1
    <3>2. QED
      BY <3>1 DEF Untouched, r
  <2>8. CASE RightOf(q[1], q[2])
    <3>1. q[2].f = "merge" /\ l = q[2].m /\ r = q[2].r
      BY <2>8 DEF RightOf, l, r
    <3>2. /\ q[2] \in MergeFrames /\ q[2].l \in Nat /\ q[2].m \in Nat
          /\ q[2].l < q[2].m /\ q[2].m < q[2].r
      BY <2>4, <3>1, FrameFacts DEF FitsArray
    <3>3. Ordered(b, q[2].l, q[2].m)
      BY <1>1, <2>4, <2>6, <3>1
    <3>4. Ordered(b, q[2].m, q[2].r)
      BY <3>1 DEF l, r
    <3>5. Merging(b, q[2])
      BY <2>4, <3>2, <3>3, <3>4, MergeStarts
    <3>6. Far(b, p[1], n)
      BY <2>4, <2>7, <3>1, <3>5 DEF Far
    <3>7. ASSUME NEW k \in 2 .. Len(p), p[k].f = "merge", p[k].m <= p[1].l
          PROVE  Ordered(b, p[k].l, p[k].m)
      <4>1. k + 1 \in 2 .. Len(q) /\ k + 1 \in 1 .. Len(q) /\ p[k] = q[k + 1]
        BY <1>1, <1>2
      <4>2. q[k + 1].m <= l
        <5> DEFINE z == q[k + 1].m
                   y == q[2].l
        <5>1. z \in Nat /\ y \in Nat /\ z <= y /\ y < l
          BY <1>1, <2>4, <3>1, <3>2, <3>7, <4>1, StackedFacts
        <5> HIDE DEF z, y
        <5>2. z <= l
          BY <1>1, <5>1
        <5>3. QED
          BY <5>2 DEF z
      <4>3. QED
        BY <2>6, <3>7, <4>1, <4>2
    <3>8. LeftBehind(b, p)
      BY <3>7 DEF LeftBehind
    <3>9. QED
      BY <2>3, <3>6, <3>8 DEF Sorting, p
  <2>9. CASE /\ 2 < Len(q) /\ q[2].f = "sort" /\ RightOf(q[2], q[3]) /\ LeftOf(q[1], q[3])
    <3>1. /\ 3 \in 1 .. Len(q) /\ 3 \in 2 .. Len(q)
          /\ q[3].f = "merge" /\ q[3].l = l /\ q[3].m = r /\ q[2].l = r /\ q[2].r = q[3].r
      BY <1>1, <2>9 DEF RightOf, LeftOf, l, r
    <3>2. Far(b, p[1], n)
      BY <2>4, <2>7, <2>9, <3>1 DEF Far
    <3>3. ASSUME NEW k \in 2 .. Len(p), p[k].f = "merge", p[k].m <= p[1].l
          PROVE  Ordered(b, p[k].l, p[k].m)
      <4>1. k + 1 \in 2 .. Len(q) /\ k + 1 \in 1 .. Len(q) /\ p[k] = q[k + 1]
        BY <1>1, <1>2
      <4>2. CASE k = 2
        <5>1. p[k] = q[3]
          BY <4>1, <4>2
        <5>2. QED
          BY <3>1, <5>1 DEF l, r
      <4>3. CASE k > 2
        <5>1. 3 < k + 1
          BY <4>3
        <5>2. q[k + 1].m <= q[3].l \/ q[3].r <= q[k + 1].m
          BY <3>1, <3>3, <4>1, <5>1 DEF Stacked
        <5>3. /\ q[k + 1].m \in Nat /\ q[3].r \in Nat /\ q[3].m < q[3].r
          BY <3>1, <3>3, <4>1, StackedFacts
        <5>4. q[k + 1].m <= l
          <6> DEFINE z == q[k + 1].m
                     y == q[3].r
          <6>1. z \in Nat /\ y \in Nat /\ (z <= l \/ y <= z) /\ r < y /\ z <= r
            BY <2>4, <3>1, <3>3, <4>1, <5>2, <5>3
          <6> HIDE DEF z, y
          <6>2. z <= l
            BY <1>1, <6>1
          <6>3. QED
            BY <6>2 DEF z
        <5>5. QED
          BY <2>6, <3>3, <4>1, <5>4
      <4>4. QED
        BY <4>2, <4>3
    <3>4. LeftBehind(b, p)
      BY <3>3 DEF LeftBehind
    <3>5. QED
      BY <2>3, <3>2, <3>4 DEF Sorting, p
  <2>10. RightOf(q[1], q[2]) \/ (2 < Len(q) /\ q[2].f = "sort" /\ RightOf(q[2], q[3]) /\ LeftOf(q[1], q[3]))
    BY <1>3, <1>5 DEF Serves2
  <2>11. QED
    BY <2>8, <2>9, <2>10
<1>6. Len(q) = 1 \/ Len(q) > 1
  <2>1. \A z \in Nat : z >= 1 => z = 1 \/ z > 1
    OBVIOUS
  <2>2. Len(q) \in Nat /\ Len(q) >= 1
    BY <1>1
  <2>3. QED
    BY <2>1, <2>2
<1>7. QED
  BY <1>4, <1>5, <1>6 DEF p

-----------------------------------------------------------------------------
(* The steps of the sort. *)

LEMMA SortingNow ==
  ASSUME NEW n \in Nat, SortState(ss, ssCalls, ssFound, n),
         NEW f \in {"sort", "insert", "merge"}, SS!Running(f)
  PROVE  /\ ss \in Arrays(n) /\ ssFound = SS!NotFound
         /\ Stacked(ssCalls, n) /\ LeftBehind(ss, ssCalls) /\ Far(ss, ssCalls[1], n)
         /\ SS!Call = ssCalls[1] /\ ssCalls[1].f = f
<1>1. ssCalls # <<>> /\ Head(ssCalls).f = f
  BY DEF SS!Running, SS!Call
<1>2. ~Searching(ss, ssCalls, n)
  <2>1. SUFFICES ASSUME Searching(ss, ssCalls, n) PROVE FALSE
    OBVIOUS
  <2>2. ssCalls \in Seq(SearchFrames) /\ Len(ssCalls) = 1
    BY <2>1 DEF Searching
  <2>3. Head(ssCalls) \in SearchFrames
    BY <2>2
  <2>4. QED
    BY <1>1, <2>3 DEF SearchFrames
<1>3. ss \in Arrays(n) /\ ssFound = SS!NotFound /\ Sorting(ss, ssCalls, n)
  BY <1>1, <1>2 DEF SortState
<1>4. Head(ssCalls) = ssCalls[1]
  BY <1>3, StackedFacts DEF Sorting
<1>5. QED
  BY <1>1, <1>3, <1>4 DEF Sorting, SS!Call

LEMMA LeftBehindSame ==
  ASSUME NEW n \in Nat, NEW q, Stacked(q, n), NEW a, NEW b, LeftBehind(a, q),
         \A x \in 0 .. n - 1 : x < q[1].l => b[x] = a[x]
  PROVE  LeftBehind(b, q)
<1>1. ASSUME NEW k \in 2 .. Len(q), q[k].f = "merge", q[k].m <= q[1].l
      PROVE  Ordered(b, q[k].l, q[k].m)
  <2>1. k \in 1 .. Len(q) /\ 1 \in 1 .. Len(q)
    BY StackedFacts
  <2>2. /\ q[k].l \in Nat /\ q[k].m \in Nat /\ q[1].l \in Nat /\ q[1].r \in Nat
        /\ q[1].l < q[1].r /\ q[1].r <= n
    BY <1>1, <2>1, StackedFacts
  <2>3. Ordered(a, q[k].l, q[k].m)
    BY <1>1 DEF LeftBehind
  <2>4. \A x \in q[k].l .. q[k].m - 1 : x \in 0 .. n - 1 /\ x < q[1].l
    <3> DEFINE z == q[k].l
               y == q[k].m
               w == q[1].l
               v == q[1].r
    <3>1. z \in Nat /\ y \in Nat /\ w \in Nat /\ v \in Nat /\ w < v /\ v <= n /\ y <= w
      BY <1>1, <2>2
    <3> HIDE DEF z, y, w, v
    <3>2. \A x \in z .. y - 1 : x \in 0 .. n - 1 /\ x < w
      BY <3>1
    <3>3. QED
      BY <3>2 DEF z, y, w
  <2>5. \A x \in q[k].l .. q[k].m - 1 : b[x] = a[x]
    BY <2>4
  <2>6. QED
    BY <2>2, <2>3, <2>5, OrderedSame
<1>2. QED
  BY <1>1 DEF LeftBehind

(* A call that goes on, and one that returns. *)
LEMMA SortGoes ==
  ASSUME NEW n \in Nat, NEW a \in Arrays(n), NEW b \in Arrays(n), NEW q,
         Stacked(q, n), LeftBehind(a, q),
         \A x \in 0 .. n - 1 : x < q[1].l => b[x] = a[x],
         NEW c \in Frames, FitsArray(c, n), c.l = q[1].l, c.r = q[1].r, Far(b, c, n)
  PROVE  SortState(b, <<c>> \o Tail(q), SS!NotFound, n)
<1>1. LeftBehind(b, q)
  BY LeftBehindSame
<1> DEFINE p == <<c>> \o Tail(q)
<1>2. Stacked(p, n) /\ p[1] = c /\ LeftBehind(b, p)
  BY <1>1, StackGoes
<1> HIDE DEF p
<1>3. Sorting(b, p, n)
  BY <1>2 DEF Sorting
<1>4. QED
  BY <1>3 DEF SortState, p

LEMMA SortReturns ==
  ASSUME NEW n \in Nat, NEW a \in Arrays(n), NEW b \in Arrays(n), NEW q,
         Stacked(q, n), LeftBehind(a, q), Untouched(a, q[1].r, n),
         Ordered(b, q[1].l, q[1].r),
         \A x \in 0 .. n - 1 : x < q[1].l \/ x >= q[1].r => b[x] = a[x]
  PROVE  SortState(b, Tail(q), SS!NotFound, n)
<1>1. (Tail(q) = <<>> /\ Ordered(b, 0, n)) \/ Sorting(b, Tail(q), n)
  BY StackReturns
<1>2. Delimits(b, SS!NotFound)
  BY DEF Delimits
<1>3. QED
  BY <1>1, <1>2 DEF SortState

LEMMA SortRangeKeeps ==
  ASSUME NEW n \in Nat, SortState(ss, ssCalls, ssFound, n), SS!SortRange
  PROVE  SortState(ss', ssCalls', ssFound', n)
<1> DEFINE q == ssCalls
           l == q[1].l
           r == q[1].r
           m == l + (r - l) \div 2
<1>1. /\ ss \in Arrays(n) /\ ssFound = SS!NotFound
      /\ Stacked(q, n) /\ LeftBehind(ss, q) /\ Far(ss, q[1], n)
      /\ SS!Call = q[1] /\ q[1].f = "sort"
  BY SortingNow DEF SS!SortRange
<1>2. /\ 1 \in 1 .. Len(q) /\ q[1] \in Frames /\ FitsArray(q[1], n)
      /\ l \in Nat /\ r \in Nat /\ l < r /\ r <= n
  BY <1>1, StackedFacts DEF Stacked
<1>3. Untouched(ss, l, n)
  BY <1>1 DEF Far
<1>4. ss' = ss /\ ssFound' = SS!NotFound
  BY <1>1 DEF SS!SortRange
<1>5. \/ r - l <= 1 /\ q' = Tail(q)
      \/ r - l > 1 /\ r - l < Cutoff /\ q' = <<SS!Insertion(l, r)>> \o Tail(q)
      \/ /\ r - l > 1 /\ r - l >= Cutoff
         /\ q' = <<SS!Sort(l, m), SS!Sort(m, r), SS!Merge(l, m, r)>> \o Tail(q)
  BY <1>1 DEF SS!SortRange, SS!Returns, SS!Goes
<1> HIDE DEF l, r, m
<1>6. CASE r - l <= 1 /\ q' = Tail(q)
  <2>1. Ordered(ss, l, r)
    BY <1>2, <1>3, <1>6, OrderedOne
  <2>2. Untouched(ss, r, n)
    BY <1>2, <1>3 DEF Untouched
  <2>3. SortState(ss, Tail(q), SS!NotFound, n)
    BY <1>1, <2>1, <2>2, SortReturns DEF l, r
  <2>4. QED
    BY <1>4, <1>6, <2>3
<1>7. CASE r - l > 1 /\ q' = <<SS!Insertion(l, r)>> \o Tail(q)
  <2> DEFINE c == SS!Insertion(l, r)
  <2>1. /\ c.f = "insert" /\ c.l = l /\ c.r = r /\ c.i = l + 1 /\ c.j = l + 1
        /\ c \in Frames
    BY <1>2 DEF SS!Insertion, Frames, InsertFrames
  <2> HIDE DEF c
  <2>2. Ordered(ss, l, l + 1)
    BY <1>2, <1>3, OrderedOne
  <2>3. Untouched(ss, l + 1, n)
    BY <1>2, <1>3 DEF Untouched
  <2>4. l + 1 \in l + 1 .. r /\ l + 1 \in l .. l + 1
    BY <1>2, <1>7
  <2>5. Far(ss, c, n) /\ FitsArray(c, n)
    BY <1>2, <2>1, <2>2, <2>3, <2>4 DEF Far, FitsArray
  <2>6. SortState(ss, <<c>> \o Tail(q), SS!NotFound, n)
    BY <1>1, <2>1, <2>5, SortGoes DEF l, r
  <2>7. QED
    BY <1>4, <1>7, <2>6 DEF c
<1>8. CASE /\ r - l > 1
           /\ q' = <<SS!Sort(l, m), SS!Sort(m, r), SS!Merge(l, m, r)>> \o Tail(q)
  <2>1. m \in Nat /\ l < m /\ m < r
    BY <1>2, <1>8 DEF m
  <2> DEFINE p == <<SS!Sort(l, m), SS!Sort(m, r), SS!Merge(l, m, r)>> \o Tail(q)
  <2>2. q[1].l < m /\ m < q[1].r
    BY <2>1 DEF l, r
  <2>3. LET w == <<SS!Sort(q[1].l, m), SS!Sort(m, q[1].r), SS!Merge(q[1].l, m, q[1].r)>> \o Tail(q)
        IN  Stacked(w, n) /\ w[1] = SS!Sort(q[1].l, m) /\ LeftBehind(ss, w)
    BY <1>1, <2>1, <2>2, StackUnfolds
  <2>4. Stacked(p, n) /\ p[1] = SS!Sort(q[1].l, m) /\ LeftBehind(ss, p)
    BY <2>3 DEF l, r
  <2> HIDE DEF p
  <2>5. Far(ss, p[1], n)
    BY <1>3, <2>4 DEF Far, SS!Sort, l
  <2>6. SortState(ss, p, SS!NotFound, n)
    BY <1>1, <2>4, <2>5 DEF SortState, Sorting
  <2>7. QED
    BY <1>4, <1>8, <2>6 DEF p
<1>9. QED
  BY <1>5, <1>6, <1>7, <1>8

InsertAt(c, x, y) == [c EXCEPT !.i = x, !.j = y]
MergeLeftAt(c, x, o) == [c EXCEPT !.i = x, !.out = o]
MergeRightAt(c, x, o) == [c EXCEPT !.j = x, !.out = o]

LEMMA InsertAtFacts ==
  ASSUME NEW c \in InsertFrames, NEW x \in Nat, NEW y \in Nat
  PROVE  /\ InsertAt(c, x, y) \in InsertFrames /\ InsertAt(c, x, y).f = c.f
         /\ InsertAt(c, x, y).l = c.l /\ InsertAt(c, x, y).r = c.r
         /\ InsertAt(c, x, y).i = x /\ InsertAt(c, x, y).j = y
BY DEF InsertFrames, InsertAt

LEMMA MergeLeftAtFacts ==
  ASSUME NEW c \in MergeFrames, NEW x \in Nat, NEW o \in Seq(Items)
  PROVE  /\ MergeLeftAt(c, x, o) \in MergeFrames /\ MergeLeftAt(c, x, o).f = c.f
         /\ MergeLeftAt(c, x, o).l = c.l /\ MergeLeftAt(c, x, o).m = c.m /\ MergeLeftAt(c, x, o).r = c.r
         /\ MergeLeftAt(c, x, o).i = x /\ MergeLeftAt(c, x, o).j = c.j /\ MergeLeftAt(c, x, o).out = o
BY DEF MergeFrames, MergeLeftAt

LEMMA MergeRightAtFacts ==
  ASSUME NEW c \in MergeFrames, NEW x \in Nat, NEW o \in Seq(Items)
  PROVE  /\ MergeRightAt(c, x, o) \in MergeFrames /\ MergeRightAt(c, x, o).f = c.f
         /\ MergeRightAt(c, x, o).l = c.l /\ MergeRightAt(c, x, o).m = c.m /\ MergeRightAt(c, x, o).r = c.r
         /\ MergeRightAt(c, x, o).j = x /\ MergeRightAt(c, x, o).i = c.i /\ MergeRightAt(c, x, o).out = o
BY DEF MergeFrames, MergeRightAt

LEMMA InsertStepKeeps ==
  ASSUME NEW n \in Nat, SortState(ss, ssCalls, ssFound, n), SS!InsertStep
  PROVE  SortState(ss', ssCalls', ssFound', n)
<1> DEFINE q == ssCalls
           c == q[1]
           l == c.l
           r == c.r
           i == c.i
           j == c.j
<1>1. /\ ss \in Arrays(n) /\ ssFound = SS!NotFound
      /\ Stacked(q, n) /\ LeftBehind(ss, q) /\ Far(ss, c, n)
      /\ SS!Call = c /\ c.f = "insert"
  BY SortingNow DEF SS!InsertStep
<1>2. /\ c \in InsertFrames /\ l \in Nat /\ r \in Nat /\ i \in Nat /\ j \in Nat
      /\ l < r /\ r <= n
  BY <1>1, StackedFacts, FrameFacts
<1>3. /\ i \in l + 1 .. r /\ j \in l .. i
      /\ IF j = i THEN Ordered(ss, l, i) /\ Untouched(ss, i, n)
         ELSE i < r /\ Sinking(ss, l, i, j) /\ Untouched(ss, i + 1, n)
  BY <1>1 DEF Far
<1>4. ssFound' = SS!NotFound
  BY <1>1 DEF SS!InsertStep
<1>5. \/ /\ i < r /\ j > l /\ ss[j - 1].key > ss[j].key
         /\ ss' = [ss EXCEPT ![j] = ss[j - 1], ![j - 1] = ss[j]]
         /\ q' = <<[c EXCEPT !.j = j - 1]>> \o Tail(q)
      \/ /\ ~(i < r /\ j > l /\ ss[j - 1].key > ss[j].key)
         /\ i < r /\ ss' = ss
         /\ q' = <<InsertAt(c, i + 1, i + 1)>> \o Tail(q)
      \/ i >= r /\ ss' = ss /\ q' = Tail(q)
  BY <1>1 DEF SS!InsertStep, SS!Returns, SS!Goes, SS!Key, InsertAt
<1>6. i < r => Sinking(ss, l, i, j) /\ Untouched(ss, i + 1, n)
  <2>1. CASE j = i /\ i < r
    <3>1. l <= i /\ i < n
      BY <1>2, <1>3, <2>1
    <3>2. Untouched(ss, i + 1, n)
      BY <1>2, <1>3, <2>1 DEF Untouched
    <3>3. QED
      BY <1>1, <1>2, <1>3, <2>1, <3>1, <3>2, SinkStarts
  <2>2. QED
    BY <1>3, <2>1
<1> HIDE DEF l, r, i, j, c
<1>7. CASE /\ i < r /\ j > l /\ ss[j - 1].key > ss[j].key
           /\ ss' = [ss EXCEPT ![j] = ss[j - 1], ![j - 1] = ss[j]]
           /\ q' = <<[c EXCEPT !.j = j - 1]>> \o Tail(q)
  <2> DEFINE b == [ss EXCEPT ![j] = ss[j - 1], ![j - 1] = ss[j]]
             d == [c EXCEPT !.j = j - 1]
  <2>1. j \in 0 .. n - 1 /\ j - 1 \in 0 .. n - 1 /\ j \in l + 1 .. i /\ i < n /\ j - 1 # j
    BY <1>2, <1>3, <1>7
  <2>2. ss[j] \in Items /\ ss[j - 1] \in Items
    BY <1>1, <2>1 DEF Arrays
  <2>3. /\ b \in Arrays(n) /\ b[j] = ss[j - 1] /\ b[j - 1] = ss[j]
        /\ \A x \in 0 .. n - 1 : x # j /\ x # j - 1 => b[x] = ss[x]
    BY <1>1, <2>1, <2>2 DEF Arrays
  <2>4. d \in InsertFrames /\ d.f = "insert" /\ d.l = l /\ d.r = r /\ d.i = i /\ d.j = j - 1
    BY <1>1, <1>2, <2>1 DEF InsertFrames, l, r, i
  <2> HIDE DEF b, d
  <2>5. ss[j].key < ss[j - 1].key
    <3>1. ss[j].key \in Int /\ ss[j - 1].key \in Int
      BY <2>2, LessFacts
    <3>2. QED
      BY <1>7, <3>1
  <2>6. \A x \in l .. i : x # j /\ x # j - 1 => b[x] = ss[x]
    BY <1>2, <2>1, <2>3
  <2>7. Sinking(ss, l, i, j)
    BY <1>6, <1>7
  <2>8. Sinking(b, l, i, j - 1)
    BY <1>1, <1>2, <2>1, <2>3, <2>5, <2>6, <2>7, SinkGoesOn
  <2>9. Untouched(b, i + 1, n)
    <3>1. \A x \in i + 1 .. n - 1 : x \in 0 .. n - 1 /\ x # j /\ x # j - 1
      BY <1>2, <2>1
    <3>2. QED
      BY <1>6, <1>7, <2>3, <3>1 DEF Untouched
  <2>10. \A x \in 0 .. n - 1 : x < l => b[x] = ss[x]
    BY <1>2, <2>1, <2>3
  <2>11. d \in Frames /\ FitsArray(d, n)
    BY <1>2, <2>4 DEF Frames, FitsArray
  <2>12. Far(b, d, n)
    <3>1. i \in l + 1 .. r /\ j - 1 \in l .. i /\ j - 1 # i
      BY <1>2, <1>3, <2>1
    <3>2. QED
      BY <1>7, <2>4, <2>8, <2>9, <3>1 DEF Far
  <2>13. SortState(b, <<d>> \o Tail(q), SS!NotFound, n)
    BY <1>1, <2>3, <2>4, <2>10, <2>11, <2>12, SortGoes DEF l, r, c
  <2>14. QED
    BY <1>4, <1>7, <2>13 DEF b, d
<1>8. CASE /\ ~(i < r /\ j > l /\ ss[j - 1].key > ss[j].key)
           /\ i < r /\ ss' = ss
           /\ q' = <<InsertAt(c, i + 1, i + 1)>> \o Tail(q)
  <2> DEFINE d == InsertAt(c, i + 1, i + 1)
  <2>1. d \in InsertFrames /\ d.f = "insert" /\ d.l = l /\ d.r = r /\ d.i = i + 1 /\ d.j = i + 1
    <3>1. i + 1 \in Nat
      BY <1>2
    <3>2. QED
      <4> DEFINE x == i + 1
      <4>1. x \in Nat
        BY <3>1
      <4> HIDE DEF x
      <4>2. /\ InsertAt(c, x, x) \in InsertFrames /\ InsertAt(c, x, x).f = c.f
            /\ InsertAt(c, x, x).l = c.l /\ InsertAt(c, x, x).r = c.r
            /\ InsertAt(c, x, x).i = x /\ InsertAt(c, x, x).j = x
        BY <1>2, <4>1, InsertAtFacts
      <4>3. QED
        BY <1>1, <4>2 DEF x, l, r
  <2> HIDE DEF d
  <2>2. i < n /\ Sinking(ss, l, i, j) /\ Untouched(ss, i + 1, n)
    BY <1>2, <1>6, <1>8
  <2>3. j = l \/ ss[j - 1].key <= ss[j].key
    <3>1. CASE j > l
      <4>1. j \in 0 .. n - 1 /\ j - 1 \in 0 .. n - 1
        BY <1>2, <1>3, <2>2, <3>1
      <4>2. ss[j].key \in Int /\ ss[j - 1].key \in Int
        BY <1>1, <4>1, LessFacts DEF Arrays
      <4>3. QED
        BY <1>8, <3>1, <4>2
    <3>2. QED
      BY <1>2, <1>3, <3>1
  <2>4. Ordered(ss, l, i + 1)
    BY <1>1, <1>2, <1>3, <2>2, <2>3, SinkStops
  <2>5. d \in Frames /\ FitsArray(d, n)
    BY <1>2, <2>1 DEF Frames, FitsArray
  <2>6. Far(ss, d, n)
    <3>1. i + 1 \in l + 1 .. r /\ i + 1 \in l .. i + 1
      BY <1>2, <1>3, <1>8
    <3>2. QED
      BY <2>1, <2>2, <2>4, <3>1 DEF Far
  <2>7. SortState(ss, <<d>> \o Tail(q), SS!NotFound, n)
    BY <1>1, <2>1, <2>5, <2>6, SortGoes DEF l, r, c
  <2>8. QED
    BY <1>4, <1>8, <2>7 DEF d
<1>9. CASE i >= r /\ ss' = ss /\ q' = Tail(q)
  <2>1. i = r /\ ~(i < r)
    BY <1>2, <1>3, <1>9
  <2>2. Ordered(ss, l, r) /\ Untouched(ss, r, n)
    BY <1>3, <2>1
  <2>3. SortState(ss, Tail(q), SS!NotFound, n)
    BY <1>1, <2>2, SortReturns DEF l, r, c
  <2>4. QED
    BY <1>4, <1>9, <2>3
<1>10. QED
  BY <1>5, <1>7, <1>8, <1>9

LEMMA MergeStepKeeps ==
  ASSUME NEW n \in Nat, SortState(ss, ssCalls, ssFound, n), SS!MergeStep
  PROVE  SortState(ss', ssCalls', ssFound', n)
<1> DEFINE q == ssCalls
           c == q[1]
<1>1. /\ ss \in Arrays(n) /\ ssFound = SS!NotFound
      /\ Stacked(q, n) /\ LeftBehind(ss, q) /\ Far(ss, c, n)
      /\ SS!Call = c /\ c.f = "merge"
  BY SortingNow DEF SS!MergeStep
<1>2. /\ c \in MergeFrames /\ c.l \in Nat /\ c.m \in Nat /\ c.r \in Nat /\ c.i \in Nat /\ c.j \in Nat
      /\ c.out \in Seq(Items)
      /\ c.l < c.m /\ c.m < c.r /\ c.r <= n
  BY <1>1, StackedFacts, FrameFacts
<1>3. Merging(ss, c) /\ Untouched(ss, c.r, n)
  BY <1>1 DEF Far
<1>4. ssFound' = SS!NotFound
  BY <1>1 DEF SS!MergeStep
<1>5. \/ /\ c.i < c.m /\ (c.j < c.r => ss[c.i].key <= ss[c.j].key) /\ ss' = ss
         /\ q' = <<MergeLeftAt(c, c.i + 1, Append(c.out, ss[c.i]))>> \o Tail(q)
      \/ /\ ~(c.i < c.m /\ (c.j < c.r => ss[c.i].key <= ss[c.j].key)) /\ c.j < c.r /\ ss' = ss
         /\ q' = <<MergeRightAt(c, c.j + 1, Append(c.out, ss[c.j]))>> \o Tail(q)
      \/ /\ c.i = c.m /\ c.j = c.r /\ q' = Tail(q)
         /\ ss' = [x \in DOMAIN ss |-> IF x >= c.l /\ x < c.r THEN c.out[x - c.l + 1] ELSE ss[x]]
  BY <1>1 DEF SS!MergeStep, SS!TakesLeft, SS!Returns, SS!Goes, SS!Key, MergeLeftAt, MergeRightAt
<1> HIDE DEF c
<1>6. c.i \in c.l .. c.m /\ c.j \in c.m .. c.r
  BY <1>3 DEF Merging
<1>7. ASSUME NEW d, d \in MergeFrames, d.f = "merge", NEW p, Takes(ss, c, d, p)
      PROVE  SortState(ss, <<d>> \o Tail(q), SS!NotFound, n)
  <2>1. Merging(ss, d)
    BY <1>1, <1>2, <1>3, <1>7, MergeTakes
  <2>2. d.l = c.l /\ d.m = c.m /\ d.r = c.r
    BY <1>7 DEF Takes
  <2>3. d \in Frames /\ FitsArray(d, n)
    BY <1>2, <1>7, <2>2 DEF Frames, FitsArray
  <2>4. Far(ss, d, n)
    BY <1>3, <1>7, <2>1, <2>2 DEF Far
  <2>5. QED
    BY <1>1, <2>2, <2>3, <2>4, SortGoes DEF c
<1>8. CASE /\ c.i < c.m /\ (c.j < c.r => ss[c.i].key <= ss[c.j].key) /\ ss' = ss
           /\ q' = <<MergeLeftAt(c, c.i + 1, Append(c.out, ss[c.i]))>> \o Tail(q)
  <2> DEFINE d == MergeLeftAt(c, c.i + 1, Append(c.out, ss[c.i]))
  <2>1. c.i \in c.l .. c.r - 1 /\ c.i \in 0 .. n - 1
    BY <1>2, <1>6, <1>8
  <2>2. ss[c.i] \in Items
    BY <1>1, <2>1 DEF Arrays
  <2>3. Append(c.out, ss[c.i]) \in Seq(Items)
    BY <1>2, <2>2
  <2>4. /\ d \in MergeFrames /\ d.f = "merge" /\ d.l = c.l /\ d.m = c.m /\ d.r = c.r
        /\ d.i = c.i + 1 /\ d.j = c.j /\ d.out = Append(c.out, ss[c.i])
    <3>1. c.i + 1 \in Nat
      BY <1>2
    <3>2. QED
      <4> DEFINE x == c.i + 1
                 o == Append(c.out, ss[c.i])
      <4>1. x \in Nat /\ o \in Seq(Items)
        BY <2>3, <3>1
      <4> HIDE DEF x, o
      <4>2. /\ MergeLeftAt(c, x, o) \in MergeFrames /\ MergeLeftAt(c, x, o).f = c.f
            /\ MergeLeftAt(c, x, o).l = c.l /\ MergeLeftAt(c, x, o).m = c.m /\ MergeLeftAt(c, x, o).r = c.r
            /\ MergeLeftAt(c, x, o).i = x /\ MergeLeftAt(c, x, o).j = c.j /\ MergeLeftAt(c, x, o).out = o
        BY <1>2, <4>1, MergeLeftAtFacts
      <4>3. QED
        BY <1>1, <4>2 DEF x, o
  <2> HIDE DEF d
  <2>5. ASSUME NEW x \in c.l .. c.r - 1
        PROVE  /\ GivenOut(d, x) <=> GivenOut(c, x) \/ x = c.i
               /\ Held(d, x) => Held(c, x) /\ (x \in c.i + 1 .. c.m - 1 \/ x \in c.j .. c.r - 1)
    BY <1>2, <1>6, <1>8, <2>1, <2>4 DEF GivenOut, Held
  <2>6. ASSUME NEW x \in c.l .. c.r - 1, Held(d, x) PROVE Less(ss[c.i], ss[x])
    <3>1. x \in c.i + 1 .. c.m - 1 \/ x \in c.j .. c.r - 1
      BY <2>5, <2>6
    <3>2. c.i < c.m /\ (c.j < c.r => ss[c.i].key <= ss[c.j].key)
      BY <1>8
    <3>3. QED
      BY <1>1, <1>2, <1>3, <3>1, <3>2, TakesLeftLeast
  <2>7. d.i \in c.l .. c.m /\ d.j \in c.m .. c.r /\ d.i + d.j = c.i + c.j + 1
    <3>1. c.i + 1 \in c.l .. c.m
      BY <1>2, <1>6, <1>8
    <3>2. (c.i + 1) + c.j = c.i + c.j + 1
      BY <1>2
    <3>3. QED
      BY <1>6, <2>4, <3>1, <3>2
  <2>8. Held(c, c.i)
    BY <1>2, <1>8 DEF Held
  <2>9. Takes(ss, c, d, c.i)
    BY <2>1, <2>4, <2>5, <2>6, <2>7, <2>8 DEF Takes
  <2>10. QED
    BY <1>4, <1>7, <1>8, <2>4, <2>9 DEF d
<1>9. CASE /\ ~(c.i < c.m /\ (c.j < c.r => ss[c.i].key <= ss[c.j].key)) /\ c.j < c.r /\ ss' = ss
           /\ q' = <<MergeRightAt(c, c.j + 1, Append(c.out, ss[c.j]))>> \o Tail(q)
  <2> DEFINE d == MergeRightAt(c, c.j + 1, Append(c.out, ss[c.j]))
  <2>1. c.j \in c.l .. c.r - 1 /\ c.j \in 0 .. n - 1
    BY <1>2, <1>6, <1>9
  <2>2. ss[c.j] \in Items
    BY <1>1, <2>1 DEF Arrays
  <2>3. Append(c.out, ss[c.j]) \in Seq(Items)
    BY <1>2, <2>2
  <2>4. /\ d \in MergeFrames /\ d.f = "merge" /\ d.l = c.l /\ d.m = c.m /\ d.r = c.r
        /\ d.i = c.i /\ d.j = c.j + 1 /\ d.out = Append(c.out, ss[c.j])
    <3>1. c.j + 1 \in Nat
      BY <1>2
    <3>2. QED
      <4> DEFINE x == c.j + 1
                 o == Append(c.out, ss[c.j])
      <4>1. x \in Nat /\ o \in Seq(Items)
        BY <2>3, <3>1
      <4> HIDE DEF x, o
      <4>2. /\ MergeRightAt(c, x, o) \in MergeFrames /\ MergeRightAt(c, x, o).f = c.f
            /\ MergeRightAt(c, x, o).l = c.l /\ MergeRightAt(c, x, o).m = c.m /\ MergeRightAt(c, x, o).r = c.r
            /\ MergeRightAt(c, x, o).j = x /\ MergeRightAt(c, x, o).i = c.i /\ MergeRightAt(c, x, o).out = o
        BY <1>2, <4>1, MergeRightAtFacts
      <4>3. QED
        BY <1>1, <4>2 DEF x, o
  <2> HIDE DEF d
  <2>5. ASSUME NEW x \in c.l .. c.r - 1
        PROVE  /\ GivenOut(d, x) <=> GivenOut(c, x) \/ x = c.j
               /\ Held(d, x) => Held(c, x) /\ (x \in c.i .. c.m - 1 \/ x \in c.j + 1 .. c.r - 1)
    BY <1>2, <1>6, <1>9, <2>1, <2>4 DEF GivenOut, Held
  <2>6. c.i < c.m => ss[c.j].key < ss[c.i].key
    <3>1. CASE c.i < c.m
      <4>1. c.i \in 0 .. n - 1
        BY <1>2, <1>6, <3>1
      <4>2. ss[c.i].key \in Int /\ ss[c.j].key \in Int
        BY <1>1, <2>2, <4>1, LessFacts DEF Arrays
      <4>3. QED
        BY <1>9, <3>1, <4>2
    <3>2. QED
      BY <3>1
  <2>7. ASSUME NEW x \in c.l .. c.r - 1, Held(d, x) PROVE Less(ss[c.j], ss[x])
    <3>1. x \in c.i .. c.m - 1 \/ x \in c.j + 1 .. c.r - 1
      BY <2>5, <2>7
    <3>2. c.j < c.r
      BY <1>9
    <3>3. QED
      BY <1>1, <1>2, <1>3, <2>6, <3>1, <3>2, TakesRightLeast
  <2>8. d.i \in c.l .. c.m /\ d.j \in c.m .. c.r /\ d.i + d.j = c.i + c.j + 1
    <3>1. c.j + 1 \in c.m .. c.r
      BY <1>2, <1>6, <1>9
    <3>2. c.i + (c.j + 1) = c.i + c.j + 1
      BY <1>2
    <3>3. QED
      BY <1>6, <2>4, <3>1, <3>2
  <2>9. Held(c, c.j)
    BY <1>2, <1>9 DEF Held
  <2>10. Takes(ss, c, d, c.j)
    BY <2>1, <2>4, <2>5, <2>7, <2>8, <2>9 DEF Takes
  <2>11. QED
    BY <1>4, <1>7, <1>9, <2>4, <2>10 DEF d
<1>10. CASE /\ c.i = c.m /\ c.j = c.r /\ q' = Tail(q)
            /\ ss' = [x \in DOMAIN ss |-> IF x >= c.l /\ x < c.r THEN c.out[x - c.l + 1] ELSE ss[x]]
  <2> DEFINE b == [x \in DOMAIN ss |-> IF x >= c.l /\ x < c.r THEN c.out[x - c.l + 1] ELSE ss[x]]
  <2>1. DOMAIN ss = 0 .. n - 1 /\ \A x \in 0 .. n - 1 : ss[x] \in Items
    BY <1>1 DEF Arrays
  <2>2. /\ b = [x \in 0 .. n - 1 |-> b[x]]
        /\ \A x \in 0 .. n - 1 :
             b[x] = IF x >= c.l /\ x < c.r THEN c.out[x - c.l + 1] ELSE ss[x]
    BY <2>1
  <2> HIDE DEF b
  <2>3. \A x \in c.l .. c.r - 1 : b[x] = c.out[x - c.l + 1]
    BY <1>2, <2>2
  <2>4. \A x \in 0 .. n - 1 : x < c.l \/ x >= c.r => b[x] = ss[x]
    BY <1>2, <2>2
  <2>5. Ordered(b, c.l, c.r) /\ \A x \in c.l .. c.r - 1 : b[x] \in Items
    BY <1>1, <1>2, <1>3, <1>10, <2>3, MergeEnds
  <2>6. b \in Arrays(n)
    <3>1. ASSUME NEW x \in 0 .. n - 1 PROVE b[x] \in Items
      <4>1. x \in c.l .. c.r - 1 \/ x < c.l \/ x >= c.r
        BY <1>2
      <4>2. QED
        BY <2>1, <2>4, <2>5, <4>1
    <3>2. QED
      BY <2>2, <3>1 DEF Arrays
  <2>7. SortState(b, Tail(q), SS!NotFound, n)
    BY <1>1, <1>3, <2>4, <2>5, <2>6, SortReturns DEF c
  <2>8. QED
    BY <1>4, <1>10, <2>7 DEF b
<1>11. QED
  BY <1>5, <1>8, <1>9, <1>10

-----------------------------------------------------------------------------
(* The searches of the array the sort leaves. *)

SearchFrom(c, x) == [c EXCEPT !.low = x]
SearchUpTo(c, x) == [c EXCEPT !.high = x]

LEMMA SearchFrameFacts ==
  ASSUME NEW c \in SearchFrames, NEW x \in Nat
  PROVE  /\ c.f \in {"lower", "upper"} /\ c.key \in Keys /\ c.key \in Int
         /\ c.low \in Nat /\ c.high \in Nat
         /\ SearchFrom(c, x) \in SearchFrames /\ SearchFrom(c, x).f = c.f
         /\ SearchFrom(c, x).key = c.key /\ SearchFrom(c, x).low = x
         /\ SearchFrom(c, x).high = c.high
         /\ SearchUpTo(c, x) \in SearchFrames /\ SearchUpTo(c, x).f = c.f
         /\ SearchUpTo(c, x).key = c.key /\ SearchUpTo(c, x).low = c.low
         /\ SearchUpTo(c, x).high = x
<1>1. Keys \subseteq Int
  BY StructuresAssumption DEF SS!SortAssumption
<1>2. /\ c.f \in {"lower", "upper"} /\ c.key \in Keys /\ c.key \in Int
      /\ c.low \in Nat /\ c.high \in Nat
  BY <1>1 DEF SearchFrames
<1>3. /\ SearchFrom(c, x) \in SearchFrames /\ SearchFrom(c, x).f = c.f
      /\ SearchFrom(c, x).key = c.key /\ SearchFrom(c, x).low = x
      /\ SearchFrom(c, x).high = c.high
  BY DEF SearchFrames, SearchFrom
<1>4. /\ SearchUpTo(c, x) \in SearchFrames /\ SearchUpTo(c, x).f = c.f
      /\ SearchUpTo(c, x).key = c.key /\ SearchUpTo(c, x).low = c.low
      /\ SearchUpTo(c, x).high = x
  BY DEF SearchFrames, SearchUpTo
<1>5. QED
  BY <1>2, <1>3, <1>4

LEMMA BeforeDown ==
  ASSUME NEW n \in Nat, NEW a \in Arrays(n), Ordered(a, 0, n), NEW f, NEW key \in Keys,
         NEW x \in 0 .. n - 1, NEW y \in 0 .. n - 1, x <= y, Before(a[y], f, key)
  PROVE  Before(a[x], f, key)
<1>1. a[x] \in Items /\ a[y] \in Items /\ key \in Int
  BY StructuresAssumption DEF Arrays, SS!SortAssumption
<1>2. a[x].key \in Int /\ a[y].key \in Int
  BY <1>1, LessFacts
<1>3. CASE x = y
  BY <1>3
<1>4. CASE x < y
  <2>1. Less(a[x], a[y])
    BY <1>4 DEF Ordered
  <2>2. a[x].key <= a[y].key
    BY <1>2, <2>1 DEF Less
  <2>3. QED
    BY <1>1, <1>2, <2>2 DEF Before
<1>5. QED
  BY <1>3, <1>4

LEMMA SearchingNow ==
  ASSUME NEW n \in Nat, SortState(ss, ssCalls, ssFound, n),
         ssCalls # <<>>, SS!Call.f \in {"lower", "upper"}
  PROVE  /\ ss \in Arrays(n) /\ Ordered(ss, 0, n) /\ Delimits(ss, ssFound)
         /\ Searching(ss, ssCalls, n) /\ SS!Call = ssCalls[1] /\ ssCalls[1] \in SearchFrames
         /\ Tail(ssCalls) = <<>>
<1>1. ~Sorting(ss, ssCalls, n)
  <2>1. SUFFICES ASSUME Sorting(ss, ssCalls, n) PROVE FALSE
    OBVIOUS
  <2>2. ssCalls[1] \in Frames /\ Head(ssCalls) = ssCalls[1]
    BY <2>1, StackedFacts DEF Sorting
  <2>3. QED
    BY <2>2, FrameFacts DEF SS!Call
<1>2. ss \in Arrays(n) /\ Ordered(ss, 0, n) /\ Delimits(ss, ssFound) /\ Searching(ss, ssCalls, n)
  BY <1>1 DEF SortState
<1>3. ssCalls \in Seq(SearchFrames) /\ Len(ssCalls) = 1
  BY <1>2 DEF Searching
<1>4. Head(ssCalls) = ssCalls[1] /\ ssCalls[1] \in SearchFrames /\ Tail(ssCalls) = <<>>
  <2>1. ssCalls # <<>> /\ Head(ssCalls) = ssCalls[1] /\ ssCalls[1] \in SearchFrames
    BY <1>3
  <2>2. Tail(ssCalls) \in Seq(SearchFrames) /\ Len(Tail(ssCalls)) = 0
    BY <1>3, <2>1
  <2>3. Tail(ssCalls) = <<>>
    BY <2>2, EmptySeq
  <2>4. QED
    BY <2>1, <2>3
<1>5. QED
  BY <1>2, <1>4 DEF SS!Call

(* A call that leaves its bound between low and high. *)
LEMMA SearchGoes ==
  ASSUME NEW n \in Nat, NEW a \in Arrays(n), Ordered(a, 0, n), NEW g, Delimits(a, g),
         NEW d \in SearchFrames, NEW q, q = <<d>>,
         d.low <= d.high, d.high <= n,
         \A x \in 0 .. n - 1 : /\ x < d.low => Before(a[x], d.f, d.key)
                               /\ x >= d.high => ~Before(a[x], d.f, d.key)
  PROVE  SortState(a, q, g, n)
<1>1. q \in Seq(SearchFrames) /\ Len(q) = 1 /\ q[1] = d
  OBVIOUS
<1>2. Searching(a, q, n)
  BY <1>1 DEF Searching
<1>3. QED
  BY <1>2 DEF SortState

LEMMA BoundKeeps ==
  ASSUME NEW n \in Nat, SortState(ss, ssCalls, ssFound, n), SS!Size = n,
         NEW f \in {"lower", "upper"}, NEW key \in Keys, SS!Bound(f, key)
  PROVE  SortState(ss', ssCalls', ssFound', n)
<1> DEFINE d == SS!Search(f, key)
<1>1. ssCalls = <<>> /\ ssCalls' = <<d>> /\ ss' = ss /\ ssFound' = ssFound
  BY DEF SS!Bound
<1>2. d \in SearchFrames /\ d.f = f /\ d.key = key /\ d.low = 0 /\ d.high = n
  BY DEF SearchFrames, SS!Search
<1> HIDE DEF d
<1>3. ~Sorting(ss, ssCalls, n) /\ ~Searching(ss, ssCalls, n)
  BY <1>1 DEF Sorting, Stacked, Searching
<1>4. ss \in Arrays(n) /\ Ordered(ss, 0, n) /\ Delimits(ss, ssFound)
  BY <1>3 DEF SortState
<1>5. SortState(ss, ssCalls', ssFound, n)
  BY <1>1, <1>2, <1>4, SearchGoes
<1>6. QED
  BY <1>1, <1>5

LEMMA SearchStepKeeps ==
  ASSUME NEW n \in Nat, SortState(ss, ssCalls, ssFound, n), SS!SearchStep
  PROVE  SortState(ss', ssCalls', ssFound', n)
<1> DEFINE c == ssCalls[1]
           mid == c.low + (c.high - c.low) \div 2
<1>1. /\ ss \in Arrays(n) /\ Ordered(ss, 0, n) /\ Delimits(ss, ssFound)
      /\ Searching(ss, ssCalls, n) /\ SS!Call = c /\ c \in SearchFrames /\ Tail(ssCalls) = <<>>
  BY SearchingNow DEF SS!SearchStep
<1>2. /\ c.low < c.high /\ ss' = ss /\ ssFound' = ssFound
      /\ ssCalls' = <<IF Before(ss[mid], c.f, c.key)
                      THEN SearchFrom(c, mid + 1) ELSE SearchUpTo(c, mid)>> \o Tail(ssCalls)
  BY <1>1 DEF SS!SearchStep, SS!Goes, SS!Key, Before, SearchFrom, SearchUpTo
<1>3. /\ c.low <= c.high /\ c.high <= n /\ c.low \in Nat /\ c.high \in Nat /\ c.key \in Keys
      /\ \A x \in 0 .. n - 1 : /\ x < c.low => Before(ss[x], c.f, c.key)
                               /\ x >= c.high => ~Before(ss[x], c.f, c.key)
  BY <1>1, SearchFrameFacts DEF Searching
<1> HIDE DEF c
<1>4. mid \in Nat /\ c.low <= mid /\ mid < c.high
  <2> DEFINE lo == c.low
             hi == c.high
  <2>1. lo \in Nat /\ hi \in Nat /\ lo < hi
    BY <1>2, <1>3
  <2> HIDE DEF lo, hi
  <2>2. /\ lo + (hi - lo) \div 2 \in Nat /\ lo <= lo + (hi - lo) \div 2
        /\ lo + (hi - lo) \div 2 < hi
    BY <2>1
  <2>3. QED
    BY <2>2 DEF lo, hi
<1> HIDE DEF mid
<1>5. mid \in 0 .. n - 1 /\ mid + 1 \in Nat /\ mid + 1 <= c.high /\ mid <= n
  BY <1>3, <1>4
<1>6. CASE Before(ss[mid], c.f, c.key)
  <2> DEFINE z == mid + 1
             d == SearchFrom(c, z)
  <2>1. z \in Nat /\ z <= c.high
    BY <1>5
  <2>2. ASSUME NEW x \in 0 .. n - 1, x < z PROVE Before(ss[x], c.f, c.key)
    <3>1. x <= mid
      BY <1>4, <2>2
    <3>2. QED
      BY <1>1, <1>3, <1>5, <1>6, <3>1, BeforeDown
  <2> HIDE DEF z
  <2>3. /\ d \in SearchFrames /\ d.f = c.f /\ d.key = c.key /\ d.low = z /\ d.high = c.high
    BY <1>1, <2>1, SearchFrameFacts
  <2> HIDE DEF d
  <2>4. ssCalls' = <<d>>
    <3>1. ssCalls' = <<d>> \o <<>>
      BY <1>1, <1>2, <1>6 DEF d, z
    <3>2. <<d>> \o <<>> = <<d>>
      OBVIOUS
    <3>3. QED
      BY <3>1, <3>2
  <2>5. SortState(ss, ssCalls', ssFound, n)
    BY <1>1, <1>3, <2>1, <2>2, <2>3, <2>4, SearchGoes
  <2>6. QED
    BY <1>2, <2>5
<1>7. CASE ~Before(ss[mid], c.f, c.key)
  <2> DEFINE d == SearchUpTo(c, mid)
  <2>1. ASSUME NEW x \in 0 .. n - 1, x >= mid PROVE ~Before(ss[x], c.f, c.key)
    <3>1. mid <= x
      BY <1>4, <2>1
    <3>2. QED
      BY <1>1, <1>3, <1>5, <1>7, <3>1, BeforeDown
  <2>2. /\ d \in SearchFrames /\ d.f = c.f /\ d.key = c.key /\ d.low = c.low /\ d.high = mid
    BY <1>1, <1>4, SearchFrameFacts
  <2> HIDE DEF d
  <2>3. ssCalls' = <<d>>
    <3>1. ssCalls' = <<d>> \o <<>>
      BY <1>1, <1>2, <1>7 DEF d
    <3>2. <<d>> \o <<>> = <<d>>
      OBVIOUS
    <3>3. QED
      BY <3>1, <3>2
  <2>4. SortState(ss, ssCalls', ssFound, n)
    BY <1>1, <1>3, <1>4, <1>5, <2>1, <2>2, <2>3, SearchGoes
  <2>5. QED
    BY <1>2, <2>4
<1>8. QED
  BY <1>6, <1>7

LEMMA SearchEndsKeeps ==
  ASSUME NEW n \in Nat, SortState(ss, ssCalls, ssFound, n), SS!SearchEnds
  PROVE  SortState(ss', ssCalls', ssFound', n)
<1> DEFINE c == ssCalls[1]
           g == [f |-> c.f, key |-> c.key, at |-> c.low]
<1>1. /\ ss \in Arrays(n) /\ Ordered(ss, 0, n)
      /\ Searching(ss, ssCalls, n) /\ SS!Call = c /\ c \in SearchFrames /\ Tail(ssCalls) = <<>>
  BY SearchingNow DEF SS!SearchEnds
<1>2. c.low >= c.high /\ ss' = ss /\ ssFound' = g /\ ssCalls' = <<>>
  BY <1>1 DEF SS!SearchEnds, SS!Returns
<1>3. /\ c.low <= c.high /\ c.low \in Nat /\ c.high \in Nat
      /\ \A x \in 0 .. n - 1 : /\ x < c.low => Before(ss[x], c.f, c.key)
                               /\ x >= c.high => ~Before(ss[x], c.f, c.key)
  BY <1>1, SearchFrameFacts DEF Searching
<1>4. c.low = c.high
  BY <1>2, <1>3
<1>5. g.f = c.f /\ g.key = c.key /\ g.at = c.low
  OBVIOUS
<1> HIDE DEF c, g
<1>6. ASSUME NEW x \in 0 .. n - 1 PROVE (x < g.at) = Before(ss[x], g.f, g.key)
  <2>1. x < g.at => Before(ss[x], g.f, g.key)
    BY <1>3, <1>5
  <2>2. ~(x < g.at) => x >= c.high
    BY <1>3, <1>4, <1>5
  <2>3. ~(x < g.at) => ~Before(ss[x], g.f, g.key)
    BY <1>3, <1>5, <2>2
  <2>4. Before(ss[x], g.f, g.key) \in BOOLEAN /\ (x < g.at) \in BOOLEAN
    BY DEF Before
  <2>5. QED
    BY <2>1, <2>3, <2>4
<1>7. DOMAIN ss = 0 .. n - 1
  BY <1>1 DEF Arrays
<1>8. Delimits(ss, g)
  BY <1>6, <1>7 DEF Delimits
<1>9. QED
  BY <1>1, <1>2, <1>8 DEF SortState

-----------------------------------------------------------------------------
(* SortInv is inductive. *)

LEMMA SortStarts == SS!Init => SortInv
<1> SUFFICES ASSUME SS!Init PROVE SortInv
  OBVIOUS
<1>1. PICK n \in 0 .. MaxLen : \E keys \in [0 .. n - 1 -> Keys] :
        ss = [x \in 0 .. n - 1 |-> [key |-> keys[x], from |-> x]]
  BY DEF SS!Init
<1>2. n \in Nat
  BY StructuresAssumption DEF SS!SortAssumption
<1>3. ss \in Arrays(n) /\ \A x \in 0 .. n - 1 : ss[x].from = x
  BY <1>1, <1>2 DEF Arrays, Items
<1>4. SS!Size = n
  <2>1. (IF ss = <<>> THEN 0 ELSE Cardinality(DOMAIN ss)) = n
    BY <1>2, <1>3, SizeIs
  <2>2. QED
    BY <2>1, SortCardinality DEF SS!Size
<1>5. Untouched(ss, 0, n)
  BY <1>3 DEF Untouched
<1>6. ssFound = SS!NotFound /\ Delimits(ss, ssFound)
  BY DEF SS!Init, Delimits
<1>7. \/ n < 2 /\ ssCalls = <<>>
      \/ n >= 2 /\ \E c \in {SS!Insertion(0, n), SS!Sort(0, n)} : ssCalls = <<c>>
  BY <1>2, <1>4 DEF SS!Init
<1>8. CASE n < 2 /\ ssCalls = <<>>
  <2>1. Ordered(ss, 0, n)
    BY <1>2, <1>5, <1>8, OrderedOne
  <2>2. QED
    BY <1>2, <1>3, <1>4, <1>6, <1>8, <2>1 DEF SortInv, SortState
<1>9. CASE n >= 2 /\ \E c \in {SS!Insertion(0, n), SS!Sort(0, n)} : ssCalls = <<c>>
  <2>1. PICK c \in {SS!Insertion(0, n), SS!Sort(0, n)} : ssCalls = <<c>>
    BY <1>9
  <2>2. /\ c \in Frames /\ c.l = 0 /\ c.r = n /\ c.f \in {"insert", "sort"}
        /\ c.f = "insert" => c.i = 1 /\ c.j = 1
    BY <1>2, <2>1 DEF SS!Insertion, SS!Sort, Frames, InsertFrames, SortFrames
  <2>3. Ordered(ss, 0, 1)
    BY <1>2, <1>5, <1>9, OrderedOne
  <2>4. Untouched(ss, 1, n)
    BY <1>2, <1>5 DEF Untouched
  <2>5. Far(ss, c, n) /\ FitsArray(c, n)
    <3>1. 1 \in 0 + 1 .. n /\ 1 \in 0 .. 1 /\ 0 < n /\ n <= n
      BY <1>2, <1>9
    <3>2. QED
      BY <1>5, <2>2, <2>3, <2>4, <3>1 DEF Far, FitsArray
  <2>6. ssCalls \in Seq(Frames) /\ Len(ssCalls) = 1 /\ ssCalls[1] = c
    BY <2>1, <2>2
  <2>7. Stacked(ssCalls, n)
    BY <2>2, <2>5, <2>6 DEF Stacked, Serves2
  <2>8. LeftBehind(ss, ssCalls)
    BY <2>6 DEF LeftBehind
  <2>9. QED
    BY <1>2, <1>3, <1>4, <1>6, <2>5, <2>6, <2>7, <2>8 DEF SortInv, SortState, Sorting
<1>10. QED
  BY <1>7, <1>8, <1>9

LEMMA SortKeeps == SortInv /\ [SS!Next]_(SS!vars) => SortInv'
<1> SUFFICES ASSUME SortInv, [SS!Next]_(SS!vars) PROVE SortInv'
  OBVIOUS
<1> DEFINE n == SS!Size
<1>1. n \in Nat /\ SortState(ss, ssCalls, ssFound, n) /\ SS!Size = n
  BY DEF SortInv, SortState
<1> HIDE DEF n
<1>2. SortState(ss', ssCalls', ssFound', n)
  <2>1. CASE SS!SortRange
    BY <1>1, <2>1, SortRangeKeeps
  <2>2. CASE SS!InsertStep
    BY <1>1, <2>2, InsertStepKeeps
  <2>3. CASE SS!MergeStep
    BY <1>1, <2>3, MergeStepKeeps
  <2>4. CASE SS!SearchStep
    BY <1>1, <2>4, SearchStepKeeps
  <2>5. CASE SS!SearchEnds
    BY <1>1, <2>5, SearchEndsKeeps
  <2>6. ASSUME NEW key \in Keys, SS!Bound("lower", key) \/ SS!Bound("upper", key)
        PROVE  SortState(ss', ssCalls', ssFound', n)
    BY <1>1, <2>6, BoundKeeps
  <2>7. CASE UNCHANGED SS!vars
    BY <1>1, <2>7 DEF SS!vars
  <2>8. QED
    BY <2>1, <2>2, <2>3, <2>4, <2>5, <2>6, <2>7 DEF SS!Next
<1>3. SS!Size' = n
  <2>1. ss' \in Arrays(n)
    BY <1>2 DEF SortState
  <2>2. (IF ss' = <<>> THEN 0 ELSE Cardinality(DOMAIN ss')) = n
    BY <1>1, <2>1, SizeIs
  <2>3. QED
    BY <2>2, SortCardinality DEF SS!Size
<1>4. QED
  BY <1>2, <1>3 DEF SortInv

LEMMA SortSays == SortInv => SortsStably /\ BoundsDelimit
<1> SUFFICES ASSUME SortInv PROVE SortsStably /\ BoundsDelimit
  OBVIOUS
<1> DEFINE n == SS!Size
<1>1. n \in Nat /\ ss \in Arrays(n) /\ SortState(ss, ssCalls, ssFound, n)
  BY DEF SortInv, SortState
<1> HIDE DEF n
<1>2. DOMAIN ss = 0 .. n - 1
  BY <1>1 DEF Arrays
<1>3. BoundsDelimit
  <2>1. Delimits(ss, ssFound)
    <3>1. ssFound = SS!NotFound => Delimits(ss, ssFound)
      BY DEF Delimits
    <3>2. QED
      BY <1>1, <3>1 DEF SortState
  <2>2. QED
    BY <2>1 DEF BoundsDelimit, SS!BoundsDelimit, Delimits, Before, SS!Key
<1>4. SortsStably
  <2>1. SUFFICES ASSUME ssCalls = <<>> \/ SS!Call.f \in {"lower", "upper"}
                 PROVE  /\ {ss[x].from : x \in DOMAIN ss} = DOMAIN ss
                        /\ \A x, y \in DOMAIN ss : x < y => Less(ss[x], ss[y])
    BY DEF SortsStably, SS!SortsStably, SS!Key, Less
  <2>2. Ordered(ss, 0, n)
    <3>1. CASE ssCalls = <<>>
      BY <1>1, <3>1 DEF SortState, Sorting, Stacked, Searching
    <3>2. CASE ssCalls # <<>>
      BY <1>1, <2>1, <3>2, SearchingNow
    <3>3. QED
      BY <3>1, <3>2
  <2>3. \A x \in 0 .. n - 1 : ss[x].from \in 0 .. n - 1
    BY <2>2 DEF Ordered, Stays
  <2>4. \A z \in 0 .. n - 1 : \E x \in 0 .. n - 1 : ss[x].from = z
    BY <2>2 DEF Ordered, Stays
  <2>5. {ss[x].from : x \in DOMAIN ss} = DOMAIN ss
    BY <1>2, <2>3, <2>4
  <2>6. \A x, y \in DOMAIN ss : x < y => Less(ss[x], ss[y])
    BY <1>2, <2>2 DEF Ordered
  <2>7. QED
    BY <2>5, <2>6
<1>5. QED
  BY <1>3, <1>4

LEMMA SortingHolds == StructuresSpec => []SortInv
<1>1. StructuresInit => SortInv
  BY SortStarts DEF StructuresInit
<1>2. SortInv /\ [StructuresNext]_allVars => SortInv'
  <2>1. [StructuresNext]_allVars => [SS!Next]_(SS!vars)
    BY DEF StructuresNext, Only, allVars, ssVars, SS!vars
  <2>2. QED
    BY <2>1, SortKeeps
<1>3. QED
  BY <1>1, <1>2, PTL DEF StructuresSpec

(* Once algo_sort has returned, the array holds the elements it was given, *)
(* in order and equal ones as they came, for an array of any length, with  *)
(* or without a temp_buffer, and wherever insertion takes over.            *)
THEOREM SortIsStable == StructuresSpec => []SortsStably
<1>1. StructuresSpec => []SortInv
  BY SortingHolds
<1>2. SortInv => SortsStably
  BY SortSays
<1>3. QED
  BY <1>1, <1>2, PTL

(* A binary search of what algo_sort has left answers where the elements   *)
(* before the key, or up to it, end.                                       *)
THEOREM SearchesFindBounds == StructuresSpec => []BoundsDelimit
<1>1. StructuresSpec => []SortInv
  BY SortingHolds
<1>2. SortInv => BoundsDelimit
  BY SortSays
<1>3. QED
  BY <1>1, <1>2, PTL

-----------------------------------------------------------------------------
(* Range: what it has left is an arithmetic progression, which every call  *)
(* shortens at its front.                                                  *)

RgSize(g) == IF g.step > 0 THEN g.step ELSE -g.step
RgLeft(g) == IF g.step > 0 THEN g.end - g.current ELSE g.current - g.end
RgCount(g) == IF RgLeft(g) <= 0 THEN 0 ELSE ((RgLeft(g) - 1) \div RgSize(g)) + 1
RgAt(g, k) == IF g.step > 0 THEN g.current + RgSize(g) * k ELSE g.current - RgSize(g) * k
RgFrom(g, n) == {RgAt(g, k) : k \in n .. RgCount(g) - 1}

RgValues(g) ==
  {x \in RG!Isize :
     /\ IF g.step > 0 THEN g.current <= x /\ x < g.end ELSE g.current >= x /\ x > g.end
     /\ (x - g.current) % RgSize(g) = 0}

RangeOk(g) ==
  /\ g \in [current : RG!Isize, end : RG!Isize, step : RG!Isize]
  /\ g.step # 0 /\ g.step # RG!IsizeMin

LEMMA RangeNumbers ==
  /\ RangeMax \in Nat /\ RangeMax > 0
  /\ RG!IsizeMin = -RangeMax - 1 /\ RG!Isize = -RangeMax - 1 .. RangeMax
  /\ RG!UsizeSize = 2 * (RangeMax + 1)
BY StructuresAssumption DEF RG!RangeAssumption, RG!IsizeMin, RG!Isize, RG!UsizeSize

LEMMA RangeOkFacts ==
  ASSUME NEW g, RangeOk(g)
  PROVE  /\ g.current \in -RangeMax - 1 .. RangeMax /\ g.end \in -RangeMax - 1 .. RangeMax
         /\ g.current \in Int /\ g.end \in Int /\ g.step \in Int
         /\ RgSize(g) \in Nat /\ RgSize(g) >= 1 /\ RgSize(g) <= RangeMax
         /\ RgLeft(g) \in Int /\ RgLeft(g) <= 2 * RangeMax + 1
         /\ RgCount(g) \in Nat
<1>1. /\ g.current \in -RangeMax - 1 .. RangeMax /\ g.end \in -RangeMax - 1 .. RangeMax
      /\ g.step \in -RangeMax .. RangeMax /\ g.step # 0 /\ RangeMax \in Nat
  BY RangeNumbers DEF RangeOk
<1>2. RgSize(g) \in Nat /\ RgSize(g) >= 1 /\ RgSize(g) <= RangeMax
  BY <1>1 DEF RgSize
<1>3. RgLeft(g) \in Int /\ RgLeft(g) <= 2 * RangeMax + 1
  BY <1>1 DEF RgLeft
<1>4. RgCount(g) \in Nat
  <2> DEFINE D == RgLeft(g) - 1
             a == RgSize(g)
  <2>1. a \in Nat /\ a > 0 /\ (~(RgLeft(g) <= 0) => D \in Nat)
    BY <1>2, <1>3
  <2> HIDE DEF D, a
  <2>2. ~(RgLeft(g) <= 0) => D \div a \in Nat
    BY <2>1, DivBounds
  <2>3. QED
    BY <2>2 DEF D, a, RgCount
<1>5. QED
  BY <1>1, <1>2, <1>3, <1>4

(* How many steps go before the end. *)
LEMMA CountBelow ==
  ASSUME NEW D \in Nat, D >= 1, NEW a \in Nat, a >= 1, NEW k \in Nat
  PROVE  a * k < D <=> k < ((D - 1) \div a) + 1
<1> DEFINE Q == (D - 1) \div a
<1>1. D - 1 \in Nat /\ a > 0
  OBVIOUS
<1>2. Q \in Nat /\ a * Q <= D - 1 /\ D - 1 < a * Q + a
  BY <1>1, DivBounds
<1> HIDE DEF Q
<1>3. a * k \in Nat /\ a * Q \in Nat /\ a * (Q + 1) = a * Q + a
  BY <1>2
<1>4. CASE k <= Q
  <2>1. a * k <= a * Q
    BY <1>2, <1>4, TimesOver
  <2>2. QED
    BY <1>2, <1>3, <1>4, <2>1 DEF Q
<1>5. CASE Q + 1 <= k
  <2>1. a * (Q + 1) <= a * k
    BY <1>2, <1>5, TimesOver
  <2> DEFINE x == a * k
             y == a * Q
  <2>2. x \in Nat /\ y \in Nat /\ y + a <= x /\ D - 1 < y + a
    BY <1>2, <1>3, <2>1
  <2> HIDE DEF x, y
  <2>3. ~(x < D)
    BY <2>2
  <2>4. ~(k < Q + 1)
    BY <1>2, <1>5
  <2>5. QED
    BY <2>3, <2>4 DEF x, Q
<1>6. QED
  BY <1>2, <1>4, <1>5

LEMMA CountsBelow ==
  ASSUME NEW g, RangeOk(g), NEW k \in Nat
  PROVE  k < RgCount(g) <=> RgSize(g) * k < RgLeft(g)
<1> DEFINE D == RgLeft(g)
           a == RgSize(g)
<1>1. D \in Int /\ a \in Nat /\ a >= 1 /\ a * k \in Nat
  BY RangeOkFacts
<1> HIDE DEF D, a
<1>2. CASE D <= 0
  <2>1. RgCount(g) = 0
    BY <1>2 DEF RgCount, D
  <2>2. ~(a * k < D)
    BY <1>1, <1>2
  <2>3. QED
    BY <2>1, <2>2 DEF D, a
<1>3. CASE D >= 1
  <2>1. D \in Nat /\ ~(D <= 0)
    BY <1>1, <1>3
  <2>2. a * k < D <=> k < ((D - 1) \div a) + 1
    BY <1>1, <1>3, <2>1, CountBelow
  <2>3. QED
    BY <2>1, <2>2 DEF RgCount, D, a
<1>4. QED
  BY <1>1, <1>2, <1>3

(* A number is a multiple of a when a leaves nothing of it. *)
LEMMA ModTimes ==
  ASSUME NEW x \in Int, NEW a \in Nat, a > 0
  PROVE  x % a = 0 <=> \E k \in Int : x = a * k
<1>1. x \div a \in Int /\ x % a = x - a * (x \div a)
  OBVIOUS
<1>2. x % a \in 0 .. a - 1
  OBVIOUS
<1> DEFINE q == x \div a
<1>3. a * q \in Int
  BY <1>1
<1>4. ASSUME x % a = 0 PROVE \E k \in Int : x = a * k
  <2>1. x = a * q
    BY <1>1, <1>3, <1>4
  <2>2. QED
    BY <1>1, <2>1
<1>5. ASSUME NEW k \in Int, x = a * k PROVE x % a = 0
  <2> HIDE DEF q
  <2>1. q \in Int /\ k - q \in Int /\ a * (k - q) = a * k - a * q
    BY <1>1 DEF q
  <2>2. x % a = a * (k - q)
    BY <1>1, <1>5, <2>1 DEF q
  <2>3. CASE k - q >= 1
    <3>1. a * 1 <= a * (k - q)
      <4>1. k - q \in Nat /\ 1 \in Nat
        BY <2>1, <2>3
      <4> DEFINE y == k - q
      <4>2. y \in Nat /\ 1 <= y
        BY <2>3, <4>1
      <4> HIDE DEF y
      <4>3. a * 1 <= a * y
        BY <4>2, TimesOver
      <4>4. QED
        BY <4>3 DEF y
    <3>2. QED
      BY <1>2, <2>2, <3>1
  <2>4. CASE k - q <= -1
    <3>1. a * (k - q) < 0
      <4> DEFINE y == q - k
      <4>1. y \in Nat /\ 1 <= y /\ k - q = -y
        BY <2>1, <2>4, <1>1 DEF q
      <4> HIDE DEF y
      <4>2. a * 1 <= a * y
        BY <4>1, TimesOver
      <4>3. a * (-y) = -(a * y) /\ a * y \in Nat
        BY <4>1, SignedProducts
      <4>4. QED
        BY <4>1, <4>2, <4>3
    <3>2. QED
      BY <1>2, <2>2, <3>1
  <2>5. CASE k - q = 0
    BY <2>2, <2>5
  <2>6. QED
    BY <2>1, <2>3, <2>4, <2>5
<1>6. QED
  BY <1>4, <1>5

LEMMA Multiples ==
  ASSUME NEW d \in Nat, NEW a \in Nat, a > 0
  PROVE  /\ d % a = 0 <=> \E k \in Nat : d = a * k
         /\ (-d) % a = 0 <=> \E k \in Nat : d = a * k
<1>1. ASSUME NEW k \in Int, d = a * k PROVE k \in Nat
  <2>1. CASE k <= -1
    <3> DEFINE y == -k
    <3>1. y \in Nat /\ 1 \in Nat /\ 1 <= y /\ k = -y
      BY <2>1, <1>1
    <3> HIDE DEF y
    <3>2. a * 1 <= a * y /\ a * (-y) = -(a * y) /\ a * y \in Nat
      BY <3>1, TimesOver, SignedProducts
    <3>3. QED
      BY <1>1, <3>1, <3>2
  <2>2. QED
    BY <1>1, <2>1
<1>2. d % a = 0 <=> \E k \in Int : d = a * k
  BY ModTimes
<1>3. (-d) % a = 0 <=> \E k \in Int : -d = a * k
  <2>1. -d \in Int
    OBVIOUS
  <2>2. QED
    BY <2>1, ModTimes
<1>4. ASSUME NEW k \in Int PROVE -d = a * k <=> d = a * (-k)
  <2>1. a * (-k) = -(a * k) /\ a * k \in Int
    BY SignedProducts
  <2>2. QED
    BY <2>1
<1>5. (\E k \in Int : -d = a * k) <=> \E k \in Int : d = a * k
  <2>1. ASSUME NEW k \in Int, -d = a * k PROVE \E j \in Int : d = a * j
    <3>1. -k \in Int /\ d = a * (-k)
      BY <1>4, <2>1
    <3>2. QED
      BY <3>1
  <2>2. ASSUME NEW k \in Int, d = a * k PROVE \E j \in Int : -d = a * j
    <3>1. -k \in Int /\ -(-k) = k
      OBVIOUS
    <3>2. -d = a * (-k)
      BY <1>4, <2>2, <3>1
    <3>3. QED
      BY <3>1, <3>2
  <2>3. QED
    BY <2>1, <2>2
<1>6. (\E k \in Int : d = a * k) <=> \E k \in Nat : d = a * k
  BY <1>1
<1>7. QED
  BY <1>2, <1>3, <1>5, <1>6

(* The terms of the progression. *)
LEMMA AtFacts ==
  ASSUME NEW g, RangeOk(g), NEW j \in Nat, NEW k \in Nat, j < k
  PROVE  /\ RgAt(g, j) \in Int /\ RgAt(g, k) \in Int /\ RgAt(g, j) # RgAt(g, k)
         /\ IF g.step > 0 THEN RgAt(g, j) < RgAt(g, k) ELSE RgAt(g, j) > RgAt(g, k)
<1> DEFINE a == RgSize(g)
           c == g.current
           x == a * j
           y == a * k
<1>1. a \in Nat /\ a >= 1 /\ c \in Int
  BY RangeOkFacts
<1> HIDE DEF a, c
<1>2. a * (j + 1) = a * j + a
  BY <1>1
<1>3. j + 1 \in Nat /\ j + 1 <= k
  OBVIOUS
<1>4. a * (j + 1) <= a * k
  BY <1>1, <1>3, TimesOver
<1>5. x \in Nat /\ y \in Nat /\ x + a <= y
  BY <1>1, <1>2, <1>4
<1>6. /\ RgAt(g, j) = IF g.step > 0 THEN c + x ELSE c - x
      /\ RgAt(g, k) = IF g.step > 0 THEN c + y ELSE c - y
  BY DEF RgAt, a, c
<1> HIDE DEF x, y
<1>7. QED
  BY <1>1, <1>5, <1>6

LEMMA AtFirst ==
  ASSUME NEW g, RangeOk(g)
  PROVE  RgAt(g, 0) = g.current
<1>1. RgSize(g) \in Nat /\ g.current \in Int
  BY RangeOkFacts
<1>2. RgSize(g) * 0 = 0
  BY <1>1
<1>3. QED
  BY <1>1, <1>2 DEF RgAt

(* A term lies before the end when its place does. *)
RgInside(g, x) == IF g.step > 0 THEN g.current <= x /\ x < g.end ELSE g.current >= x /\ x > g.end

LEMMA AtInside ==
  ASSUME NEW g, RangeOk(g), NEW k \in Nat
  PROVE  /\ RgAt(g, k) \in Int
         /\ k < RgCount(g) <=> RgInside(g, RgAt(g, k))
         /\ k < RgCount(g) => RgAt(g, k) \in RG!Isize
<1> DEFINE a == RgSize(g)
           c == g.current
           e == g.end
           x == a * k
           M == RangeMax
<1>1. a \in Nat /\ a >= 1 /\ c \in -M - 1 .. M /\ e \in -M - 1 .. M /\ M \in Nat
  BY RangeOkFacts, RangeNumbers
<1>2. k < RgCount(g) <=> x < RgLeft(g)
  BY CountsBelow
<1>3. RgLeft(g) = IF g.step > 0 THEN e - c ELSE c - e
  BY DEF RgLeft
<1>4. RgAt(g, k) = IF g.step > 0 THEN c + x ELSE c - x
  BY DEF RgAt
<1>5. RgInside(g, RgAt(g, k)) <=>
        IF g.step > 0 THEN c <= RgAt(g, k) /\ RgAt(g, k) < e ELSE c >= RgAt(g, k) /\ RgAt(g, k) > e
  BY DEF RgInside
<1>6. x \in Nat
  BY <1>1
<1>7. RG!Isize = -M - 1 .. M
  BY RangeNumbers
<1> HIDE DEF a, c, e, x, M
<1>8. QED
  BY <1>1, <1>2, <1>3, <1>4, <1>5, <1>6, <1>7

LEMMA ValuesAre ==
  ASSUME NEW g, RangeOk(g)
  PROVE  RgValues(g) = RgFrom(g, 0)
<1> DEFINE a == RgSize(g)
           c == g.current
<1>1. a \in Nat /\ a > 0 /\ c \in Int /\ RgCount(g) \in Nat
  BY RangeOkFacts
<1>2. ASSUME NEW x \in RgValues(g) PROVE x \in RgFrom(g, 0)
  <2>1. x \in Int /\ RgInside(g, x) /\ (x - c) % a = 0
    BY <1>2, RangeNumbers DEF RgValues, RgInside
  <2>2. \E k \in Nat : RgAt(g, k) = x
    <3>1. CASE g.step > 0
      <4> DEFINE d == x - c
      <4>1. d \in Nat /\ d % a = 0 /\ x = c + d
        BY <1>1, <2>1, <3>1 DEF RgInside
      <4> HIDE DEF d
      <4>2. PICK k \in Nat : d = a * k
        BY <1>1, <4>1, Multiples
      <4>3. RgAt(g, k) = c + a * k
        BY <3>1 DEF RgAt
      <4>4. QED
        BY <4>1, <4>2, <4>3
    <3>2. CASE ~(g.step > 0)
      <4> DEFINE d == c - x
      <4>1. d \in Nat /\ x = c - d /\ x - c = -d
        BY <1>1, <2>1, <3>2 DEF RgInside
      <4>2. (-d) % a = 0
        BY <2>1, <4>1
      <4> HIDE DEF d
      <4>3. PICK k \in Nat : d = a * k
        BY <1>1, <4>1, <4>2, Multiples
      <4>4. RgAt(g, k) = c - a * k
        BY <3>2 DEF RgAt
      <4>5. QED
        BY <4>1, <4>3, <4>4
    <3>3. QED
      BY <3>1, <3>2
  <2>3. PICK k \in Nat : RgAt(g, k) = x
    BY <2>2
  <2>4. k < RgCount(g)
    BY <2>1, <2>3, AtInside
  <2>5. k \in 0 .. RgCount(g) - 1
    BY <1>1, <2>4
  <2>6. QED
    BY <2>3, <2>5 DEF RgFrom
<1>3. ASSUME NEW k \in 0 .. RgCount(g) - 1 PROVE RgAt(g, k) \in RgValues(g)
  <2>1. k \in Nat /\ k < RgCount(g)
    BY <1>1
  <2>2. RgAt(g, k) \in RG!Isize /\ RgInside(g, RgAt(g, k))
    BY <2>1, AtInside
  <2>3. (RgAt(g, k) - c) % a = 0
    <3> DEFINE d == a * k
    <3>1. d \in Nat /\ \E j \in Nat : d = a * j
      BY <1>1, <2>1
    <3>2. RgAt(g, k) = IF g.step > 0 THEN c + d ELSE c - d
      BY DEF RgAt
    <3> HIDE DEF d, a, c
    <3>3. d % a = 0 /\ (-d) % a = 0
      BY <1>1, <3>1, Multiples
    <3>4. RgAt(g, k) - c = d \/ RgAt(g, k) - c = -d
      BY <1>1, <3>1, <3>2
    <3>5. QED
      BY <3>3, <3>4
  <2>4. QED
    BY <2>2, <2>3 DEF RgValues, RgInside
<1>4. RgFrom(g, 0) \subseteq RgValues(g)
  BY <1>3 DEF RgFrom
<1>5. QED
  BY <1>2, <1>4

(* As many terms as places. *)
RgUpTo(g, m) == {RgAt(g, k) : k \in 0 .. m - 1}

LEMMA CountUpTo ==
  ASSUME NEW g, RangeOk(g), NEW m \in Nat
  PROVE  Cardinality(RgUpTo(g, m)) = m
<1> DEFINE f == [i \in 1 .. m |-> RgAt(g, i - 1)]
           S == RgUpTo(g, m)
<1>1. f \in [1 .. m -> S]
  <2>1. \A i \in 1 .. m : i - 1 \in 0 .. m - 1
    OBVIOUS
  <2>2. QED
    BY <2>1 DEF RgUpTo
<1>2. ASSUME NEW i \in 1 .. m, NEW j \in 1 .. m, f[i] = f[j] PROVE i = j
  <2>1. RgAt(g, i - 1) = RgAt(g, j - 1)
    BY <1>2
  <2>2. i - 1 \in Nat /\ j - 1 \in Nat
    OBVIOUS
  <2>3. ~(i - 1 < j - 1)
    BY <2>1, <2>2, AtFacts
  <2>4. ~(j - 1 < i - 1)
    BY <2>1, <2>2, AtFacts
  <2>5. QED
    BY <2>3, <2>4
<1>3. ASSUME NEW x \in S PROVE \E i \in 1 .. m : f[i] = x
  <2>1. PICK k \in 0 .. m - 1 : x = RgAt(g, k)
    BY <1>3 DEF RgUpTo
  <2>2. k + 1 \in 1 .. m /\ (k + 1) - 1 = k
    BY <2>1
  <2>3. f[k + 1] = x
    BY <2>1, <2>2
  <2>4. QED
    BY <2>2, <2>3
<1> HIDE DEF f, S
<1>4. f \in Bijection(1 .. m, S)
  BY <1>1, <1>2, <1>3 DEF Bijection, Injection, Surjection, IsInjective
<1>5. ExistsBijection(1 .. m, S)
  BY <1>4 DEF ExistsBijection
<1>6. QED
  BY <1>5, FS_CountingElements DEF S

LEMMA CountValues ==
  ASSUME NEW g, RangeOk(g)
  PROVE  Cardinality(RgValues(g)) = RgCount(g)
<1>1. RgCount(g) \in Nat
  BY RangeOkFacts
<1>2. RgValues(g) = RgUpTo(g, RgCount(g))
  BY ValuesAre DEF RgFrom, RgUpTo
<1>3. QED
  BY <1>1, <1>2, CountUpTo

(* What lies behind a term, and what lies before it. *)
RgAfter(g, x) == {y \in RgValues(g) : IF g.step > 0 THEN y > x ELSE y < x}

LEMMA AfterTerm ==
  ASSUME NEW g, RangeOk(g), NEW j \in 0 .. RgCount(g) - 1
  PROVE  /\ RgAfter(g, RgAt(g, j)) = RgFrom(g, j + 1)
         /\ RgValues(g) \ (RgAfter(g, RgAt(g, j)) \cup {RgAt(g, j)}) = RgUpTo(g, j)
<1>1. RgCount(g) \in Nat /\ j \in Nat /\ j < RgCount(g)
  BY RangeOkFacts
<1>2. RgValues(g) = RgFrom(g, 0)
  BY ValuesAre
<1> DEFINE Past(y, x) == IF g.step > 0 THEN y > x ELSE y < x
<1>3. ASSUME NEW k \in Nat PROVE Past(RgAt(g, k), RgAt(g, j)) <=> k > j
  <2>1. CASE k < j
    BY <1>1, <2>1, AtFacts
  <2>2. CASE k > j
    BY <1>1, <2>2, AtFacts
  <2>3. CASE k = j
    <3>1. RgAt(g, j) \in Int
      BY <1>1, AtInside
    <3>2. QED
      BY <2>3, <3>1
  <2>4. QED
    BY <1>1, <2>1, <2>2, <2>3
<1>4. ASSUME NEW k \in Nat, RgAt(g, k) = RgAt(g, j) PROVE k = j
  <2>1. ~(k < j)
    BY <1>1, <1>4, AtFacts
  <2>2. ~(j < k)
    BY <1>1, <1>4, AtFacts
  <2>3. QED
    BY <1>1, <2>1, <2>2
<1>5. RgAfter(g, RgAt(g, j)) = {y \in RgFrom(g, 0) : Past(y, RgAt(g, j))}
  BY <1>2 DEF RgAfter
<1> HIDE DEF Past
<1>6. RgAfter(g, RgAt(g, j)) = RgFrom(g, j + 1)
  <2>1. ASSUME NEW y \in RgAfter(g, RgAt(g, j)) PROVE y \in RgFrom(g, j + 1)
    <3>1. PICK k \in 0 .. RgCount(g) - 1 : y = RgAt(g, k)
      BY <1>5, <2>1 DEF RgFrom
    <3>2. k > j
      BY <1>3, <1>5, <2>1, <3>1
    <3>3. k \in j + 1 .. RgCount(g) - 1
      BY <1>1, <3>2
    <3>4. QED
      BY <3>1, <3>3 DEF RgFrom
  <2>2. ASSUME NEW k \in j + 1 .. RgCount(g) - 1 PROVE RgAt(g, k) \in RgAfter(g, RgAt(g, j))
    <3>1. k \in Nat /\ k > j /\ k \in 0 .. RgCount(g) - 1
      BY <1>1
    <3>2. Past(RgAt(g, k), RgAt(g, j)) /\ RgAt(g, k) \in RgFrom(g, 0)
      BY <1>3, <3>1 DEF RgFrom
    <3>3. QED
      BY <1>5, <3>2
  <2>3. RgFrom(g, j + 1) \subseteq RgAfter(g, RgAt(g, j))
    BY <2>2 DEF RgFrom
  <2>4. QED
    BY <2>1, <2>3
<1> DEFINE B == RgValues(g) \ (RgAfter(g, RgAt(g, j)) \cup {RgAt(g, j)})
<1>7. ASSUME NEW y \in B PROVE y \in RgUpTo(g, j)
  <2>1. PICK k \in 0 .. RgCount(g) - 1 : y = RgAt(g, k)
    BY <1>2, <1>7 DEF RgFrom
  <2>2. ~(k > j) /\ k # j
    <3>1. k # j
      BY <1>7, <2>1
    <3>2. y \in RgFrom(g, 0) /\ y \notin RgAfter(g, RgAt(g, j))
      BY <1>2, <1>7
    <3>3. ~Past(y, RgAt(g, j))
      BY <1>5, <3>2
    <3>4. QED
      BY <1>3, <2>1, <3>1, <3>3
  <2>3. k \in 0 .. j - 1
    BY <1>1, <2>2
  <2>4. QED
    BY <2>1, <2>3 DEF RgUpTo
<1>8. ASSUME NEW k \in 0 .. j - 1 PROVE RgAt(g, k) \in B
  <2>1. k \in Nat /\ k # j /\ ~(k > j) /\ k \in 0 .. RgCount(g) - 1
    BY <1>1
  <2>2. RgAt(g, k) \in RgFrom(g, 0)
    BY <2>1 DEF RgFrom
  <2>3. RgAt(g, k) \notin RgAfter(g, RgAt(g, j))
    BY <1>3, <1>5, <2>1
  <2>4. RgAt(g, k) # RgAt(g, j)
    BY <1>4, <2>1
  <2>5. QED
    BY <1>2, <2>2, <2>3, <2>4
<1>9. B = RgUpTo(g, j)
  <2>1. RgUpTo(g, j) \subseteq B
    BY <1>8 DEF RgUpTo
  <2>2. QED
    BY <1>7, <2>1
<1>10. QED
  BY <1>6, <1>9

(* What n calls of next leave: the terms with n others before them. *)
LEMMA LeftByCalls ==
  ASSUME NEW g, RangeOk(g), NEW n \in Nat
  PROVE  RgFrom(g, n) =
           {x \in RgValues(g) : Cardinality(RgValues(g) \ (RgAfter(g, x) \cup {x})) >= n}
<1> DEFINE Ahead(x) == RgValues(g) \ (RgAfter(g, x) \cup {x})
<1>1. RgCount(g) \in Nat /\ RgValues(g) = RgFrom(g, 0)
  BY RangeOkFacts, ValuesAre
<1>2. ASSUME NEW k \in 0 .. RgCount(g) - 1
      PROVE Cardinality(Ahead(RgAt(g, k))) = k
  <2>1. Ahead(RgAt(g, k)) = RgUpTo(g, k)
    BY AfterTerm
  <2>2. k \in Nat
    BY <1>1
  <2>3. QED
    BY <2>1, <2>2, CountUpTo
<1> HIDE DEF Ahead
<1>3. ASSUME NEW k \in n .. RgCount(g) - 1
      PROVE RgAt(g, k) \in RgValues(g) /\ Cardinality(Ahead(RgAt(g, k))) >= n
  <2>1. k \in 0 .. RgCount(g) - 1 /\ k >= n
    BY <1>1
  <2>2. QED
    BY <1>1, <1>2, <2>1 DEF RgFrom
<1>4. ASSUME NEW x \in RgValues(g), Cardinality(Ahead(x)) >= n PROVE x \in RgFrom(g, n)
  <2>1. PICK k \in 0 .. RgCount(g) - 1 : x = RgAt(g, k)
    BY <1>1 DEF RgFrom
  <2>2. k >= n
    BY <1>2, <1>4, <2>1
  <2>3. k \in n .. RgCount(g) - 1
    BY <2>1, <2>2
  <2>4. QED
    BY <2>1, <2>3 DEF RgFrom
<1>5. RgFrom(g, n) = {x \in RgValues(g) : Cardinality(Ahead(x)) >= n}
  BY <1>3, <1>4 DEF RgFrom
<1>6. QED
  BY <1>5 DEF Ahead

(* A call that moves the range n terms on leaves the rest of the terms. *)
Advanced(g, n, h) ==
  /\ h \in [current : RG!Isize, end : RG!Isize, step : RG!Isize]
  /\ h.end = g.end /\ h.step = g.step
  /\ IF n < RgCount(g) THEN h.current = RgAt(g, n) ELSE RgLeft(h) <= 0

LEMMA AdvancedLeaves ==
  ASSUME NEW g, RangeOk(g), NEW n \in Nat, NEW h, Advanced(g, n, h)
  PROVE  RangeOk(h) /\ RgValues(h) = RgFrom(g, n)
<1>1. RangeOk(h) /\ RgSize(h) = RgSize(g)
  BY DEF RangeOk, Advanced, RgSize
<1>2. RgCount(g) \in Nat /\ RgCount(h) \in Nat /\ RgSize(g) \in Nat /\ g.current \in Int
      /\ g.end \in Int
  BY <1>1, RangeOkFacts
<1>3. RgValues(h) = RgFrom(h, 0)
  BY <1>1, ValuesAre
<1>4. CASE n < RgCount(g)
  <2> DEFINE a == RgSize(g)
             c == g.current
  <2>1. h.current = RgAt(g, n) /\ h.end = g.end /\ h.step = g.step
    BY <1>4 DEF Advanced
  <2>2. ASSUME NEW k \in Nat
        PROVE RgAt(h, k) = RgAt(g, n + k) /\ (k < RgCount(h) <=> n + k < RgCount(g))
    <3>1. a * (n + k) = a * n + a * k /\ a * n \in Nat /\ a * k \in Nat
      BY <1>2
    <3> DEFINE x == a * n
               y == a * k
               z == a * (n + k)
    <3>2. z = x + y /\ x \in Nat /\ y \in Nat
      BY <3>1
    <3>3. /\ RgAt(g, n) = IF g.step > 0 THEN c + x ELSE c - x
          /\ RgAt(g, n + k) = IF g.step > 0 THEN c + z ELSE c - z
          /\ RgAt(h, k) = IF g.step > 0 THEN h.current + y ELSE h.current - y
      BY <1>1, <2>1 DEF RgAt
    <3>4. /\ RgLeft(g) = IF g.step > 0 THEN g.end - c ELSE c - g.end
          /\ RgLeft(h) = IF g.step > 0 THEN g.end - h.current ELSE h.current - g.end
      BY <2>1 DEF RgLeft
    <3>5. n + k \in Nat
      OBVIOUS
    <3>6. (k < RgCount(h) <=> y < RgLeft(h)) /\ (n + k < RgCount(g) <=> z < RgLeft(g))
      BY <1>1, <3>5, CountsBelow
    <3> HIDE DEF a, c, x, y, z
    <3>7. RgAt(h, k) = RgAt(g, n + k)
      BY <1>2, <2>1, <3>2, <3>3 DEF c
    <3>8. y < RgLeft(h) <=> z < RgLeft(g)
      BY <1>2, <2>1, <3>2, <3>3, <3>4 DEF c
    <3>9. QED
      BY <3>6, <3>7, <3>8
  <2>3. ASSUME NEW x \in RgFrom(h, 0) PROVE x \in RgFrom(g, n)
    <3>1. PICK k \in 0 .. RgCount(h) - 1 : x = RgAt(h, k)
      BY <2>3 DEF RgFrom
    <3>2. k \in Nat /\ k < RgCount(h)
      BY <1>2, <3>1
    <3>3. x = RgAt(g, n + k) /\ n + k < RgCount(g)
      BY <2>2, <3>1, <3>2
    <3>4. n + k \in n .. RgCount(g) - 1
      BY <1>2, <3>2, <3>3
    <3>5. QED
      BY <3>3, <3>4 DEF RgFrom
  <2>4. ASSUME NEW x \in RgFrom(g, n) PROVE x \in RgFrom(h, 0)
    <3>1. PICK m \in n .. RgCount(g) - 1 : x = RgAt(g, m)
      BY <2>4 DEF RgFrom
    <3> DEFINE k == m - n
    <3>2. k \in Nat /\ n + k = m /\ n + k < RgCount(g)
      BY <1>2, <3>1
    <3> HIDE DEF k
    <3>3. x = RgAt(h, k) /\ k < RgCount(h)
      BY <2>2, <3>1, <3>2
    <3>4. k \in 0 .. RgCount(h) - 1
      BY <1>2, <3>2, <3>3
    <3>5. QED
      BY <3>3, <3>4 DEF RgFrom
  <2>5. QED
    BY <1>1, <1>3, <2>3, <2>4
<1>5. CASE ~(n < RgCount(g))
  <2>1. RgCount(h) = 0
    BY <1>5 DEF Advanced, RgCount
  <2>2. RgFrom(h, 0) = {}
    BY <2>1 DEF RgFrom
  <2>3. RgFrom(g, n) = {}
    BY <1>2, <1>5 DEF RgFrom
  <2>4. QED
    BY <1>1, <1>3, <2>2, <2>3
<1>6. QED
  BY <1>4, <1>5

-----------------------------------------------------------------------------
(* The arithmetic of isize and usize stays in its width. *)
LEMMA InWidth ==
  /\ \A x \in RG!Isize : RG!Signed(x) = x
  /\ \A x \in 0 .. RG!UsizeSize - 1 : RG!Unsigned(x) = x
<1> DEFINE U == RG!UsizeSize
           L == RG!IsizeMin
<1>1. U \in Nat /\ L \in Int /\ RG!Isize = L .. L + U - 1
  BY RangeNumbers
<1> HIDE DEF U, L
<1>2. ASSUME NEW x \in RG!Isize PROVE RG!Signed(x) = x
  <2> DEFINE y == x - L
  <2>1. y \in Nat /\ y < U /\ y + L = x
    BY <1>1
  <2> HIDE DEF y
  <2>2. y % U = y
    BY <1>1, <2>1, ModSmall
  <2>3. QED
    BY <2>1, <2>2 DEF RG!Signed, U, L, y
<1>3. ASSUME NEW x \in 0 .. U - 1 PROVE RG!Unsigned(x) = x
  <2>1. x \in Nat /\ x < U
    BY <1>1
  <2>2. x % U = x
    BY <1>1, <2>1, ModSmall
  <2>3. QED
    BY <2>2 DEF RG!Unsigned, U
<1>4. QED
  BY <1>2, <1>3 DEF U

LEMMA SpanIs ==
  ASSUME RangeOk(rg), ~RG!IsEmpty
  PROVE  RG!Span = RgLeft(rg)
<1> DEFINE lo == IF rg.step > 0 THEN rg.current ELSE rg.end
           hi == IF rg.step > 0 THEN rg.end ELSE rg.current
           M == RangeMax
           d == hi - lo
<1>1. /\ rg.current \in -M - 1 .. M /\ rg.end \in -M - 1 .. M /\ M \in Nat
      /\ RG!Isize = -M - 1 .. M /\ RG!UsizeSize = 2 * (M + 1) /\ rg.step \in Int
  BY RangeOkFacts, RangeNumbers
<1>2. lo \in -M - 1 .. M /\ hi \in -M - 1 .. M /\ lo < hi
  BY <1>1 DEF RG!IsEmpty
<1>3. RgLeft(rg) = d
  BY DEF RgLeft
<1>4. RG!Span = IF lo >= 0 \/ hi < 0 THEN RG!Unsigned(RG!Signed(hi - lo))
                ELSE RG!Unsigned(hi + RG!Signed(-(lo + 1)) + 1)
  BY DEF RG!Span
<1> HIDE DEF lo, hi, M
<1>5. d \in 0 .. RG!UsizeSize - 1
  BY <1>1, <1>2
<1>6. CASE lo >= 0 \/ hi < 0
  <2>1. d \in RG!Isize
    BY <1>1, <1>2, <1>6
  <2>2. QED
    BY <1>3, <1>4, <1>5, <1>6, <2>1, InWidth
<1>7. CASE ~(lo >= 0 \/ hi < 0)
  <2>1. -(lo + 1) \in RG!Isize
    BY <1>1, <1>2, <1>7
  <2>2. RG!Signed(-(lo + 1)) = -(lo + 1)
    BY <2>1, InWidth
  <2>3. hi + RG!Signed(-(lo + 1)) + 1 = d
    BY <1>1, <1>2, <2>2
  <2>4. QED
    BY <1>3, <1>4, <1>5, <1>7, <2>3, InWidth
<1>8. QED
  BY <1>6, <1>7

(* range_len and the other words of the module, in these terms. *)
RangeReads ==
  /\ RG!IsEmpty <=> RgLeft(rg) <= 0
  /\ RG!AbsStep = RgSize(rg) /\ RG!RangeLen = RgCount(rg)
  /\ RG!Values = RgValues(rg)
  /\ \A x : RG!After(x) = RgAfter(rg, x)

LEMMA RangeRead == RangeOk(rg) => RangeReads
<1> SUFFICES ASSUME RangeOk(rg) PROVE RangeReads
  OBVIOUS
<1>1. /\ rg.current \in Int /\ rg.end \in Int
      /\ rg.step \in -RangeMax .. RangeMax /\ rg.step # 0 /\ RangeMax \in Nat
  BY RangeOkFacts, RangeNumbers DEF RangeOk
<1>2. RG!IsEmpty <=> RgLeft(rg) <= 0
  BY <1>1 DEF RG!IsEmpty, RgLeft
<1>3. RG!AbsStep = RgSize(rg)
  <2>1. -rg.step \in RG!Isize
    BY <1>1, RangeNumbers
  <2>2. QED
    BY <2>1, InWidth DEF RG!AbsStep, RgSize
<1>4. RG!RangeLen = RgCount(rg)
  BY <1>2, <1>3, SpanIs DEF RG!RangeLen, RgCount
<1>5. RG!Values = RgValues(rg)
  BY <1>3 DEF RG!Values, RgValues
<1>6. \A x : RG!After(x) = RgAfter(rg, x)
  BY <1>5 DEF RG!After, RgAfter
<1>7. QED
  BY <1>2, <1>3, <1>4, <1>5, <1>6 DEF RangeReads

LEMMA NextAdvances ==
  ASSUME RangeOk(rg), RG!RangeNext
  PROVE  Advanced(rg, 1, rg') /\ RgLeft(rg) > 0
<1> DEFINE M == RangeMax
           c == rg.current
           e == rg.end
           s == rg.step
           to == c + s
           passed == IF s > 0 THEN to >= e ELSE to <= e
           now == IF ~RG!AddFits(c, s) \/ passed THEN e ELSE to
<1>1. /\ c \in -M - 1 .. M /\ e \in -M - 1 .. M /\ M \in Nat
      /\ s \in -M .. M /\ s # 0 /\ RG!Isize = -M - 1 .. M
      /\ RgLeft(rg) \in Int
  BY RangeOkFacts, RangeNumbers DEF RangeOk
<1>2. ~RG!IsEmpty /\ rg' = [rg EXCEPT !.current = now]
  BY DEF RG!RangeNext
<1>3. RgLeft(rg) > 0
  BY <1>1, <1>2, RangeRead DEF RangeReads
<1>4. RG!AddFits(c, s) <=> to \in RG!Isize
  BY DEF RG!AddFits
<1>5. passed <=> IF s > 0 THEN to >= e ELSE to <= e
  OBVIOUS
<1>6. now = (IF ~RG!AddFits(c, s) \/ passed THEN e ELSE to) /\ to = c + s
  OBVIOUS
<1>7. RgLeft(rg) = (IF s > 0 THEN e - c ELSE c - e) /\ RgSize(rg) = IF s > 0 THEN s ELSE -s
  BY DEF RgLeft, RgSize
<1>8. RgAt(rg, 1) = IF s > 0 THEN c + RgSize(rg) * 1 ELSE c - RgSize(rg) * 1
  BY DEF RgAt
<1>9. 1 < RgCount(rg) <=> RgSize(rg) * 1 < RgLeft(rg)
  BY CountsBelow
<1>10. rg' \in [current : RG!Isize \cup {now}, end : RG!Isize, step : RG!Isize]
       /\ rg'.current = now /\ rg'.end = e /\ rg'.step = s
  BY <1>2 DEF RangeOk
<1>11. RgLeft(rg') = IF s > 0 THEN e - now ELSE now - e
  BY <1>10 DEF RgLeft
<1> HIDE DEF M, c, e, s, to, passed, now
<1>12. now = IF passed THEN e ELSE to
  BY <1>1, <1>4, <1>5, <1>6
<1>13. RgSize(rg) * 1 = RgSize(rg)
  BY <1>1, <1>7
<1>14. RgAt(rg, 1) = to /\ (1 < RgCount(rg) <=> ~passed)
  BY <1>1, <1>5, <1>6, <1>7, <1>8, <1>9, <1>13
<1>15. now \in RG!Isize
  BY <1>1, <1>4, <1>5, <1>6
<1>16. IF 1 < RgCount(rg) THEN rg'.current = RgAt(rg, 1) ELSE RgLeft(rg') <= 0
  BY <1>1, <1>10, <1>11, <1>12, <1>14
<1>17. QED
  BY <1>3, <1>10, <1>15, <1>16 DEF Advanced, e, s

(* The offset of a skip that stays before the end, in one part or in two. *)
LEMMA SkipAdvances ==
  ASSUME RangeOk(rg), NEW n \in 0 .. RG!UsizeSize - 1, RG!Skip(n)
  PROVE  Advanced(rg, n, rg')
<1> DEFINE M == RangeMax
           c == rg.current
           e == rg.end
           s == rg.step
           a == RgSize(rg)
           off == a * n
           Along(x, by) == IF rg.step > 0 THEN RG!Signed(x + by) ELSE RG!Signed(x - by)
           offset == RG!Unsigned(n * RG!AbsStep)
           now == IF n = 0 \/ RG!IsEmpty THEN c
                  ELSE IF n >= RG!RangeLen THEN e
                  ELSE IF offset > M THEN Along(Along(c, M), offset - M)
                  ELSE Along(c, offset)
<1>1. /\ c \in -M - 1 .. M /\ e \in -M - 1 .. M /\ M \in Nat
      /\ s \in Int /\ RG!Isize = -M - 1 .. M /\ RG!UsizeSize = 2 * (M + 1)
      /\ RgLeft(rg) \in Int /\ RgLeft(rg) <= 2 * M + 1 /\ n \in Nat /\ RgCount(rg) \in Nat
      /\ a \in Nat
  BY RangeOkFacts, RangeNumbers DEF RangeOk
<1>2. rg' = [rg EXCEPT !.current = now]
  BY DEF RG!Skip
<1>3. RG!AbsStep = a /\ RG!RangeLen = RgCount(rg) /\ (RG!IsEmpty <=> RgLeft(rg) <= 0)
  BY RangeRead DEF RangeReads
<1>4. rg' \in [current : RG!Isize \cup {now}, end : RG!Isize, step : RG!Isize]
      /\ rg'.current = now /\ rg'.end = e /\ rg'.step = s
  BY <1>2 DEF RangeOk
<1>5. RgLeft(rg) = (IF s > 0 THEN e - c ELSE c - e)
      /\ RgLeft(rg') = (IF s > 0 THEN e - now ELSE now - e)
  BY <1>4 DEF RgLeft
<1>6. (n < RgCount(rg) <=> off < RgLeft(rg)) /\ off \in Nat
  <2>1. off \in Nat
    BY <1>1
  <2>2. RangeOk(rg) /\ n \in Nat
    BY <1>1
  <2> HIDE DEF off, a, c, e, s, M, now, offset, Along
  <2>3. n < RgCount(rg) <=> off < RgLeft(rg)
    BY <2>2, CountsBelow DEF off, a
  <2>4. QED
    BY <2>1, <2>3
<1>7. RgAt(rg, n) = IF s > 0 THEN c + off ELSE c - off
  BY DEF RgAt
<1>8. RgLeft(rg) <= 0 => RgCount(rg) = 0
  BY DEF RgCount
<1>9. now = IF n = 0 \/ RgLeft(rg) <= 0 THEN c
            ELSE IF n >= RgCount(rg) THEN e
            ELSE IF offset > M THEN Along(Along(c, M), offset - M)
            ELSE Along(c, offset)
  BY <1>3
<1>10. n * RG!AbsStep = off
  BY <1>1, <1>3, TimesCommutes
<1>11. \A x, by : Along(x, by) = IF s > 0 THEN RG!Signed(x + by) ELSE RG!Signed(x - by)
  OBVIOUS
<1>12. offset = RG!Unsigned(off)
  BY <1>10
<1>13. RgAt(rg, 0) = c
  BY AtFirst
<1> HIDE DEF M, c, e, s, a, off, offset, Along, now
<1>14. CASE RgLeft(rg) <= 0
  <2>1. now = c /\ ~(n < RgCount(rg))
    BY <1>1, <1>8, <1>9, <1>14
  <2>2. now \in RG!Isize /\ RgLeft(rg') <= 0
    BY <1>1, <1>5, <1>14, <2>1
  <2>3. QED
    BY <1>4, <2>1, <2>2 DEF Advanced, e, s
<1>15. CASE ~(RgLeft(rg) <= 0) /\ n = 0
  <2>1. now = c /\ rg'.current = c
    BY <1>4, <1>9, <1>15
  <2>2. 0 < RgCount(rg)
    <3>1. off = 0
      BY <1>1, <1>15 DEF off
    <3>2. QED
      BY <1>1, <1>6, <1>15, <3>1
  <2>3. QED
    BY <1>1, <1>4, <1>13, <1>15, <2>1, <2>2 DEF Advanced, e, s
<1>16. CASE ~(RgLeft(rg) <= 0) /\ n # 0 /\ n >= RgCount(rg)
  <2>1. now = e /\ ~(n < RgCount(rg))
    BY <1>1, <1>9, <1>16
  <2>2. now \in RG!Isize /\ RgLeft(rg') <= 0
    BY <1>1, <1>5, <2>1
  <2>3. QED
    BY <1>4, <2>1, <2>2 DEF Advanced, e, s
<1>17. CASE ~(RgLeft(rg) <= 0) /\ n # 0 /\ ~(n >= RgCount(rg))
  <2>1. n < RgCount(rg)
    BY <1>1, <1>17
  <2>2. off < RgLeft(rg)
    BY <1>6, <2>1
  <2>3. off \in 0 .. RG!UsizeSize - 1
    BY <1>1, <1>6, <2>2
  <2>4. offset = off
    BY <1>12, <2>3, InWidth
  <2> DEFINE t == IF s > 0 THEN c + off ELSE c - off
             h == IF s > 0 THEN c + M ELSE c - M
  <2>5. t \in RG!Isize
    BY <1>1, <1>5, <1>6, <2>2
  <2>6. Along(c, off) = t
    <3>1. Along(c, off) = RG!Signed(t)
      BY <1>11
    <3>2. QED
      BY <2>5, <3>1, InWidth
  <2>7. off > M => Along(Along(c, M), off - M) = t
    <3>1. SUFFICES ASSUME off > M PROVE Along(Along(c, M), off - M) = t
      OBVIOUS
    <3>2. h \in RG!Isize
      BY <1>1, <1>5, <1>6, <2>2, <3>1
    <3>3. Along(c, M) = RG!Signed(h)
      BY <1>11
    <3>4. Along(c, M) = h
      BY <3>2, <3>3, InWidth
    <3>5. Along(h, off - M) = IF s > 0 THEN RG!Signed(h + (off - M)) ELSE RG!Signed(h - (off - M))
      BY <1>11
    <3>6. t = IF s > 0 THEN h + (off - M) ELSE h - (off - M)
      BY <1>1, <1>6
    <3>7. Along(h, off - M) = RG!Signed(t)
      BY <3>5, <3>6
    <3>8. QED
      BY <2>5, <3>4, <3>7, InWidth
  <2>8. now = t
    BY <1>9, <1>17, <2>4, <2>6, <2>7
  <2>9. rg'.current = RgAt(rg, n)
    BY <1>4, <1>7, <2>8
  <2>10. now \in RG!Isize
    BY <2>5, <2>8
  <2>11. QED
    BY <1>4, <2>1, <2>9, <2>10 DEF Advanced, e, s
<1>18. QED
  BY <1>14, <1>15, <1>16, <1>17

LEMMA RangeStep ==
  ASSUME RangeOk(rg), [RG!Next]_(RG!vars)
  PROVE  RangeOk(rg)'
<1>1. CASE RG!RangeNext
  <2>1. 1 \in Nat
    OBVIOUS
  <2>2. RangeOk(rg')
    BY <1>1, <2>1, NextAdvances, AdvancedLeaves
  <2>3. QED
    BY <2>2 DEF RangeOk
<1>2. ASSUME NEW n \in 0 .. RG!UsizeSize - 1, RG!Skip(n) PROVE RangeOk(rg)'
  <2>1. n \in Nat
    BY RangeNumbers
  <2>2. RangeOk(rg')
    BY <1>2, <2>1, SkipAdvances, AdvancedLeaves
  <2>3. QED
    BY <2>2 DEF RangeOk
<1>3. ASSUME NEW start \in RG!Isize, RG!Reset(start) PROVE RangeOk(rg)'
  BY <1>3 DEF RG!Reset, RangeOk
<1>4. CASE UNCHANGED RG!vars
  BY <1>4 DEF RG!vars, RangeOk
<1>5. QED
  BY <1>1, <1>2, <1>3, <1>4 DEF RG!Next

LEMMA RangeCardinality == \A S : RG!Cardinality(S) = Cardinality(S)
BY DEF RG!Cardinality, Cardinality

(* What next and skip take from what is left. *)
RangeTakes ==
  /\ rgRet' = <<rg.current>> => rg.current \in RG!Values /\ RG!Values' = RG!After(rg.current)
  /\ \A n \in 0 .. RG!UsizeSize - 1 : RG!Skip(n) =>
       RG!Values' = {x \in RG!Values : RG!Cardinality(RG!Values \ (RG!After(x) \cup {x})) >= n}

LEMMA RangeTaken ==
  ASSUME RangeOk(rg), RG!Next, RangeReads'
  PROVE  RangeTakes
<1>1. RangeReads /\ RG!Values = RgValues(rg) /\ RG!Values' = RgValues(rg')
      /\ \A x : RG!After(x) = RgAfter(rg, x)
  BY RangeRead DEF RangeReads
<1>2. ASSUME rgRet' = <<rg.current>>
      PROVE  rg.current \in RG!Values /\ RG!Values' = RG!After(rg.current)
  <2>1. RG!RangeNext
    BY <1>2 DEF RG!Next, RG!Skip, RG!Reset
  <2>2. Advanced(rg, 1, rg') /\ RgLeft(rg) > 0
    BY <2>1, NextAdvances
  <2>3. 1 \in Nat /\ 0 \in Nat
    OBVIOUS
  <2>4. RgValues(rg') = RgFrom(rg, 1)
    BY <2>2, <2>3, AdvancedLeaves
  <2>5. RgSize(rg) \in Nat /\ RgCount(rg) \in Nat
    BY RangeOkFacts
  <2>6. RgSize(rg) * 0 = 0
    BY <2>5
  <2>7. 0 < RgCount(rg)
    BY <2>2, <2>3, <2>6, CountsBelow
  <2>8. 0 \in 0 .. RgCount(rg) - 1 /\ 0 + 1 = 1
    BY <2>5, <2>7
  <2>9. RgAt(rg, 0) = rg.current
    BY AtFirst
  <2>10. RgAfter(rg, RgAt(rg, 0)) = RgFrom(rg, 0 + 1)
    BY <2>8, AfterTerm
  <2>11. rg.current \in RgFrom(rg, 0)
    BY <2>8, <2>9 DEF RgFrom
  <2>12. QED
    BY <1>1, <2>4, <2>8, <2>9, <2>10, <2>11, ValuesAre
<1>3. ASSUME NEW n \in 0 .. RG!UsizeSize - 1, RG!Skip(n)
      PROVE RG!Values' =
              {x \in RG!Values : RG!Cardinality(RG!Values \ (RG!After(x) \cup {x})) >= n}
  <2>1. n \in Nat
    BY RangeNumbers
  <2>2. RgValues(rg') = RgFrom(rg, n)
    BY <1>3, <2>1, SkipAdvances, AdvancedLeaves
  <2>3. RgFrom(rg, n) =
          {x \in RgValues(rg) : Cardinality(RgValues(rg) \ (RgAfter(rg, x) \cup {x})) >= n}
    BY <2>1, LeftByCalls
  <2>4. QED
    BY <1>1, <2>2, <2>3, RangeCardinality
<1>4. QED
  BY <1>2, <1>3 DEF RangeTakes

(* range_len counts what range_next will yield, over any range of any      *)
(* width, the ends of isize and a span of both signs included; range_next  *)
(* yields the first of it and leaves the others, and range_skip leaves     *)
(* what that many calls of range_next would.                               *)
THEOREM RangesCount == StructuresSpec => RangeCounts
<1>1. StructuresInit => RangeOk(rg)
  <2>1. ASSUME NEW start \in RG!Isize, NEW end \in RG!Isize, NEW by \in RG!Isize,
               by # RG!IsizeMin, rg = RG!Make(start, end, by)
        PROVE  RangeOk(rg)
    <3>1. 1 \in RG!Isize /\ 1 # 0 /\ 1 # RG!IsizeMin
      BY RangeNumbers
    <3>2. QED
      BY <2>1, <3>1 DEF RG!Make, RangeOk
  <2>2. QED
    BY <2>1, PartsStart DEF RG!Init
<1>2. RangeOk(rg) /\ [StructuresNext]_allVars => RangeOk(rg)'
  BY PartsStep, RangeStep
<1>3. RangeOk(rg) => RG!RangeLen = RG!Cardinality(RG!Values)
  <2>1. SUFFICES ASSUME RangeOk(rg) PROVE RG!RangeLen = RG!Cardinality(RG!Values)
    OBVIOUS
  <2>2. RG!RangeLen = RgCount(rg) /\ RG!Values = RgValues(rg)
    BY <2>1, RangeRead DEF RangeReads
  <2>3. QED
    BY <2>1, <2>2, CountValues, RangeCardinality
<1>4. RangeOk(rg) => RangeReads
  BY RangeRead
<1>5. RangeOk(rg) /\ [StructuresNext]_allVars /\ RangeReads' => [RangeTakes]_(RG!vars)
  <2>1. SUFFICES ASSUME RangeOk(rg), [StructuresNext]_allVars, RangeReads', RG!vars' # RG!vars
        PROVE RangeTakes
    OBVIOUS
  <2>2. RG!Next
    BY <2>1, PartsStep
  <2>3. QED
    BY <2>1, <2>2, RangeTaken
<1>6. StructuresSpec => [](RG!RangeLen = RG!Cardinality(RG!Values)) /\ [][RangeTakes]_(RG!vars)
  BY <1>1, <1>2, <1>3, <1>4, <1>5, PTL DEF StructuresSpec
<1>7. QED
  BY <1>6, PTL DEF RangeCounts, RG!RangeCounts, RangeTakes

-----------------------------------------------------------------------------
(* Bitset: an index is a word and a position in it, and so on in order.    *)

LEMMA BitsAssumed ==
  ASSUME StructuresAssumption
  PROVE  /\ Width \in Nat /\ Width > 0
         /\ \A b \in Bitsets : CapacityOf[b] \in Nat /\ CapacityOf[b] > 0
BY DEF BS!BitsetAssumption

LEMMA PlaceFacts ==
  ASSUME StructuresAssumption, NEW i \in Nat
  PROVE  /\ BS!WordOf(i) \in Nat /\ BS!BitOf(i) \in BS!Positions
         /\ Width * BS!WordOf(i) + BS!BitOf(i) = i /\ Width * BS!WordOf(i) \in Nat
<1>1. Width \in Nat /\ Width > 0
  BY BitsAssumed
<1>2. i \div Width \in Nat /\ i % Width \in 0 .. Width - 1
  BY <1>1, DivBounds
<1>3. i % Width = i - Width * (i \div Width)
  BY <1>1, DivBounds
<1> DEFINE x == Width * (i \div Width)
           y == i % Width
<1>4. x \in Nat
  BY <1>1, <1>2
<1>5. y = i - x
  BY <1>3
<1> HIDE DEF x, y
<1>6. x + y = i
  BY <1>4, <1>5
<1>7. QED
  BY <1>2, <1>4, <1>6 DEF x, y, BS!WordOf, BS!BitOf, BS!Positions

(* Earlier words come before later ones. *)
LEMMA WordsInOrder ==
  ASSUME StructuresAssumption, NEW w \in Nat, NEW v \in Nat, w < v,
         NEW p \in BS!Positions, NEW q \in Nat
  PROVE  Width * w + p < Width * v + q
<1>1. Width \in Nat /\ Width > 0 /\ p \in Nat /\ p < Width
  BY BitsAssumed DEF BS!Positions
<1>2. w + 1 \in Nat /\ w + 1 <= v
  OBVIOUS
<1>3. Width * (w + 1) <= Width * v
  BY <1>1, <1>2, TimesOver
<1>4. Width * (w + 1) = Width * w + Width
  BY <1>1
<1> DEFINE x == Width * w
           y == Width * v
<1>5. x \in Nat /\ y \in Nat /\ x + Width <= y
  BY <1>1, <1>3, <1>4
<1> HIDE DEF x, y
<1>6. x + p < y + q
  BY <1>1, <1>5
<1>7. QED
  BY <1>6 DEF x, y

LEMMA PlaceOf ==
  ASSUME StructuresAssumption, NEW w \in Nat, NEW p \in BS!Positions
  PROVE  /\ Width * w + p \in Nat /\ p \in Nat /\ Width * w \in Nat
         /\ BS!WordOf(Width * w + p) = w /\ BS!BitOf(Width * w + p) = p
<1>1. Width \in Nat /\ Width > 0 /\ p \in Nat /\ p < Width
  BY BitsAssumed DEF BS!Positions
<1>2. Width * w \in Nat
  BY <1>1
<1> DEFINE i == Width * w + p
           v == BS!WordOf(i)
           q == BS!BitOf(i)
<1>3. i \in Nat
  BY <1>1, <1>2
<1>4. v \in Nat /\ q \in BS!Positions /\ Width * v + q = i /\ Width * v \in Nat
  BY <1>3, PlaceFacts
<1>5. q \in Nat
  BY <1>1, <1>4 DEF BS!Positions
<1>6. i = Width * w + p
  OBVIOUS
<1> HIDE DEF v, q, i
<1>7. ~(w < v)
  <2>1. SUFFICES ASSUME w < v PROVE FALSE
    OBVIOUS
  <2>2. Width * w + p < Width * v + q
    BY <1>4, <1>5, <2>1, WordsInOrder
  <2>3. QED
    BY <1>3, <1>4, <1>6, <2>2
<1>8. ~(v < w)
  <2>1. SUFFICES ASSUME v < w PROVE FALSE
    OBVIOUS
  <2>2. Width * v + q < Width * w + p
    BY <1>1, <1>4, <2>1, WordsInOrder
  <2>3. QED
    BY <1>3, <1>4, <1>6, <2>2
<1>9. v = w
  BY <1>4, <1>7, <1>8
<1>10. q = p
  BY <1>1, <1>2, <1>4, <1>5, <1>6, <1>9
<1>11. QED
  BY <1>1, <1>2, <1>3, <1>9, <1>10 DEF i, v, q

LEMMA SamePlace ==
  ASSUME StructuresAssumption, NEW i \in Nat, NEW j \in Nat
  PROVE  /\ i = j <=> BS!WordOf(i) = BS!WordOf(j) /\ BS!BitOf(i) = BS!BitOf(j)
         /\ i < j <=> \/ BS!WordOf(i) < BS!WordOf(j)
                      \/ BS!WordOf(i) = BS!WordOf(j) /\ BS!BitOf(i) < BS!BitOf(j)
<1> DEFINE v == BS!WordOf(i)
           p == BS!BitOf(i)
           w == BS!WordOf(j)
           q == BS!BitOf(j)
           x == Width * v
           y == Width * w
<1>1. /\ v \in Nat /\ p \in BS!Positions /\ x + p = i /\ x \in Nat
      /\ w \in Nat /\ q \in BS!Positions /\ y + q = j /\ y \in Nat
  BY PlaceFacts
<1>2. p \in Nat /\ q \in Nat
  BY <1>1, PlaceOf
<1>3. v < w => x + p < y + q
  BY <1>1, <1>2, WordsInOrder
<1>4. w < v => y + q < x + p
  BY <1>1, <1>2, WordsInOrder
<1>5. v = w => x = y
  OBVIOUS
<1> HIDE DEF v, p, w, q, x, y
<1>6. (i = j <=> v = w /\ p = q) /\ (i < j <=> v < w \/ (v = w /\ p < q))
  BY <1>1, <1>2, <1>3, <1>4, <1>5
<1>7. QED
  BY <1>6 DEF v, p, w, q

-----------------------------------------------------------------------------
(* The words hold the capacity, the last of them none of it beyond.        *)

Spots(b) == 0 .. BS!WordCount(b) * Width - 1

LEMMA SpotsAre ==
  ASSUME StructuresAssumption, NEW b \in Bitsets, NEW i \in Nat
  PROVE  /\ BS!WordCount(b) \in Nat /\ BS!WordCount(b) >= 1
         /\ Spots(b) \subseteq Nat
         /\ i \in Spots(b) <=> BS!WordOf(i) \in BS!Words(b)
<1> DEFINE n == BS!WordCount(b)
           c == CapacityOf[b]
           v == BS!WordOf(i)
           p == BS!BitOf(i)
<1>1. Width \in Nat /\ Width > 0 /\ c \in Nat /\ c > 0
  BY BitsAssumed
<1>2. c + Width - 1 \in Nat /\ n = (c + Width - 1) \div Width
  BY <1>1 DEF BS!WordCount
<1> DEFINE top == c + Width - 1
<1>3. top \in Nat /\ top >= Width /\ n = top \div Width
  BY <1>1, <1>2
<1> HIDE DEF top
<1>4. n \in Nat /\ top < Width * n + Width
  BY <1>1, <1>3, DivBounds
<1>5. n >= 1
  <2>1. SUFFICES ASSUME n = 0 PROVE FALSE
    BY <1>4
  <2>2. Width * n = 0
    BY <1>1, <2>1
  <2>3. QED
    BY <1>1, <1>3, <1>4, <2>2
<1>6. Spots(b) = 0 .. n * Width - 1 /\ n * Width \in Nat /\ n * Width = Width * n
  BY <1>1, <1>4, TimesCommutes DEF Spots
<1>7. v \in Nat /\ p \in BS!Positions /\ Width * v + p = i /\ Width * v \in Nat
  BY PlaceFacts
<1>8. p \in Nat
  BY <1>7, PlaceOf
<1>9. BS!Words(b) = 0 .. n - 1
  BY DEF BS!Words
<1> HIDE DEF n, v, p
<1>10. v < n => i < Width * n
  <2>1. SUFFICES ASSUME v < n PROVE i < Width * n
    OBVIOUS
  <2>2. 0 \in Nat
    OBVIOUS
  <2>3. Width * v + p < Width * n + 0
    BY <1>4, <1>7, <2>1, <2>2, WordsInOrder
  <2>4. QED
    BY <1>4, <1>6, <1>7, <2>3
<1>11. n <= v => Width * n <= i
  <2>1. SUFFICES ASSUME n <= v PROVE Width * n <= i
    OBVIOUS
  <2>2. Width * n <= Width * v
    BY <1>1, <1>4, <1>7, <2>1, TimesOver
  <2>3. QED
    BY <1>6, <1>7, <1>8, <2>2
<1>12. i \in Spots(b) <=> v \in BS!Words(b)
  BY <1>4, <1>6, <1>7, <1>9, <1>10, <1>11
<1>13. QED
  BY <1>4, <1>5, <1>6, <1>12 DEF n, v

(* What bitset_clear_padding tells apart. *)
LEMMA PaddingIs ==
  ASSUME StructuresAssumption, NEW b \in Bitsets
  PROVE  /\ CapacityOf[b] % Width \in Nat
         /\ 0 .. CapacityOf[b] - 1 \subseteq Spots(b)
         /\ CapacityOf[b] % Width = 0 => Spots(b) = 0 .. CapacityOf[b] - 1
         /\ CapacityOf[b] % Width # 0 => \A i \in Spots(b) :
              i < CapacityOf[b] <=> \/ BS!WordOf(i) # BS!WordCount(b) - 1
                                    \/ BS!BitOf(i) < CapacityOf[b] % Width
<1> DEFINE n == BS!WordCount(b)
           c == CapacityOf[b]
           r == c % Width
           q == c \div Width
           wq == Width * q
<1>1. Width \in Nat /\ Width > 0 /\ c \in Nat /\ c > 0
  BY BitsAssumed
<1>2. q \in Nat /\ r \in 0 .. Width - 1 /\ r = c - wq /\ wq \in Nat
  BY <1>1, DivBounds
<1>3. n = (c + Width - 1) \div Width
  BY DEF BS!WordCount
<1> HIDE DEF q, r
<1>4. c = wq + r
  BY <1>1, <1>2
<1>5. Spots(b) = 0 .. n * Width - 1
  BY DEF Spots
<1>6. CASE r = 0
  <2> DEFINE p == Width - 1
  <2>1. p \in BS!Positions /\ p \in Nat
    BY <1>1 DEF BS!Positions
  <2>2. BS!WordOf(wq + p) = q
    BY <1>2, <2>1, PlaceOf
  <2>3. wq + p = c + Width - 1
    BY <1>1, <1>2, <1>4, <1>6
  <2>4. n = q
    BY <1>3, <2>2, <2>3 DEF BS!WordOf
  <2>5. n * Width = wq
    BY <1>1, <1>2, <2>4, TimesCommutes
  <2>6. Spots(b) = 0 .. c - 1
    BY <1>1, <1>2, <1>4, <1>5, <1>6, <2>5
  <2>7. QED
    BY <1>2, <1>6, <2>6 DEF r
<1>7. CASE r # 0
  <2> DEFINE p == r - 1
             x == Width * (q + 1)
  <2>1. p \in BS!Positions /\ p \in Nat /\ r \in BS!Positions
    BY <1>1, <1>2, <1>7 DEF BS!Positions
  <2>2. q + 1 \in Nat /\ x = wq + Width /\ x \in Nat
    BY <1>1, <1>2
  <2>3. BS!WordOf(x + p) = q + 1
    BY <2>1, <2>2, PlaceOf
  <2> HIDE DEF wq, x, p
  <2>4. x + p = c + Width - 1
    BY <1>1, <1>2, <1>4, <2>2 DEF p
  <2>5. n = q + 1
    BY <1>3, <2>3, <2>4 DEF BS!WordOf
  <2>6. n * Width = x
    BY <1>1, <1>2, <2>5, TimesCommutes DEF x
  <2>7. 0 .. c - 1 \subseteq Spots(b)
    BY <1>1, <1>2, <1>4, <1>5, <2>2, <2>6
  <2>8. BS!WordOf(c) = q /\ BS!BitOf(c) = r
    BY <1>2, <1>4, <2>1, PlaceOf DEF wq
  <2>9. ASSUME NEW i \in Spots(b)
        PROVE  i < c <=> BS!WordOf(i) # n - 1 \/ BS!BitOf(i) < r
    <3>1. i \in Nat
      BY <1>5, <2>2, <2>6, <2>9
    <3>2. i < c <=> BS!WordOf(i) < q \/ (BS!WordOf(i) = q /\ BS!BitOf(i) < r)
      BY <1>1, <2>8, <3>1, SamePlace
    <3>3. BS!WordOf(i) \in Nat /\ BS!WordOf(i) \in 0 .. n - 1
      BY <2>9, <3>1, SpotsAre, PlaceFacts DEF BS!Words
    <3>4. QED
      BY <1>2, <2>5, <3>2, <3>3
  <2>10. QED
    BY <1>2, <1>7, <2>7, <2>9 DEF r
<1>8. QED
  BY <1>6, <1>7

-----------------------------------------------------------------------------
(* The set of the indices whose bits are one. *)

BitWords(b) == [BS!Words(b) -> SUBSET BS!Positions]
IsOne(w, i) == BS!BitOf(i) \in w[BS!WordOf(i)]
BitSet(b, w) == {i \in Spots(b) : IsOne(w, i)}
BelowCap(b) == 0 .. CapacityOf[b] - 1

(* w holds S, all of it below the capacity. *)
HoldsSet(b, w, S) == w \in BitWords(b) /\ BitSet(b, w) = S /\ S \subseteq BelowCap(b)

BitsInv ==
  /\ bs = [b \in Bitsets |-> bs[b]]
  /\ \A b \in Bitsets : HoldsSet(b, bs[b], BitSet(b, bs[b]))

BitsGoal == BitsInv' /\ [BS!Abstract!Next]_(BS!Abstract!vars)

LEMMA MembersAre ==
  /\ BS!members = [b \in Bitsets |-> BitSet(b, bs[b])]
  /\ BS!members' = [b \in Bitsets |-> BitSet(b, bs'[b])]
  /\ \A b \in Bitsets : BS!members[b] = BitSet(b, bs[b])
BY DEF BS!members, BS!Inside, BitSet, IsOne, Spots

LEMMA HoldsIf ==
  ASSUME StructuresAssumption, NEW b \in Bitsets, NEW w \in BitWords(b),
         NEW S \in SUBSET BelowCap(b), \A i \in Spots(b) : IsOne(w, i) <=> i \in S
  PROVE  HoldsSet(b, w, S)
<1>1. S \subseteq Spots(b)
  BY PaddingIs DEF BelowCap
<1>2. BitSet(b, w) = S
  BY <1>1 DEF BitSet
<1>3. QED
  BY <1>2 DEF HoldsSet

LEMMA SetBecomes ==
  ASSUME BitsInv, NEW b \in Bitsets, NEW w, NEW S, HoldsSet(b, w, S), BS!Writes(b, w)
  PROVE  BitsInv' /\ BS!Abstract!Becomes(b, S)
<1>1. bs' = [bs EXCEPT ![b] = w] /\ bsRet' = <<>>
  BY DEF BS!Writes
<1>2. bs' = [c \in Bitsets |-> IF c = b THEN w ELSE bs[c]]
  BY <1>1 DEF BitsInv
<1>3. BitSet(b, w) = S
  BY DEF HoldsSet
<1>4. \A c \in Bitsets : HoldsSet(c, bs'[c], BitSet(c, bs'[c]))
  BY <1>2, <1>3 DEF BitsInv
<1>5. bs' = [c \in Bitsets |-> bs'[c]]
  BY <1>2
<1>6. BitsInv'
  BY <1>4, <1>5 DEF BitsInv
<1>7. BS!members' = [BS!members EXCEPT ![b] = S]
  BY <1>2, <1>3, MembersAre
<1>8. QED
  BY <1>1, <1>6, <1>7 DEF BS!Abstract!Becomes

LEMMA SpotPlaced ==
  ASSUME StructuresAssumption, NEW b \in Bitsets, NEW i \in Spots(b)
  PROVE  i \in Nat /\ BS!WordOf(i) \in BS!Words(b) /\ BS!BitOf(i) \in BS!Positions
<1>1. 0 \in Nat
  OBVIOUS
<1>2. i \in Nat
  BY <1>1, SpotsAre
<1>3. QED
  BY <1>2, SpotsAre, PlaceFacts

(* Where the bit of an index is, and those of the others. *)
LEMMA BitPlaced ==
  ASSUME StructuresAssumption, NEW b \in Bitsets, NEW i \in BelowCap(b)
  PROVE  /\ i \in Nat /\ i \in Spots(b)
         /\ BS!WordOf(i) \in BS!Words(b) /\ BS!BitOf(i) \in BS!Positions
         /\ \A j \in Spots(b) : BS!WordOf(j) \in BS!Words(b) /\ BS!BitOf(j) \in BS!Positions
         /\ \A j \in Spots(b) :
              i = j <=> BS!WordOf(i) = BS!WordOf(j) /\ BS!BitOf(i) = BS!BitOf(j)
<1>1. i \in Nat
  BY BitsAssumed DEF BelowCap
<1>2. i \in Spots(b)
  BY PaddingIs DEF BelowCap
<1>3. Spots(b) \subseteq Nat
  BY <1>1, SpotsAre
<1>4. \A j \in Spots(b) : BS!WordOf(j) \in BS!Words(b) /\ BS!BitOf(j) \in BS!Positions
  BY <1>3, SpotsAre, PlaceFacts
<1>5. \A j \in Spots(b) :
        i = j <=> BS!WordOf(i) = BS!WordOf(j) /\ BS!BitOf(i) = BS!BitOf(j)
  BY <1>1, <1>3, SamePlace
<1>6. QED
  BY <1>1, <1>2, <1>4, <1>5

LEMMA BitSets ==
  ASSUME StructuresAssumption, BitsInv, NEW b \in Bitsets, NEW i \in BelowCap(b), BS!SetBit(b, i)
  PROVE  BitsInv' /\ BS!Abstract!SetBit(b, i)
<1> DEFINE w == bs[b]
           S == BitSet(b, w)
           v == [w EXCEPT ![BS!WordOf(i)] = @ \cup {BS!BitOf(i)}]
<1>1. w \in BitWords(b) /\ S \subseteq BelowCap(b) /\ \A j \in Spots(b) : IsOne(w, j) <=> j \in S
  BY DEF BitsInv, HoldsSet, BitSet
<1>2. v \in BitWords(b)
  BY <1>1, BitPlaced DEF BitWords
<1>3. \A j \in Spots(b) : IsOne(v, j) <=> j \in S \cup {i}
  <2>1. SUFFICES ASSUME NEW j \in Spots(b) PROVE IsOne(v, j) <=> IsOne(w, j) \/ j = i
    BY <1>1
  <2>2. BS!WordOf(j) \in BS!Words(b)
        /\ (i = j <=> BS!WordOf(i) = BS!WordOf(j) /\ BS!BitOf(i) = BS!BitOf(j))
    BY BitPlaced
  <2>3. v[BS!WordOf(j)] =
          IF BS!WordOf(j) = BS!WordOf(i) THEN w[BS!WordOf(j)] \cup {BS!BitOf(i)}
          ELSE w[BS!WordOf(j)]
    BY <1>1, <2>2 DEF BitWords
  <2>4. QED
    BY <2>2, <2>3 DEF IsOne
<1>4. S \cup {i} \in SUBSET BelowCap(b)
  BY <1>1
<1>5. BS!Writes(b, v)
  BY DEF BS!SetBit
<1>6. HoldsSet(b, v, S \cup {i})
  BY <1>2, <1>3, <1>4, HoldsIf
<1>7. S = BS!members[b]
  BY MembersAre
<1> HIDE DEF v, S, w
<1>8. BitsInv' /\ BS!Abstract!Becomes(b, S \cup {i})
  BY <1>5, <1>6, SetBecomes
<1>9. QED
  BY <1>7, <1>8 DEF BS!Abstract!SetBit

LEMMA BitClears ==
  ASSUME StructuresAssumption, BitsInv, NEW b \in Bitsets, NEW i \in BelowCap(b), BS!ClearBit(b, i)
  PROVE  BitsInv' /\ BS!Abstract!ClearBit(b, i)
<1> DEFINE w == bs[b]
           S == BitSet(b, w)
           v == [w EXCEPT ![BS!WordOf(i)] = @ \ {BS!BitOf(i)}]
<1>1. w \in BitWords(b) /\ S \subseteq BelowCap(b) /\ \A j \in Spots(b) : IsOne(w, j) <=> j \in S
  BY DEF BitsInv, HoldsSet, BitSet
<1>2. v \in BitWords(b)
  BY <1>1, BitPlaced DEF BitWords
<1>3. \A j \in Spots(b) : IsOne(v, j) <=> j \in S \ {i}
  <2>1. SUFFICES ASSUME NEW j \in Spots(b) PROVE IsOne(v, j) <=> IsOne(w, j) /\ j # i
    BY <1>1
  <2>2. BS!WordOf(j) \in BS!Words(b)
        /\ (i = j <=> BS!WordOf(i) = BS!WordOf(j) /\ BS!BitOf(i) = BS!BitOf(j))
    BY BitPlaced
  <2>3. v[BS!WordOf(j)] =
          IF BS!WordOf(j) = BS!WordOf(i) THEN w[BS!WordOf(j)] \ {BS!BitOf(i)}
          ELSE w[BS!WordOf(j)]
    BY <1>1, <2>2 DEF BitWords
  <2>4. QED
    BY <2>2, <2>3 DEF IsOne
<1>4. S \ {i} \in SUBSET BelowCap(b)
  BY <1>1
<1>5. BS!Writes(b, v)
  BY DEF BS!ClearBit
<1>6. HoldsSet(b, v, S \ {i})
  BY <1>2, <1>3, <1>4, HoldsIf
<1>7. S = BS!members[b]
  BY MembersAre
<1> HIDE DEF v, S, w
<1>8. BitsInv' /\ BS!Abstract!Becomes(b, S \ {i})
  BY <1>5, <1>6, SetBecomes
<1>9. QED
  BY <1>7, <1>8 DEF BS!Abstract!ClearBit

LEMMA BitToggles ==
  ASSUME StructuresAssumption, BitsInv, NEW b \in Bitsets, NEW i \in BelowCap(b), BS!Toggle(b, i)
  PROVE  BitsInv' /\ BS!Abstract!Toggle(b, i)
<1>1. i \in BS!members[b] <=> BS!BitOf(i) \in bs[b][BS!WordOf(i)]
  BY BitPlaced, MembersAre DEF BitSet, IsOne
<1>2. bs[b] \in BitWords(b) /\ BS!WordOf(i) \in BS!Words(b)
  BY BitPlaced DEF BitsInv, HoldsSet
<1>3. CASE BS!BitOf(i) \in bs[b][BS!WordOf(i)]
  <2>1. BS!ClearBit(b, i)
    BY <1>2, <1>3 DEF BS!Toggle, BS!ClearBit
  <2>2. QED
    BY <1>1, <1>3, <2>1, BitClears DEF BS!Abstract!Toggle
<1>4. CASE BS!BitOf(i) \notin bs[b][BS!WordOf(i)]
  <2>1. BS!SetBit(b, i)
    BY <1>2, <1>4 DEF BS!Toggle, BS!SetBit
  <2>2. QED
    BY <1>1, <1>4, <2>1, BitSets DEF BS!Abstract!Toggle
<1>5. QED
  BY <1>3, <1>4

-----------------------------------------------------------------------------
(* The whole-set calls. *)

LEMMA PaddingCleared ==
  ASSUME StructuresAssumption, NEW b \in Bitsets, NEW w \in BitWords(b)
  PROVE  HoldsSet(b, BS!ClearPadding(b, w), BitSet(b, w) \cap BelowCap(b))
<1> DEFINE r == CapacityOf[b] % Width
           v == BS!ClearPadding(b, w)
           last == BS!WordCount(b) - 1
<1>1. 0 \in Nat
  OBVIOUS
<1>2. BS!WordCount(b) \in Nat /\ BS!WordCount(b) >= 1 /\ Spots(b) \subseteq Nat
  BY <1>1, SpotsAre
<1>3. last \in BS!Words(b)
  BY <1>2 DEF BS!Words
<1>4. v = IF r = 0 THEN w ELSE [w EXCEPT ![last] = @ \cap 0 .. r - 1]
  BY DEF BS!ClearPadding
<1>5. v \in BitWords(b)
  BY <1>3, <1>4 DEF BitWords
<1>6. ASSUME NEW i \in Spots(b) PROVE IsOne(v, i) <=> IsOne(w, i) /\ i \in BelowCap(b)
  <2>1. i \in Nat /\ BS!WordOf(i) \in BS!Words(b) /\ BS!BitOf(i) \in Nat
    BY <1>2, SpotsAre, PlaceFacts, PlaceOf
  <2>2. CASE r = 0
    BY <1>4, <2>2, PaddingIs DEF BelowCap
  <2>3. CASE r # 0
    <3>1. i < CapacityOf[b] <=> BS!WordOf(i) # last \/ BS!BitOf(i) < r
      BY <2>3, PaddingIs
    <3>2. v[BS!WordOf(i)] =
            IF BS!WordOf(i) = last THEN w[BS!WordOf(i)] \cap 0 .. r - 1 ELSE w[BS!WordOf(i)]
      BY <1>4, <2>1, <2>3 DEF BitWords
    <3>3. r \in Nat
      BY PaddingIs
    <3>4. BS!BitOf(i) \in 0 .. r - 1 <=> BS!BitOf(i) < r
      BY <2>1, <3>3
    <3>5. i < CapacityOf[b] <=> i \in BelowCap(b)
      BY <2>1, BitsAssumed DEF BelowCap
    <3> HIDE DEF r, v, last
    <3>6. QED
      BY <3>1, <3>2, <3>4, <3>5 DEF IsOne
  <2>4. QED
    BY <2>2, <2>3
<1>7. \A i \in Spots(b) : IsOne(v, i) <=> i \in BitSet(b, w) \cap BelowCap(b)
  BY <1>6 DEF BitSet
<1>8. BitSet(b, w) \cap BelowCap(b) \in SUBSET BelowCap(b)
  OBVIOUS
<1>9. QED
  BY <1>5, <1>7, <1>8, HoldsIf

LEMMA BitsEmptied ==
  ASSUME StructuresAssumption, NEW b \in Bitsets
  PROVE  HoldsSet(b, [w \in BS!Words(b) |-> {}], {})
<1> DEFINE v == [w \in BS!Words(b) |-> {}]
<1>1. v \in BitWords(b)
  BY DEF BitWords
<1>2. \A i \in Spots(b) : IsOne(v, i) <=> i \in {}
  <2>1. \A i \in Spots(b) : BS!WordOf(i) \in BS!Words(b)
    BY SpotPlaced
  <2>2. QED
    BY <2>1 DEF IsOne
<1>3. {} \in SUBSET BelowCap(b)
  OBVIOUS
<1>4. QED
  BY <1>1, <1>2, <1>3, HoldsIf

LEMMA BitsCleared ==
  ASSUME StructuresAssumption, BitsInv, NEW b \in Bitsets, BS!ClearAll(b)
  PROVE  BitsInv' /\ BS!Abstract!ClearAll(b)
BY BitsEmptied, SetBecomes DEF BS!ClearAll, BS!Abstract!ClearAll

LEMMA BitsFilled ==
  ASSUME StructuresAssumption, BitsInv, NEW b \in Bitsets, BS!SetAll(b)
  PROVE  BitsInv' /\ BS!Abstract!SetAll(b)
<1> DEFINE v == [w \in BS!Words(b) |-> BS!Positions]
<1>1. v \in BitWords(b)
  BY DEF BitWords
<1>2. \A i \in Spots(b) : IsOne(v, i)
  BY SpotPlaced DEF IsOne
<1>3. BitSet(b, v) \cap BelowCap(b) = BelowCap(b)
  BY <1>2, PaddingIs DEF BitSet, BelowCap
<1>4. BS!Writes(b, BS!ClearPadding(b, v))
  BY DEF BS!SetAll
<1> HIDE DEF v
<1>5. HoldsSet(b, BS!ClearPadding(b, v), BelowCap(b))
  BY <1>1, <1>3, PaddingCleared
<1>6. BitsInv' /\ BS!Abstract!Becomes(b, BelowCap(b))
  BY <1>4, <1>5, SetBecomes
<1>7. QED
  BY <1>6 DEF BS!Abstract!SetAll, BS!Abstract!Universe, BelowCap

LEMMA BitsTurned ==
  ASSUME StructuresAssumption, BitsInv, NEW b \in Bitsets, BS!Not(b)
  PROVE  BitsInv' /\ BS!Abstract!Not(b)
<1> DEFINE v == [w \in BS!Words(b) |-> BS!Positions \ bs[b][w]]
           S == BitSet(b, bs[b])
<1>1. v \in BitWords(b)
  BY DEF BitWords
<1>2. \A i \in Spots(b) : IsOne(v, i) <=> ~IsOne(bs[b], i)
  BY SpotPlaced DEF IsOne
<1>3. BitSet(b, v) \cap BelowCap(b) = BelowCap(b) \ S
  BY <1>2, PaddingIs DEF BitSet, BelowCap
<1>4. BS!Writes(b, BS!ClearPadding(b, v))
  BY DEF BS!Not
<1>5. S = BS!members[b]
  BY MembersAre
<1> HIDE DEF v, S
<1>6. HoldsSet(b, BS!ClearPadding(b, v), BelowCap(b) \ S)
  BY <1>1, <1>3, PaddingCleared
<1>7. BitsInv' /\ BS!Abstract!Becomes(b, BelowCap(b) \ S)
  BY <1>4, <1>6, SetBecomes
<1>8. QED
  BY <1>5, <1>7 DEF BS!Abstract!Not, BS!Abstract!Universe, BelowCap

-----------------------------------------------------------------------------
(* Two bitsets word by word. *)

(* The ones of another bitset, at the places both have. *)
LEMMA OtherOnes ==
  ASSUME StructuresAssumption, BitsInv, NEW b \in Bitsets, NEW c \in Bitsets
  PROVE  \A i \in Spots(b) :
           i \in BitSet(c, bs[c]) <=> BS!WordOf(i) \in BS!Words(c) /\ IsOne(bs[c], i)
<1> SUFFICES ASSUME NEW i \in Spots(b)
             PROVE  i \in BitSet(c, bs[c]) <=> BS!WordOf(i) \in BS!Words(c) /\ IsOne(bs[c], i)
  OBVIOUS
<1>1. i \in Nat
  BY SpotPlaced
<1>2. i \in Spots(c) <=> BS!WordOf(i) \in BS!Words(c)
  BY <1>1, SpotsAre
<1>3. QED
  BY <1>2 DEF BitSet

LEMMA BitsMet ==
  ASSUME StructuresAssumption, BitsInv, NEW b \in Bitsets, NEW c \in Bitsets, BS!And(b, c)
  PROVE  BitsInv' /\ BS!Abstract!And(b, c)
<1> DEFINE v == [w \in BS!Words(b) |->
                   IF w \in BS!Words(c) THEN bs[b][w] \cap bs[c][w] ELSE {}]
           S == BitSet(b, bs[b])
           T == BitSet(c, bs[c])
<1>1. bs[b] \in BitWords(b) /\ S \subseteq BelowCap(b)
  BY DEF BitsInv, HoldsSet
<1>2. v \in BitWords(b)
  BY <1>1 DEF BitWords
<1>3. ASSUME NEW i \in Spots(b) PROVE IsOne(v, i) <=> i \in S \cap T
  <2>1. BS!WordOf(i) \in BS!Words(b)
    BY SpotPlaced
  <2>2. v[BS!WordOf(i)] = IF BS!WordOf(i) \in BS!Words(c)
                          THEN bs[b][BS!WordOf(i)] \cap bs[c][BS!WordOf(i)] ELSE {}
    BY <2>1
  <2>3. i \in S <=> IsOne(bs[b], i)
    BY DEF BitSet
  <2>4. i \in T <=> BS!WordOf(i) \in BS!Words(c) /\ IsOne(bs[c], i)
    BY OtherOnes
  <2> HIDE DEF v, S, T
  <2>5. QED
    BY <2>2, <2>3, <2>4 DEF IsOne
<1>4. BS!Writes(b, v)
  BY DEF BS!And
<1>5. S = BS!members[b] /\ T = BS!members[c]
  BY MembersAre
<1> HIDE DEF v, S, T
<1>6. S \cap T \in SUBSET BelowCap(b)
  BY <1>1
<1>7. HoldsSet(b, v, S \cap T)
  BY <1>2, <1>3, <1>6, HoldsIf
<1>8. BitsInv' /\ BS!Abstract!Becomes(b, S \cap T)
  BY <1>4, <1>7, SetBecomes
<1>9. QED
  BY <1>5, <1>8 DEF BS!Abstract!And

LEMMA BitsJoined ==
  ASSUME StructuresAssumption, BitsInv, NEW b \in Bitsets, NEW c \in Bitsets,
         ~BS!Overhangs(b, c), BS!Or(b, c)
  PROVE  BitsInv' /\ BS!Abstract!Or(b, c)
<1> DEFINE v == [w \in BS!Words(b) |->
                   IF w \in BS!Words(c) THEN bs[b][w] \cup bs[c][w] ELSE bs[b][w]]
           S == BitSet(b, bs[b])
           T == BitSet(c, bs[c])
           U == (S \cup T) \cap BelowCap(b)
<1>1. /\ bs[b] \in BitWords(b) /\ S \subseteq BelowCap(b)
      /\ bs[c] \in BitWords(c) /\ T \subseteq BelowCap(c)
  BY DEF BitsInv, HoldsSet
<1>2. v \in BitWords(b)
  BY <1>1 DEF BitWords
<1>3. ASSUME NEW i \in Spots(b), i \in T PROVE i \in BelowCap(b)
  <2>1. i \in 0 .. CapacityOf[c] - 1 /\ CapacityOf[b] \in Nat /\ CapacityOf[c] \in Nat
    BY <1>1, <1>3, BitsAssumed DEF BelowCap
  <2>2. CASE CapacityOf[b] < CapacityOf[c]
    <3>1. CapacityOf[b] % Width = 0
      BY <2>2 DEF BS!Overhangs
    <3>2. QED
      BY <3>1, PaddingIs DEF BelowCap
  <2>3. CASE ~(CapacityOf[b] < CapacityOf[c])
    BY <2>1, <2>3 DEF BelowCap
  <2>4. QED
    BY <2>2, <2>3
<1>4. ASSUME NEW i \in Spots(b) PROVE IsOne(v, i) <=> i \in U
  <2>1. BS!WordOf(i) \in BS!Words(b)
    BY SpotPlaced
  <2>2. v[BS!WordOf(i)] = IF BS!WordOf(i) \in BS!Words(c)
                          THEN bs[b][BS!WordOf(i)] \cup bs[c][BS!WordOf(i)]
                          ELSE bs[b][BS!WordOf(i)]
    BY <2>1
  <2>3. i \in S <=> IsOne(bs[b], i)
    BY DEF BitSet
  <2>4. i \in T <=> BS!WordOf(i) \in BS!Words(c) /\ IsOne(bs[c], i)
    BY OtherOnes
  <2>5. i \in U <=> i \in S \/ i \in T
    BY <1>1, <1>3
  <2> HIDE DEF v, S, T, U
  <2>6. QED
    BY <2>2, <2>3, <2>4, <2>5 DEF IsOne
<1>5. BS!Writes(b, v)
  BY DEF BS!Or, BS!Combined
<1>6. S = BS!members[b] /\ T = BS!members[c]
  BY MembersAre
<1>7. U \in SUBSET BelowCap(b)
  OBVIOUS
<1>8. U = (S \cup T) \cap BelowCap(b)
  OBVIOUS
<1> HIDE DEF v, S, T, U
<1>9. HoldsSet(b, v, U)
  BY <1>2, <1>4, <1>7, HoldsIf
<1>10. BitsInv' /\ BS!Abstract!Becomes(b, U)
  BY <1>5, <1>9, SetBecomes
<1>11. QED
  BY <1>6, <1>8, <1>10 DEF BS!Abstract!Or, BS!Abstract!Universe, BelowCap

LEMMA BitsDiffered ==
  ASSUME StructuresAssumption, BitsInv, NEW b \in Bitsets, NEW c \in Bitsets, BS!Xor(b, c)
  PROVE  BitsInv' /\ BS!Abstract!Xor(b, c)
<1> DEFINE v == [w \in BS!Words(b) |->
                   IF w \in BS!Words(c)
                   THEN (bs[b][w] \ bs[c][w]) \cup (bs[c][w] \ bs[b][w]) ELSE bs[b][w]]
           S == BitSet(b, bs[b])
           T == BitSet(c, bs[c])
           U == ((S \ T) \cup (T \ S)) \cap BelowCap(b)
<1>1. bs[b] \in BitWords(b) /\ S \subseteq BelowCap(b) /\ bs[c] \in BitWords(c)
  BY DEF BitsInv, HoldsSet
<1>2. v \in BitWords(b)
  BY <1>1 DEF BitWords
<1>3. ASSUME NEW i \in Spots(b) PROVE IsOne(v, i) <=> i \in (S \ T) \cup (T \ S)
  <2>1. BS!WordOf(i) \in BS!Words(b)
    BY SpotPlaced
  <2>2. v[BS!WordOf(i)] = IF BS!WordOf(i) \in BS!Words(c)
                          THEN (bs[b][BS!WordOf(i)] \ bs[c][BS!WordOf(i)])
                               \cup (bs[c][BS!WordOf(i)] \ bs[b][BS!WordOf(i)])
                          ELSE bs[b][BS!WordOf(i)]
    BY <2>1
  <2>3. i \in S <=> IsOne(bs[b], i)
    BY DEF BitSet
  <2>4. i \in T <=> BS!WordOf(i) \in BS!Words(c) /\ IsOne(bs[c], i)
    BY OtherOnes
  <2> HIDE DEF v, S, T, U
  <2>5. QED
    BY <2>2, <2>3, <2>4 DEF IsOne
<1>4. BitSet(b, v) \cap BelowCap(b) = U
  <2>1. BelowCap(b) \subseteq Spots(b)
    BY PaddingIs DEF BelowCap
  <2> HIDE DEF v, S, T
  <2>2. QED
    BY <1>3, <2>1 DEF BitSet
<1>5. BS!Writes(b, BS!ClearPadding(b, v))
  BY DEF BS!Xor, BS!Combined
<1>6. S = BS!members[b] /\ T = BS!members[c]
  BY MembersAre
<1>7. U = ((S \ T) \cup (T \ S)) \cap BelowCap(b)
  OBVIOUS
<1> HIDE DEF v, S, T, U
<1>8. HoldsSet(b, BS!ClearPadding(b, v), U)
  BY <1>2, <1>4, PaddingCleared
<1>9. BitsInv' /\ BS!Abstract!Becomes(b, U)
  BY <1>5, <1>8, SetBecomes
<1>10. QED
  BY <1>6, <1>7, <1>9 DEF BS!Abstract!Xor, BS!Abstract!Universe, BelowCap

-----------------------------------------------------------------------------
(* bitset_count: the ones of the words are the members. *)

LEMMA BitsCardinality ==
  \A S : BS!Cardinality(S) = Cardinality(S) /\ BS!Abstract!Cardinality(S) = Cardinality(S)
BY DEF BS!Cardinality, BS!Abstract!Cardinality, Cardinality

LEMMA OnesCounted ==
  ASSUME StructuresAssumption, BitsInv, NEW b \in Bitsets
  PROVE  Cardinality(BS!Ones(b)) = Cardinality(BS!members[b])
<1> DEFINE S == BitSet(b, bs[b])
           T == BS!Ones(b)
           f == [i \in S |-> <<BS!WordOf(i), BS!BitOf(i)>>]
<1>1. bs[b] \in BitWords(b) /\ S \subseteq BelowCap(b) /\ S = BS!members[b]
  BY MembersAre DEF BitsInv, HoldsSet
<1>2. S \subseteq Spots(b)
  BY DEF BitSet
<1>3. f \in [S -> T]
  <2>1. ASSUME NEW i \in S PROVE <<BS!WordOf(i), BS!BitOf(i)>> \in T
    <3>1. BS!WordOf(i) \in BS!Words(b) /\ BS!BitOf(i) \in BS!Positions
      BY <1>2, <2>1, SpotPlaced
    <3>2. BS!BitOf(i) \in bs[b][BS!WordOf(i)]
      BY <2>1 DEF BitSet, IsOne
    <3>3. QED
      BY <3>1, <3>2 DEF BS!Ones
  <2> HIDE DEF S, T
  <2>2. QED
    BY <2>1
<1>4. ASSUME NEW i \in S, NEW j \in S, f[i] = f[j] PROVE i = j
  <2>1. BS!WordOf(i) = BS!WordOf(j) /\ BS!BitOf(i) = BS!BitOf(j)
    BY <1>4
  <2>2. i \in Nat /\ j \in Nat
    BY <1>2, <1>4, SpotPlaced
  <2>3. QED
    BY <2>1, <2>2, SamePlace
<1>5. ASSUME NEW o \in T PROVE \E i \in S : f[i] = o
  <2>1. PICK w \in BS!Words(b), p \in BS!Positions : o = <<w, p>> /\ p \in bs[b][w]
    BY <1>5 DEF BS!Ones
  <2> DEFINE i == Width * w + p
  <2>2. w \in Nat
    BY <2>1 DEF BS!Words
  <2>3. i \in Nat /\ BS!WordOf(i) = w /\ BS!BitOf(i) = p
    BY <2>1, <2>2, PlaceOf
  <2> HIDE DEF i
  <2>4. i \in Spots(b)
    BY <2>1, <2>3, SpotsAre
  <2>5. i \in S
    BY <2>1, <2>3, <2>4 DEF BitSet, IsOne
  <2>6. QED
    BY <2>1, <2>3, <2>5
<1>6. IsFiniteSet(S)
  <2>1. CapacityOf[b] - 1 \in Int /\ 0 \in Int
    BY BitsAssumed
  <2>2. IsFiniteSet(0 .. CapacityOf[b] - 1)
    BY <2>1, FS_Interval
  <2>3. QED
    BY <1>1, <2>2, FS_Subset DEF BelowCap
<1> HIDE DEF S, T, f
<1>7. f \in Bijection(S, T)
  BY <1>3, <1>4, <1>5 DEF Bijection, Injection, Surjection, IsInjective
<1>8. ExistsBijection(S, T)
  BY <1>7 DEF ExistsBijection
<1>9. Cardinality(T) = Cardinality(S)
  BY <1>6, <1>8, FS_Bijection
<1>10. QED
  BY <1>1, <1>9 DEF T

-----------------------------------------------------------------------------
(* The searches: the least member is the lowest one of the lowest word     *)
(* that has any.                                                           *)

LEMMA LowestIs ==
  ASSUME NEW S \in SUBSET Nat, S # {}
  PROVE  BS!Lowest(S) \in S /\ \A j \in S : BS!Lowest(S) <= j
BY LeastNumber DEF BS!Lowest

LEMMA LeastIs ==
  ASSUME NEW S \in SUBSET Nat, NEW m \in S, \A j \in S : m <= j
  PROVE  BS!Abstract!Least(S) = <<m>>
<1> DEFINE x == CHOOSE i \in S : \A j \in S : i <= j
<1>1. x \in S /\ \A j \in S : x <= j
  OBVIOUS
<1>2. S # {} /\ BS!Abstract!Least(S) = IF S = {} THEN <<>> ELSE <<x>>
  BY DEF BS!Abstract!Least
<1> HIDE DEF x
<1>3. x = m
  <2>1. x <= m /\ m <= x /\ x \in Nat /\ m \in Nat
    BY <1>1
  <2>2. QED
    BY <2>1
<1>4. QED
  BY <1>2, <1>3

LEMMA GreatestNumber ==
  ASSUME NEW S \in SUBSET Nat, S # {}, NEW n \in Nat, \A j \in S : j <= n
  PROVE  \E m \in S : \A j \in S : j <= m
<1> DEFINE R == {n - j : j \in S}
<1>1. R \in SUBSET Nat /\ R # {}
  <2>1. \A j \in S : n - j \in Nat
    OBVIOUS
  <2>2. R \subseteq Nat
    BY <2>1
  <2>3. QED
    BY <2>2
<1>2. PICK x \in R : \A y \in R : x <= y
  BY <1>1, LeastNumber
<1>3. PICK m \in S : x = n - m
  BY <1>2
<1>4. ASSUME NEW j \in S PROVE j <= m
  <2>1. n - m <= n - j
    BY <1>2, <1>3
  <2>2. j \in Nat /\ m \in Nat
    OBVIOUS
  <2> HIDE DEF R
  <2>3. QED
    BY <2>1, <2>2
<1>5. QED
  BY <1>4

LEMMA HighestIs ==
  ASSUME NEW S \in SUBSET Nat, S # {}, NEW n \in Nat, \A j \in S : j <= n
  PROVE  BS!Highest(S) \in S /\ \A j \in S : j <= BS!Highest(S)
BY GreatestNumber DEF BS!Highest

LEMMA GreatestIs ==
  ASSUME NEW S \in SUBSET Nat, NEW m \in S, \A j \in S : j <= m
  PROVE  BS!Abstract!Greatest(S) = <<m>>
<1> DEFINE x == CHOOSE i \in S : \A j \in S : j <= i
<1>1. x \in S /\ \A j \in S : j <= x
  OBVIOUS
<1>2. S # {} /\ BS!Abstract!Greatest(S) = IF S = {} THEN <<>> ELSE <<x>>
  BY DEF BS!Abstract!Greatest
<1> HIDE DEF x
<1>3. x = m
  <2>1. x <= m /\ m <= x /\ x \in Nat /\ m \in Nat
    BY <1>1
  <2>2. QED
    BY <2>1
<1>4. QED
  BY <1>2, <1>3

LEMMA NoneIs ==
  BS!Abstract!Least({}) = <<>> /\ BS!Abstract!Greatest({}) = <<>>
BY DEF BS!Abstract!Least, BS!Abstract!Greatest

(* A one of a word is a member, and each member is such a one. *)
LEMMA OneIsMember ==
  ASSUME StructuresAssumption, BitsInv, NEW b \in Bitsets, NEW w \in BS!Words(b),
         NEW p \in bs[b][w]
  PROVE  /\ w \in Nat /\ p \in BS!Positions /\ p \in Nat
         /\ w * Width + p \in BS!members[b] /\ w * Width + p \in Nat
         /\ BS!WordOf(w * Width + p) = w /\ BS!BitOf(w * Width + p) = p
         /\ BS!Found(b, w * Width + p) = <<w * Width + p>>
<1>1. bs[b] \in BitWords(b) /\ BitSet(b, bs[b]) \subseteq BelowCap(b)
  BY DEF BitsInv, HoldsSet
<1>2. w \in Nat /\ p \in BS!Positions
  <2>1. bs[b][w] \in SUBSET BS!Positions
    BY <1>1 DEF BitWords
  <2>2. w \in Nat
    BY DEF BS!Words
  <2>3. QED
    BY <2>1, <2>2
<1> DEFINE i == w * Width + p
<1>3. w * Width = Width * w
  BY <1>2, BitsAssumed, TimesCommutes
<1>4. i \in Nat /\ p \in Nat /\ BS!WordOf(i) = w /\ BS!BitOf(i) = p
  BY <1>2, <1>3, PlaceOf
<1> HIDE DEF i
<1>5. i \in Spots(b)
  BY <1>4, SpotsAre
<1>6. i \in BitSet(b, bs[b])
  BY <1>4, <1>5 DEF BitSet, IsOne
<1>7. i < CapacityOf[b]
  <2>1. i \in 0 .. CapacityOf[b] - 1 /\ CapacityOf[b] \in Nat
    BY <1>1, <1>6, BitsAssumed DEF BelowCap
  <2>2. QED
    BY <1>4, <2>1
<1>8. BS!Found(b, i) = <<i>>
  BY <1>7 DEF BS!Found
<1>9. QED
  BY <1>2, <1>4, <1>6, <1>8, MembersAre DEF i

LEMMA MemberIsOne ==
  ASSUME StructuresAssumption, BitsInv, NEW b \in Bitsets, NEW i \in BS!members[b]
  PROVE  /\ i \in Nat /\ i < CapacityOf[b] /\ i \in BelowCap(b)
         /\ BS!WordOf(i) \in BS!Words(b) /\ BS!WordOf(i) \in Nat
         /\ BS!BitOf(i) \in bs[b][BS!WordOf(i)] /\ BS!BitOf(i) \in Nat
<1>1. i \in BitSet(b, bs[b]) /\ BitSet(b, bs[b]) \subseteq BelowCap(b)
  BY MembersAre DEF BitsInv, HoldsSet
<1>2. i \in Spots(b) /\ BS!BitOf(i) \in bs[b][BS!WordOf(i)]
  BY <1>1 DEF BitSet, IsOne
<1>3. i \in Nat /\ BS!WordOf(i) \in BS!Words(b) /\ BS!BitOf(i) \in BS!Positions
  BY <1>2, SpotPlaced
<1>4. BS!WordOf(i) \in Nat /\ BS!BitOf(i) \in Nat
  BY <1>3, PlaceFacts, PlaceOf
<1>5. i < CapacityOf[b]
  <2>1. i \in 0 .. CapacityOf[b] - 1 /\ CapacityOf[b] \in Nat
    BY <1>1, BitsAssumed DEF BelowCap
  <2>2. QED
    BY <1>3, <2>1
<1>6. QED
  BY <1>1, <1>2, <1>3, <1>4, <1>5

(* The lowest one of the first word that has any is before the others. *)
LEMMA FirstOne ==
  ASSUME StructuresAssumption, BitsInv, NEW b \in Bitsets, NEW w \in Nat
  PROVE  BS!FirstFrom(b, w) = BS!Abstract!Least({i \in BS!members[b] : BS!WordOf(i) >= w})
<1> DEFINE full == {x \in BS!Words(b) : x >= w /\ bs[b][x] # {}}
           L == {i \in BS!members[b] : BS!WordOf(i) >= w}
           x == BS!Lowest(full)
           p == BS!Lowest(bs[b][x])
           i == x * Width + p
<1>1. BS!FirstFrom(b, w) = IF full = {} THEN <<>> ELSE BS!Found(b, i)
  BY DEF BS!FirstFrom
<1>2. ASSUME NEW j \in L PROVE BS!WordOf(j) \in full
  BY MemberIsOne
<1>3. full \in SUBSET Nat
  BY DEF BS!Words
<1>4. L \in SUBSET Nat
  BY MemberIsOne
<1>5. CASE full = {}
  <2>1. L = {}
    BY <1>2, <1>5
  <2> HIDE DEF full, L, i
  <2>2. QED
    BY <1>1, <1>5, <2>1, NoneIs DEF L
<1>6. CASE full # {}
  <2>1. x \in full /\ \A y \in full : x <= y
    BY <1>3, <1>6, LowestIs
  <2> HIDE DEF x
  <2>2. x \in BS!Words(b) /\ x >= w /\ bs[b][x] # {}
    BY <2>1
  <2>3. bs[b][x] \in SUBSET Nat
    BY <2>2, OneIsMember
  <2>4. p \in bs[b][x] /\ \A q \in bs[b][x] : p <= q
    BY <2>2, <2>3, LowestIs
  <2> HIDE DEF p
  <2>5. /\ x \in Nat /\ p \in Nat /\ i \in BS!members[b] /\ i \in Nat
        /\ BS!WordOf(i) = x /\ BS!BitOf(i) = p /\ BS!Found(b, i) = <<i>>
    BY <2>2, <2>4, OneIsMember
  <2> HIDE DEF i
  <2>6. i \in L
    BY <2>2, <2>5
  <2>7. ASSUME NEW j \in L PROVE i <= j
    <3>1. /\ j \in Nat /\ BS!WordOf(j) \in Nat /\ BS!BitOf(j) \in Nat
          /\ BS!BitOf(j) \in bs[b][BS!WordOf(j)]
      BY <2>7, MemberIsOne
    <3>2. x <= BS!WordOf(j)
      BY <1>2, <2>1, <2>7
    <3>3. BS!WordOf(j) = x => p <= BS!BitOf(j)
      BY <2>4, <3>1
    <3>4. ~(j < i)
      <4>1. j < i <=> \/ BS!WordOf(j) < BS!WordOf(i)
                      \/ BS!WordOf(j) = BS!WordOf(i) /\ BS!BitOf(j) < BS!BitOf(i)
        BY <2>5, <3>1, SamePlace
      <4>2. QED
        BY <2>5, <3>1, <3>2, <3>3, <4>1
    <3>5. QED
      BY <2>5, <3>1, <3>4
  <2> HIDE DEF L, full
  <2>8. BS!Abstract!Least(L) = <<i>>
    BY <1>4, <2>6, <2>7, LeastIs
  <2>9. QED
    BY <1>1, <1>6, <2>5, <2>8 DEF L
<1>7. QED
  BY <1>5, <1>6

LEMMA BitsKeep ==
  ASSUME BitsInv, NEW answer, BS!Answers(answer)
  PROVE  BitsInv' /\ BS!Abstract!Answers(answer)
<1>1. bs' = bs /\ bsRet' = answer
  BY DEF BS!Answers
<1>2. BitsInv'
  BY <1>1 DEF BitsInv
<1>3. BS!members' = BS!members
  BY <1>1, MembersAre
<1>4. QED
  BY <1>1, <1>2, <1>3 DEF BS!Abstract!Answers

LEMMA BitsCount ==
  ASSUME StructuresAssumption, BitsInv, NEW b \in Bitsets, BS!Count(b)
  PROVE  BitsInv' /\ BS!Abstract!Count(b)
<1>1. BS!Cardinality(BS!Ones(b)) = BS!Abstract!Cardinality(BS!members[b])
  BY OnesCounted, BitsCardinality
<1>2. BS!Answers(<<BS!Abstract!Cardinality(BS!members[b])>>)
  BY <1>1 DEF BS!Count
<1>3. BitsInv' /\ BS!Abstract!Answers(<<BS!Abstract!Cardinality(BS!members[b])>>)
  BY <1>2, BitsKeep
<1>4. QED
  BY <1>3 DEF BS!Abstract!Count

LEMMA BitsFirst ==
  ASSUME StructuresAssumption, BitsInv, NEW b \in Bitsets, BS!FindFirst(b)
  PROVE  BitsInv' /\ BS!Abstract!FindFirst(b)
<1>1. 0 \in Nat
  OBVIOUS
<1>2. {i \in BS!members[b] : BS!WordOf(i) >= 0} = BS!members[b]
  BY MemberIsOne
<1>3. BS!FirstFrom(b, 0) = BS!Abstract!Least(BS!members[b])
  BY <1>1, <1>2, FirstOne
<1>4. BS!Answers(BS!Abstract!Least(BS!members[b]))
  BY <1>3 DEF BS!FindFirst
<1>5. BitsInv' /\ BS!Abstract!Answers(BS!Abstract!Least(BS!members[b]))
  BY <1>4, BitsKeep
<1>6. QED
  BY <1>5 DEF BS!Abstract!FindFirst

LEMMA BitsLast ==
  ASSUME StructuresAssumption, BitsInv, NEW b \in Bitsets, BS!FindLast(b)
  PROVE  BitsInv' /\ BS!Abstract!FindLast(b)
<1> DEFINE full == {x \in BS!Words(b) : bs[b][x] # {}}
           M == BS!members[b]
           x == BS!Highest(full)
           p == BS!Highest(bs[b][x])
           i == x * Width + p
           answer == IF full = {} THEN <<>> ELSE BS!Found(b, i)
<1>1. BS!Answers(answer)
  BY DEF BS!FindLast
<1>2. M \in SUBSET Nat /\ \A j \in M : BS!WordOf(j) \in full
  BY MemberIsOne
<1>3. answer = BS!Abstract!Greatest(M)
  <2>1. CASE full = {}
    <3>1. M = {}
      BY <1>2, <2>1
    <3> HIDE DEF full, M, i
    <3>2. QED
      BY <2>1, <3>1, NoneIs
  <2>2. CASE full # {}
    <3>1. x \in full /\ \A y \in full : y <= x
      <4>1. full \in SUBSET Nat /\ BS!WordCount(b) \in Nat
            /\ \A y \in full : y <= BS!WordCount(b)
        <5>1. 0 \in Nat
          OBVIOUS
        <5>2. BS!WordCount(b) \in Nat
          BY <5>1, SpotsAre
        <5>3. QED
          BY <5>2 DEF BS!Words
      <4>2. QED
        BY <2>2, <4>1, HighestIs
    <3> HIDE DEF x
    <3>2. x \in BS!Words(b) /\ bs[b][x] # {}
      BY <3>1
    <3>3. \A q \in bs[b][x] : q \in Nat /\ q \in BS!Positions
      BY <3>2, OneIsMember
    <3>4. p \in bs[b][x] /\ \A q \in bs[b][x] : q <= p
      <4>1. bs[b][x] \in SUBSET Nat /\ Width \in Nat /\ \A q \in bs[b][x] : q <= Width
        BY <3>3, BitsAssumed DEF BS!Positions
      <4>2. QED
        BY <3>2, <4>1, HighestIs
    <3> HIDE DEF p
    <3>5. /\ x \in Nat /\ p \in Nat /\ i \in M /\ i \in Nat
          /\ BS!WordOf(i) = x /\ BS!BitOf(i) = p /\ BS!Found(b, i) = <<i>>
      BY <3>2, <3>4, OneIsMember
    <3> HIDE DEF i
    <3>6. ASSUME NEW j \in M PROVE j <= i
      <4>1. /\ j \in Nat /\ BS!WordOf(j) \in Nat /\ BS!BitOf(j) \in Nat
            /\ BS!BitOf(j) \in bs[b][BS!WordOf(j)]
        BY <3>6, MemberIsOne
      <4>2. BS!WordOf(j) <= x
        BY <1>2, <3>1, <3>6
      <4>3. BS!WordOf(j) = x => BS!BitOf(j) <= p
        BY <3>4, <4>1
      <4>4. i < j <=> \/ BS!WordOf(i) < BS!WordOf(j)
                      \/ BS!WordOf(i) = BS!WordOf(j) /\ BS!BitOf(i) < BS!BitOf(j)
        BY <3>5, <4>1, SamePlace
      <4>5. ~(i < j)
        BY <3>5, <4>1, <4>2, <4>3, <4>4
      <4>6. QED
        BY <3>5, <4>1, <4>5
    <3> HIDE DEF M, full
    <3>7. BS!Abstract!Greatest(M) = <<i>>
      BY <1>2, <3>5, <3>6, GreatestIs
    <3>8. QED
      BY <2>2, <3>5, <3>7
  <2>3. QED
    BY <2>1, <2>2
<1> HIDE DEF answer
<1>4. BitsInv' /\ BS!Abstract!Answers(answer)
  BY <1>1, BitsKeep
<1>5. QED
  BY <1>3, <1>4 DEF BS!Abstract!FindLast

(* The rest of the word that prev + 1 is in comes before the words after.  *)
LEMMA BitsNext ==
  ASSUME StructuresAssumption, BitsInv, NEW b \in Bitsets, NEW prev \in BelowCap(b),
         BS!FindNext(b, prev)
  PROVE  BitsInv' /\ BS!Abstract!FindNext(b, prev)
<1> DEFINE start == prev + 1
           w == BS!WordOf(start)
           at == BS!BitOf(start)
           rest == {p \in bs[b][w] : p >= at}
           L == {j \in BS!members[b] : j > prev}
           low == BS!Lowest(rest)
           i == w * Width + low
           answer == IF start >= CapacityOf[b] THEN <<>>
                     ELSE IF rest # {} THEN BS!Found(b, i)
                     ELSE BS!FirstFrom(b, w + 1)
<1>1. BS!Answers(answer)
  BY DEF BS!FindNext
<1>2. prev \in Nat /\ start \in Nat /\ start = prev + 1
  BY BitsAssumed DEF BelowCap
<1>3. L \in SUBSET Nat /\ \A j \in L : j \in BS!members[b] /\ j >= start
  BY <1>2, MemberIsOne
<1>4. w \in Nat /\ at \in Nat /\ at \in BS!Positions
  BY <1>2, PlaceFacts, PlaceOf
<1> HIDE DEF start
<1>5. ASSUME NEW j \in BS!members[b]
      PROVE  j \in L <=> \/ w < BS!WordOf(j)
                         \/ w = BS!WordOf(j) /\ at <= BS!BitOf(j)
  <2>1. j \in Nat /\ BS!WordOf(j) \in Nat /\ BS!BitOf(j) \in Nat
    BY MemberIsOne
  <2>2. j < start <=> \/ BS!WordOf(j) < w
                      \/ BS!WordOf(j) = w /\ BS!BitOf(j) < at
    BY <1>2, <2>1, SamePlace
  <2>3. j \in L <=> ~(j < start)
    BY <1>2, <2>1
  <2> HIDE DEF L, w, at
  <2>4. QED
    BY <1>4, <2>1, <2>2, <2>3
<1>6. answer = BS!Abstract!Least(L)
  <2>1. CASE start >= CapacityOf[b]
    <3>1. L = {}
      <4>1. SUFFICES ASSUME NEW j \in L PROVE FALSE
        OBVIOUS
      <4>2. j \in Nat /\ j < CapacityOf[b] /\ j >= start /\ CapacityOf[b] \in Nat
        BY <1>3, MemberIsOne, BitsAssumed
      <4>3. QED
        BY <1>2, <2>1, <4>2
    <3>2. answer = <<>>
      BY <2>1
    <3>3. QED
      BY <3>1, <3>2, NoneIs
  <2>2. CASE ~(start >= CapacityOf[b]) /\ rest # {}
    <3>1. w \in BS!Words(b)
      <4>1. start \in 0 .. CapacityOf[b] - 1
        BY <1>2, <2>2, BitsAssumed
      <4>2. start \in Spots(b)
        BY <4>1, PaddingIs
      <4>3. QED
        BY <4>2, SpotPlaced
    <3>2. rest \in SUBSET Nat
      BY <3>1, OneIsMember
    <3>3. low \in rest /\ \A q \in rest : low <= q
      BY <2>2, <3>2, LowestIs
    <3> HIDE DEF low
    <3>4. low \in bs[b][w] /\ low >= at /\ low \in Nat
      BY <3>2, <3>3
    <3>5. /\ i \in BS!members[b] /\ i \in Nat
          /\ BS!WordOf(i) = w /\ BS!BitOf(i) = low /\ BS!Found(b, i) = <<i>>
      BY <3>1, <3>4, OneIsMember
    <3> HIDE DEF i
    <3>6. i \in L
      BY <1>4, <1>5, <3>4, <3>5
    <3>7. ASSUME NEW j \in L PROVE i <= j
      <4>1. /\ j \in BS!members[b] /\ j \in Nat /\ BS!WordOf(j) \in Nat /\ BS!BitOf(j) \in Nat
            /\ BS!BitOf(j) \in bs[b][BS!WordOf(j)]
        BY <1>3, <3>7, MemberIsOne
      <4>2. w < BS!WordOf(j) \/ (w = BS!WordOf(j) /\ at <= BS!BitOf(j))
        BY <1>5, <3>7, <4>1
      <4>3. w = BS!WordOf(j) => low <= BS!BitOf(j)
        <5>1. SUFFICES ASSUME w = BS!WordOf(j) PROVE low <= BS!BitOf(j)
          OBVIOUS
        <5>2. at <= BS!BitOf(j)
          BY <1>4, <4>2, <5>1
        <5>3. BS!BitOf(j) \in rest
          BY <1>4, <4>1, <5>1, <5>2
        <5>4. QED
          BY <3>3, <5>3
      <4>4. j < i <=> \/ BS!WordOf(j) < BS!WordOf(i)
                      \/ BS!WordOf(j) = BS!WordOf(i) /\ BS!BitOf(j) < BS!BitOf(i)
        BY <3>5, <4>1, SamePlace
      <4> HIDE DEF w, at, rest, L
      <4>5. ~(j < i)
        BY <1>4, <3>4, <3>5, <4>1, <4>2, <4>3, <4>4
      <4>6. QED
        BY <3>5, <4>1, <4>5
    <3>8. answer = BS!Found(b, i)
      BY <2>2 DEF i, low
    <3> HIDE DEF L, answer
    <3>9. BS!Abstract!Least(L) = <<i>>
      BY <1>3, <3>6, <3>7, LeastIs
    <3>10. QED
      BY <3>5, <3>8, <3>9
  <2>3. CASE ~(start >= CapacityOf[b]) /\ rest = {}
    <3> DEFINE v == w + 1
               T == {j \in BS!members[b] : BS!WordOf(j) >= v}
    <3>1. v \in Nat
      BY <1>4
    <3>2. answer = BS!FirstFrom(b, v)
      BY <2>3
    <3>3. ASSUME NEW j \in BS!members[b] PROVE j \in L <=> BS!WordOf(j) >= v
      <4>1. BS!WordOf(j) \in Nat /\ BS!BitOf(j) \in Nat /\ BS!BitOf(j) \in bs[b][BS!WordOf(j)]
        BY MemberIsOne
      <4>2. ~(w = BS!WordOf(j) /\ at <= BS!BitOf(j))
        <5>1. SUFFICES ASSUME w = BS!WordOf(j), at <= BS!BitOf(j) PROVE FALSE
          OBVIOUS
        <5>2. BS!BitOf(j) \in rest
          BY <1>4, <4>1, <5>1
        <5>3. QED
          BY <2>3, <5>2
      <4>3. j \in L <=> w < BS!WordOf(j)
        BY <1>5, <4>2
      <4> HIDE DEF L, w
      <4>4. QED
        BY <1>4, <4>1, <4>3
    <3>4. L = T
      BY <3>3
    <3> HIDE DEF v, L
    <3>5. BS!FirstFrom(b, v) = BS!Abstract!Least(T)
      BY <3>1, FirstOne
    <3>6. QED
      BY <3>2, <3>4, <3>5
  <2>4. QED
    BY <2>1, <2>2, <2>3
<1> HIDE DEF answer
<1>7. BitsInv' /\ BS!Abstract!Answers(answer)
  BY <1>1, BitsKeep
<1>8. QED
  BY <1>6, <1>7 DEF BS!Abstract!FindNext

-----------------------------------------------------------------------------
(* Each call is the call of its name on sets, if none that bitset_or is    *)
(* given overhangs the other.                                              *)
NoOverhang == \A p \in OrPairs : ~BS!Overhangs(p[1], p[2])

LEMMA BitsAt ==
  ASSUME StructuresAssumption, BitsInv, NEW b \in Bitsets, NEW i \in 0 .. CapacityOf[b] - 1
  PROVE  /\ BS!SetBit(b, i) => BitsInv' /\ BS!Abstract!SetBit(b, i)
         /\ BS!ClearBit(b, i) => BitsInv' /\ BS!Abstract!ClearBit(b, i)
         /\ BS!Toggle(b, i) => BitsInv' /\ BS!Abstract!Toggle(b, i)
         /\ BS!FindNext(b, i) => BitsInv' /\ BS!Abstract!FindNext(b, i)
<1>1. i \in BelowCap(b)
  BY DEF BelowCap
<1>2. QED
  BY <1>1, BitSets, BitClears, BitToggles, BitsNext

LEMMA BitsOf ==
  ASSUME StructuresAssumption, BitsInv, NEW b \in Bitsets
  PROVE  /\ BS!ClearAll(b) => BitsInv' /\ BS!Abstract!ClearAll(b)
         /\ BS!SetAll(b) => BitsInv' /\ BS!Abstract!SetAll(b)
         /\ BS!Not(b) => BitsInv' /\ BS!Abstract!Not(b)
         /\ BS!Count(b) => BitsInv' /\ BS!Abstract!Count(b)
         /\ BS!FindFirst(b) => BitsInv' /\ BS!Abstract!FindFirst(b)
         /\ BS!FindLast(b) => BitsInv' /\ BS!Abstract!FindLast(b)
BY BitsCleared, BitsFilled, BitsTurned, BitsCount, BitsFirst, BitsLast

LEMMA BitsOr ==
  ASSUME StructuresAssumption, NoOverhang, BitsInv, NEW p \in OrPairs, BS!Or(p[1], p[2])
  PROVE  /\ p[1] \in Bitsets /\ p[2] \in Bitsets
         /\ BitsInv' /\ BS!Abstract!Or(p[1], p[2])
<1>1. p[1] \in Bitsets /\ p[2] \in Bitsets
  BY DEF StructuresAssumption, BS!BitsetAssumption
<1>2. ~BS!Overhangs(p[1], p[2])
  BY DEF NoOverhang
<1>3. QED
  BY <1>1, <1>2, BitsJoined

LEMMA BitsStep ==
  ASSUME StructuresAssumption, NoOverhang, BitsInv, [BS!Next]_(BS!vars)
  PROVE  BitsGoal
<1>1. ASSUME NEW b \in Bitsets, NEW i \in 0 .. CapacityOf[b] - 1,
             \/ BS!SetBit(b, i) \/ BS!ClearBit(b, i) \/ BS!Toggle(b, i)
             \/ BS!FindNext(b, i)
      PROVE  BitsGoal
  <2>1. i \in BS!Abstract!Universe(b)
    BY DEF BS!Abstract!Universe
  <2>2. /\ BitsInv'
        /\ \/ BS!Abstract!SetBit(b, i) \/ BS!Abstract!ClearBit(b, i)
           \/ BS!Abstract!Toggle(b, i) \/ BS!Abstract!FindNext(b, i)
    BY <1>1, BitsAt
  <2>3. QED
    BY <2>1, <2>2 DEF BitsGoal, BS!Abstract!Next
<1>2. ASSUME NEW b \in Bitsets,
             \/ BS!ClearAll(b) \/ BS!SetAll(b) \/ BS!Not(b)
             \/ BS!Count(b) \/ BS!FindFirst(b) \/ BS!FindLast(b)
      PROVE  BitsGoal
  <2>1. /\ BitsInv'
        /\ \/ BS!Abstract!ClearAll(b) \/ BS!Abstract!SetAll(b) \/ BS!Abstract!Not(b)
           \/ BS!Abstract!Count(b) \/ BS!Abstract!FindFirst(b) \/ BS!Abstract!FindLast(b)
    BY <1>2, BitsOf
  <2>2. QED
    BY <2>1 DEF BitsGoal, BS!Abstract!Next
<1>3. ASSUME NEW b \in Bitsets, NEW c \in Bitsets, BS!And(b, c) \/ BS!Xor(b, c)
      PROVE  BitsGoal
  <2>1. BitsInv' /\ (BS!Abstract!And(b, c) \/ BS!Abstract!Xor(b, c))
    BY <1>3, BitsMet, BitsDiffered
  <2>2. QED
    BY <2>1 DEF BitsGoal, BS!Abstract!Next
<1>4. ASSUME NEW p \in OrPairs, BS!Or(p[1], p[2])
      PROVE  BitsGoal
  BY <1>4, BitsOr DEF BitsGoal, BS!Abstract!Next
<1>5. CASE UNCHANGED BS!vars
  <2>1. bs' = bs /\ bsRet' = bsRet
    BY <1>5 DEF BS!vars
  <2>2. BitsInv'
    BY <2>1 DEF BitsInv
  <2>3. BS!members' = BS!members
    BY <2>1, MembersAre
  <2>4. QED
    BY <2>1, <2>2, <2>3 DEF BitsGoal, BS!Abstract!vars
<1>6. QED
  BY <1>1, <1>2, <1>3, <1>4, <1>5 DEF BS!Next

LEMMA BitsCalls ==
  ASSUME StructuresAssumption, NoOverhang, BitsInv
  PROVE  BS!Calls
<1>1. ASSUME NEW b \in Bitsets, NEW i \in 0 .. CapacityOf[b] - 1
      PROVE  /\ BS!SetBit(b, i) => BS!Abstract!SetBit(b, i)
             /\ BS!ClearBit(b, i) => BS!Abstract!ClearBit(b, i)
             /\ BS!Toggle(b, i) => BS!Abstract!Toggle(b, i)
             /\ BS!FindNext(b, i) => BS!Abstract!FindNext(b, i)
  BY BitsAt
<1>2. ASSUME NEW b \in Bitsets
      PROVE  /\ BS!ClearAll(b) => BS!Abstract!ClearAll(b)
             /\ BS!SetAll(b) => BS!Abstract!SetAll(b)
             /\ BS!Not(b) => BS!Abstract!Not(b)
             /\ BS!Count(b) => BS!Abstract!Count(b)
             /\ BS!FindFirst(b) => BS!Abstract!FindFirst(b)
             /\ BS!FindLast(b) => BS!Abstract!FindLast(b)
  BY BitsOf
<1>3. ASSUME NEW b \in Bitsets, NEW c \in Bitsets
      PROVE  /\ BS!And(b, c) => BS!Abstract!And(b, c)
             /\ BS!Xor(b, c) => BS!Abstract!Xor(b, c)
  BY BitsMet, BitsDiffered
<1>4. \A p \in OrPairs : BS!Or(p[1], p[2]) => BS!Abstract!Or(p[1], p[2])
  BY BitsOr
<1>5. QED
  BY <1>1, <1>2, <1>3, <1>4 DEF BS!Calls

LEMMA BitsStart ==
  ASSUME StructuresAssumption, BS!Init
  PROVE  BitsInv /\ BS!Abstract!Init
<1>1. bs = [b \in Bitsets |-> [w \in BS!Words(b) |-> {}]] /\ bsRet = <<>>
  BY DEF BS!Init
<1>2. \A b \in Bitsets : HoldsSet(b, bs[b], {})
  BY <1>1, BitsEmptied
<1>3. \A b \in Bitsets : BitSet(b, bs[b]) = {}
  BY <1>2 DEF HoldsSet
<1>4. BitsInv
  BY <1>1, <1>2, <1>3 DEF BitsInv
<1>5. BS!members = [b \in Bitsets |-> {}]
  BY <1>3, MembersAre
<1>6. QED
  BY <1>1, <1>4, <1>5 DEF BS!Abstract!Init

(* For words of any width and bitsets of any capacities every call does    *)
(* and answers what the call of its name on sets of indices does: count    *)
(* and the searches see no bit beyond the capacity and none but those they *)
(* were asked for, and xor drops what lies past the shorter operand, where *)
(* bitset_or would leave it.  So no pair that bitset_or is given may       *)
(* overhang; the other calls meet bitsets of any two sizes.                *)
THEOREM BitsetsAreSets == NoOverhang /\ StructuresSpec => BitsetsServe
<1>1. StructuresInit => BitsInv /\ BS!Abstract!Init
  BY PartsStart, BitsStart, StructuresAssumption
<1>2. NoOverhang /\ BitsInv /\ [StructuresNext]_allVars =>
        BitsInv' /\ [BS!Abstract!Next]_(BS!Abstract!vars)
  BY PartsStep, BitsStep, StructuresAssumption DEF BitsGoal
<1>3. NoOverhang /\ BitsInv => [BS!Calls]_(BS!vars)
  BY BitsCalls, StructuresAssumption
<1>4. NoOverhang => NoOverhang'
  BY DEF NoOverhang
<1>5. QED
  BY <1>1, <1>2, <1>3, <1>4, PTL
     DEF StructuresSpec, BitsetsServe, BS!Implements, BS!Abstract!Spec
=============================================================================
