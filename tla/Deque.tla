------------------------------- MODULE Deque --------------------------------
(***************************************************************************)
(* The ring buffer deque, over buffers that callers provide.               *)
(*                                                                         *)
(* head is where the front element is, tail where the next push_back       *)
(* writes, size how many elements there are; head = tail in an empty deque *)
(* and in a full one.  The checked, try_ and unchecked forms of a push     *)
(* change the state alike, as do the result and option forms of pop and    *)
(* peek; ret is what the most informative form returns.  queue.h is the    *)
(* half of this with push_back, pop_front and peek_front.                  *)
(***************************************************************************)
EXTENDS Integers, Sequences

CONSTANTS
  Deques,
  Vals,
  BufferOf,  \* [Deques -> the capacity of the buffer its init is given]
  None

ASSUME DequeAssumption ==
  /\ BufferOf \in [Deques -> Nat \ {0}]
  /\ None \notin Deques

VARIABLES
  mem,  \* [Deques -> the contents of the buffer provided for that deque]
  dq,   \* [Deques -> the struct; buffer: whose provided buffer it points to]
  ret   \* what the last call returned

vars == <<mem, dq, ret>>

-----------------------------------------------------------------------------
Contents == UNION {[0 .. BufferOf[d] - 1 -> Vals] : d \in Deques}

Ok == [is |-> "ok", val |-> None]
Err(e) == [is |-> e, val |-> None]
Value(v) == [is |-> "ok", val |-> v]

(* deque_empty, and deque_init on a buffer. *)
Empty == [buffer |-> None, capacity |-> 0, head |-> 0, tail |-> 0, size |-> 0]
Opened(d) == [buffer |-> d, capacity |-> BufferOf[d], head |-> 0, tail |-> 0, size |-> 0]

(* A buffer arrives with anything in it. *)
Init ==
  /\ mem \in {m \in [Deques -> Contents] : \A d \in Deques : DOMAIN m[d] = 0 .. BufferOf[d] - 1}
  /\ dq \in {s \in [Deques -> {Empty} \cup {Opened(d) : d \in Deques}] :
               \A d \in Deques : s[d] \in {Empty, Opened(d)}}
  /\ ret = Ok

HasBuffer(d) == dq[d].buffer # None
IsFull(d) == dq[d].size >= dq[d].capacity
At(d, i) == mem[dq[d].buffer][i]

Up(d, i) == (i + 1) % dq[d].capacity
Down(d, i) == IF i = 0 THEN dq[d].capacity - 1 ELSE i - 1

Returns(answer) == ret' = answer /\ UNCHANGED <<mem, dq>>

-----------------------------------------------------------------------------
PushRefused(d) ==
  \/ ~HasBuffer(d) /\ Returns(Err("ERR_INVALID_ARG"))
  \/ HasBuffer(d) /\ IsFull(d) /\ Returns(Err("ERR_CAPACITY_EXCEEDED"))

(* Wraps one past the last slot. *)
PushFront_WrapsToCapacity(d, v) ==
  LET head == IF dq[d].head = 0 THEN dq[d].capacity ELSE dq[d].head - 1 IN
  /\ HasBuffer(d) /\ ~IsFull(d)
  /\ mem' = [mem EXCEPT ![dq[d].buffer] = [@ EXCEPT ![head] = v]]
  /\ dq' = [dq EXCEPT ![d].head = head, ![d].size = @ + 1]
  /\ ret' = Ok

PushFront(d, v) ==
  LET head == Down(d, dq[d].head) IN
  /\ HasBuffer(d) /\ ~IsFull(d)
  /\ mem' = [mem EXCEPT ![dq[d].buffer][head] = v]
  /\ dq' = [dq EXCEPT ![d].head = head, ![d].size = @ + 1]
  /\ ret' = Ok

PushBack(d, v) ==
  /\ HasBuffer(d) /\ ~IsFull(d)
  /\ mem' = [mem EXCEPT ![dq[d].buffer][dq[d].tail] = v]
  /\ dq' = [dq EXCEPT ![d].tail = Up(d, @), ![d].size = @ + 1]
  /\ ret' = Ok

-----------------------------------------------------------------------------
PopRefused(d) ==
  \/ ~HasBuffer(d) /\ Returns(Err("ERR_INVALID_ARG"))
  \/ HasBuffer(d) /\ dq[d].size = 0 /\ Returns(Err("ERR_INVALID_STATE"))

PopFront(d) ==
  /\ HasBuffer(d) /\ dq[d].size # 0
  /\ ret' = Value(At(d, dq[d].head))
  /\ dq' = [dq EXCEPT ![d].head = Up(d, @), ![d].size = @ - 1]
  /\ UNCHANGED mem

(* Reads where the next push_back would write. *)
PopBack_ReadsTail(d) ==
  /\ HasBuffer(d) /\ dq[d].size # 0
  /\ ret' = Value(At(d, dq[d].tail))
  /\ dq' = [dq EXCEPT ![d].tail = Down(d, @), ![d].size = @ - 1]
  /\ UNCHANGED mem

PopBack(d) ==
  LET back == Down(d, dq[d].tail) IN
  /\ HasBuffer(d) /\ dq[d].size # 0
  /\ ret' = Value(At(d, back))
  /\ dq' = [dq EXCEPT ![d].tail = back, ![d].size = @ - 1]
  /\ UNCHANGED mem

PeekFront(d) ==
  Returns(IF dq[d].size = 0 THEN Err("none") ELSE Value(At(d, dq[d].head)))

PeekBack(d) ==
  Returns(IF dq[d].size = 0 THEN Err("none") ELSE Value(At(d, Down(d, dq[d].tail))))

-----------------------------------------------------------------------------
(* The size is cleared, the indices are left to meet again. *)
Clear_SizeOnly(d) ==
  /\ dq' = [dq EXCEPT ![d].size = 0]
  /\ ret' = Ok
  /\ UNCHANGED mem

Clear(d) ==
  /\ dq' = [dq EXCEPT ![d].size = 0, ![d].head = 0, ![d].tail = 0]
  /\ ret' = Ok
  /\ UNCHANGED mem

(* The structs are exchanged, buffers and all. *)
Swap(d, e) ==
  /\ dq' = [dq EXCEPT ![d] = dq[e], ![e] = dq[d]]
  /\ ret' = Ok
  /\ UNCHANGED mem

Next ==
  \/ \E d \in Deques, v \in Vals : PushFront(d, v) \/ PushBack(d, v)
  \/ \E d \in Deques : PushRefused(d) \/ PopRefused(d)
  \/ \E d \in Deques : PopFront(d) \/ PopBack(d) \/ PeekFront(d) \/ PeekBack(d)
  \/ \E d \in Deques : Clear(d)
  \/ \E d, e \in Deques : Swap(d, e)

Spec == Init /\ [][Next]_vars

-----------------------------------------------------------------------------
Struct == [buffer : Deques \cup {None}, capacity : Nat, head : Nat, tail : Nat, size : Nat]

(* An empty deque, or indices and a size that fit the buffer.              *)
StructOK(s) ==
  \/ s = Empty
  \/ /\ s.buffer \in Deques
     /\ s.capacity = BufferOf[s.buffer]
     /\ s.head \in 0 .. s.capacity - 1 /\ s.tail \in 0 .. s.capacity - 1
     /\ s.size \in 0 .. s.capacity

(* The indices stay in the buffer, and mem keeps the buffers' shapes: no   *)
(* push writes outside one.                                                *)
TypeOK ==
  /\ mem \in [Deques -> Contents]
  /\ \A d \in Deques : mem[d] \in [0 .. BufferOf[d] - 1 -> Vals]
  /\ dq \in [Deques -> Struct]
  /\ \A d \in Deques : StructOK(dq[d])
  /\ ret.val \in Vals \cup {None}

(* head, tail and size agree, so that full and empty, which have           *)
(* head = tail alike, are told apart, and no two deques share a buffer.    *)
RingAgrees ==
  /\ \A d \in Deques : HasBuffer(d) =>
       dq[d].tail = (dq[d].head + dq[d].size) % dq[d].capacity
  /\ \A d, e \in Deques : (HasBuffer(d) /\ dq[d].buffer = dq[e].buffer) => d = e

(* Every call does and returns what the call of its name on a sequence     *)
(* would, however often the ring has wrapped and the deques been swapped.  *)
items == [d \in Deques |->
            [i \in 1 .. dq[d].size |-> At(d, (dq[d].head + i - 1) % dq[d].capacity)]]
room == [d \in Deques |-> dq[d].capacity]

Abstract == INSTANCE DequeSpec

Calls ==
  vars' # vars =>
    /\ \A d \in Deques, v \in Vals :
         /\ PushFront(d, v) => Abstract!PushFront(d, v)
         /\ PushBack(d, v) => Abstract!PushBack(d, v)
         /\ PushRefused(d) => Abstract!PushFront(d, v) /\ Abstract!PushBack(d, v)
    /\ \A d \in Deques :
         /\ PopFront(d) => Abstract!PopFront(d)
         /\ PopBack(d) => Abstract!PopBack(d)
         /\ PopRefused(d) => Abstract!PopFront(d) /\ Abstract!PopBack(d)
         /\ PeekFront(d) => Abstract!Peeks(d, 1)
         /\ PeekBack(d) => Abstract!Peeks(d, Len(items[d]))
         /\ Clear(d) => Abstract!Clear(d)
    /\ \A d, e \in Deques : Swap(d, e) => Abstract!Swap(d, e)

Implements == Abstract!Spec /\ [][Calls]_vars
=============================================================================
