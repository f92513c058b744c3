----------------------------- MODULE DequeSpec ------------------------------
(***************************************************************************)
(* What a deque promises: a sequence that grows and shrinks at both ends,  *)
(* up to its capacity, and answers what each call did.                     *)
(***************************************************************************)
EXTENDS Naturals, Sequences

CONSTANTS Deques, Vals, None

VARIABLES
  items,  \* [Deques -> the elements, front first]
  room,   \* [Deques -> how many it can hold, 0 if it has no buffer]
  ret     \* what the last call returned

vars == <<items, room, ret>>

Ok == [is |-> "ok", val |-> None]
Err(e) == [is |-> e, val |-> None]
Value(v) == [is |-> "ok", val |-> v]

Unchanged(answer) == ret' = answer /\ UNCHANGED <<items, room>>

(* A deque without a buffer takes and gives nothing. *)
NoBuffer(d) == room[d] = 0 /\ Unchanged(Err("ERR_INVALID_ARG"))

Pushes(d, grown) ==
  \/ NoBuffer(d)
  \/ room[d] > 0 /\ Len(items[d]) = room[d] /\ Unchanged(Err("ERR_CAPACITY_EXCEEDED"))
  \/ /\ Len(items[d]) < room[d]
     /\ items' = [items EXCEPT ![d] = grown]
     /\ ret' = Ok
     /\ UNCHANGED room

PushFront(d, v) == Pushes(d, <<v>> \o items[d])
PushBack(d, v) == Pushes(d, Append(items[d], v))

Pops(d, at, shrunk) ==
  \/ NoBuffer(d)
  \/ room[d] > 0 /\ items[d] = <<>> /\ Unchanged(Err("ERR_INVALID_STATE"))
  \/ /\ items[d] # <<>>
     /\ items' = [items EXCEPT ![d] = shrunk]
     /\ ret' = Value(items[d][at])
     /\ UNCHANGED room

PopFront(d) == Pops(d, 1, Tail(items[d]))
PopBack(d) == Pops(d, Len(items[d]), SubSeq(items[d], 1, Len(items[d]) - 1))

Peeks(d, at) ==
  Unchanged(IF items[d] = <<>> THEN Err("none") ELSE Value(items[d][at]))

Clear(d) ==
  /\ items' = [items EXCEPT ![d] = <<>>]
  /\ ret' = Ok
  /\ UNCHANGED room

Swap(d, e) ==
  /\ items' = [items EXCEPT ![d] = items[e], ![e] = items[d]]
  /\ room' = [room EXCEPT ![d] = room[e], ![e] = room[d]]
  /\ ret' = Ok

Init ==
  /\ items = [d \in Deques |-> <<>>]
  /\ room \in [Deques -> Nat]
  /\ ret = Ok

Next ==
  \/ \E d \in Deques, v \in Vals : PushFront(d, v) \/ PushBack(d, v)
  \/ \E d \in Deques : PopFront(d) \/ PopBack(d) \/ Clear(d)
  \/ \E d \in Deques : Peeks(d, 1) \/ Peeks(d, Len(items[d]))
  \/ \E d, e \in Deques : Swap(d, e)

Spec == Init /\ [][Next]_vars
=============================================================================
