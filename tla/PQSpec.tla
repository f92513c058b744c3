------------------------------- MODULE PQSpec -------------------------------
(***************************************************************************)
(* What a priority queue promises: a bag of elements that gives back a     *)
(* least one first.                                                        *)
(***************************************************************************)
EXTENDS Naturals, FiniteSets

CONSTANTS Elems, Rank, Capacity

VARIABLES
  bag,  \* [Elems -> how many copies are held]
  got   \* what the last call returned

Held == {e \in Elems : bag[e] > 0}
Least == {e \in Held : \A f \in Held : Rank[e] <= Rank[f]}
Copies == {s \in Elems \X (1 .. Capacity) : s[2] <= bag[s[1]]}
Full == Cardinality(Copies) = Capacity

Without(e) == [bag EXCEPT ![e] = @ - 1]
Keeps(answer) == bag' = bag /\ got' = answer

Push(e) ==
  \/ Full /\ Keeps("ERR_CAPACITY_EXCEEDED")
  \/ ~Full /\ bag' = [bag EXCEPT ![e] = @ + 1] /\ got' = "ok"

Pop ==
  \/ Held = {} /\ Keeps("none")
  \/ \E e \in Least : bag' = Without(e) /\ got' = e

Peek ==
  \/ Held = {} /\ Keeps("none")
  \/ \E e \in Least : Keeps(e)

(* Which element an index names is the implementation's own affair. *)
RemoveAt ==
  \/ Keeps("ERR_OUT_OF_RANGE")
  \/ \E e \in Held : bag' = Without(e) /\ got' = "ok"

(* The caller fills the buffer itself and has it put in order. *)
Heapify == bag' \in [Elems -> 0 .. Capacity] /\ got' = "void"

Init == bag = [e \in Elems |-> 0] /\ got = "ok"

Next == (\E e \in Elems : Push(e)) \/ Pop \/ Peek \/ RemoveAt \/ Heapify

Spec == Init /\ [][Next]_<<bag, got>>
=============================================================================
