----------------------------- MODULE BitsetSpec -----------------------------
(***************************************************************************)
(* What the bitsets promise: sets of the indices below their capacities.   *)
(***************************************************************************)
EXTENDS Naturals, FiniteSets

CONSTANTS
  Bitsets,
  CapacityOf  \* [Bitsets -> Nat \ {0}]

VARIABLES
  members,  \* [Bitsets -> SUBSET Nat]
  ret       \* the number the last call returned, if any, as a sequence

vars == <<members, ret>>

Universe(b) == 0 .. CapacityOf[b] - 1

Becomes(b, S) == members' = [members EXCEPT ![b] = S] /\ ret' = <<>>
Answers(answer) == ret' = answer /\ UNCHANGED members

Least(S) == IF S = {} THEN <<>> ELSE <<CHOOSE i \in S : \A j \in S : i <= j>>
Greatest(S) == IF S = {} THEN <<>> ELSE <<CHOOSE i \in S : \A j \in S : j <= i>>

SetBit(b, i) == Becomes(b, members[b] \cup {i})
ClearBit(b, i) == Becomes(b, members[b] \ {i})
Toggle(b, i) == IF i \in members[b] THEN ClearBit(b, i) ELSE SetBit(b, i)

And(b, c) == Becomes(b, members[b] \cap members[c])
Or(b, c) == Becomes(b, (members[b] \cup members[c]) \cap Universe(b))
Xor(b, c) ==
  Becomes(b, ((members[b] \ members[c]) \cup (members[c] \ members[b])) \cap Universe(b))

ClearAll(b) == Becomes(b, {})
SetAll(b) == Becomes(b, Universe(b))
Not(b) == Becomes(b, Universe(b) \ members[b])

Count(b) == Answers(<<Cardinality(members[b])>>)
FindFirst(b) == Answers(Least(members[b]))
FindNext(b, prev) == Answers(Least({j \in members[b] : j > prev}))
FindLast(b) == Answers(Greatest(members[b]))

Init == members = [b \in Bitsets |-> {}] /\ ret = <<>>

Next ==
  \/ \E b \in Bitsets : \E i \in Universe(b) :
       SetBit(b, i) \/ ClearBit(b, i) \/ Toggle(b, i) \/ FindNext(b, i)
  \/ \E b \in Bitsets : ClearAll(b) \/ SetAll(b) \/ Not(b)
  \/ \E b \in Bitsets : Count(b) \/ FindFirst(b) \/ FindLast(b)
  \/ \E b, c \in Bitsets : And(b, c) \/ Or(b, c) \/ Xor(b, c)

Spec == Init /\ [][Next]_vars
=============================================================================
