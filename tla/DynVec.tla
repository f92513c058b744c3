------------------------------- MODULE DynVec -------------------------------
(***************************************************************************)
(* The vector that grows: realloc may keep the block, move it or fail, and *)
(* a freed address may be handed out again.  loan is a borrow of the       *)
(* buffer some caller holds: what the token says of it, and what is true.  *)
(***************************************************************************)
EXTENDS Integers, Sequences

CONSTANTS
  Vals,
  Addrs,     \* where the allocator may place the buffer
  Initial,   \* DYNVEC_INITIAL_CAPACITY
  ElemSize, UsizeMax,
  Junk       \* what memory holds that nobody wrote, or that was given back

DynVecAssumption ==
  /\ Initial \in Nat \ {0} /\ ElemSize \in Nat \ {0} /\ UsizeMax \in Nat
  /\ 0 \notin Addrs /\ Junk \notin Vals

VARIABLES
  v,      \* [data, len, cap, open]; data is 0 for NULL
  block,  \* [Addrs -> the contents of the block there, a function on 0 .. cap - 1]
  loan,   \* [taken, sameId, sameStorage]
  ret

vars == <<v, block, loan, ret>>

-----------------------------------------------------------------------------
NoBlock == [i \in {} |-> Junk]
NoLoan == [taken |-> FALSE, sameId |-> FALSE, sameStorage |-> FALSE]

Byte(a, i) == IF a # 0 /\ i \in DOMAIN block[a] THEN block[a][i] ELSE Junk
Resized(a, n) == [i \in 0 .. n - 1 |-> Byte(a, i)]

(* realloc(old, n) that answers new: the old block is gone if it moved. *)
Moved(old, new, n) ==
  [a \in Addrs |-> IF a = new THEN Resized(old, n) ELSE IF a = old THEN NoBlock ELSE block[a]]

Opened == [data |-> 0, len |-> 0, cap |-> 0, open |-> TRUE]

(* A call that restamps, or leaves the token, and moves the storage or not. *)
Lends(restamped, moved) ==
  loan' = [loan EXCEPT !.sameId = @ /\ ~restamped, !.sameStorage = @ /\ ~moved]

Returns(answer) == ret' = answer /\ UNCHANGED <<v, block, loan>>

Init ==
  /\ v = Opened /\ ret = "opened"
  /\ block = [a \in Addrs |-> NoBlock]
  /\ loan = NoLoan

(* A vector is opened anew where the freed one was; malloc may fail. *)
WithCapacity(n, a) ==
  /\ ~v.open /\ ret' = "opened"
  /\ IF n = 0 \/ n * ElemSize > UsizeMax \/ a = 0
     THEN v' = Opened /\ UNCHANGED block
     ELSE /\ v' = [Opened EXCEPT !.data = a, !.cap = n]
          /\ block' = Moved(0, a, n)
  /\ Lends(TRUE, TRUE)

-----------------------------------------------------------------------------
(* Doubled, or the least that serves if the doubling wraps. *)
NewCap(min) ==
  LET doubled == IF v.cap = 0 THEN Initial ELSE 2 * v.cap IN
  IF doubled > UsizeMax \/ doubled < min THEN min ELSE doubled

Fits(n) == n * ElemSize <= UsizeMax

(* The token is redrawn when the capacity changed, which it always does. *)
Grown_AlwaysRestamps(min, a) ==
  [v |-> [v EXCEPT !.data = a, !.cap = NewCap(min)],
   block |-> Moved(v.data, a, NewCap(min)), restamped |-> TRUE]

Grown(min, a) ==
  [v |-> [v EXCEPT !.data = a, !.cap = NewCap(min)],
   block |-> Moved(v.data, a, NewCap(min)),
   restamped |-> a # v.data]

(* What a vector with room for n elements may look like: as it is, or grown. *)
WithRoom(n) ==
  IF n <= v.cap THEN {[v |-> v, block |-> block, restamped |-> FALSE]}
  ELSE {Grown(n, a) : a \in {x \in Addrs : Fits(NewCap(n))}}

Takes(g) ==
  /\ Lends(g.restamped, g.v.data # v.data)
  /\ ret' = "ok"

GrowFails(n, refusal) == n > v.cap /\ Returns(refusal)

(* The elements from at on make way for s. *)
Spread(b, at, s) ==
  [i \in DOMAIN b |-> IF i < at \/ i >= v.len + Len(s) THEN b[i]
                      ELSE IF i < at + Len(s) THEN s[i - at + 1] ELSE b[i - Len(s)]]

Puts(g, at, s) ==
  /\ v' = [g.v EXCEPT !.len = @ + Len(s)]
  /\ block' = [g.block EXCEPT ![g.v.data] = Spread(@, at, s)]
  /\ Takes(g)

Push(x) ==
  /\ v.open
  /\ \/ \E g \in WithRoom(v.len + 1) : Puts(g, v.len, <<x>>)
     \/ GrowFails(v.len + 1, "full")

Insert(at, x) ==
  /\ v.open
  /\ \/ at > v.len /\ Returns("none")
     \/ at <= v.len /\ GrowFails(v.len + 1, "full")
     \/ at <= v.len /\ \E g \in WithRoom(v.len + 1) : Puts(g, at, <<x>>)

Extend(s) ==
  /\ v.open
  /\ \/ \E g \in WithRoom(v.len + Len(s)) : Puts(g, v.len, s)
     \/ GrowFails(v.len + Len(s), "refused")

(* The source lies in the buffer that may move: its offset is kept. *)
ExtendSelf(from, n) ==
  /\ v.open /\ from + n <= v.len
  /\ \/ \E g \in WithRoom(v.len + n) :
          Puts(g, v.len, [k \in 1 .. n |-> g.block[g.v.data][from + k - 1]])
     \/ GrowFails(v.len + n, "refused")

Reserve(n) ==
  /\ v.open
  /\ \/ \E g \in WithRoom(n) : v' = g.v /\ block' = g.block /\ Takes(g)
     \/ GrowFails(n, "refused")

-----------------------------------------------------------------------------
Pop ==
  /\ v.open
  /\ IF v.len = 0 THEN Returns("none")
     ELSE /\ v' = [v EXCEPT !.len = @ - 1]
          /\ ret' = Byte(v.data, v.len - 1)
          /\ UNCHANGED <<block, loan>>

Set(at, x) ==
  /\ v.open
  /\ IF at >= v.len THEN Returns("none")
     ELSE /\ block' = [block EXCEPT ![v.data][at] = x]
          /\ ret' = "set" /\ UNCHANGED <<v, loan>>

Remove(at) ==
  /\ v.open
  /\ IF at >= v.len THEN Returns("none")
     ELSE /\ v' = [v EXCEPT !.len = @ - 1]
          /\ ret' = Byte(v.data, at)
          /\ block' = [block EXCEPT ![v.data] =
               [i \in DOMAIN @ |-> IF i < at \/ i >= v.len - 1 THEN @[i] ELSE @[i + 1]]]
          /\ UNCHANGED loan

Clear ==
  /\ v.open
  /\ v' = [v EXCEPT !.len = 0] /\ ret' = "void"
  /\ UNCHANGED <<block, loan>>

ShrinkToFit ==
  /\ v.open
  /\ \/ v.len = v.cap /\ Returns("ok")
     \/ /\ v.len = 0 /\ v.cap # 0
        /\ v' = Opened /\ block' = Moved(v.data, 0, 0)
        /\ Lends(TRUE, TRUE) /\ ret' = "ok"
     \/ /\ v.len # 0 /\ v.len # v.cap
        /\ \/ Returns("refused")
           \/ \E a \in Addrs :
                /\ v' = [v EXCEPT !.data = a, !.cap = v.len]
                /\ block' = Moved(v.data, a, v.len)
                /\ Lends(a # v.data, a # v.data) /\ ret' = "ok"

Free ==
  /\ v.open
  /\ v' = [Opened EXCEPT !.open = FALSE]
  /\ block' = Moved(v.data, 0, 0)
  /\ Lends(FALSE, TRUE) /\ ret' = "opened"

Borrow ==
  /\ v.open /\ v.data # 0
  /\ loan' = [taken |-> TRUE, sameId |-> TRUE, sameStorage |-> TRUE]
  /\ UNCHANGED <<v, block, ret>>

Next ==
  \/ \E n \in 0 .. UsizeMax : Reserve(n) \/ (\E a \in Addrs \cup {0} : WithCapacity(n, a))
  \/ \E x \in Vals : Push(x) \/ (\E at \in 0 .. UsizeMax : Insert(at, x) \/ Set(at, x))
  \/ \E x, y \in Vals : Extend(<<x, y>>) \/ Extend(<<x, y, x>>)
  \/ \E from, n \in 0 .. UsizeMax : n > 0 /\ ExtendSelf(from, n)
  \/ \E at \in 0 .. UsizeMax : Remove(at)
  \/ Pop \/ Clear \/ ShrinkToFit \/ Free \/ Borrow

Spec == Init /\ [][Next]_vars

-----------------------------------------------------------------------------
TypeOK ==
  /\ v \in [data : Addrs \cup {0}, len : Nat, cap : Nat, open : BOOLEAN]
  /\ v.len <= v.cap /\ v.cap * ElemSize <= UsizeMax
  /\ \A a \in Addrs : block[a] \in [0 .. (IF a = v.data THEN v.cap ELSE 0) - 1 -> Vals \cup {Junk}]
  /\ (v.data = 0) = (v.cap = 0)

(* The id check of a borrow answers whether the buffer it was taken from   *)
(* is still the vector's: growth in place keeps it, a move, a release and  *)
(* a reopening end it, although the allocator may reuse the address.       *)
BorrowTellsMoves ==
  loan.taken => ((v.open /\ loan.sameId) = loan.sameStorage)

(* Every call does what it would to a sequence that may or may not find    *)
(* room: what fits cannot fail, a growth that fails changes nothing, and a *)
(* vector may be extended by a part of itself whether or not the growth    *)
(* moves it.                                                               *)
items == [i \in 1 .. v.len |-> Byte(v.data, i - 1)]

Abstract == INSTANCE VecSpec WITH room <- v.cap

Calls ==
  vars' # vars =>
    /\ \A n \in 0 .. UsizeMax, a \in Addrs \cup {0} : WithCapacity(n, a) => Abstract!Open(<<>>, n)
    /\ \A x \in Vals : Push(x) => Abstract!Push(x)
    /\ \A x, y \in Vals : \A s \in {<<x, y>>, <<x, y, x>>} : Extend(s) => Abstract!Extend(s)
    /\ \A from \in 0 .. UsizeMax, n \in 1 .. UsizeMax :
         ExtendSelf(from, n) => Abstract!Extend(SubSeq(items, from + 1, from + n))
    /\ \A at \in 0 .. UsizeMax, x \in Vals :
         /\ Insert(at, x) => Abstract!Insert(at, x)
         /\ Set(at, x) => Abstract!Set(at, x)
    /\ \A n \in 0 .. UsizeMax :
         /\ Remove(n) => Abstract!Remove(n)
         /\ Reserve(n) => Abstract!Reserve(n)
    /\ (Pop => Abstract!Pop) /\ (Clear => Abstract!Clear)
    /\ (ShrinkToFit => Abstract!Shrink) /\ (Free => Abstract!Free)

Implements == Abstract!Spec /\ [][Calls]_vars
=============================================================================
