-------------------------------- MODULE Vec ---------------------------------
(***************************************************************************)
(* The vector of fixed capacity, over a buffer of the caller's, the heap's *)
(* or an arena's; stack.h is its push, pop and last.  mem_move and         *)
(* mem_copy are what they do to the buffer.                                *)
(***************************************************************************)
EXTENDS Integers, Sequences

CONSTANTS
  Vals,
  Capacities,  \* of the buffers: 0 for NULL
  Junk

VecAssumption == Capacities \subseteq Nat /\ 0 \in Capacities /\ Junk \notin Vals

VARIABLES
  v,      \* [buf, cap, len]: buf is a function on 0 .. cap - 1
  ret

vars == <<v, ret>>

-----------------------------------------------------------------------------
Opened(n) == [buf |-> [i \in 0 .. n - 1 |-> Junk], cap |-> n, len |-> 0]
Usable == v.cap > 0

Returns(answer) == ret' = answer /\ UNCHANGED v

Init == v = Opened(0) /\ ret = "opened"

(* init, alloc and arena_alloc; the empty vector if there is no buffer.    *)
Open(n) == v' = Opened(n) /\ ret' = "opened"

(* The elements from at on make way for s. *)
Puts(at, s) ==
  /\ v' = [v EXCEPT !.len = @ + Len(s), !.buf =
       [i \in DOMAIN @ |-> IF i < at \/ i >= v.len + Len(s) THEN @[i]
                           ELSE IF i < at + Len(s) THEN s[i - at + 1] ELSE @[i - Len(s)]]]
  /\ ret' = "ok"

(* Strictly less than the room there is. *)
Appends_RefusesLast(s, refusal) ==
  IF ~Usable THEN Returns("none")
  ELSE IF v.len + Len(s) >= v.cap THEN Returns(refusal)
  ELSE Puts(v.len, s)

Appends(s, refusal) ==
  IF ~Usable THEN Returns("none")
  ELSE IF v.len + Len(s) > v.cap THEN Returns(refusal)
  ELSE Puts(v.len, s)

Push(x) == Appends(<<x>>, "full")
AppendArray(s) == Appends(s, "refused")

Insert(at, x) ==
  IF ~Usable \/ at > v.len THEN Returns("none")
  ELSE IF v.len >= v.cap THEN Returns("full")
  ELSE Puts(at, <<x>>)

(* As much of it as there is room for. *)
Fill(x, n) ==
  LET room == v.cap - v.len
      m == IF n < room THEN n ELSE room
  IN IF ~Usable THEN Returns("none") ELSE Puts(v.len, [k \in 1 .. m |-> x])

Set(at, x) ==
  IF at >= v.len THEN Returns("none")
  ELSE v' = [v EXCEPT !.buf[at] = x] /\ ret' = "set"

Remove(at) ==
  IF at >= v.len THEN Returns("none")
  ELSE /\ v' = [v EXCEPT !.len = @ - 1, !.buf =
            [i \in DOMAIN @ |-> IF i < at \/ i >= v.len - 1 THEN @[i] ELSE @[i + 1]]]
       /\ ret' = v.buf[at]

Pop ==
  IF v.len = 0 THEN Returns("none")
  ELSE v' = [v EXCEPT !.len = @ - 1] /\ ret' = v.buf[v.len - 1]

Clear == v' = [v EXCEPT !.len = 0] /\ ret' = "void"

(* With another vector, of any capacity and contents. *)
Swap == \E n \in Capacities : \E s \in [0 .. n - 1 -> Vals], k \in 0 .. n :
  v' = [buf |-> s, cap |-> n, len |-> k] /\ ret' = "opened"

Next ==
  \/ \E n \in Capacities : Open(n)
  \/ \E x, y \in Vals : Push(x) \/ AppendArray(<<x, y, x>>)
  \/ \E x \in Vals, n \in 0 .. v.cap + 1 : Insert(n, x) \/ Fill(x, n) \/ Set(n, x)
  \/ \E at \in 0 .. v.len : Remove(at)
  \/ Pop \/ Clear \/ Swap

Spec == Init /\ [][Next]_vars

-----------------------------------------------------------------------------
(* Every call does what it would to a sequence: what fits is done, and no  *)
(* element is lost or doubled where others move.  A full vector refuses,   *)
(* and never finds more room.                                              *)
items == [i \in 1 .. v.len |-> v.buf[i - 1]]

Abstract == INSTANCE VecSpec WITH room <- v.cap

Calls ==
  vars' # vars =>
    /\ \A n \in Capacities : Open(n) => Abstract!Open(<<>>, n)
    /\ \A x \in Vals : Push(x) => Abstract!Push(x)
    /\ \A x, y \in Vals : AppendArray(<<x, y, x>>) => Abstract!Extend(<<x, y, x>>)
    /\ \A x \in Vals, n \in 0 .. v.cap + 1 :
         /\ Insert(n, x) => Abstract!Insert(n, x)
         /\ Fill(x, n) => Abstract!Fill(x, n)
         /\ Set(n, x) => Abstract!Set(n, x)
    /\ \A at \in 0 .. v.len : Remove(at) => Abstract!Remove(at)
    /\ (Pop => Abstract!Pop) /\ (Clear => Abstract!Clear) /\ (Swap => Abstract!Swap)

Implements ==
  /\ Abstract!Spec /\ [][Calls]_vars
  /\ [][v'.cap # v.cap => ret' = "opened"]_vars
=============================================================================
