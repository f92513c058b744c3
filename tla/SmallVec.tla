------------------------------ MODULE SmallVec ------------------------------
(***************************************************************************)
(* The vector that starts inside its own struct and moves out of it once,  *)
(* to the heap or to an arena, when it is full.  Its token is restamped    *)
(* where it moves and nowhere else (see Lifetime).                         *)
(***************************************************************************)
EXTENDS Integers, Sequences

CONSTANTS Vals, InlineCap, Junk

SmallVecAssumption == InlineCap \in Nat \ {0} /\ Junk \notin Vals

VARIABLES
  v,      \* [inline, arena, len, cap]; arena: one is attached
  inner,  \* the contents of inline_buf
  outer,  \* the contents of the block v spilled to, empty before
  heap,   \* how many blocks of v's the caller's allocator has out
  ret

vars == <<v, inner, outer, heap, ret>>

-----------------------------------------------------------------------------
NoBlock == [i \in {} |-> Junk]
Opened(arena) == [inline |-> TRUE, arena |-> arena, len |-> 0, cap |-> InlineCap]

Buf == IF v.inline THEN inner ELSE outer

Returns(answer) == ret' = answer /\ UNCHANGED <<v, inner, outer, heap>>

Init ==
  /\ v \in {Opened(arena) : arena \in BOOLEAN}
  /\ inner = [i \in 0 .. InlineCap - 1 |-> Junk]
  /\ outer = NoBlock /\ heap = 0
  /\ ret = "opened"

-----------------------------------------------------------------------------
NewCap(min) == IF 2 * v.cap < min THEN min ELSE 2 * v.cap

(* The block a spill copies the first n elements to. *)
Spilled(min, n) ==
  [i \in 0 .. NewCap(min) - 1 |-> IF i < n THEN inner[i] ELSE Junk]

(* What the vector is with room for n elements, or nothing: it moves once. *)
WithRoom(n) ==
  IF n <= v.cap THEN {[v |-> v, buf |-> Buf]}
  ELSE IF ~v.inline THEN {}
  ELSE {[v |-> [v EXCEPT !.inline = FALSE, !.cap = NewCap(n)], buf |-> Spilled(n, v.len)]}

NoRoom(n, refusal) == n > v.cap /\ Returns(refusal)

Spread(b, at, s) ==
  [i \in DOMAIN b |-> IF i < at \/ i >= v.len + Len(s) THEN b[i]
                      ELSE IF i < at + Len(s) THEN s[i - at + 1] ELSE b[i - Len(s)]]

(* The buffer of g is written and the length follows. *)
Puts(g, at, s) ==
  /\ v' = [g.v EXCEPT !.len = @ + Len(s)]
  /\ IF g.v.inline
     THEN inner' = Spread(g.buf, at, s) /\ UNCHANGED outer
     ELSE outer' = Spread(g.buf, at, s) /\ UNCHANGED inner
  /\ heap' = IF v.inline /\ ~g.v.inline /\ ~v.arena THEN heap + 1 ELSE heap
  /\ ret' = "ok"

Push(x) == (\E g \in WithRoom(v.len + 1) : Puts(g, v.len, <<x>>)) \/ NoRoom(v.len + 1, "full")

Insert(at, x) ==
  \/ at > v.len /\ Returns("none")
  \/ at <= v.len /\ \E g \in WithRoom(v.len + 1) : Puts(g, at, <<x>>)
  \/ at <= v.len /\ NoRoom(v.len + 1, "full")

Extend(s) ==
  \/ \E g \in WithRoom(v.len + Len(s)) : Puts(g, v.len, s)
  \/ NoRoom(v.len + Len(s), "refused")

(* The source lies in the inline buffer, which a spill leaves in place. *)
ExtendSelf(from, n) ==
  /\ from + n <= v.len
  /\ Extend([k \in 1 .. n |-> Buf[from + k - 1]])

-----------------------------------------------------------------------------
Writes(b) == IF v.inline THEN inner' = b /\ UNCHANGED outer ELSE outer' = b /\ UNCHANGED inner

(* A caller writes an element through the pointer data() answers. *)
SetThroughData(at, x) ==
  at < v.len /\ Writes([Buf EXCEPT ![at] = x]) /\ ret' = "set" /\ UNCHANGED <<v, heap>>

Pop ==
  IF v.len = 0 THEN Returns("none")
  ELSE /\ v' = [v EXCEPT !.len = @ - 1]
       /\ ret' = Buf[v.len - 1]
       /\ UNCHANGED <<inner, outer, heap>>

Remove(at) ==
  IF at >= v.len THEN Returns("none")
  ELSE /\ v' = [v EXCEPT !.len = @ - 1]
       /\ ret' = Buf[at]
       /\ Writes([i \in DOMAIN Buf |->
                    IF i < at \/ i >= v.len - 1 THEN Buf[i] ELSE Buf[i + 1]])
       /\ UNCHANGED heap

Clear == v' = [v EXCEPT !.len = 0] /\ ret' = "void" /\ UNCHANGED <<inner, outer, heap>>

(* The attached arena is forgotten first, and its block handed to free. *)
Free_ForgetsArena ==
  /\ v' = Opened(FALSE)
  /\ heap' = IF v.inline THEN heap ELSE heap - 1
  /\ outer' = NoBlock
  /\ ret' = "opened" /\ UNCHANGED inner

(* Only a block of the heap is given back; the vector is opened again,     *)
(* without an arena.                                                       *)
Free ==
  /\ v' = Opened(FALSE)
  /\ heap' = IF v.inline \/ v.arena THEN heap ELSE heap - 1
  /\ outer' = NoBlock
  /\ ret' = "opened" /\ UNCHANGED inner

Indices == 0 .. 2 * InlineCap + 1

Next ==
  \/ \E x \in Vals : Push(x) \/ (\E at \in Indices : Insert(at, x) \/ SetThroughData(at, x))
  \/ \E x, y \in Vals : Extend(<<x, y>>) \/ Extend(<<x, y, x>>)
  \/ \E from, n \in Indices : n > 0 /\ ExtendSelf(from, n)
  \/ \E at \in Indices : Remove(at)
  \/ Pop \/ Clear \/ Free

Spec == Init /\ [][Next]_vars

-----------------------------------------------------------------------------
TypeOK ==
  /\ v \in [inline : BOOLEAN, arena : BOOLEAN, len : Nat, cap : Nat]
  /\ v.len <= v.cap
  /\ inner \in [0 .. InlineCap - 1 -> Vals \cup {Junk}]
  /\ outer \in [0 .. (IF v.inline THEN 0 ELSE v.cap) - 1 -> Vals \cup {Junk}]
  /\ heap \in Nat

(* Every element is in the buffer data() answers, and a block of the heap  *)
(* is out exactly while the vector is in one: none is leaked, and no block *)
(* of an arena is given to free.                                           *)
OneBlockOut ==
  /\ heap = (IF v.inline \/ v.arena THEN 0 ELSE 1)
  /\ v.inline => v.cap = InlineCap
  /\ v.len <= v.cap

(* Every call does what it would to a sequence that finds more room at     *)
(* most once: what fits cannot fail, a spill that fails, and a push into a *)
(* full spilled vector, change nothing.                                    *)
items == [i \in 1 .. v.len |-> Buf[i - 1]]

Abstract == INSTANCE VecSpec WITH room <- v.cap

Calls ==
  vars' # vars =>
    /\ \A x \in Vals : Push(x) => Abstract!Push(x)
    /\ \A x, y \in Vals : \A s \in {<<x, y>>, <<x, y, x>>} : Extend(s) => Abstract!Extend(s)
    /\ \A from, n \in Indices :
         ExtendSelf(from, n) => Abstract!Extend(SubSeq(items, from + 1, from + n))
    /\ \A at \in Indices, x \in Vals :
         /\ Insert(at, x) => Abstract!Insert(at, x)
         /\ SetThroughData(at, x) => Abstract!Set(at, x)
    /\ \A at \in Indices : Remove(at) => Abstract!Remove(at)
    /\ (Pop => Abstract!Pop) /\ (Clear => Abstract!Clear)
    /\ Free => Abstract!Open(<<>>, InlineCap)

SpillsAtMostOnce ==
  /\ Abstract!Spec /\ [][Calls]_vars
  /\ [][(~v.inline /\ v'.cap # v.cap) => v' = Opened(FALSE)]_vars
=============================================================================
