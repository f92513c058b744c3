----------------------------- MODULE DynString ------------------------------
(***************************************************************************)
(* The growing C string.  An append may be given a part of the string      *)
(* itself: the block it lies in is kept until the characters are copied.   *)
(* An allocation is at most half the address space, so sums of two lengths *)
(* do not wrap.                                                            *)
(***************************************************************************)
EXTENDS Integers, Sequences

CONSTANTS
  Chars,
  Addrs,     \* where the allocator may place the text
  Initial,   \* DYNSTRING_INITIAL_CAPACITY
  AllocMax,  \* the largest block the allocator gives
  Nul, Junk

DynStringAssumption ==
  /\ Initial \in Nat \ {0} /\ AllocMax \in Nat
  /\ 0 \notin Addrs /\ {Nul, Junk} \cap Chars = {}

VARIABLES
  s,      \* [data, len, cap, open]; data is 0 for NULL
  block,  \* [Addrs -> the bytes there, a function on 0 .. cap - 1]
  loan,   \* [taken, sameId, sameStorage]: a borrow some caller holds
  ret

vars == <<s, block, loan, ret>>

-----------------------------------------------------------------------------
NoBlock == [i \in {} |-> Junk]
NoLoan == [taken |-> FALSE, sameId |-> FALSE, sameStorage |-> FALSE]
Opened == [data |-> 0, len |-> 0, cap |-> 0, open |-> TRUE]

Byte(b, a, i) == IF a # 0 /\ i \in DOMAIN b[a] THEN b[a][i] ELSE Junk

Lends(restamped, moved) ==
  loan' = [loan EXCEPT !.sameId = @ /\ ~restamped, !.sameStorage = @ /\ ~moved]

Returns(answer) == ret' = answer /\ UNCHANGED <<s, block, loan>>

Init ==
  /\ s = Opened /\ ret = "opened"
  /\ block = [a \in Addrs |-> NoBlock]
  /\ loan = NoLoan

(* A C string of the text t in a block of n bytes. *)
CString(t, n) ==
  [i \in 0 .. n - 1 |-> IF i < Len(t) THEN t[i + 1] ELSE IF i = Len(t) THEN Nul ELSE Junk]

(* dynstring_from(t), dynstring_with_capacity(n) and, with a = 0, an       *)
(* allocation that fails or was not asked for.                             *)
Open(t, n, a) ==
  /\ ~s.open /\ n > Len(t) /\ n <= AllocMax
  /\ IF a = 0 THEN s' = Opened /\ UNCHANGED block
     ELSE /\ s' = [data |-> a, len |-> Len(t), cap |-> n, open |-> TRUE]
          /\ block' = [block EXCEPT ![a] = CString(t, n)]
  /\ Lends(TRUE, TRUE) /\ ret' = "opened"

-----------------------------------------------------------------------------
NewCap(min) ==
  LET doubled == IF s.cap = 0 THEN Initial ELSE 2 * s.cap IN
  IF doubled < min THEN min ELSE doubled

(* The first n bytes in a new block of cap bytes, a terminator in an empty one. *)
Copied(n, cap) ==
  [i \in 0 .. cap - 1 |-> IF s.data = 0 THEN (IF i = 0 THEN Nul ELSE Junk)
                          ELSE IF i < n THEN Byte(block, s.data, i) ELSE Junk]

(* The realloc of dynstring_ensure_capacity: in place, moved, or failed. *)
Reallocated(min) ==
  IF min <= s.cap THEN {[s |-> s, block |-> block]}
  ELSE {[s |-> [s EXCEPT !.data = a, !.cap = NewCap(min)],
         block |-> [x \in Addrs |-> IF x = a THEN Copied(s.cap, NewCap(min))
                                    ELSE IF x = s.data THEN NoBlock ELSE block[x]]] :
        a \in {x \in Addrs : NewCap(min) <= AllocMax}}

(* The malloc of dynstring_grow_detached_: the old block is still there. *)
Detached(min) ==
  IF min <= s.cap THEN {[s |-> s, block |-> block]}
  ELSE {[s |-> [s EXCEPT !.data = a, !.cap = NewCap(min)],
         block |-> [block EXCEPT ![a] = Copied(s.len + 1, NewCap(min))]] :
        a \in {x \in Addrs \ {s.data} : NewCap(min) <= AllocMax}}

GrowFails(min, refusal) == min > s.cap /\ Returns(refusal)

(* The text t is written at the end of g, and the old block given back. *)
Appends(g, t, answer) ==
  LET written == [i \in DOMAIN g.block[g.s.data] |->
        IF i < s.len THEN g.block[g.s.data][i]
        ELSE IF i < s.len + Len(t) THEN t[i - s.len + 1]
        ELSE IF i = s.len + Len(t) THEN Nul ELSE g.block[g.s.data][i]]
  IN /\ s' = [g.s EXCEPT !.len = @ + Len(t)]
     /\ block' = [x \in Addrs |-> IF x = g.s.data THEN written
                                  ELSE IF x = s.data THEN NoBlock ELSE g.block[x]]
     /\ Lends(g.s.data # s.data, g.s.data # s.data)
     /\ ret' = answer

Append1(c) ==
  /\ s.open
  /\ \/ \E g \in Reallocated(s.len + 2) : Appends(g, <<c>>, "ok")
     \/ GrowFails(s.len + 2, "full")

(* dynstring_append, _n and _fmt of text that lies elsewhere. *)
AppendText(t) ==
  /\ s.open
  /\ \/ \E g \in Detached(s.len + Len(t) + 1) : Appends(g, t, "ok")
     \/ GrowFails(s.len + Len(t) + 1, "refused")

(* dynstring_append of a suffix of the string itself.  What str() answers  *)
(* is valid until the next modification, so no source lies past len.       *)
AppendSuffix(from) ==
  /\ s.open /\ from < s.len
  /\ \/ \E g \in Detached(2 * s.len - from + 1) :
          Appends(g, [k \in 1 .. s.len - from |-> Byte(g.block, s.data, from + k - 1)], "ok")
     \/ GrowFails(2 * s.len - from + 1, "refused")

(* The terminator is not put back after formatting fails half way. *)
FormatFails_NoRollback ==
  /\ s.open /\ s.data # 0 /\ s.len + 1 < s.cap
  /\ block' = [block EXCEPT ![s.data][s.len] = Junk]
  /\ ret' = "none" /\ UNCHANGED <<s, loan>>

(* vsnprintf fails as it measures, or as it writes: the block was replaced *)
(* and the token redrawn by then, which is not undone; the terminator that *)
(* was written over is put back.                                           *)
FormatFails ==
  /\ s.open
  /\ \/ Returns("none")
     \/ \E n \in 0 .. 2 : \E g \in Detached(s.len + n + 1) : Appends(g, <<>>, "none")

-----------------------------------------------------------------------------
Cut(n, answer) ==
  /\ s' = [s EXCEPT !.len = n]
  /\ block' = [block EXCEPT ![s.data][n] = Nul]
  /\ ret' = answer /\ UNCHANGED loan

Clear == s.open /\ IF s.data = 0 THEN Returns("void") ELSE Cut(0, "void")

Truncate(n) ==
  s.open /\ IF s.data # 0 /\ n < s.len THEN Cut(n, "cut") ELSE Returns("none")

Reserve(n) ==
  /\ s.open
  /\ \/ \E g \in Reallocated(n) :
          /\ s' = g.s /\ block' = g.block
          /\ Lends(g.s.data # s.data, g.s.data # s.data) /\ ret' = "ok"
     \/ GrowFails(n, "refused")

ShrinkToFit ==
  /\ s.open
  /\ \/ (s.data = 0 \/ (s.len # 0 /\ s.cap = s.len + 1)) /\ Returns("ok")
     \/ /\ s.data # 0 /\ s.len = 0
        /\ s' = Opened /\ block' = [block EXCEPT ![s.data] = NoBlock]
        /\ Lends(TRUE, TRUE) /\ ret' = "ok"
     \/ /\ s.data # 0 /\ s.len # 0 /\ s.cap # s.len + 1
        /\ \/ Returns("refused")
           \/ \E a \in Addrs :
                /\ s' = [s EXCEPT !.data = a, !.cap = s.len + 1]
                /\ block' = [x \in Addrs |-> IF x = a THEN Copied(s.len + 1, s.len + 1)
                                             ELSE IF x = s.data THEN NoBlock ELSE block[x]]
                /\ Lends(a # s.data, a # s.data) /\ ret' = "ok"

Free ==
  /\ s.open
  /\ s' = [Opened EXCEPT !.open = FALSE]
  /\ block' = [a \in Addrs |-> NoBlock]
  /\ Lends(FALSE, TRUE) /\ ret' = "opened"

Borrow ==
  /\ s.open /\ s.data # 0
  /\ loan' = [taken |-> TRUE, sameId |-> TRUE, sameStorage |-> TRUE]
  /\ UNCHANGED <<s, block, ret>>

Next ==
  \/ \E a \in Addrs \cup {0}, n \in 1 .. AllocMax :
       Open(<<>>, n, a) \/ (\E c, d \in Chars : Open(<<c, d>>, n, a))
  \/ \E c \in Chars : Append1(c) \/ (\E d \in Chars : AppendText(<<c, d>>))
  \/ \E from \in 0 .. AllocMax : AppendSuffix(from) \/ Truncate(from) \/ Reserve(from)
  \/ FormatFails \/ Clear \/ ShrinkToFit \/ Free \/ Borrow

Spec == Init /\ [][Next]_vars

-----------------------------------------------------------------------------
(* What str() answers is always a C string of len characters.              *)
Terminated ==
  s.data # 0 => /\ s.len < s.cap /\ Byte(block, s.data, s.len) = Nul
                /\ \A i \in 0 .. s.len - 1 : Byte(block, s.data, i) \in Chars

(* As in DynVec, for the restamps of this file.                            *)
BorrowTellsMoves ==
  loan.taken => ((s.open /\ loan.sameId) = loan.sameStorage)

(* Every call does what it would to a sequence of characters: what fits    *)
(* cannot fail, an append that fails leaves the text as it was, and one of *)
(* a part of the string appends that part.                                 *)
items == [i \in 1 .. s.len |-> Byte(block, s.data, i - 1)]

Abstract == INSTANCE VecSpec WITH Vals <- Chars, room <- s.cap - 1

Calls ==
  vars' # vars =>
    /\ \A a \in Addrs \cup {0}, n \in 1 .. AllocMax :
         /\ Open(<<>>, n, a) => Abstract!Open(<<>>, n - 1)
         /\ \A c, d \in Chars : Open(<<c, d>>, n, a) => Abstract!Open(<<c, d>>, n - 1)
    /\ \A c \in Chars : Append1(c) => Abstract!Push(c)
    /\ \A c, d \in Chars : AppendText(<<c, d>>) => Abstract!Extend(<<c, d>>)
    /\ \A n \in 0 .. AllocMax :
         /\ AppendSuffix(n) => Abstract!Extend(SubSeq(items, n + 1, s.len))
         /\ Truncate(n) => Abstract!Truncate(n)
         /\ Reserve(n) => Abstract!Reserve(n - 1)
    /\ (FormatFails => Abstract!FormatFails) /\ (Clear => Abstract!Clear)
    /\ (ShrinkToFit => Abstract!Shrink) /\ (Free => Abstract!Free)

Implements == Abstract!Spec /\ [][Calls]_vars
=============================================================================
