------------------------------- MODULE Bitset -------------------------------
(***************************************************************************)
(* Bitsets over words the caller provides.  A word is the set of the       *)
(* positions of its ones, so that ~, &, | and ^ are set operations on all  *)
(* Width positions, those beyond the capacity too.                         *)
(***************************************************************************)
EXTENDS Integers, FiniteSets

CONSTANTS
  Bitsets,
  CapacityOf,  \* [Bitsets -> the capacity given to bitset_init]
  OrPairs,     \* the <<dst, src>> that bitset_or is called with
  Width        \* BITSET_BITS_PER_WORD

BitsetAssumption ==
  /\ CapacityOf \in [Bitsets -> Nat \ {0}] /\ Width \in Nat \ {0}
  /\ OrPairs \subseteq Bitsets \X Bitsets

VARIABLES
  words,  \* [Bitsets -> the words, a function on 0 .. word_count - 1]
  ret     \* what the last call returned: <<n>>, or <<>> for nothing or NPOS

vars == <<words, ret>>

-----------------------------------------------------------------------------
Positions == 0 .. Width - 1
WordCount(b) == (CapacityOf[b] + Width - 1) \div Width
Words(b) == 0 .. WordCount(b) - 1
WordOf(i) == i \div Width
BitOf(i) == i % Width

Lowest(S) == CHOOSE i \in S : \A j \in S : i <= j
Highest(S) == CHOOSE i \in S : \A j \in S : j <= i

(* bitset_clear_padding *)
ClearPadding(b, w) ==
  LET rem == CapacityOf[b] % Width IN
  IF rem = 0 THEN w ELSE [w EXCEPT ![WordCount(b) - 1] = @ \cap 0 .. rem - 1]

Writes(b, w) == words' = [words EXCEPT ![b] = w] /\ ret' = <<>>
Answers(answer) == ret' = answer /\ UNCHANGED words

Init ==
  /\ words = [b \in Bitsets |-> [w \in Words(b) |-> {}]]
  /\ ret = <<>>

-----------------------------------------------------------------------------
(* The index is below the capacity, or the call is a contract violation.   *)
SetBit(b, i) ==
  Writes(b, [words[b] EXCEPT ![WordOf(i)] = @ \cup {BitOf(i)}])

ClearBit(b, i) ==
  Writes(b, [words[b] EXCEPT ![WordOf(i)] = @ \ {BitOf(i)}])

Toggle(b, i) ==
  Writes(b, [words[b] EXCEPT ![WordOf(i)] =
    IF BitOf(i) \in @ THEN @ \ {BitOf(i)} ELSE @ \cup {BitOf(i)}])

ClearAll(b) == Writes(b, [w \in Words(b) |-> {}])
SetAll(b) == Writes(b, ClearPadding(b, [w \in Words(b) |-> Positions]))

(* The complement of the last word reaches past the capacity. *)
Not(b) == Writes(b, ClearPadding(b, [w \in Words(b) |-> Positions \ words[b][w]]))

(* Word by word as far as both go; b's further words are zeroed by and,    *)
(* and left alone by or and xor.                                           *)
Combined(b, c, Op(_, _)) ==
  [w \in Words(b) |-> IF w \in Words(c) THEN Op(words[b][w], words[c][w]) ELSE words[b][w]]

And(b, c) ==
  Writes(b, [w \in Words(b) |-> IF w \in Words(c) THEN words[b][w] \cap words[c][w] ELSE {}])

Or(b, c) == Writes(b, Combined(b, c, LAMBDA x, y : x \cup y))

Xor(b, c) ==
  Writes(b, ClearPadding(b, Combined(b, c, LAMBDA x, y : (x \ y) \cup (y \ x))))

-----------------------------------------------------------------------------
(* bitset_count adds up the words' ones, padding and all. *)
Ones(b) == {o \in Words(b) \X Positions : o[2] \in words[b][o[1]]}
Count(b) == Answers(<<Cardinality(Ones(b))>>)

Found(b, i) == IF i < CapacityOf[b] THEN <<i>> ELSE <<>>

(* The first one in the words from w on. *)
FirstFrom(b, w) ==
  LET full == {x \in Words(b) : x >= w /\ words[b][x] # {}} IN
  IF full = {} THEN <<>>
  ELSE Found(b, Lowest(full) * Width + Lowest(words[b][Lowest(full)]))

FindFirst(b) == Answers(FirstFrom(b, 0))

(* Of the word that start is in, the ones below start as well. *)
FindNext_Unmasked(b, prev) ==
  LET start == prev + 1 IN
  Answers(IF start >= CapacityOf[b] THEN <<>> ELSE FirstFrom(b, WordOf(start)))

(* The rest of the word that prev + 1 is in, then the words after it. *)
FindNext(b, prev) ==
  LET start == prev + 1
      w == WordOf(start)
      rest == {p \in words[b][w] : p >= BitOf(start)}
  IN Answers(IF start >= CapacityOf[b] THEN <<>>
             ELSE IF rest # {} THEN Found(b, w * Width + Lowest(rest))
             ELSE FirstFrom(b, w + 1))

FindLast(b) ==
  LET full == {x \in Words(b) : words[b][x] # {}} IN
  Answers(IF full = {} THEN <<>>
          ELSE Found(b, Highest(full) * Width + Highest(words[b][Highest(full)])))

Next ==
  \/ \E b \in Bitsets : \E i \in 0 .. CapacityOf[b] - 1 :
       SetBit(b, i) \/ ClearBit(b, i) \/ Toggle(b, i) \/ FindNext(b, i)
  \/ \E b \in Bitsets : ClearAll(b) \/ SetAll(b) \/ Not(b)
  \/ \E b \in Bitsets : Count(b) \/ FindFirst(b) \/ FindLast(b)
  \/ \E b, c \in Bitsets : And(b, c) \/ Xor(b, c)
  \/ \E p \in OrPairs : Or(p[1], p[2])

Spec == Init /\ [][Next]_vars

-----------------------------------------------------------------------------
Inside(b) ==
  {i \in 0 .. WordCount(b) * Width - 1 : BitOf(i) \in words[b][WordOf(i)]}

(* bitset.h: "Bits beyond capacity are always kept zero (padding           *)
(* invariant)".                                                            *)
PaddingZero == \A b \in Bitsets : Inside(b) \subseteq 0 .. CapacityOf[b] - 1

(* Some one of c's may lie in b's last word, past b's capacity. *)
Overhangs(b, c) == CapacityOf[b] % Width # 0 /\ CapacityOf[b] < CapacityOf[c]

(* Every call does and answers what the call of its name does to a set of  *)
(* indices: none adds a member, hides one, miscounts them or answers for   *)
(* an index it was not asked for, and the other operand may have any size. *)
(* That holds if no overhanging bitset is or-ed into another: without      *)
(* that, PaddingZero fails.                                                *)
members == [b \in Bitsets |-> Inside(b)]

Abstract == INSTANCE BitsetSpec

Calls ==
  vars' # vars =>
    /\ \A b \in Bitsets : \A i \in 0 .. CapacityOf[b] - 1 :
         /\ SetBit(b, i) => Abstract!SetBit(b, i)
         /\ ClearBit(b, i) => Abstract!ClearBit(b, i)
         /\ Toggle(b, i) => Abstract!Toggle(b, i)
         /\ FindNext(b, i) => Abstract!FindNext(b, i)
    /\ \A b \in Bitsets :
         /\ ClearAll(b) => Abstract!ClearAll(b)
         /\ SetAll(b) => Abstract!SetAll(b)
         /\ Not(b) => Abstract!Not(b)
         /\ Count(b) => Abstract!Count(b)
         /\ FindFirst(b) => Abstract!FindFirst(b)
         /\ FindLast(b) => Abstract!FindLast(b)
    /\ \A b, c \in Bitsets :
         /\ And(b, c) => Abstract!And(b, c)
         /\ Xor(b, c) => Abstract!Xor(b, c)
    /\ \A p \in OrPairs : Or(p[1], p[2]) => Abstract!Or(p[1], p[2])

Implements == Abstract!Spec /\ [][Calls]_vars
=============================================================================
