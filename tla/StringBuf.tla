----------------------------- MODULE StringBuf ------------------------------
(***************************************************************************)
(* The string in a buffer that never grows: the caller's, or a block of an *)
(* arena.  An append either fits with its terminator or changes nothing.   *)
(***************************************************************************)
EXTENDS Integers, Sequences

CONSTANTS
  Chars,
  Capacities,  \* sizes of the buffers the inits are given
  Nul, Junk

StringBufAssumption ==
  /\ \A n \in Capacities : n \in Nat /\ n > 1
  /\ {Nul, Junk} \cap Chars = {}

VARIABLES
  data,  \* the buffer, a function on 0 .. capacity - 1; empty for NULL
  len,
  ret

vars == <<data, len, ret>>

-----------------------------------------------------------------------------
BufCapacity == IF data = <<>> THEN 0 ELSE CHOOSE n \in Capacities : DOMAIN data = 0 .. n - 1
IsNull == data = <<>>

Returns(answer) == ret' = answer /\ UNCHANGED <<data, len>>

Init == data = <<>> /\ len = 0 /\ ret = "opened"

(* init_buffer, and an init_arena that finds room, on a buffer of n bytes. *)
Open(n) ==
  /\ data' = [i \in 0 .. n - 1 |-> IF i = 0 THEN Nul ELSE Junk]
  /\ len' = 0 /\ ret' = "opened"

-----------------------------------------------------------------------------
(* _stringbuf_append_bytes: t is moved, then its terminator written. *)
AppendBytes(t, refusal) ==
  LET end == len + Len(t) IN
  IF end + 1 > BufCapacity THEN Returns(refusal)
  ELSE /\ data' = [i \in DOMAIN data |-> IF i < len \/ i > end THEN data[i]
                                         ELSE IF i < end THEN t[i - len + 1] ELSE Nul]
       /\ len' = end /\ ret' = "ok"

(* append, _str, _n and _fmt of text that lies elsewhere; _char. *)
AppendText(t) == IF IsNull THEN Returns("none") ELSE AppendBytes(t, "refused")
AppendChar(c) == IF IsNull THEN Returns("none") ELSE AppendBytes(<<c>>, "full")

(* Byte by byte, upwards: what is written is read again. *)
AppendSelf_CopiesForward(from, n) ==
  /\ ~IsNull /\ n > 0 /\ from + n <= BufCapacity
  /\ \A k \in 1 .. n : data[from + k - 1] # Junk
  /\ AppendBytes([k \in 1 .. n |->
       IF from < len THEN data[from + ((k - 1) % (len - from))] ELSE data[from + k - 1]],
       "refused")

(* append of a suffix of the buffer, append_str of any view into it: one   *)
(* taken before a clear or a truncate may reach past the end, over the     *)
(* terminator and over the bytes that are written.                         *)
AppendSelf(from, n) ==
  /\ ~IsNull /\ n > 0 /\ from + n <= BufCapacity
  /\ \A k \in 1 .. n : data[from + k - 1] # Junk
  /\ AppendBytes([k \in 1 .. n |-> data[from + k - 1]], "refused")

(* vsnprintf fails: before it wrote, or after, and then the terminator is  *)
(* put back where it was.                                                  *)
FormatFails ==
  \/ Returns("none")
  \/ \E n \in 1 .. BufCapacity : \E c \in Chars :
       /\ len + n + 1 <= BufCapacity
       /\ data' = [i \in DOMAIN data |-> IF i < len \/ i > len + n THEN data[i]
                                         ELSE IF i = len THEN Nul ELSE c]
       /\ ret' = "none" /\ UNCHANGED len

-----------------------------------------------------------------------------
Cut(n, answer) ==
  /\ data' = [data EXCEPT ![n] = Nul]
  /\ len' = n /\ ret' = answer

Clear == IF IsNull THEN Returns("void") ELSE Cut(0, "void")

Truncate(n) == IF ~IsNull /\ n < len THEN Cut(n, "cut") ELSE Returns("none")

(* checked_sub(capacity, len + 1): 0 for a buffer that is NULL. *)
Remaining == IF BufCapacity < len + 1 THEN 0 ELSE BufCapacity - (len + 1)

Lengths == 0 .. BufCapacity

Next ==
  \/ \E n \in Capacities : Open(n)
  \/ \E c, d \in Chars : AppendChar(c) \/ AppendText(<<c, d>>)
  \/ \E from, n \in Lengths : AppendSelf(from, n)
  \/ FormatFails \/ Clear \/ (\E n \in Lengths : Truncate(n))

Spec == Init /\ [][Next]_vars

-----------------------------------------------------------------------------
(* str() is always terminated at len, after len bytes that were written.   *)
(* They hold a NUL only where a view that held one was appended.           *)
Terminated ==
  ~IsNull => /\ len < BufCapacity /\ data[len] = Nul
             /\ \A i \in 0 .. len - 1 : data[i] \in Chars \cup {Nul}

(* Every call does what it would to a sequence with room for as many as    *)
(* remaining answers besides those it has: what fits is appended, bytes of *)
(* the buffer itself as they were at the call, and what does not leaves    *)
(* the text as it was.                                                     *)
items == [i \in 1 .. len |-> data[i - 1]]
room == len + Remaining

Abstract == INSTANCE VecSpec WITH Vals <- Chars \cup {Nul}

Calls ==
  vars' # vars =>
    /\ \A n \in Capacities : Open(n) => Abstract!Open(<<>>, n - 1)
    /\ \A c, d \in Chars :
         /\ AppendChar(c) => Abstract!Push(c)
         /\ AppendText(<<c, d>>) => Abstract!Extend(<<c, d>>)
    /\ \A from, n \in Lengths :
         AppendSelf(from, n) => Abstract!Extend([k \in 1 .. n |-> data[from + k - 1]])
    /\ \A n \in Lengths : Truncate(n) => Abstract!Truncate(n)
    /\ (FormatFails => Abstract!FormatFails) /\ (Clear => Abstract!Clear)

Implements ==
  /\ Abstract!Spec /\ [][Calls]_vars
  /\ [][room' # room => ret' = "opened"]_vars
=============================================================================
