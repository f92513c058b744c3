------------------------------ MODULE VecSpec -------------------------------
(***************************************************************************)
(* What every vector of the library promises: a sequence with room for so  *)
(* many elements, each call an operator of its name.  Whether a full one   *)
(* finds more room is its own affair; what fits is done, and a call that   *)
(* fails changes nothing.  One call is less strict: a formatting that      *)
(* fails leaves the elements, and may leave more room than it found.       *)
(***************************************************************************)
EXTENDS Integers, Sequences

CONSTANT Vals

VARIABLES
  items,  \* the elements
  room,   \* how many fit without more storage; -1: not even a terminator
  ret     \* what the last call returned

vars == <<items, room, ret>>

Spliced(at, s) == SubSeq(items, 1, at) \o s \o SubSeq(items, at + 1, Len(items))
Dropped(at) == SubSeq(items, 1, at) \o SubSeq(items, at + 2, Len(items))

Keeps(answer) == ret' = answer /\ UNCHANGED <<items, room>>

(* Refused only if s does not fit; one without a buffer may say so. *)
Adds(at, s, refusal) ==
  LET need == Len(items) + Len(s) IN
  \/ /\ items' = Spliced(at, s) /\ ret' = "ok"
     /\ room' >= need /\ (need <= room => room' = room)
  \/ need > room /\ (Keeps(refusal) \/ (room = 0 /\ Keeps("none")))

Push(x) == Adds(Len(items), <<x>>, "full")
Extend(s) == Adds(Len(items), s, "refused")

Insert(at, x) == IF at > Len(items) THEN Keeps("none") ELSE Adds(at, <<x>>, "full")

(* As many as there is room for. *)
Fill(x, n) ==
  LET left == room - Len(items)
      m == IF n < left THEN n ELSE left
  IN IF room = 0 THEN Keeps("none") ELSE Extend([k \in 1 .. m |-> x])

Set(at, x) ==
  IF at >= Len(items) THEN Keeps("none")
  ELSE items' = [items EXCEPT ![at + 1] = x] /\ ret' = "set" /\ UNCHANGED room

Remove(at) ==
  IF at >= Len(items) THEN Keeps("none")
  ELSE items' = Dropped(at) /\ ret' = items[at + 1] /\ UNCHANGED room

Pop == IF items = <<>> THEN Keeps("none") ELSE Remove(Len(items) - 1)

Clear == items' = <<>> /\ ret' = "void" /\ UNCHANGED room

Truncate(n) ==
  IF n >= Len(items) THEN Keeps("none")
  ELSE items' = SubSeq(items, 1, n) /\ ret' = "cut" /\ UNCHANGED room

FormatFails == items' = items /\ room' >= room /\ ret' = "none"

-----------------------------------------------------------------------------
Reserve(n) ==
  \/ items' = items /\ room' >= n /\ (n <= room => room' = room) /\ ret' = "ok"
  \/ n > room /\ Keeps("refused")

(* One without elements gives up its storage. *)
Shrink ==
  \/ /\ items' = items /\ ret' = "ok"
     /\ room' = Len(items) \/ (items = <<>> /\ room' = -1)
  \/ items # <<>> /\ Len(items) < room /\ Keeps("refused")

(* What is left without storage, by free or by an init that finds none. *)
Free == items' = <<>> /\ room' \in {-1, 0} /\ ret' = "opened"

(* With the contents t in storage for n. *)
Open(t, n) == (items' = t /\ room' = n /\ ret' = "opened") \/ Free

(* For another, of any contents and room. *)
Swap == items' \in Seq(Vals) /\ Len(items') <= room' /\ ret' = "opened"

Init == items = <<>> /\ room \in Nat \cup {-1} /\ ret = "opened"

(* Adding the least that does not fit, or reserving it, stands for any     *)
(* more; Open with storage is a case of Swap.                              *)
Next ==
  \/ \E x \in Vals : Push(x)
  \/ \E n \in 1 .. Len(items') \cup {room + 1} : \E s \in [1 .. n -> Vals] : Extend(s)
  \/ \E x \in Vals, at \in 0 .. Len(items) + 1 : Insert(at, x) \/ Set(at, x)
  \/ \E x \in Vals, n \in 0 .. room : Fill(x, n)
  \/ \E at \in 0 .. Len(items) : Remove(at) \/ Truncate(at)
  \/ \E n \in -1 .. room' + 1 : Reserve(n)
  \/ Pop \/ Clear \/ FormatFails \/ Shrink \/ Free \/ Swap

Spec == Init /\ [][Next]_vars
=============================================================================
