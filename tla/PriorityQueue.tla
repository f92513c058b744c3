---------------------------- MODULE PriorityQueue ----------------------------
(***************************************************************************)
(* The binary heap, over a buffer the caller provides.                     *)
(*                                                                         *)
(* A call does its own work in its first step and then runs the loops of   *)
(* pq_sift_up_ and pq_sift_down_, one iteration a step; step says which    *)
(* loop runs and for whom.  The comparator is a total preorder, given as   *)
(* a rank: the header asks for one and cannot check it.  The typed         *)
(* wrappers, and the bool forms of the calls, change the state alike.      *)
(***************************************************************************)
EXTENDS Integers, FiniteSets

CONSTANTS
  Elems,
  Rank,      \* [Elems -> Nat]: cmp(a, b) <= 0 iff Rank[a] <= Rank[b]
  Capacity

ASSUME PQAssumption ==
  /\ Rank \in [Elems -> Nat]
  /\ Capacity \in Nat \ {0}
  /\ Elems \cap {"ok", "none", "void", "ERR_CAPACITY_EXCEEDED", "ERR_OUT_OF_RANGE"} = {}

VARIABLES
  heap,  \* [slots of the buffer -> element]
  len,
  step,  \* "idle", or the loop that runs: "push" and "remove" sift up,
         \*   "sink" and "build" sift down
  idx,   \* where that loop is
  base,  \* remove: where to sift down next; build: heapify's own index
  got    \* what the last call returned

pqvars == <<heap, len, step, idx, base, got>>

-----------------------------------------------------------------------------
Slots == 0 .. Capacity - 1
Parent(i) == (i - 1) \div 2
Left(i) == 2 * i + 1
Right(i) == 2 * i + 2

LessEq(h, i, j) == Rank[h[i]] <= Rank[h[j]]

Swapped(i, j) == [heap EXCEPT ![i] = heap[j], ![j] = heap[i]]

(* The child to sink to, or i itself: an equal child is not smaller, and   *)
(* the left one wins a tie.                                                *)
Smaller(c, i) == IF c < len /\ ~LessEq(heap, i, c) THEN c ELSE i
Smallest(i) == Smaller(Right(i), Smaller(Left(i), i))

Answers(answer) == got' = answer /\ UNCHANGED <<heap, len, step, idx, base>>

(* Ends a call's own work: loop l runs next, at i, with b for later. *)
Sifts(l, i, b) == step' = l /\ idx' = i /\ base' = b

PQInit ==
  /\ heap \in [Slots -> Elems]
  /\ len = 0 /\ step = "idle" /\ idx = 0 /\ base = 0
  /\ got = "ok"

-----------------------------------------------------------------------------
(* The buffer is the caller's, who may write past len before a heapify. *)
Fill(i, e) ==
  /\ step = "idle" /\ i >= len
  /\ heap' = [heap EXCEPT ![i] = e]
  /\ UNCHANGED <<len, step, idx, base, got>>

Push(e) ==
  /\ step = "idle"
  /\ \/ len >= Capacity /\ Answers("ERR_CAPACITY_EXCEEDED")
     \/ /\ len < Capacity
        /\ heap' = [heap EXCEPT ![len] = e]
        /\ len' = len + 1
        /\ Sifts("push", len, 0)
        /\ got' = "ok"

(* The shorter queue is not sifted. *)
Pop_NoSift ==
  /\ step = "idle"
  /\ \/ len = 0 /\ Answers("none")
     \/ /\ len > 0
        /\ got' = heap[0]
        /\ len' = len - 1
        /\ heap' = [heap EXCEPT ![0] = heap[len - 1]]
        /\ UNCHANGED <<step, idx, base>>

(* With one element left, the write of the root to itself changes nothing. *)
Pop ==
  /\ step = "idle"
  /\ \/ len = 0 /\ Answers("none")
     \/ /\ len > 0
        /\ got' = heap[0]
        /\ len' = len - 1
        /\ heap' = [heap EXCEPT ![0] = heap[len - 1]]
        /\ IF len > 1 THEN Sifts("sink", 0, 0) ELSE UNCHANGED <<step, idx, base>>

Peek == step = "idle" /\ Answers(IF len = 0 THEN "none" ELSE heap[0])

(* The moved element only sinks, though it may come from another branch. *)
RemoveAt_SinksOnly(i) ==
  /\ step = "idle" /\ i < len
  /\ len' = len - 1
  /\ got' = "ok"
  /\ IF i = len - 1
     THEN UNCHANGED <<heap, step, idx, base>>
     ELSE /\ heap' = [heap EXCEPT ![i] = heap[len - 1]]
          /\ Sifts("sink", i, 0)

RemoveAt(i) ==
  /\ step = "idle"
  /\ \/ i >= len /\ Answers("ERR_OUT_OF_RANGE")
     \/ /\ i < len
        /\ len' = len - 1
        /\ got' = "ok"
        /\ IF i = len - 1
           THEN UNCHANGED <<heap, step, idx, base>>
           ELSE /\ heap' = [heap EXCEPT ![i] = heap[len - 1]]
                /\ Sifts("remove", i, i)

(* A length past the capacity is cut to it. *)
Heapify(n) ==
  LET m == IF n > Capacity THEN Capacity ELSE n IN
  /\ step = "idle"
  /\ len' = m
  /\ got' = "void"
  /\ IF m < 2 THEN UNCHANGED <<step, idx, base>> ELSE Sifts("build", Parent(m - 1), Parent(m - 1))
  /\ UNCHANGED heap

-----------------------------------------------------------------------------
OutOfOrder == idx > 0 /\ ~LessEq(heap, Parent(idx), idx)

SiftUp ==
  /\ step \in {"push", "remove"} /\ OutOfOrder
  /\ heap' = Swapped(Parent(idx), idx)
  /\ idx' = Parent(idx)
  /\ UNCHANGED <<len, step, base, got>>

SiftUpEnds ==
  /\ step \in {"push", "remove"} /\ ~OutOfOrder
  /\ IF step = "push" THEN Sifts("idle", 0, 0) ELSE Sifts("sink", base, 0)
  /\ UNCHANGED <<heap, len, got>>

SiftDown ==
  /\ step \in {"sink", "build"} /\ Smallest(idx) # idx
  /\ heap' = Swapped(idx, Smallest(idx))
  /\ idx' = Smallest(idx)
  /\ UNCHANGED <<len, step, base, got>>

(* for (i = ...; i >= 0; i--) on an unsigned i, the wrap cut short. *)
SiftDownEnds_Unsigned ==
  /\ step \in {"sink", "build"} /\ Smallest(idx) = idx
  /\ LET i == IF base = 0 THEN Capacity ELSE base - 1 IN
     IF step = "sink" THEN Sifts("idle", 0, 0) ELSE Sifts("build", i, i)
  /\ UNCHANGED <<heap, len, got>>

SiftDownEnds ==
  /\ step \in {"sink", "build"} /\ Smallest(idx) = idx
  /\ IF step = "sink" \/ base = 0
     THEN Sifts("idle", 0, 0)
     ELSE Sifts("build", base - 1, base - 1)
  /\ UNCHANGED <<heap, len, got>>

Runs == SiftUp \/ SiftUpEnds \/ SiftDown \/ SiftDownEnds

PQNext ==
  \/ \E e \in Elems : Push(e) \/ (\E i \in Slots : Fill(i, e))
  \/ Pop \/ Peek
  \/ \E i \in Slots : RemoveAt(i)
  \/ \E n \in 0 .. Capacity + 1 : Heapify(n)
  \/ SiftUp \/ SiftUpEnds \/ SiftDown \/ SiftDownEnds

PQSpec == PQInit /\ [][PQNext]_pqvars /\ WF_pqvars(Runs)

-----------------------------------------------------------------------------
PQTypeOK ==
  /\ heap \in [Slots -> Elems]
  /\ len \in 0 .. Capacity
  /\ step \in {"idle", "push", "remove", "sink", "build"}
  /\ idx \in Slots /\ base \in Slots
  /\ got \in Elems \cup {"ok", "none", "void", "ERR_CAPACITY_EXCEEDED", "ERR_OUT_OF_RANGE"}

(* Between calls no element ranks below its parent, whatever was pushed,   *)
(* popped, removed from the middle or put in order in place.               *)
HeapOrdered ==
  step = "idle" => \A i \in Slots : \A c \in {Left(i), Right(i)} : c < len => LessEq(heap, i, c)

(* The calls serve a bag: nothing is lost or doubled by a sift, and pop    *)
(* and peek answer a least element.                                        *)
bag == [e \in Elems |-> Cardinality({i \in 0 .. len - 1 : heap[i] = e})]

ABag == INSTANCE PQSpec

Serves == ABag!Spec

(* Every call returns: its loops, run on, come to an end.                  *)
CallsReturn == step # "idle" ~> step = "idle"
=============================================================================
