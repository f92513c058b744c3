----------------------------- MODULE SortSearch -----------------------------
(***************************************************************************)
(* algo_sort, and the binary searches of the array it leaves.              *)
(*                                                                         *)
(* calls are the calls that have not returned, the innermost first: the    *)
(* recursion of algo_merge_sort_range is unfolded on it, and each step is  *)
(* one iteration of one loop.  An element carries the index it had, so     *)
(* that equal keys can be told apart.                                      *)
(***************************************************************************)
EXTENDS Integers, Sequences, SequencesExt

CONSTANTS
  Keys,    \* a set of integers: cmp is their order
  MaxLen,  \* bound of the model
  Cutoff   \* below that many elements a range is sorted by insertion: 16

SortAssumption == Keys \subseteq Int /\ MaxLen \in Nat /\ Cutoff \in Nat /\ Cutoff >= 2

VARIABLES
  arr,    \* the array, a function on 0 .. len - 1
  temp,   \* whether a temp_buffer was given
  calls,
  found   \* what the last search answered: the key, and where its bound is

vars == <<arr, temp, calls, found>>

-----------------------------------------------------------------------------
Size == IF arr = <<>> THEN 0 ELSE Cardinality(DOMAIN arr)
Key(x) == arr[x].key
Call == Head(calls)
Running(f) == calls # <<>> /\ Call.f = f

Sort(l, r) == [f |-> "sort", l |-> l, r |-> r]
Insertion(l, r) == [f |-> "insert", l |-> l, r |-> r, i |-> l + 1, j |-> l + 1]
Merge(l, m, r) == [f |-> "merge", l |-> l, m |-> m, r |-> r, i |-> l, j |-> m, out |-> <<>>]
Search(f, key) == [f |-> f, key |-> key, low |-> 0, high |-> Size]

NotFound == [f |-> "none"]

Returns == calls' = Tail(calls)
Goes(call) == calls' = <<call>> \o Tail(calls)

(* algo_sort is called on an array of any length. *)
Init ==
  /\ \E n \in 0 .. MaxLen : \E keys \in [0 .. n - 1 -> Keys] :
       arr = [x \in 0 .. n - 1 |-> [key |-> keys[x], from |-> x]]
  /\ temp \in BOOLEAN
  /\ calls = IF Size < 2 THEN <<>>
             ELSE IF Size < Cutoff \/ ~temp THEN <<Insertion(0, Size)>>
             ELSE <<Sort(0, Size)>>
  /\ found = NotFound

-----------------------------------------------------------------------------
(* algo_merge_sort_range *)
SortRange ==
  /\ Running("sort")
  /\ LET l == Call.l
         r == Call.r
         m == l + (r - l) \div 2
     IN \/ r - l <= 1 /\ Returns
        \/ r - l > 1 /\ r - l < Cutoff /\ Goes(Insertion(l, r))
        \/ /\ r - l > 1 /\ r - l >= Cutoff
           /\ calls' = <<Sort(l, m), Sort(m, r), Merge(l, m, r)>> \o Tail(calls)
  /\ UNCHANGED <<arr, temp, found>>

(* The element at j sinks to its place among those before it. *)
InsertStep ==
  /\ Running("insert")
  /\ LET i == Call.i
         j == Call.j
         sinks == i < Call.r /\ j > Call.l /\ Key(j - 1) > Key(j)
     IN \/ sinks /\ arr' = [arr EXCEPT ![j] = arr[j - 1], ![j - 1] = arr[j]]
                 /\ Goes([Call EXCEPT !.j = j - 1])
        \/ ~sinks /\ i < Call.r /\ UNCHANGED arr
                  /\ Goes([Call EXCEPT !.i = i + 1, !.j = i + 1])
        \/ i >= Call.r /\ UNCHANGED arr /\ Returns
  /\ UNCHANGED <<temp, found>>

(* Of two equal elements the right one is taken. *)
TakesLeft_Strict == Call.i < Call.m /\ (Call.j < Call.r => Key(Call.i) < Key(Call.j))

TakesLeft == Call.i < Call.m /\ (Call.j < Call.r => Key(Call.i) <= Key(Call.j))

MergeStep ==
  /\ Running("merge")
  /\ \/ /\ TakesLeft
        /\ Goes([Call EXCEPT !.i = @ + 1, !.out = Append(@, arr[Call.i])])
        /\ UNCHANGED arr
     \/ /\ ~TakesLeft /\ Call.j < Call.r
        /\ Goes([Call EXCEPT !.j = @ + 1, !.out = Append(@, arr[Call.j])])
        /\ UNCHANGED arr
     \/ /\ Call.i = Call.m /\ Call.j = Call.r
        /\ arr' = [x \in DOMAIN arr |-> IF x >= Call.l /\ x < Call.r THEN Call.out[x - Call.l + 1]
                                        ELSE arr[x]]
        /\ Returns
  /\ UNCHANGED <<temp, found>>

-----------------------------------------------------------------------------
(* algo_lower_bound, algo_upper_bound; find_sorted, binary_search and      *)
(* equal_range are made of them.                                           *)
Bound(f, key) ==
  /\ calls = <<>>
  /\ calls' = <<Search(f, key)>>
  /\ UNCHANGED <<arr, temp, found>>

(* The middle is left out on either side. *)
SearchStep_SkipsMiddle ==
  /\ calls # <<>> /\ Call.f \in {"lower", "upper"} /\ Call.low < Call.high
  /\ LET mid == Call.low + (Call.high - Call.low) \div 2
         before == Key(mid) < Call.key \/ (Call.f = "upper" /\ Key(mid) = Call.key)
     IN Goes(IF before THEN [Call EXCEPT !.low = mid + 1] ELSE [Call EXCEPT !.high = mid - 1])
  /\ UNCHANGED <<arr, temp, found>>

SearchStep ==
  /\ calls # <<>> /\ Call.f \in {"lower", "upper"} /\ Call.low < Call.high
  /\ LET mid == Call.low + (Call.high - Call.low) \div 2
         before == Key(mid) < Call.key \/ (Call.f = "upper" /\ Key(mid) = Call.key)
     IN Goes(IF before THEN [Call EXCEPT !.low = mid + 1] ELSE [Call EXCEPT !.high = mid])
  /\ UNCHANGED <<arr, temp, found>>

SearchEnds ==
  /\ calls # <<>> /\ Call.f \in {"lower", "upper"} /\ Call.low >= Call.high
  /\ found' = [f |-> Call.f, key |-> Call.key, at |-> Call.low]
  /\ Returns
  /\ UNCHANGED <<arr, temp>>

Next ==
  \/ SortRange \/ InsertStep \/ MergeStep \/ SearchStep \/ SearchEnds
  \/ \E key \in Keys : Bound("lower", key) \/ Bound("upper", key)

Spec == Init /\ [][Next]_vars

-----------------------------------------------------------------------------
(* Once algo_sort has returned the elements are those it was given, in     *)
(* order, and equal ones in the order they came in, whichever of the three *)
(* ways it went (sort_impl.h: "stable hybrid insertion/merge sort").       *)
SortsStably ==
  (calls = <<>> \/ Call.f \in {"lower", "upper"}) =>
    /\ {arr[x].from : x \in DOMAIN arr} = DOMAIN arr
    /\ \A x, y \in DOMAIN arr : x < y =>
         Key(x) < Key(y) \/ (Key(x) = Key(y) /\ arr[x].from < arr[y].from)

(* A bound is where the elements before the key, or up to it, end.         *)
BoundsDelimit ==
  found # NotFound =>
    \A x \in DOMAIN arr :
      (x < found.at) = (Key(x) < found.key \/ (found.f = "upper" /\ Key(x) = found.key))
=============================================================================
