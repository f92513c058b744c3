------------------------------ MODULE HashMap -------------------------------
(***************************************************************************)
(* The Robin Hood hashmap: open addressing with linear probing, displaced  *)
(* entries carried on, deletion by backward shift.                         *)
(*                                                                         *)
(* An operation is modelled one iteration of its loop at a time, so the    *)
(* states in the middle of an insert (an entry in flight) and of a removal *)
(* (one entry in two slots) are there to state invariants about.           *)
(* given is the caller's choice: a capacity, a power of two, and a hash    *)
(* function, any function.                                                 *)
(***************************************************************************)
EXTENDS Integers, FiniteSets

CONSTANTS
  Keys, Vals,
  Caps,        \* the capacities a caller may give
  HashValues,  \* what the caller's hash function may return
  None

(* A capacity is a power of two: the code masks an index where the model   *)
(* takes a remainder.  The limit needs this much of it: not all slots are  *)
(* filled but in a table of one or two.                                    *)
ASSUME HashMapAssumption ==
  /\ \A c \in Caps : c \in Nat \ {0} /\ (c > 2 => c % 4 = 0)
  /\ HashValues \subseteq Nat
  /\ None \notin Keys /\ None \notin Vals

VARIABLES
  given,   \* what the caller gave: the capacity, and HASHMAP_HASH_FN
  slots,   \* the slot array
  len,     \* len
  pc,      \* the operation in progress and its locals
  borrow,  \* what hashmap_get_or_null last returned, and whether a borrow
           \* of it made then would still be accepted
  iter     \* an iteration: the cursor, and (ghost) the keys it returned, and if one twice

vars == <<given, slots, len, pc, borrow, iter>>

-----------------------------------------------------------------------------
Cap == given.cap
Index == 0 .. Cap - 1

Limit == Cap - (Cap \div 4)

(* _hm_normalize_hash, _hm_home, _hm_wrap *)
Normalized(h) == IF h = 0 THEN 1 ELSE h
Home(k) == Normalized(given.hash[k]) % Cap
Wrap(i) == i % Cap

Entry(k, v, psl) == [key |-> k, val |-> v, psl |-> psl]
Vacant == Entry(None, None, 0)
Occupied(j) == slots[j].key # None

Idle == [op |-> "idle"]
Ret(is, v) == [op |-> "return", is |-> is, val |-> v]

NoBorrow == [at |-> 0, key |-> None, accepted |-> FALSE]
Restamp  == borrow' = [borrow EXCEPT !.accepted = FALSE]

NoIter == [at |-> 0, seen |-> {}, again |-> FALSE, on |-> FALSE]

(* HM_INIT_ *)
Init ==
  /\ given \in [cap : Caps, hash : [Keys -> HashValues]]
  /\ slots = [j \in Index |-> Vacant]
  /\ len = 0
  /\ pc = Idle
  /\ borrow = NoBorrow
  /\ iter = NoIter

Call(op, k, v) ==
  /\ pc = Idle
  /\ pc' = [op |-> "called", what |-> op, key |-> k, val |-> v]
  /\ UNCHANGED <<given, slots, len, borrow, iter>>

Called(op) == pc.op = "called" /\ pc.what = op

Return ==
  /\ pc.op = "return"
  /\ pc' = Idle
  /\ UNCHANGED <<given, slots, len, borrow, iter>>

-----------------------------------------------------------------------------
(* HM_CLEAR_ *)
Clear ==
  /\ Called("clear")
  /\ slots' = [j \in Index |-> Vacant]
  /\ len' = 0
  /\ Restamp
  /\ iter' = NoIter
  /\ pc' = Ret("cleared", None)
  /\ UNCHANGED given

-----------------------------------------------------------------------------
(* HM_INSERT_ *)

InsertFull ==
  /\ Called("insert")
  /\ len >= Limit
  /\ pc' = Ret("full", None)
  /\ UNCHANGED <<given, slots, len, borrow, iter>>

InsertStart ==
  /\ Called("insert")
  /\ len < Limit
  /\ pc' = [op |-> "insert", key |-> pc.key, val |-> pc.val,
            inc |-> Entry(pc.key, pc.val, 0), at |-> Home(pc.key), i |-> 0, displaced |-> FALSE]
  /\ UNCHANGED <<given, slots, len, borrow, iter>>

(* The loop's bound.  Where it runs out (the return after the loop, which  *)
(* would drop the entry in flight) no action is written: a map that got    *)
(* there would be stuck, and the run looks for deadlocks.                  *)
Inserting == pc.op = "insert" /\ pc.i < Cap

InsertPlace ==
  /\ Inserting
  /\ ~Occupied(pc.at)
  /\ slots' = [slots EXCEPT ![pc.at] = pc.inc]
  /\ len' = len + 1
  /\ Restamp
  /\ iter' = NoIter
  /\ pc' = Ret("new", None)
  /\ UNCHANGED given

(* Counts an update as an insertion. *)
InsertUpdate_Counted ==
  /\ Inserting
  /\ Occupied(pc.at) /\ slots[pc.at].key = pc.inc.key
  /\ slots' = [slots EXCEPT ![pc.at].val = pc.inc.val]
  /\ len' = len + 1
  /\ Restamp
  /\ iter' = NoIter
  /\ pc' = Ret("updated", None)
  /\ UNCHANGED given

(* The cached hashes are compared first; equal keys have equal hashes. *)
InsertUpdate ==
  /\ Inserting
  /\ Occupied(pc.at) /\ slots[pc.at].key = pc.inc.key
  /\ slots' = [slots EXCEPT ![pc.at].val = pc.inc.val]
  /\ Restamp
  /\ iter' = NoIter
  /\ pc' = Ret("updated", None)
  /\ UNCHANGED <<given, len>>

(* The probe length is not taken over from the displaced entry. *)
InsertProbe_KeepsPsl ==
  /\ Inserting
  /\ Occupied(pc.at) /\ slots[pc.at].key # pc.inc.key
  /\ IF slots[pc.at].psl < pc.inc.psl
     THEN /\ slots' = [slots EXCEPT ![pc.at] = pc.inc]
          /\ pc' = [pc EXCEPT !.inc = [slots[pc.at] EXCEPT !.psl = pc.inc.psl + 1],
                              !.at = Wrap(@ + 1), !.i = @ + 1, !.displaced = TRUE]
     ELSE /\ pc' = [pc EXCEPT !.inc.psl = @ + 1, !.at = Wrap(@ + 1), !.i = @ + 1]
          /\ UNCHANGED slots
  /\ UNCHANGED <<given, len, borrow, iter>>

(* The richer of the two entries is carried on. *)
InsertProbe ==
  /\ Inserting
  /\ Occupied(pc.at) /\ slots[pc.at].key # pc.inc.key
  /\ IF slots[pc.at].psl < pc.inc.psl
     THEN /\ slots' = [slots EXCEPT ![pc.at] = pc.inc]
          /\ pc' = [pc EXCEPT !.inc = [slots[pc.at] EXCEPT !.psl = @ + 1],
                              !.at = Wrap(@ + 1), !.i = @ + 1, !.displaced = TRUE]
     ELSE /\ pc' = [pc EXCEPT !.inc.psl = @ + 1, !.at = Wrap(@ + 1), !.i = @ + 1]
          /\ UNCHANGED slots
  /\ UNCHANGED <<given, len, borrow, iter>>

-----------------------------------------------------------------------------
(* The search shared by HM_GET_ (and HM_CONTAINS_KEY_), HM_GET_OR_NULL_    *)
(* and HM_REMOVE_.                                                         *)

Searches == {"get", "get_or_null", "remove"}

SeekStart ==
  /\ pc.op = "called" /\ pc.what \in Searches
  /\ pc' = [op |-> "seek", what |-> pc.what, key |-> pc.key, at |-> Home(pc.key), psl |-> 0]
  /\ UNCHANGED <<given, slots, len, borrow, iter>>

Seeking == pc.op = "seek" /\ pc.psl < Cap

(* A slot with an equal probe length ends the search too. *)
SeekAbsent_Early ==
  /\ pc.op = "seek"
  /\ \/ pc.psl = Cap
     \/ ~Occupied(pc.at)
     \/ slots[pc.at].psl <= pc.psl /\ slots[pc.at].key # pc.key
  /\ pc' = Ret("none", None)
  /\ UNCHANGED <<given, slots, len, borrow, iter>>

SeekAbsent ==
  /\ pc.op = "seek"
  /\ \/ pc.psl = Cap
     \/ ~Occupied(pc.at)
     \/ slots[pc.at].psl < pc.psl
  /\ pc' = Ret("none", None)
  /\ UNCHANGED <<given, slots, len, borrow, iter>>

Meets(k) == Seeking /\ Occupied(pc.at) /\ slots[pc.at].psl >= pc.psl /\ slots[pc.at].key = k

SeekFound ==
  /\ pc.op = "seek" /\ pc.what # "remove"
  /\ Meets(pc.key)
  /\ borrow' = IF pc.what = "get_or_null"
               THEN [at |-> pc.at, key |-> pc.key, accepted |-> TRUE] ELSE borrow
  /\ pc' = Ret("some", slots[pc.at].val)
  /\ UNCHANGED <<given, slots, len, iter>>

RemoveFound ==
  /\ pc.op = "seek" /\ pc.what = "remove"
  /\ Meets(pc.key)
  /\ pc' = [op |-> "shift", curr |-> pc.at, i |-> 0, old |-> slots[pc.at].val]
  /\ UNCHANGED <<given, slots, len, borrow, iter>>

SeekOn ==
  /\ Seeking
  /\ Occupied(pc.at) /\ slots[pc.at].psl >= pc.psl /\ slots[pc.at].key # pc.key
  /\ pc' = [pc EXCEPT !.psl = @ + 1, !.at = Wrap(@ + 1)]
  /\ UNCHANGED <<given, slots, len, borrow, iter>>

-----------------------------------------------------------------------------
(* Backward shift. *)

ShiftNext == Wrap(pc.curr + 1)

ShiftStops == pc.i >= Cap - 1 \/ ~Occupied(ShiftNext) \/ slots[ShiftNext].psl = 0

RemoveShift ==
  /\ pc.op = "shift" /\ ~ShiftStops
  /\ slots' = [slots EXCEPT ![pc.curr] = [slots[ShiftNext] EXCEPT !.psl = @ - 1]]
  /\ pc' = [pc EXCEPT !.curr = ShiftNext, !.i = @ + 1]
  /\ UNCHANGED <<given, len, borrow, iter>>

(* The token is kept: the slots of other keys have moved. *)
RemoveFinish_NoRestamp ==
  /\ pc.op = "shift" /\ ShiftStops
  /\ slots' = [slots EXCEPT ![pc.curr] = Vacant]
  /\ len' = IF len > 0 THEN len - 1 ELSE len
  /\ iter' = NoIter
  /\ pc' = Ret("some", pc.old)
  /\ UNCHANGED <<given, borrow>>

RemoveFinish ==
  /\ pc.op = "shift" /\ ShiftStops
  /\ slots' = [slots EXCEPT ![pc.curr] = Vacant]
  /\ len' = IF len > 0 THEN len - 1 ELSE len
  /\ Restamp
  /\ iter' = NoIter
  /\ pc' = Ret("some", pc.old)
  /\ UNCHANGED given

-----------------------------------------------------------------------------
(* HM_ITER_NEXT_.  The caller starts at 0 and does not mutate the map      *)
(* while it iterates: a mutation ends the iteration.                       *)

IterStart ==
  /\ pc = Idle
  /\ iter' = [at |-> 0, seen |-> {}, again |-> FALSE, on |-> TRUE]
  /\ UNCHANGED <<given, slots, len, pc, borrow>>

(* The iterator comes to the slot after j with the entry in j. *)
IterAfter(j) ==
  [iter EXCEPT !.at = j + 1, !.seen = @ \cup {slots[j].key},
               !.again = @ \/ slots[j].key \in iter.seen]

(* The last slot is not looked at. *)
IterNext_StopsShort ==
  /\ pc = Idle /\ iter.on
  /\ LET ahead == {j \in Index : iter.at <= j /\ j < Cap - 1 /\ Occupied(j)} IN
       IF ahead = {} THEN iter' = [iter EXCEPT !.at = Cap]
       ELSE \E j \in ahead :
              (\A i \in ahead : j <= i) /\ iter' = IterAfter(j)
  /\ UNCHANGED <<given, slots, len, pc, borrow>>

IterNext ==
  /\ pc = Idle /\ iter.on
  /\ LET ahead == {j \in Index : iter.at <= j /\ Occupied(j)} IN
       IF ahead = {} THEN iter' = [iter EXCEPT !.at = Cap]
       ELSE \E j \in ahead :
              (\A i \in ahead : j <= i) /\ iter' = IterAfter(j)
  /\ UNCHANGED <<given, slots, len, pc, borrow>>

-----------------------------------------------------------------------------
(* The abstract map: the entries in the table, less the slot a removal is  *)
(* emptying, plus the entry an insert has displaced.  The first swap of an *)
(* insert puts the new entry in; a removal takes effect when it has found  *)
(* its key.                                                                *)

Hole == IF pc.op = "shift" THEN {pc.curr} ELSE {}
InFlight == IF pc.op = "insert" /\ pc.displaced THEN {pc.inc} ELSE {}
Entries == {slots[j] : j \in {i \in Index \ Hole : Occupied(i)}} \cup InFlight

map == [k \in Keys |->
          IF \E e \in Entries : e.key = k THEN (CHOOSE e \in Entries : e.key = k).val ELSE None]

call ==
  CASE pc.op = "idle"   -> [phase |-> "idle"]
    [] pc.op = "called" -> [phase |-> "pending", op |-> pc.what, key |-> pc.key, val |-> pc.val]
    [] pc.op = "seek"   -> [phase |-> "pending", op |-> pc.what, key |-> pc.key, val |-> None]
    [] pc.op = "insert" -> IF pc.displaced THEN [phase |-> "done", is |-> "new", val |-> None]
                           ELSE [phase |-> "pending", op |-> "insert", key |-> pc.key, val |-> pc.val]
    [] pc.op = "shift"  -> [phase |-> "done", is |-> "some", val |-> pc.old]
    [] pc.op = "return" -> [phase |-> "done", is |-> pc.is, val |-> pc.val]

Abstract == INSTANCE MapSpec WITH limit <- Limit

-----------------------------------------------------------------------------
Next ==
  \/ \E c \in Abstract!Calls : Call(c[1], c[2], c[3])
  \/ Clear
  \/ InsertFull \/ InsertStart \/ InsertPlace \/ InsertUpdate \/ InsertProbe
  \/ SeekStart \/ SeekAbsent \/ SeekFound \/ SeekOn
  \/ RemoveFound \/ RemoveShift \/ RemoveFinish
  \/ IterStart \/ IterNext
  \/ Return

Spec == Init /\ [][Next]_vars

-----------------------------------------------------------------------------
(* Every operation returns what a map would, and no entry is lost or       *)
(* doubled by the swaps of an insert or the shifts of a removal.           *)
Implements == Abstract!Spec

(* The Robin Hood order, at every step of every operation: an entry lies   *)
(* at its probe length from its home, and behind an entry away from home   *)
(* is another at most one step nearer to its own.  hashmap_impl.h leaves   *)
(* it "not stated, and not claimed"; that get finds what insert stored     *)
(* rests on it.                                                            *)
Before(j) == Wrap(j + Cap - 1)

RobinHood ==
  \A j \in Index : Occupied(j) =>
    /\ slots[j].psl \in Index
    /\ j = Wrap(Home(slots[j].key) + slots[j].psl)
    /\ slots[j].psl > 0 =>
         Occupied(Before(j)) /\ slots[Before(j)].psl >= slots[j].psl - 1

(* len counts the entries (hashmap_insert's limit and hashmap_len read it).*)
LenIsCount ==
  len = Cardinality({j \in Index : Occupied(j)})

(* A borrow of a slot that is still accepted finds its key there: every    *)
(* operation that may move entries restamps ("false negatives are a        *)
(* correctness bug").                                                      *)
BorrowFindsKey ==
  (pc = Idle /\ borrow.accepted) => slots[borrow.at].key = borrow.key

(* An iteration that ends without a mutation has returned every key, once. *)
IterationComplete ==
  (pc = Idle /\ iter.on /\ iter.at = Cap) => iter.seen = Abstract!Present /\ ~iter.again
=============================================================================
