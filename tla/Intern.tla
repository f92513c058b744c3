------------------------------- MODULE Intern -------------------------------
(***************************************************************************)
(* The string interning pool: a table that is only ever added to, its      *)
(* strings copied into an arena.  The arena is not reset, and nobody else  *)
(* allocates from it, while the pool lives; alignment is left to Arena.    *)
(***************************************************************************)
EXTENDS Integers

CONSTANTS
  Texts,
  SizeOf,     \* [Texts -> Nat]: what str_len answers
  EmptyText,      \* the text ""
  ArenaRoom,  \* bytes the arena has left beside the table
  PoolSize,   \* capacity: the slots of the table
  NoText

ASSUME InternAssumption ==
  /\ SizeOf \in [Texts -> Nat]
  /\ EmptyText \in Texts /\ NoText \notin Texts
  /\ ArenaRoom \in Nat
  /\ PoolSize \in Nat \ {0}

VARIABLES
  hash,     \* [Texts -> what intern_hash_ makes of it]
  entries,  \* [slots -> [text, ptr]]
  fill,     \* bytes of the arena taken
  ready,    \* intern_pool_init has returned
  view,     \* what intern_string returned last: the text asked for, the ptr
  handed    \* ghost: [Texts -> the first pointer returned for it]

internVars == <<hash, entries, fill, ready, view, handed>>

-----------------------------------------------------------------------------
PoolSlots == 0 .. PoolSize - 1
Null == 0
Vacant(i) == entries[i].ptr = Null

(* The slot looked at after n others, for the text t. *)
Probe(t, n) == (hash[t] + n) % PoolSize

(* n slots were looked at in vain: other texts are in them. *)
Passed(t, n) == \A k \in 0 .. n - 1 : ~Vacant(Probe(t, k)) /\ entries[Probe(t, k)].text # t

InternInit ==
  /\ hash \in [Texts -> PoolSlots]
  /\ entries = [i \in PoolSlots |-> [text |-> NoText, ptr |-> Null]]
  /\ fill = 0 /\ ready = FALSE
  /\ view = [text |-> EmptyText, ptr |-> Null]
  /\ handed = [t \in Texts |-> Null]

Views(t, ptr) ==
  /\ view' = [text |-> t, ptr |-> ptr]
  /\ handed' = IF handed[t] = Null THEN [handed EXCEPT ![t] = ptr] ELSE handed
  /\ UNCHANGED hash

Refused(t) == Views(t, Null) /\ UNCHANGED <<entries, fill>>

(* Ends the search at the entry, whatever text of that length it holds. *)
Found_BySize(t) ==
  \E n \in PoolSlots :
    /\ Passed(t, n) /\ ~Vacant(Probe(t, n))
    /\ SizeOf[entries[Probe(t, n)].text] = SizeOf[t]
    /\ Views(t, entries[Probe(t, n)].ptr)
    /\ UNCHANGED <<entries, fill>>

(* Another call of it, or of another text with the same hash, put it there. *)
Found(t) ==
  \E n \in PoolSlots :
    /\ Passed(t, n)
    /\ entries[Probe(t, n)].text = t
    /\ Views(t, entries[Probe(t, n)].ptr)
    /\ UNCHANGED <<entries, fill>>

(* The copy is made first: an arena that is full leaves the slot vacant. *)
Added(t) ==
  \E n \in PoolSlots :
    /\ Passed(t, n) /\ Vacant(Probe(t, n))
    /\ IF fill + SizeOf[t] + 1 > ArenaRoom THEN Refused(t)
       ELSE /\ entries' = [entries EXCEPT ![Probe(t, n)] = [text |-> t, ptr |-> fill + 1]]
            /\ fill' = fill + SizeOf[t] + 1
            /\ Views(t, fill + 1)

(* Every slot was looked at. *)
Full(t) == Passed(t, PoolSize) /\ Refused(t)

InternString(t) == Found(t) \/ Added(t) \/ Full(t)

(* intern_pool_init interns the empty string, and does not look whether    *)
(* there was room for it.                                                  *)
PoolInit == ~ready /\ InternString(EmptyText) /\ ready' = TRUE

InternNext ==
  \/ PoolInit
  \/ \E t \in Texts : ready /\ InternString(t) /\ UNCHANGED ready

InternSpec == InternInit /\ [][InternNext]_internVars

-----------------------------------------------------------------------------
InternTypeOK ==
  /\ hash \in [Texts -> PoolSlots]
  /\ entries \in [PoolSlots -> [text : Texts \cup {NoText}, ptr : Nat]]
  /\ \A i \in PoolSlots : Vacant(i) = (entries[i].text = NoText)
  /\ fill \in Nat /\ ready \in BOOLEAN
  /\ view \in [text : Texts, ptr : Nat]
  /\ handed \in [Texts -> Nat]

(* intern.h: "Interning maps unique strings to a single shared copy".      *)
(* Pointers are equal exactly for equal texts, whatever was added since    *)
(* and whichever hashes collide, and a text that was interned once is      *)
(* still found when the table or the arena is full.                        *)
InternedOnce ==
  /\ \A t, u \in Texts : handed[t] # Null /\ handed[t] = handed[u] => t = u
  /\ handed[view.text] # Null => view.ptr = handed[view.text]
=============================================================================
