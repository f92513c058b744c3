------------------------------ MODULE Lifetime ------------------------------
(***************************************************************************)
(* The lifetime tokens of CANON_LIFETIME_DEBUG builds.                     *)
(*                                                                         *)
(* Every owner (arena, pool, vec, deque, hashmap, ...) embeds a pair       *)
(* lt = (id, open).  canon_lifetime_next_id_ draws the id when the owner   *)
(* is opened and again whenever its storage is given up (restamp): it      *)
(* takes the value of a counter that each translation unit has for itself, *)
(* xors it with an address, and maps 0 (REGION_ID_STATIC) to 1.  A borrow  *)
(* remembers where the owner's lt is and the id it saw; reading through    *)
(* the borrow compares that id with the id now found there.                *)
(*                                                                         *)
(* The check is a comparison of ids standing in for a question about       *)
(* history: is the owner still in the incarnation that was borrowed?  The  *)
(* ghost fields inc and births record the history, and CheckIsExact says   *)
(* of which borrows the comparison answers the question.                   *)
(***************************************************************************)
EXTENDS Naturals, Sequences

CONSTANTS
  Owners,     \* the structs that embed a lifetime_t
  TUs,        \* translation units: one counter_ each
  Threads,
  Borrows,    \* variables of a borrowed_* type
  TypeOf,     \* [Owners -> the C type of the owner]
  SwapTypes,  \* the types that have a swap (vec_T, deque_T)
  StampTU,    \* [Owners -> the translation units whose code stamps the owner]
  StampAddr,  \* [Owners -> the addresses its tokens are mixed with]
  PlainTUs,   \* those compiled without CANON_LIFETIME_ATOMIC_IDS: level 4
  Serialised, \* owners stamped in a plain unit are stamped one at a time
  MaxDraws,   \* bound of the model: tokens drawn in one behaviour
  XorId(_, _),  \* the ^ of region_id_t
  None        \* source_lt == NULL

Counters  == 1 .. MaxDraws
Addresses == UNION {StampAddr[o] : o \in Owners}

ASSUME ConstantsAssumption ==
  /\ MaxDraws \in Nat \ {0}
  /\ PlainTUs \subseteq TUs /\ Serialised \in BOOLEAN
  /\ \A o \in Owners : StampTU[o] \subseteq TUs /\ StampAddr[o] \subseteq Nat
  /\ None \notin Owners

ASSUME XorAssumption ==
  \A c \in Counters, a \in Addresses : XorId(c, a) \in Nat

VARIABLES
  counter,  \* [TUs -> the counter_ of the translation unit]
  lt,       \* [Owners -> the embedded lifetime_t, and the ghost inc]
  borrow,   \* [Borrows -> source_lt, captured_id, and the ghost inc]
  pc,       \* [Threads -> where the thread is inside a stamping helper]
  births    \* ghost: the incarnations begun so far, in order

vars == <<counter, lt, borrow, pc, births>>

-----------------------------------------------------------------------------
RegionIdStatic == 0

(* c_ ^ (region_id_t)(uintptr_t)owner_, never REGION_ID_STATIC. *)
Token(c, a) == IF XorId(c, a) = RegionIdStatic THEN 1 ELSE XorId(c, a)

Ids == Nat
Idle == [at |-> "idle"]

(* An owner is used by one thread at a time; the library leaves that to    *)
(* its callers.                                                            *)
Busy(o) == \E t \in Threads : pc[t].at # "idle" /\ pc[t].owner = o

Initialised(o) == lt[o].inc # 0

(* A struct of zeroes: as declared, or as an init that refuses leaves it. *)
ZeroToken == [id |-> RegionIdStatic, open |-> FALSE, inc |-> 0]

(* What the borrow's BORROW_LT_CHECK_ evaluates. *)
Validates(b) ==
  \/ borrow[b].source = None
  \/ borrow[b].id = RegionIdStatic
  \/ lt[borrow[b].source].open /\ lt[borrow[b].source].id = borrow[b].id

Init ==
  /\ counter = [u \in TUs |-> 1]
  /\ lt = [o \in Owners |-> ZeroToken]
  /\ borrow = [b \in Borrows |-> [source |-> None, id |-> RegionIdStatic, inc |-> 0]]
  /\ pc = [t \in Threads |-> Idle]
  /\ births = <<>>

-----------------------------------------------------------------------------
(* canon_lifetime_next_id_, the counter part.                              *)

Birth(u, c, o, a) == [tu |-> u, c |-> c, owner |-> o, addr |-> a]

Drawn(o, opens) == [at |-> "drawn", owner |-> o, opens |-> opens, inc |-> Len(births) + 1]

MayStamp(t, u, o, a) ==
  /\ pc[t] = Idle
  /\ ~Busy(o)
  /\ u \in StampTU[o]
  /\ a \in StampAddr[o]
  /\ counter[u] \in Counters
  /\ Len(births) < MaxDraws
  /\ Serialised => \A s \in Threads :
       pc[s].at = "loaded" => pc[s].birth.tu \notin PlainTUs

LoadCounter(t, u, o, a, opens) ==
  /\ u \in PlainTUs
  /\ MayStamp(t, u, o, a)
  /\ Serialised => \A s \in Threads : pc[s] = Idle
  /\ pc' = [pc EXCEPT ![t] = [at |-> "loaded", owner |-> o, opens |-> opens,
                              birth |-> Birth(u, counter[u], o, a)]]
  /\ UNCHANGED <<counter, lt, borrow, births>>

StoreCounter(t) ==
  /\ pc[t].at = "loaded"
  /\ LET b == pc[t].birth IN
       /\ counter' = [counter EXCEPT ![b.tu] = b.c + 1]
       /\ births' = Append(births, b)
  /\ pc' = [pc EXCEPT ![t] = Drawn(pc[t].owner, pc[t].opens)]
  /\ UNCHANGED <<lt, borrow>>

(* An increment the compiler may split: the ladder's fallback reached by a *)
(* build that announces the atomic path.                                   *)
FetchAdd_Split(t, u, o, a, opens) ==
  /\ u \notin PlainTUs
  /\ MayStamp(t, u, o, a)
  /\ pc' = [pc EXCEPT ![t] = [at |-> "loaded", owner |-> o, opens |-> opens,
                              birth |-> Birth(u, counter[u], o, a)]]
  /\ UNCHANGED <<counter, lt, borrow, births>>

(* Level 3 without the "- 1": the value after the increment. *)
FetchAdd_Incremented(t, u, o, a, opens) ==
  /\ u \notin PlainTUs
  /\ MayStamp(t, u, o, a)
  /\ counter' = [counter EXCEPT ![u] = @ + 1]
  /\ births' = Append(births, Birth(u, counter[u] + 1, o, a))
  /\ pc' = [pc EXCEPT ![t] = Drawn(o, opens)]
  /\ UNCHANGED <<lt, borrow>>

FetchAdd(t, u, o, a, opens) ==
  /\ u \notin PlainTUs
  /\ MayStamp(t, u, o, a)
  /\ counter' = [counter EXCEPT ![u] = @ + 1]
  /\ births' = Append(births, Birth(u, counter[u], o, a))
  /\ pc' = [pc EXCEPT ![t] = Drawn(o, opens)]
  /\ UNCHANGED <<lt, borrow>>

-----------------------------------------------------------------------------
(* The owner's helpers: _open_ writes id and sets open, _restamp_ writes   *)
(* only id, _close_ clears open.                                           *)

Stamp(t) ==
  /\ pc[t].at = "drawn"
  /\ LET o == pc[t].owner
         b == births[pc[t].inc]
     IN lt' = [lt EXCEPT
          ![o] = [id   |-> Token(b.c, b.addr),
                  open |-> @.open \/ pc[t].opens,
                  inc  |-> pc[t].inc]]
  /\ pc' = [pc EXCEPT ![t] = Idle]
  /\ UNCHANGED <<counter, borrow, births>>

(* vec_T_init of a capacity past the limit: the zero struct is returned.   *)
OpenRefused(o) ==
  /\ ~Busy(o)
  /\ lt' = [lt EXCEPT ![o] = ZeroToken]
  /\ UNCHANGED <<counter, borrow, pc, births>>

Close(o) ==
  /\ ~Busy(o)
  /\ lt' = [lt EXCEPT ![o].open = FALSE]
  /\ UNCHANGED <<counter, borrow, pc, births>>

(* vec_T_swap, deque_T_swap: the structs are exchanged, lt included, and   *)
(* nothing is restamped.                                                   *)
Swap(o, p) ==
  /\ o # p /\ TypeOf[o] = TypeOf[p] /\ TypeOf[o] \in SwapTypes
  /\ ~Busy(o) /\ ~Busy(p)
  /\ lt' = [lt EXCEPT ![o] = lt[p], ![p] = lt[o]]
  /\ UNCHANGED <<counter, borrow, pc, births>>

-----------------------------------------------------------------------------
(* Borrows: *_from_lifetime captures, *_from does not, a derived view      *)
(* inherits.  The id captured of a zero struct is REGION_ID_STATIC.        *)

Capture(b, o) ==
  /\ ~Busy(o)
  /\ borrow' = [borrow EXCEPT ![b] = [source |-> o, id |-> lt[o].id, inc |-> lt[o].inc]]
  /\ UNCHANGED <<counter, lt, pc, births>>

Untracked(b) ==
  /\ borrow' = [borrow EXCEPT ![b] = [source |-> None, id |-> RegionIdStatic, inc |-> 0]]
  /\ UNCHANGED <<counter, lt, pc, births>>

Inherit(b, c) ==
  /\ borrow' = [borrow EXCEPT ![b] = borrow[c]]
  /\ UNCHANGED <<counter, lt, pc, births>>

-----------------------------------------------------------------------------
Draw(t) ==
  \E o \in Owners, opens \in BOOLEAN :
    /\ opens \/ Initialised(o)
    /\ \E u \in StampTU[o], a \in StampAddr[o] :
         LoadCounter(t, u, o, a, opens) \/ FetchAdd(t, u, o, a, opens)

Next ==
  \/ \E t \in Threads : Draw(t) \/ StoreCounter(t) \/ Stamp(t)
  \/ \E o \in Owners : Close(o) \/ OpenRefused(o)
  \/ \E o, p \in Owners : Swap(o, p)
  \/ \E b \in Borrows, o \in Owners : Capture(b, o)
  \/ \E b \in Borrows : Untracked(b)
  \/ \E b, c \in Borrows : Inherit(b, c)

Spec == Init /\ [][Next]_vars

-----------------------------------------------------------------------------
BirthType == [tu : TUs, c : Counters, owner : Owners, addr : Nat]

PcType ==
  {Idle}
    \cup [at : {"loaded"}, owner : Owners, opens : BOOLEAN, birth : BirthType]
    \cup [at : {"drawn"}, owner : Owners, opens : BOOLEAN, inc : Counters]

TypeOK ==
  /\ counter \in [TUs -> 1 .. MaxDraws + 1]
  /\ lt \in [Owners -> [id : Ids, open : BOOLEAN, inc : 0 .. MaxDraws]]
  /\ borrow \in [Borrows -> [source : Owners \cup {None}, id : Ids, inc : 0 .. MaxDraws]]
  /\ pc \in [Threads -> PcType]
  /\ births \in Seq(BirthType) /\ Len(births) <= MaxDraws

(* A tracked borrow is stale when the storage it points to is no longer in *)
(* the incarnation that was borrowed, or was closed.                       *)
Stale(b) ==
  /\ borrow[b].source # None
  /\ \/ ~lt[borrow[b].source].open
     \/ lt[borrow[b].source].inc # borrow[b].inc

(* Captured from an owner that was opened: inc is 0 in an untracked borrow *)
(* and in one captured from a zero struct.                                 *)
Tracked(b) == borrow[b].inc # 0

(* Reading through a borrow aborts exactly when the borrow is tracked and  *)
(* stale: no stale one is let through, none that is still good is refused  *)
(* (lifetime_assert_valid, called by every borrowed_*_get).  One captured  *)
(* from a zero struct is never refused, whatever becomes of the owner.     *)
CheckIsExact == \A b \in Borrows : Validates(b) <=> ~(Tracked(b) /\ Stale(b))

(* Two consecutive incarnations of one owner carry different tokens        *)
(* (design-decisions.md, OWN-002: "uniqueness across consecutive restamps  *)
(* of the same container").                                                *)
RestampChangesToken ==
  [][\A o \in Owners, t \in Threads :
       (Stamp(t) /\ pc[t].owner = o /\ Initialised(o)) => lt'[o].id # lt[o].id]_vars

-----------------------------------------------------------------------------
(* The conditions under which the check is exact.                          *)

(* Owners between which a token can move: one owner, or two that can swap. *)
Family(o, p) == o = p \/ (TypeOf[o] = TypeOf[p] /\ TypeOf[o] \in SwapTypes)

(* The tokens of a family come from one counter. *)
OneCounter ==
  \A o, p \in Owners : Family(o, p) =>
    \A u \in StampTU[o], v \in StampTU[p] : u = v

(* Different counter values give different tokens over the addresses of a  *)
(* family.  For a single address it fails only when the counter reaches    *)
(* the address; for several it needs addresses that differ above the bits  *)
(* the counter uses.                                                       *)
TokensApart ==
  \A o, p \in Owners : Family(o, p) =>
    \A a \in StampAddr[o], b \in StampAddr[p], c, d \in Counters :
      Token(c, a) = Token(d, b) => c = d

(* The increments are atomic, or the callers serialise those that are not. *)
Ladder == PlainTUs = {} \/ Serialised
=============================================================================
