---------------------------- MODULE HashMapProofs ----------------------------
(***************************************************************************)
(* The table keeps the Robin Hood order and is a map, for every capacity a *)
(* table may have, every hash function and any keys and values.            *)
(*                                                                         *)
(* RobinHood compares a slot with the one before it.  What is carried from *)
(* step to step is said of a whole run: from the home of an entry to where *)
(* it lies all slots are taken, and by entries that are as far from their  *)
(* own homes as the slot is from the first one's.  A search that meets a   *)
(* richer entry or a gap has therefore passed where its key would be.      *)
(***************************************************************************)
EXTENDS HashMap, FiniteSetTheorems, TLAPS

(* The slot r steps from k's home. *)
Pos(k, r) == IF Home(k) + r < Cap THEN Home(k) + r ELSE Home(k) + r - Cap

(* The slot r steps before c. *)
Back(c, r) == IF c >= r THEN c - r ELSE c - r + Cap

SlotType == [key : Keys \cup {None}, val : Vals \cup {None}, psl : Index]
Run(k, n) == \A r \in 0 .. n - 1 : Occupied(Pos(k, r)) /\ slots[Pos(k, r)].psl >= r

(* k is not in the first n slots from its home. *)
Unseen(k, n) == \A r \in 0 .. n - 1 : slots[Pos(k, r)].key # k

TableTypes ==
  /\ given \in [cap : Caps, hash : [Keys -> HashValues]]
  /\ slots \in [Index -> SlotType]
  /\ \A j \in Index : Occupied(j) => slots[j].val \in Vals
  /\ len \in 0 .. Limit

PcTypes ==
  /\ pc.op \in {"idle", "called", "insert", "seek", "shift", "return"}
  /\ pc.op = "idle" => pc = Idle
  /\ pc.op = "return" => pc = Ret(pc.is, pc.val)

TypeOK == TableTypes /\ PcTypes

Lies == \A j \in Index : Occupied(j) =>
  j = Pos(slots[j].key, slots[j].psl) /\ Run(slots[j].key, slots[j].psl)

KeysApart == \A i, j \in Index \ Hole :
  Occupied(i) /\ slots[i].key = slots[j].key => i = j

Operations ==
  pc.op = "called" =>
    \/ pc.what = "insert" /\ pc.key \in Keys /\ pc.val \in Vals
    \/ pc.what \in Searches /\ pc.key \in Keys /\ pc.val = None
    \/ pc.what = "clear" /\ pc.key = None /\ pc.val = None

Inserts ==
  pc.op = "insert" =>
    /\ pc \in [op : {"insert"}, key : Keys, val : Vals, inc : [key : Keys, val : Vals, psl : Index],
               at : Index, i : Index, displaced : BOOLEAN]
    /\ pc.inc.psl <= pc.i
    /\ pc.at = Pos(pc.key, pc.i) /\ pc.at = Pos(pc.inc.key, pc.inc.psl)
    /\ \A r \in 0 .. pc.i - 1 : Occupied(Pos(pc.key, r))
    /\ Run(pc.inc.key, pc.inc.psl)
    /\ len < Limit
    /\ ~pc.displaced => pc.inc = Entry(pc.key, pc.val, pc.i) /\ Unseen(pc.key, pc.i)
    /\ pc.displaced => \A j \in Index : slots[j].key # pc.inc.key

Seeks ==
  pc.op = "seek" =>
    /\ pc \in [op : {"seek"}, what : Searches, key : Keys, at : Index, psl : 0 .. Cap]
    /\ pc.at = Pos(pc.key, pc.psl)
    /\ Unseen(pc.key, pc.psl)

Shifts ==
  pc.op = "shift" =>
    /\ pc \in [op : {"shift"}, curr : Index, i : Index, old : Vals]
    /\ \A r \in 0 .. pc.i : Occupied(Back(pc.curr, r))
    /\ pc.i > 0 =>
         /\ slots[pc.curr].psl > 0
         /\ slots[Back(pc.curr, 1)].psl = slots[pc.curr].psl - 1

(* The keys are where they were when the last call returned. *)
Still == pc.op \in {"idle", "called", "seek", "return"} \/ (pc.op = "insert" /\ ~pc.displaced)

Borrows ==
  /\ borrow \in [at : Nat, key : Keys \cup {None}, accepted : BOOLEAN]
  /\ borrow.accepted => borrow.at \in Index /\ (Still => slots[borrow.at].key = borrow.key)

(* The keys an iteration that has come to slot n has returned. *)
Passed(n) == {slots[j].key : j \in {i \in Index : i < n /\ Occupied(i)}}

IterType == [at : Nat, seen : SUBSET (Keys \cup {None}), again : BOOLEAN, on : BOOLEAN]

Iterates ==
  /\ iter \in IterType
  /\ iter.on /\ Still =>
       iter.at \in 0 .. Cap /\ iter.seen = Passed(iter.at) /\ ~iter.again

IInv ==
  /\ TypeOK /\ Lies /\ KeysApart /\ LenIsCount
  /\ Operations /\ Inserts /\ Seeks /\ Shifts /\ Borrows /\ Iterates

-----------------------------------------------------------------------------
(* Capacities, and the slots around a table. *)
LEMMA ModOnce ==
  \A c \in Nat \ {0} : \A h \in 0 .. c - 1 : \A z \in 0 .. c :
    (h + z) % c = IF h + z < c THEN h + z ELSE h + z - c
OBVIOUS

LEMMA ModInside == \A c \in Nat \ {0} : \A h \in Nat : h % c \in 0 .. c - 1
OBVIOUS

LEMMA CapFacts ==
  ASSUME TypeOK
  PROVE  /\ Cap \in Nat \ {0} /\ Cap >= 1 /\ Limit \in Nat /\ Limit <= Cap
         /\ Cap > 2 => Limit < Cap
         /\ given.cap \in Caps /\ given.hash \in [Keys -> HashValues]
         /\ len \in Nat /\ len <= Limit
<1>1. Cap \in Caps /\ given.hash \in [Keys -> HashValues] /\ len \in 0 .. Limit
  BY DEF TypeOK, TableTypes, Cap
<1>2. Cap \in Nat \ {0} /\ (Cap > 2 => Cap % 4 = 0)
  BY <1>1, HashMapAssumption
<1>3. Limit \in Nat /\ Limit <= Cap /\ (Cap > 2 => Limit < Cap)
  <2> HIDE DEF Cap
  <2>1. \A c \in Nat \ {0} : c - (c \div 4) \in Nat /\ c - (c \div 4) <= c
                             /\ (c > 2 /\ c % 4 = 0 => c - (c \div 4) < c)
    OBVIOUS
  <2>2. QED
    BY <1>2, <2>1 DEF Limit
<1>4. QED
  BY <1>1, <1>2, <1>3 DEF Cap

LEMMA HomeInside ==
  ASSUME TypeOK, NEW k \in Keys
  PROVE  Home(k) \in 0 .. Cap - 1 /\ Home(k) \in Index
<1>1. given.hash[k] \in Nat
  BY CapFacts, HashMapAssumption
<1>2. Normalized(given.hash[k]) \in Nat
  BY <1>1 DEF Normalized
<1>3. QED
  BY <1>2, CapFacts, ModInside DEF Home, Index

LEMMA WrapIs ==
  ASSUME TypeOK, NEW h \in Index, NEW z \in 0 .. Cap
  PROVE  Wrap(h + z) = IF h + z < Cap THEN h + z ELSE h + z - Cap
BY CapFacts, ModOnce DEF Wrap, Index

(* The slots from a home on go once around the table. *)
LEMMA PosFacts ==
  ASSUME TypeOK, NEW k \in Keys
  PROVE  /\ Pos(k, 0) = Home(k)
         /\ \A r \in 0 .. Cap : Pos(k, r) \in Index
         /\ \A r \in Index : Pos(k, r) = Wrap(Home(k) + r)
         /\ \A r \in Index : Wrap(Pos(k, r) + 1) = Pos(k, r + 1)
         /\ \A r, q \in Index : Pos(k, r) = Pos(k, q) => r = q
         /\ \A j \in Index : \E r \in Index : j = Pos(k, r)
<1>1. Home(k) \in 0 .. Cap - 1 /\ Home(k) \in Index /\ Cap \in Nat \ {0}
  BY HomeInside, CapFacts
<1>2. \A r \in 0 .. Cap : Pos(k, r) \in 0 .. Cap - 1
  <2> HIDE DEF Cap, Home
  <2>1. QED
    BY <1>1 DEF Pos
<1>3. \A r \in Index : Pos(k, r) = Wrap(Home(k) + r)
  BY <1>1, WrapIs DEF Pos, Index
<1>4. \A r \in Index : Wrap(Pos(k, r) + 1) = Pos(k, r + 1)
  <2> SUFFICES ASSUME NEW r \in Index PROVE Wrap(Pos(k, r) + 1) = Pos(k, r + 1)
    OBVIOUS
  <2>1. Pos(k, r) \in Index /\ r \in 0 .. Cap - 1
    BY <1>1, <1>2 DEF Index
  <2>2. Wrap(Pos(k, r) + 1) = IF Pos(k, r) + 1 < Cap THEN Pos(k, r) + 1 ELSE Pos(k, r) + 1 - Cap
    <3>1. 1 \in 0 .. Cap
      BY <1>1
    <3>2. QED
      BY <2>1, <3>1, WrapIs
  <2> HIDE DEF Cap, Home
  <2>3. QED
    BY <1>1, <2>1, <2>2 DEF Pos
<1>5. \A r, q \in Index : Pos(k, r) = Pos(k, q) => r = q
  <2> HIDE DEF Cap, Home
  <2>1. QED
    BY <1>1 DEF Pos, Index
<1>6. ASSUME NEW j \in Index
      PROVE  \E r \in Index : j = Pos(k, r)
  <2> DEFINE r == IF j >= Home(k) THEN j - Home(k) ELSE j - Home(k) + Cap
  <2> HIDE DEF Cap, Home
  <2>1. j \in 0 .. Cap - 1
    BY DEF Index
  <2>2. r \in 0 .. Cap - 1 /\ j = Pos(k, r)
    BY <1>1, <2>1 DEF Pos
  <2>3. QED
    BY <2>2 DEF Index
<1>7. Pos(k, 0) = Home(k)
  BY <1>1 DEF Pos
<1>8. QED
  BY <1>2, <1>3, <1>4, <1>5, <1>6, <1>7 DEF Index

(* The slots back from one likewise. *)
LEMMA BackFacts ==
  ASSUME TypeOK, NEW c \in Index
  PROVE  /\ Back(c, 0) = c
         /\ \A r \in Index : Back(c, r) \in Index
         /\ \A j \in Index : \E r \in Index : j = Back(c, r)
         /\ Wrap(c + 1) \in Index
         /\ Back(Wrap(c + 1), 0) = Wrap(c + 1)
         /\ \A r \in Index : r > 0 => Back(Wrap(c + 1), r) = Back(c, r - 1)
         /\ Wrap(c + 1) = c <=> Cap = 1
         /\ Back(c, Cap - 1) = Wrap(c + 1)
<1>1. c \in 0 .. Cap - 1 /\ Cap \in Nat \ {0} /\ 1 \in 0 .. Cap
  BY CapFacts DEF Index
<1>2. Wrap(c + 1) = IF c + 1 < Cap THEN c + 1 ELSE c + 1 - Cap
  BY <1>1, WrapIs
<1> HIDE DEF Cap
<1>3. Wrap(c + 1) \in 0 .. Cap - 1 /\ (Wrap(c + 1) = c <=> Cap = 1)
  BY <1>1, <1>2
<1>4. Back(c, 0) = c /\ Back(Wrap(c + 1), 0) = Wrap(c + 1)
  BY <1>1, <1>3 DEF Back
<1>5. \A r \in 0 .. Cap - 1 : Back(c, r) \in 0 .. Cap - 1
  BY <1>1 DEF Back
<1>6. \A r \in 0 .. Cap - 1 : r > 0 => Back(Wrap(c + 1), r) = Back(c, r - 1)
  BY <1>1, <1>2 DEF Back
<1>7. Back(c, Cap - 1) = Wrap(c + 1)
  BY <1>1, <1>2 DEF Back
<1>8. ASSUME NEW j \in 0 .. Cap - 1
      PROVE  \E r \in 0 .. Cap - 1 : j = Back(c, r)
  <2> DEFINE r == IF c >= j THEN c - j ELSE c - j + Cap
  <2>1. r \in 0 .. Cap - 1 /\ j = Back(c, r)
    BY <1>1 DEF Back
  <2>2. QED
    BY <2>1
<1>9. QED
  BY <1>3, <1>4, <1>5, <1>6, <1>7, <1>8 DEF Index

-----------------------------------------------------------------------------
(* Counting the entries. *)
Taken == {j \in Index : Occupied(j)}

LEMMA IndexFinite ==
  ASSUME TypeOK
  PROVE  /\ IsFiniteSet(Index) /\ Cardinality(Index) = Cap
         /\ IsFiniteSet(Taken) /\ Cardinality(Taken) \in Nat
<1>1. Cap \in Nat \ {0} /\ 0 \in Int /\ Cap - 1 \in Int
  BY CapFacts
<1>2. IsFiniteSet(Index) /\ Cardinality(Index) = IF 0 > Cap - 1 THEN 0 ELSE Cap - 1 - 0 + 1
  BY <1>1, FS_Interval DEF Index
<1>3. Taken \in SUBSET Index
  BY DEF Taken
<1>4. IsFiniteSet(Taken) /\ Cardinality(Taken) \in Nat
  BY <1>2, <1>3, FS_Subset, FS_CardinalityType
<1> HIDE DEF Cap
<1>5. Cardinality(Index) = Cap
  BY <1>1, <1>2
<1>6. QED
  BY <1>2, <1>4, <1>5

LEMMA Gap ==
  ASSUME TypeOK, LenIsCount, len < Cap
  PROVE  \E j \in Index : ~Occupied(j)
<1> SUFFICES ASSUME \A j \in Index : Occupied(j) PROVE FALSE
  OBVIOUS
<1>1. Taken = Index
  BY DEF Taken
<1>2. len = Cap
  BY <1>1, IndexFinite DEF LenIsCount, Taken
<1>3. QED
  BY <1>2, CapFacts

-----------------------------------------------------------------------------
(* Steps that leave the table alone. *)
LEMMA TableKept ==
  ASSUME given' = given, slots' = slots, len' = len
  PROVE  /\ Cap' = Cap /\ Index' = Index /\ Limit' = Limit
         /\ \A k, r : Pos(k, r)' = Pos(k, r)
         /\ \A j : Occupied(j)' <=> Occupied(j)
         /\ \A k, n : Run(k, n)' <=> Run(k, n)
         /\ \A k, n : Unseen(k, n)' <=> Unseen(k, n)
         /\ \A n : Passed(n)' = Passed(n)
         /\ TableTypes' <=> TableTypes
         /\ Lies' <=> Lies
         /\ LenIsCount' <=> LenIsCount
<1>1. Cap' = Cap /\ Index' = Index /\ Limit' = Limit
  BY DEF Cap, Index, Limit
<1>2. \A k, r : Pos(k, r)' = Pos(k, r)
  BY <1>1 DEF Pos, Home
<1>3. \A j : Occupied(j)' <=> Occupied(j)
  BY DEF Occupied
<1>4. /\ \A k, n : Run(k, n)' <=> Run(k, n)
      /\ \A k, n : Unseen(k, n)' <=> Unseen(k, n)
      /\ \A n : Passed(n)' = Passed(n)
  BY <1>1, <1>2, <1>3 DEF Run, Unseen, Passed
<1>5. TableTypes' <=> TableTypes
  BY <1>1, <1>3 DEF TableTypes, SlotType
<1>6. Lies' <=> Lies
  BY <1>1, <1>2, <1>3, <1>4 DEF Lies
<1>7. LenIsCount' <=> LenIsCount
  BY <1>1, <1>3 DEF LenIsCount
<1>8. QED
  BY <1>1, <1>2, <1>3, <1>4, <1>5, <1>6, <1>7

LEMMA Keeps ==
  ASSUME IInv, UNCHANGED <<given, slots, len>>,
         PcTypes', Operations', Inserts', Seeks', Shifts', Borrows', Iterates',
         Hole \subseteq Hole'
  PROVE  IInv'
<1>1. /\ TableTypes' /\ Lies' /\ LenIsCount'
      /\ Index' = Index /\ (\A j : Occupied(j)' <=> Occupied(j)) /\ slots' = slots
  BY TableKept DEF IInv, TypeOK
<1>2. KeysApart'
  BY <1>1 DEF IInv, KeysApart
<1>3. QED
  BY <1>1, <1>2 DEF IInv, TypeOK

LEMMA KeepsMarks ==
  ASSUME IInv, UNCHANGED <<given, slots, len, borrow, iter>>, Still' => Still
  PROVE  Borrows' /\ Iterates'
<1>1. Index' = Index /\ Cap' = Cap /\ (\A n : Passed(n)' = Passed(n))
  BY TableKept
<1>2. QED
  BY <1>1 DEF IInv, Borrows, Iterates

(* Calls and returns: no loop runs after them. *)
LEMMA NoLoop ==
  ASSUME pc'.op \in {"idle", "return"}
  PROVE  /\ Operations' /\ Inserts' /\ Seeks' /\ Shifts'
         /\ Still' /\ Hole' = {}
BY DEF Operations, Inserts, Seeks, Shifts, Still, Hole

LEMMA Returned ==
  ASSUME NEW is, NEW v, pc' = Ret(is, v)
  PROVE  /\ PcTypes' /\ pc'.op = "return" /\ pc'.is = is /\ pc'.val = v
BY DEF Ret, PcTypes

LEMMA InitIInv == Init => IInv
<1> SUFFICES ASSUME Init PROVE IInv
  OBVIOUS
<1>1. Cap \in Nat \ {0} /\ Limit \in Nat
  <2>1. Cap \in Nat \ {0}
    BY HashMapAssumption DEF Init, Cap
  <2> HIDE DEF Cap
  <2>2. QED
    BY <2>1 DEF Limit
<1>2. \A j \in Index : slots[j] = Vacant /\ ~Occupied(j)
  BY DEF Init, Vacant, Entry, Occupied
<1>3. Vacant \in SlotType
  BY <1>1 DEF Vacant, Entry, SlotType, Index
<1>4. TableTypes
  BY <1>1, <1>2, <1>3 DEF Init, TableTypes
<1>5. pc = Idle /\ pc.op = "idle"
  BY DEF Init, Idle
<1>6. TypeOK
  BY <1>4, <1>5 DEF TypeOK, PcTypes
<1>7. Lies /\ KeysApart
  BY <1>2 DEF Lies, KeysApart
<1>8. LenIsCount
  <2>1. {j \in Index : Occupied(j)} = {}
    BY <1>2
  <2>2. QED
    BY <2>1, FS_EmptySet DEF LenIsCount, Init
<1>9. Operations /\ Inserts /\ Seeks /\ Shifts
  BY <1>5 DEF Operations, Inserts, Seeks, Shifts
<1>10. Borrows /\ Iterates
  BY DEF Init, Borrows, Iterates, IterType, NoBorrow, NoIter
<1>11. QED
  BY <1>6, <1>7, <1>8, <1>9, <1>10 DEF IInv

LEMMA CallIInv ==
  ASSUME IInv, NEW c \in Abstract!Calls, Call(c[1], c[2], c[3])
  PROVE  IInv'
<1>1. /\ pc = Idle /\ UNCHANGED <<given, slots, len, borrow, iter>>
      /\ pc' = [op |-> "called", what |-> c[1], key |-> c[2], val |-> c[3]]
  BY DEF Call
<1>2. pc.op = "idle" /\ pc'.op = "called"
  BY <1>1 DEF Idle
<1>3. Still /\ Hole = {}
  BY <1>2 DEF Still, Hole
<1>4. \/ c[1] = "insert" /\ c[2] \in Keys /\ c[3] \in Vals
      \/ c[1] \in Searches /\ c[2] \in Keys /\ c[3] = None
      \/ c[1] = "clear" /\ c[2] = None /\ c[3] = None
  BY DEF Abstract!Calls, Abstract!Searches, Searches
<1>5. Operations'
  BY <1>1, <1>4 DEF Operations
<1>6. PcTypes' /\ Inserts' /\ Seeks' /\ Shifts'
  BY <1>2 DEF PcTypes, Inserts, Seeks, Shifts
<1>7. QED
  BY <1>1, <1>3, <1>5, <1>6, Keeps, KeepsMarks

LEMMA ReturnIInv ==
  ASSUME IInv, Return
  PROVE  IInv'
<1>1. pc.op = "return" /\ pc' = Idle /\ UNCHANGED <<given, slots, len, borrow, iter>>
  BY DEF Return
<1>2. pc'.op = "idle" /\ PcTypes'
  BY <1>1 DEF Idle, PcTypes
<1>3. Still /\ Hole = {}
  BY <1>1 DEF Still, Hole
<1>4. QED
  BY <1>1, <1>2, <1>3, Keeps, KeepsMarks, NoLoop

LEMMA InsertFullIInv ==
  ASSUME IInv, InsertFull
  PROVE  IInv'
<1>1. pc.op = "called" /\ pc' = Ret("full", None) /\ UNCHANGED <<given, slots, len, borrow, iter>>
  BY DEF InsertFull, Called
<1>2. Still /\ Hole = {}
  BY <1>1 DEF Still, Hole
<1>3. QED
  BY <1>1, <1>2, Keeps, KeepsMarks, NoLoop, Returned

LEMMA SeekAbsentIInv ==
  ASSUME IInv, SeekAbsent
  PROVE  IInv'
<1>1. pc.op = "seek" /\ pc' = Ret("none", None) /\ UNCHANGED <<given, slots, len, borrow, iter>>
  BY DEF SeekAbsent
<1>2. Still /\ Hole = {}
  BY <1>1 DEF Still, Hole
<1>3. QED
  BY <1>1, <1>2, Keeps, KeepsMarks, NoLoop, Returned

(* A step into or within a loop that leaves the keys where they are. *)
LEMMA InsertStartIInv ==
  ASSUME IInv, InsertStart
  PROVE  IInv'
<1> USE DEF IInv
<1> DEFINE k == pc.key
           e == Entry(pc.key, pc.val, 0)
<1>1. /\ pc.op = "called" /\ pc.what = "insert" /\ len < Limit
      /\ UNCHANGED <<given, slots, len, borrow, iter>>
      /\ pc' = [op |-> "insert", key |-> k, val |-> pc.val,
                inc |-> e, at |-> Home(k), i |-> 0, displaced |-> FALSE]
  BY DEF InsertStart, Called
<1>2. k \in Keys /\ pc.val \in Vals
  BY <1>1 DEF Operations, Searches
<1>3. pc'.op = "insert" /\ ~pc'.displaced /\ Still /\ Hole = {}
  BY <1>1 DEF Still, Hole
<1>4. /\ Home(k) = Pos(k, 0) /\ Home(k) \in Index /\ 0 \in Index /\ Cap \in Nat \ {0}
  BY <1>2, PosFacts, HomeInside, CapFacts DEF Index
<1>5. e.key = k /\ e.psl = 0 /\ e \in [key : Keys, val : Vals, psl : Index]
  BY <1>2, <1>4 DEF Entry
<1>6. Index' = Index /\ Limit' = Limit /\ \A q, r : Pos(q, r)' = Pos(q, r)
  BY <1>1, TableKept
<1> HIDE DEF e, k
<1>7. /\ pc'.key = k /\ pc'.val = pc.val /\ pc'.inc = e /\ pc'.at = Pos(k, 0) /\ pc'.i = 0
      /\ pc' \in [op : {"insert"}, key : Keys, val : Vals, inc : [key : Keys, val : Vals, psl : Index],
                  at : Index, i : Index, displaced : BOOLEAN]
  BY <1>1, <1>2, <1>4, <1>5
<1>8. Inserts'
  <2>1. Run(pc.inc.key, pc.inc.psl)' /\ Unseen(pc.key, pc.i)'
    BY <1>5, <1>7 DEF Run, Unseen
  <2>2. pc'.at = Pos(pc.key, pc.i)' /\ pc'.at = Pos(pc.inc.key, pc.inc.psl)'
    BY <1>5, <1>6, <1>7
  <2>3. pc'.inc = Entry(pc.key, pc.val, pc.i)'
    BY <1>7 DEF e, k, Entry
  <2>4. pc'.inc.psl <= pc'.i
    BY <1>5, <1>7
  <2>5. \A r \in 0 .. pc'.i - 1 : Occupied(Pos(pc.key, r))'
    BY <1>7
  <2>6. QED
    BY <1>1, <1>3, <1>6, <1>7, <2>1, <2>2, <2>3, <2>4, <2>5 DEF Inserts
<1>9. PcTypes' /\ Operations' /\ Seeks' /\ Shifts'
  BY <1>3 DEF PcTypes, Operations, Seeks, Shifts
<1>10. QED
  BY <1>1, <1>3, <1>8, <1>9, Keeps, KeepsMarks

LEMMA SeekStartIInv ==
  ASSUME IInv, SeekStart
  PROVE  IInv'
<1> USE DEF IInv
<1> DEFINE k == pc.key
<1>1. /\ pc.op = "called" /\ pc.what \in Searches
      /\ UNCHANGED <<given, slots, len, borrow, iter>>
      /\ pc' = [op |-> "seek", what |-> pc.what, key |-> k, at |-> Home(k), psl |-> 0]
  BY DEF SeekStart
<1>2. k \in Keys
  BY <1>1 DEF Operations, Searches
<1>3. pc'.op = "seek" /\ Still /\ Hole = {}
  BY <1>1 DEF Still, Hole
<1>4. Home(k) = Pos(k, 0) /\ Home(k) \in Index /\ 0 \in 0 .. Cap
  BY <1>2, PosFacts, HomeInside, CapFacts
<1>5. Index' = Index /\ Cap' = Cap /\ \A q, r : Pos(q, r)' = Pos(q, r)
  BY <1>1, TableKept
<1>6. Seeks'
  BY <1>1, <1>2, <1>4, <1>5 DEF Seeks, Unseen
<1>7. PcTypes' /\ Operations' /\ Inserts' /\ Shifts'
  BY <1>3 DEF PcTypes, Operations, Inserts, Shifts
<1>8. QED
  BY <1>1, <1>3, <1>6, <1>7, Keeps, KeepsMarks

LEMMA SeekOnIInv ==
  ASSUME IInv, SeekOn
  PROVE  IInv'
<1> USE DEF IInv
<1> DEFINE k == pc.key
           n == pc.psl
<1>1. /\ pc.op = "seek" /\ n < Cap /\ slots[pc.at].key # k
      /\ UNCHANGED <<given, slots, len, borrow, iter>>
      /\ pc' = [pc EXCEPT !.psl = n + 1, !.at = Wrap(pc.at + 1)]
  BY DEF SeekOn, Seeking, Seeks
<1>2. /\ pc \in [op : {"seek"}, what : Searches, key : Keys, at : Index, psl : 0 .. Cap]
      /\ pc.at = Pos(k, n) /\ Unseen(k, n)
  BY <1>1 DEF Seeks
<1>3. n \in Index /\ n + 1 \in 0 .. Cap /\ n \in Nat /\ Cap \in Nat
  BY <1>1, <1>2, CapFacts DEF Index
<1>4. Wrap(pc.at + 1) = Pos(k, n + 1) /\ Pos(k, n + 1) \in Index
  BY <1>2, <1>3, PosFacts
<1>5. Still /\ Hole = {}
  BY <1>1 DEF Still, Hole
<1>6. Unseen(k, n + 1)
  <2> SUFFICES ASSUME NEW r \in 0 .. n PROVE slots[Pos(k, r)].key # k
    BY <1>3 DEF Unseen
  <2>1. r = n \/ r \in 0 .. n - 1
    BY <1>3
  <2>2. QED
    BY <2>1, <1>1, <1>2 DEF Unseen
<1>7. /\ Index' = Index /\ Cap' = Cap /\ \A q, r : Pos(q, r)' = Pos(q, r)
      /\ \A q, r : Unseen(q, r)' <=> Unseen(q, r)
  BY <1>1, TableKept
<1>8. /\ pc'.op = "seek" /\ pc'.key = k /\ pc'.psl = n + 1 /\ pc'.at = Pos(k, n + 1)
      /\ pc' \in [op : {"seek"}, what : Searches, key : Keys, at : Index, psl : 0 .. Cap]
  <2> DEFINE p == n + 1
  <2>1. p \in 0 .. Cap /\ pc' = [pc EXCEPT !.psl = p, !.at = Pos(k, p)]
    BY <1>1, <1>3, <1>4
  <2> HIDE DEF p, n
  <2>2. /\ pc'.op = "seek" /\ pc'.key = k /\ pc'.psl = p /\ pc'.at = Pos(k, p)
        /\ pc' \in [op : {"seek"}, what : Searches, key : Keys, at : Index, psl : 0 .. Cap]
    BY <1>2, <1>4, <2>1 DEF p
  <2>3. QED
    BY <2>2 DEF p, n
<1> HIDE DEF n, k
<1>9. Seeks'
  BY <1>6, <1>7, <1>8 DEF Seeks
<1>10. PcTypes' /\ Operations' /\ Inserts' /\ Shifts'
  BY <1>8 DEF PcTypes, Operations, Inserts, Shifts
<1>11. QED
  BY <1>1, <1>5, <1>9, <1>10, Keeps, KeepsMarks

(* What a search has met. *)
LEMMA Met ==
  ASSUME IInv, pc.op = "seek", Meets(pc.key)
  PROVE  /\ pc \in [op : {"seek"}, what : Searches, key : Keys, at : Index, psl : 0 .. Cap]
         /\ Occupied(pc.at) /\ slots[pc.at].key = pc.key /\ slots[pc.at].val \in Vals
         /\ slots[pc.at] \in SlotType /\ Still /\ Hole = {}
BY DEF IInv, Seeks, Meets, TypeOK, TableTypes, Still, Hole

LEMMA SeekFoundIInv ==
  ASSUME IInv, SeekFound
  PROVE  IInv'
<1> USE DEF IInv
<1>1. /\ pc.op = "seek" /\ Meets(pc.key) /\ pc' = Ret("some", slots[pc.at].val)
      /\ UNCHANGED <<given, slots, len, iter>>
      /\ borrow' = IF pc.what = "get_or_null"
                   THEN [at |-> pc.at, key |-> pc.key, accepted |-> TRUE] ELSE borrow
  BY DEF SeekFound
<1>2. /\ pc.at \in Index /\ pc.key \in Keys /\ slots[pc.at].key = pc.key /\ Still /\ Hole = {}
  BY <1>1, Met
<1>3. /\ Index' = Index /\ Cap' = Cap /\ (\A n : Passed(n)' = Passed(n)) /\ Cap \in Nat
  BY <1>1, TableKept, CapFacts
<1>4. Borrows'
  <2>1. pc.at \in Nat
    BY <1>2, <1>3 DEF Index
  <2>2. CASE pc.what = "get_or_null"
    BY <2>1, <2>2, <1>1, <1>2, <1>3 DEF Borrows
  <2>3. CASE pc.what # "get_or_null"
    BY <2>3, <1>1, <1>2, <1>3 DEF Borrows
  <2>4. QED
    BY <2>2, <2>3
<1>5. Iterates'
  BY <1>1, <1>2, <1>3 DEF Iterates
<1>6. QED
  BY <1>1, <1>2, <1>4, <1>5, Keeps, NoLoop, Returned

LEMMA RemoveFoundIInv ==
  ASSUME IInv, RemoveFound
  PROVE  IInv'
<1> USE DEF IInv
<1>1. /\ pc.op = "seek" /\ Meets(pc.key)
      /\ UNCHANGED <<given, slots, len, borrow, iter>>
      /\ pc' = [op |-> "shift", curr |-> pc.at, i |-> 0, old |-> slots[pc.at].val]
  BY DEF RemoveFound
<1>2. /\ pc.at \in Index /\ Occupied(pc.at) /\ slots[pc.at].val \in Vals /\ Still /\ Hole = {}
  BY <1>1, Met
<1>3. pc'.op = "shift" /\ pc'.curr = pc.at /\ pc'.i = 0 /\ pc'.old = slots[pc.at].val
  BY <1>1
<1>4. Index' = Index /\ Cap' = Cap /\ (\A j : Occupied(j)' <=> Occupied(j))
  BY <1>1, TableKept
<1>5. Back(pc.at, 0) = pc.at /\ 0 \in Index
  <2>1. Back(pc.at, 0) = pc.at
    BY <1>2, BackFacts
  <2>2. Cap \in Nat \ {0}
    BY CapFacts
  <2> HIDE DEF Cap
  <2>3. 0 \in Index
    BY <2>2 DEF Index
  <2>4. QED
    BY <2>1, <2>3
<1>6. Back(pc.curr, 0)' = pc.at
  BY <1>3, <1>4, <1>5 DEF Back
<1>7. Shifts'
  <2>1. \A r \in 0 .. 0 : Occupied(Back(pc.curr, r))'
    BY <1>2, <1>4, <1>6
  <2>2. QED
    BY <2>1, <1>1, <1>2, <1>3, <1>4, <1>5 DEF Shifts
<1>8. PcTypes' /\ Operations' /\ Inserts' /\ Seeks'
  BY <1>3 DEF PcTypes, Operations, Inserts, Seeks
<1>9. QED
  BY <1>1, <1>2, <1>7, <1>8, Keeps, KeepsMarks

LEMMA IterStartIInv ==
  ASSUME IInv, IterStart
  PROVE  IInv'
<1> USE DEF IInv
<1>1. /\ pc' = pc /\ UNCHANGED <<given, slots, len>> /\ borrow' = borrow
      /\ iter' = [at |-> 0, seen |-> {}, again |-> FALSE, on |-> TRUE]
  BY DEF IterStart
<1>2. pc.op = "idle" /\ pc'.op = "idle"
  BY DEF IterStart, Idle
<1>3. Index' = Index /\ Cap' = Cap /\ Cap \in Nat /\ (\A n : Passed(n)' = Passed(n))
  BY <1>1, TableKept, CapFacts
<1>4. Iterates'
  <2>1. \A i \in Index : ~(i < 0)
    BY <1>3 DEF Index
  <2>2. iter'.at = 0 /\ iter'.seen = {} /\ Passed(0) = {} /\ ~iter'.again
    BY <1>1, <2>1 DEF Passed
  <2>3. 0 \in 0 .. Cap
    BY <1>3
  <2>4. iter' \in IterType
    BY <1>1 DEF IterType
  <2>5. QED
    BY <1>3, <2>2, <2>3, <2>4 DEF Iterates
<1>5. Borrows' /\ PcTypes' /\ Hole' = Hole
  BY <1>1, <1>3 DEF Borrows, Still, TypeOK, PcTypes, Hole
<1>6. QED
  BY <1>1, <1>2, <1>4, <1>5, Keeps, NoLoop

LEMMA IterNextIInv ==
  ASSUME IInv, IterNext
  PROVE  IInv'
<1> USE DEF IInv
<1> DEFINE ahead == {j \in Index : iter.at <= j /\ Occupied(j)}
<1>1. /\ pc' = pc /\ UNCHANGED <<given, slots, len>> /\ borrow' = borrow /\ iter.on
  BY DEF IterNext
<1>2. pc.op = "idle" /\ pc'.op = "idle" /\ Still
  BY DEF IterNext, Idle, Still
<1>3. Index' = Index /\ Cap' = Cap /\ Cap \in Nat /\ (\A n : Passed(n)' = Passed(n))
  BY <1>1, TableKept, CapFacts
<1>4. /\ iter.at \in 0 .. Cap /\ iter.seen = Passed(iter.at) /\ ~iter.again
      /\ iter \in IterType
  BY <1>1, <1>2 DEF Iterates
<1>5. Iterates'
  <2>1. CASE ahead = {}
    <3>1. iter' = [iter EXCEPT !.at = Cap]
      BY <2>1 DEF IterNext
    <3>2. Passed(Cap) = Passed(iter.at)
      <4>1. \A i \in Index : i < Cap /\ (Occupied(i) => i < iter.at)
        BY <1>3, <1>4, <2>1 DEF Index
      <4>2. QED
        BY <4>1 DEF Passed
    <3>3. /\ iter'.at = Cap /\ iter'.seen = iter.seen /\ ~iter'.again
          /\ iter' \in IterType
      BY <3>1, <1>3, <1>4 DEF IterType
    <3>4. Cap \in 0 .. Cap
      BY <1>3
    <3>5. QED
      BY <3>2, <3>3, <3>4, <1>3, <1>4 DEF Iterates
  <2>2. CASE ahead # {}
    <3>1. PICK j \in ahead : (\A i \in ahead : j <= i) /\ iter' = IterAfter(j)
      BY <2>2 DEF IterNext
    <3>2. j \in Index /\ iter.at <= j /\ Occupied(j) /\ j \in 0 .. Cap - 1
      BY DEF Index
    <3>3. slots[j].key \in Keys \cup {None}
      BY <3>2 DEF TypeOK, TableTypes, SlotType
    <3>4. Passed(j + 1) = Passed(iter.at) \cup {slots[j].key}
      <4>1. \A i \in Index : (i < j + 1 /\ Occupied(i)) <=> ((i < iter.at /\ Occupied(i)) \/ i = j)
        BY <1>3, <1>4, <3>1, <3>2 DEF Index
      <4>2. QED
        BY <3>2, <4>1 DEF Passed
    <3>5. j + 1 \in 0 .. Cap /\ j + 1 \in Nat
      BY <3>2, <1>3
    <3> DEFINE n == j + 1
               s == iter.seen \cup {slots[j].key}
               a == iter.again \/ slots[j].key \in iter.seen
    <3>6. /\ iter' = [iter EXCEPT !.at = n, !.seen = s, !.again = a]
          /\ n \in Nat /\ s \subseteq Keys \cup {None} /\ a \in BOOLEAN
      BY <3>1, <3>3, <3>5, <1>4 DEF IterAfter, IterType
    <3>7. ~a
      <4> SUFFICES ASSUME slots[j].key \in Passed(iter.at) PROVE FALSE
        BY <1>4 DEF a
      <4>1. PICK i \in Index : i < iter.at /\ Occupied(i) /\ slots[i].key = slots[j].key
        BY DEF Passed
      <4>2. i = j
        BY <4>1, <3>2, <1>2 DEF KeysApart, Occupied, Hole
      <4>3. QED
        BY <4>1, <4>2, <3>2, <1>4
    <3> HIDE DEF n, s, a
    <3>8. /\ iter'.at = n /\ iter'.seen = s /\ ~iter'.again
          /\ iter' \in IterType
      BY <3>6, <3>7, <1>4 DEF IterType
    <3>9. n \in 0 .. Cap /\ s = Passed(n)
      BY <3>4, <3>5, <1>4 DEF n, s
    <3>10. QED
      BY <3>8, <3>9, <1>3 DEF Iterates
  <2>3. QED
    BY <2>1, <2>2
<1>6. Borrows' /\ PcTypes' /\ Hole' = Hole
  BY <1>1, <1>3 DEF Borrows, Still, TypeOK, PcTypes, Hole
<1>7. QED
  BY <1>1, <1>2, <1>5, <1>6, Keeps, NoLoop

-----------------------------------------------------------------------------
(* Steps that change the table. *)
LEMMA SameTable ==
  ASSUME given' = given
  PROVE  Cap' = Cap /\ Index' = Index /\ Limit' = Limit /\ \A k, r : Pos(k, r)' = Pos(k, r)
BY DEF Cap, Index, Limit, Pos, Home

(* A run and Lies, of the next state's table, from a slot's contents. *)
RunThen(k, n) == \A r \in 0 .. n - 1 : slots'[Pos(k, r)].key # None /\ slots'[Pos(k, r)].psl >= r

LEMMA LiesThen ==
  ASSUME given' = given,
         \A j \in Index : \A k, n :
           slots'[j].key = k /\ slots'[j].psl = n /\ k # None => j = Pos(k, n) /\ RunThen(k, n)
  PROVE  Lies'
<1>1. Index' = Index /\ \A k, r : Pos(k, r)' = Pos(k, r)
  BY SameTable
<1>2. \A k, n : Run(k, n)' <=> RunThen(k, n)
  BY <1>1 DEF Run, RunThen, Occupied
<1>3. ASSUME NEW j \in Index, Occupied(j)'
      PROVE  (j = Pos(slots[j].key, slots[j].psl) /\ Run(slots[j].key, slots[j].psl))'
  <2> DEFINE k == slots'[j].key
             n == slots'[j].psl
  <2>1. k # None
    BY <1>3 DEF Occupied
  <2>2. j = Pos(k, n) /\ RunThen(k, n)
    BY <2>1
  <2>3. Run(slots[j].key, slots[j].psl)' <=> RunThen(k, n)
    BY <1>1 DEF Run, RunThen, Occupied
  <2>4. Pos(slots[j].key, slots[j].psl)' = Pos(k, n)
    BY <1>1 DEF Pos, Home, Cap
  <2>5. QED
    BY <2>2, <2>3, <2>4
<1>4. QED
  BY <1>1, <1>3 DEF Lies

(* Runs last where no slot is emptied and no probe length falls. *)
LEMMA LiesKept ==
  ASSUME TypeOK, Lies, given' = given, NEW c \in Index, NEW k \in Keys, NEW n \in Index,
         c = Pos(k, n), Run(k, n), slots'[c].key = k, slots'[c].psl = n,
         \A j \in Index \ {c} : slots'[j] = slots[j],
         Occupied(c) => n >= slots[c].psl
  PROVE  Lies'
<1>1. \A j \in Index : Occupied(j) => slots'[j].key # None /\ slots'[j].psl >= slots[j].psl
  BY HashMapAssumption, CapFacts DEF Occupied, TypeOK, TableTypes, SlotType, Index
<1>2. \A j \in Index : slots[j].psl \in Int /\ slots'[j].psl \in Int
  BY CapFacts DEF TypeOK, TableTypes, SlotType, Index
<1>3. ASSUME NEW q \in Keys, NEW m \in Index, Run(q, m)
      PROVE  RunThen(q, m)
  <2> SUFFICES ASSUME NEW r \in 0 .. m - 1
               PROVE  slots'[Pos(q, r)].key # None /\ slots'[Pos(q, r)].psl >= r
    BY DEF RunThen
  <2>1. r \in 0 .. Cap /\ r \in Int
    BY CapFacts DEF Index
  <2>2. Pos(q, r) \in Index /\ Occupied(Pos(q, r)) /\ slots[Pos(q, r)].psl >= r
    BY <1>3, <2>1, PosFacts DEF Run
  <2>3. QED
    BY <1>1, <1>2, <2>1, <2>2
<1>4. ASSUME NEW j \in Index, NEW q, NEW m, slots'[j].key = q, slots'[j].psl = m, q # None
      PROVE  j = Pos(q, m) /\ RunThen(q, m)
  <2>1. CASE j = c
    BY <1>3, <1>4, <2>1
  <2>2. CASE j # c
    <3>1. Occupied(j) /\ slots[j].key = q /\ slots[j].psl = m /\ q \in Keys /\ m \in Index
      BY <1>4, <2>2 DEF Occupied, TypeOK, TableTypes, SlotType
    <3>2. QED
      BY <1>3, <3>1 DEF Lies
  <2>3. QED
    BY <2>1, <2>2
<1>5. QED
  BY <1>4, LiesThen

LEMMA Ended ==
  ASSUME IInv, Restamp, iter' = NoIter
  PROVE  Borrows' /\ Iterates'
<1>1. /\ borrow' \in [at : Nat, key : Keys \cup {None}, accepted : BOOLEAN] /\ ~borrow'.accepted
  BY DEF IInv, Borrows, Restamp
<1>2. Borrows'
  BY <1>1 DEF Borrows
<1>3. Iterates'
  BY DEF Iterates, IterType, NoIter
<1>4. QED
  BY <1>2, <1>3

(* A search that has come to a gap or to a richer entry. *)
LEMMA Absent ==
  ASSUME TypeOK, Lies, NEW k \in Keys, NEW n \in 0 .. Cap, Unseen(k, n),
         n = Cap \/ ~Occupied(Pos(k, n)) \/ slots[Pos(k, n)].psl < n
  PROVE  \A j \in Index : slots[j].key # k
<1> SUFFICES ASSUME NEW j \in Index, slots[j].key = k PROVE FALSE
  OBVIOUS
<1> DEFINE q == slots[j].psl
<1>1. Occupied(j) /\ q \in Index /\ q \in 0 .. Cap - 1 /\ Cap \in Nat
  BY HashMapAssumption, CapFacts DEF Occupied, TypeOK, TableTypes, SlotType, Index
<1>2. j = Pos(k, q) /\ Run(k, q)
  BY <1>1 DEF Lies
<1> HIDE DEF Cap
<1>3. CASE q < n
  <2>1. q \in 0 .. n - 1
    BY <1>1, <1>3
  <2>2. QED
    BY <2>1, <1>2 DEF Unseen
<1>4. CASE q = n
  <2>1. n # Cap /\ Pos(k, n) = j /\ slots[j].psl = n /\ n \in Nat
    BY <1>1, <1>2, <1>4
  <2>2. QED
    BY <2>1, <1>1
<1>5. CASE q > n
  <2>1. n \in 0 .. q - 1 /\ n # Cap
    BY <1>1, <1>5
  <2>2. Occupied(Pos(k, n)) /\ slots[Pos(k, n)].psl >= n /\ Pos(k, n) \in Index
    BY <2>1, <1>2, PosFacts DEF Run
  <2>3. slots[Pos(k, n)].psl \in Int
    BY <2>2, <1>1 DEF TypeOK, TableTypes, SlotType, Index
  <2>4. QED
    BY <2>1, <2>2, <2>3
<1>6. QED
  BY <1>1, <1>3, <1>4, <1>5

(* The entry in flight, and the slot it is at. *)
LEMMA AtInsert ==
  ASSUME IInv, pc.op = "insert"
  PROVE  /\ pc.inc \in [key : Keys, val : Vals, psl : Index] /\ pc.key \in Keys
         /\ pc.inc \in SlotType /\ pc.inc.key # None
         /\ pc.at \in Index /\ pc.i \in Index /\ pc.i \in Nat /\ pc.inc.psl \in Nat
         /\ Hole = {}
         /\ ~Occupied(pc.at) \/ slots[pc.at].psl < pc.inc.psl
              => \A j \in Index : slots[j].key # pc.inc.key
<1> USE DEF IInv
<1>1. /\ pc.inc \in [key : Keys, val : Vals, psl : Index] /\ pc.key \in Keys
      /\ pc.at \in Index /\ pc.i \in Index
      /\ pc.at = Pos(pc.key, pc.i)
      /\ ~pc.displaced => pc.inc = Entry(pc.key, pc.val, pc.i) /\ Unseen(pc.key, pc.i)
      /\ pc.displaced => \A j \in Index : slots[j].key # pc.inc.key
      /\ pc.displaced \in BOOLEAN
  BY DEF Inserts
<1>2. pc.i \in Nat /\ pc.inc.psl \in Nat /\ pc.i \in 0 .. Cap
  BY <1>1, CapFacts DEF Index
<1>3. pc.inc \in SlotType /\ pc.inc.key # None
  BY <1>1, HashMapAssumption DEF SlotType
<1>4. Hole = {}
  BY DEF Hole
<1>5. ASSUME ~Occupied(pc.at) \/ slots[pc.at].psl < pc.inc.psl
      PROVE  \A j \in Index : slots[j].key # pc.inc.key
  <2>1. CASE ~pc.displaced
    <3>1. pc.inc.key = pc.key /\ pc.inc.psl = pc.i /\ Unseen(pc.key, pc.i)
      BY <2>1, <1>1 DEF Entry
    <3>2. QED
      BY <3>1, <1>1, <1>2, <1>5, Absent
  <2>2. QED
    BY <2>1, <1>1
<1>6. QED
  BY <1>1, <1>2, <1>3, <1>4, <1>5

LEMMA ClearIInv ==
  ASSUME IInv, Clear
  PROVE  IInv'
<1>1. /\ given' = given /\ slots' = [j \in Index |-> Vacant] /\ len' = 0
      /\ Restamp /\ iter' = NoIter /\ pc' = Ret("cleared", None)
  BY DEF Clear
<1>2. Index' = Index /\ Limit' = Limit
  BY <1>1, SameTable
<1>3. Cap \in Nat \ {0} /\ Limit \in Nat
  BY CapFacts DEF IInv
<1>4. \A j \in Index : slots'[j] = Vacant /\ ~Occupied(j)'
  BY <1>1 DEF Vacant, Entry, Occupied
<1>5. TableTypes'
  <2>1. 0 \in Index
    <3> HIDE DEF Cap
    <3>1. QED
      BY <1>3 DEF Index
  <2>2. Vacant \in SlotType'
    BY <1>2, <2>1 DEF Vacant, Entry, SlotType
  <2>3. QED
    BY <1>1, <1>2, <1>3, <1>4, <2>2 DEF TableTypes, IInv, TypeOK
<1>6. Lies' /\ KeysApart'
  BY <1>2, <1>4 DEF Lies, KeysApart
<1>7. LenIsCount'
  <2>1. {j \in Index : Occupied(j)}' = {}
    BY <1>2, <1>4
  <2>2. QED
    BY <2>1, <1>1, FS_EmptySet DEF LenIsCount
<1>8. QED
  BY <1>1, <1>5, <1>6, <1>7, Ended, Returned, NoLoop DEF IInv, TypeOK

LEMMA InsertPlaceIInv ==
  ASSUME IInv, InsertPlace
  PROVE  IInv'
<1> USE DEF IInv
<1> DEFINE c == pc.at
           e == pc.inc
<1>1. /\ pc.op = "insert" /\ ~Occupied(c)
      /\ given' = given /\ slots' = [slots EXCEPT ![c] = e] /\ len' = len + 1
      /\ Restamp /\ iter' = NoIter /\ pc' = Ret("new", None)
  BY DEF InsertPlace, Inserting
<1>2. /\ e \in SlotType /\ e.key # None /\ e.key \in Keys /\ e.val \in Vals /\ e.psl \in Index
      /\ c \in Index /\ Hole = {} /\ \A j \in Index : slots[j].key # e.key
  BY <1>1, AtInsert
<1>3. c = Pos(e.key, e.psl) /\ Run(e.key, e.psl) /\ len < Limit
  BY <1>1 DEF Inserts
<1>4. Cap' = Cap /\ Index' = Index /\ Limit' = Limit /\ \A k, r : Pos(k, r)' = Pos(k, r)
  BY <1>1, SameTable
<1>5. /\ slots \in [Index -> SlotType] /\ slots' \in [Index -> SlotType] /\ slots'[c] = e
      /\ \A j \in Index \ {c} : slots'[j] = slots[j]
  BY <1>1, <1>2 DEF TypeOK, TableTypes
<1> HIDE DEF c, e
<1>6. \A j \in Index : Occupied(j)' <=> Occupied(j) \/ j = c
  BY <1>2, <1>5 DEF Occupied
<1>7. TableTypes'
  <2>1. len' \in 0 .. Limit
    BY <1>1, <1>3, CapFacts
  <2>2. SlotType' = SlotType
    BY <1>4 DEF SlotType
  <2>3. \A j \in Index : Occupied(j)' => slots'[j].val \in Vals
    BY <1>2, <1>5, <1>6 DEF TypeOK, TableTypes
  <2>4. QED
    BY <1>1, <1>4, <1>5, <2>1, <2>2, <2>3 DEF TypeOK, TableTypes
<1>8. Lies'
  <2>1. slots'[c].key = e.key /\ slots'[c].psl = e.psl /\ ~Occupied(c)
    BY <1>1, <1>5 DEF c
  <2>2. QED
    BY <2>1, <1>1, <1>2, <1>3, <1>5, LiesKept
<1>9. KeysApart'
  <2>1. Hole' = {}
    BY <1>1, Returned, NoLoop
  <2>2. ASSUME NEW i \in Index, NEW j \in Index, Occupied(i)', slots'[i].key = slots'[j].key
        PROVE  i = j
    <3>1. CASE i = c \/ j = c
      BY <2>2, <3>1, <1>2, <1>5
    <3>2. CASE i # c /\ j # c
      BY <2>2, <3>2, <1>2, <1>5, <1>6 DEF KeysApart
    <3>3. QED
      BY <3>1, <3>2
  <2>3. QED
    BY <1>4, <2>1, <2>2 DEF KeysApart
<1>10. LenIsCount'
  <2>1. Taken' = Taken \cup {c} /\ c \notin Taken
    BY <1>1, <1>2, <1>4, <1>6 DEF Taken, c
  <2>2. IsFiniteSet(Taken) /\ Cardinality(Taken) = len
    BY IndexFinite DEF LenIsCount, Taken
  <2>3. Cardinality(Taken \cup {c}) = len + 1
    BY <2>1, <2>2, FS_AddElement
  <2>4. QED
    BY <1>1, <2>1, <2>3 DEF LenIsCount, Taken
<1>11. QED
  BY <1>1, <1>7, <1>8, <1>9, <1>10, Ended, Returned, NoLoop DEF TypeOK

LEMMA InsertUpdateIInv ==
  ASSUME IInv, InsertUpdate
  PROVE  IInv'
<1> USE DEF IInv
<1> DEFINE c == pc.at
           v == pc.inc.val
<1>1. /\ pc.op = "insert"
      /\ UNCHANGED <<given, len>> /\ slots' = [slots EXCEPT ![c].val = v]
      /\ Restamp /\ iter' = NoIter /\ pc' = Ret("updated", None)
  BY DEF InsertUpdate, Inserting
<1>2. v \in Vals /\ c \in Index /\ Hole = {}
  BY <1>1, AtInsert
<1>3. Cap' = Cap /\ Index' = Index /\ Limit' = Limit /\ \A k, r : Pos(k, r)' = Pos(k, r)
  BY <1>1, SameTable
<1>4. /\ slots' \in [Index -> SlotType] /\ slots'[c].val = v
      /\ \A j \in Index : slots'[j].key = slots[j].key /\ slots'[j].psl = slots[j].psl
      /\ \A j \in Index \ {c} : slots'[j] = slots[j]
  <2>1. slots[c] \in SlotType
    BY <1>2 DEF TypeOK, TableTypes
  <2> HIDE DEF v
  <2>2. /\ [slots[c] EXCEPT !.val = v] \in SlotType /\ [slots[c] EXCEPT !.val = v].val = v
        /\ [slots[c] EXCEPT !.val = v].key = slots[c].key
        /\ [slots[c] EXCEPT !.val = v].psl = slots[c].psl
    BY <1>2, <2>1 DEF SlotType
  <2>3. slots' = [slots EXCEPT ![c] = [slots[c] EXCEPT !.val = v]]
    BY <1>1
  <2>4. QED
    BY <1>2, <2>2, <2>3 DEF TypeOK, TableTypes
<1> HIDE DEF c, v
<1>5. \A j \in Index : Occupied(j)' <=> Occupied(j)
  BY <1>4 DEF Occupied
<1>6. TableTypes'
  <2>1. SlotType' = SlotType
    BY <1>3 DEF SlotType
  <2>2. \A j \in Index : Occupied(j)' => slots'[j].val \in Vals
    BY <1>2, <1>4, <1>5 DEF TypeOK, TableTypes
  <2>3. QED
    BY <1>1, <1>3, <1>4, <2>1, <2>2 DEF TypeOK, TableTypes
<1>7. Lies'
  <2> DEFINE k == slots[c].key
             n == slots[c].psl
  <2>1. Occupied(c) /\ k \in Keys /\ n \in Index /\ n \in Nat
    BY <1>2, CapFacts DEF InsertUpdate, c, Occupied, TypeOK, TableTypes, SlotType, Index
  <2>2. c = Pos(k, n) /\ Run(k, n) /\ slots'[c].key = k /\ slots'[c].psl = n
    BY <1>2, <1>4, <2>1 DEF Lies
  <2>3. n >= slots[c].psl
    BY <2>1
  <2> HIDE DEF k, n
  <2>4. QED
    BY <2>1, <2>2, <2>3, <1>1, <1>2, <1>4, LiesKept
<1>8. KeysApart'
  <2>1. Hole' = {}
    BY <1>1, Returned, NoLoop
  <2>2. QED
    BY <1>2, <1>3, <1>4, <1>5, <2>1 DEF KeysApart
<1>9. LenIsCount'
  <2>1. Taken' = Taken
    BY <1>3, <1>5 DEF Taken
  <2>2. QED
    BY <1>1, <2>1 DEF LenIsCount, Taken
<1>10. QED
  BY <1>1, <1>6, <1>7, <1>8, <1>9, Ended, Returned, NoLoop DEF TypeOK

(* An insert that has come to the last slot finds it vacant: the table is  *)
(* not full.                                                               *)
LEMMA HasRoom ==
  ASSUME IInv, pc.op = "insert", Occupied(pc.at)
  PROVE  pc.i + 1 \in Index /\ pc.i + 1 < Cap
<1> USE DEF IInv
<1>1. /\ pc.at = Pos(pc.key, pc.i) /\ pc.key \in Keys /\ pc.i \in Index /\ len < Limit
      /\ \A r \in 0 .. pc.i - 1 : Occupied(Pos(pc.key, r))
  BY DEF Inserts
<1>2. Cap \in Nat \ {0} /\ pc.i \in 0 .. Cap - 1 /\ len < Cap
  BY <1>1, CapFacts DEF Index
<1> HIDE DEF Cap
<1>3. ASSUME pc.i = Cap - 1
      PROVE  FALSE
  <2>1. \A r \in Index : r = pc.i \/ r \in 0 .. pc.i - 1
    BY <1>2, <1>3 DEF Index
  <2>2. \A r \in Index : Occupied(Pos(pc.key, r))
    BY <1>1, <2>1
  <2>3. \A j \in Index : Occupied(j)
    BY <2>2, <1>1, PosFacts
  <2>4. QED
    BY <2>3, <1>2, Gap
<1>4. pc.i + 1 < Cap
  BY <1>2, <1>3
<1>5. QED
  BY <1>2, <1>4 DEF Index

(* The entry at hand is the poorer, and is carried one slot on. *)
LEMMA ProbeOnIInv ==
  ASSUME IInv, InsertProbe, slots[pc.at].psl >= pc.inc.psl
  PROVE  IInv'
<1> USE DEF IInv
<1> DEFINE k == pc.key
           q == pc.inc.key
           p == pc.inc.psl + 1
           n == pc.i + 1
<1>1. /\ pc.op = "insert" /\ Occupied(pc.at) /\ slots[pc.at].key # q
      /\ pc.inc \in [key : Keys, val : Vals, psl : Index] /\ pc.key \in Keys
      /\ pc \in [op : {"insert"}, key : Keys, val : Vals, inc : [key : Keys, val : Vals, psl : Index],
                 at : Index, i : Index, displaced : BOOLEAN]
      /\ pc.at \in Index /\ pc.i \in Index /\ pc.i \in Nat /\ pc.inc.psl \in Nat
      /\ slots[pc.at].psl \in Int
  <2>1. /\ pc.op = "insert" /\ Occupied(pc.at) /\ slots[pc.at].key # q
    BY DEF InsertProbe, Inserting
  <2>2. /\ pc.inc \in [key : Keys, val : Vals, psl : Index] /\ pc.key \in Keys
        /\ pc.at \in Index /\ pc.i \in Index /\ pc.i \in Nat /\ pc.inc.psl \in Nat
    BY <2>1, AtInsert
  <2>3. slots[pc.at].psl \in Int
    BY <2>2, CapFacts DEF TypeOK, TableTypes, SlotType, Index
  <2>4. QED
    BY <2>1, <2>2, <2>3 DEF Inserts
<1>2. /\ UNCHANGED <<given, slots, len, borrow, iter>>
      /\ pc' = [pc EXCEPT !.inc.psl = p, !.at = Wrap(pc.at + 1), !.i = n]
  BY <1>1 DEF InsertProbe
<1>3. n \in Index /\ n \in Nat /\ n < Cap /\ Cap \in Nat \ {0}
  BY <1>1, HasRoom, CapFacts
<1>4. /\ pc.inc.psl <= pc.i /\ pc.at = Pos(k, pc.i) /\ pc.at = Pos(q, pc.inc.psl)
      /\ \A r \in 0 .. pc.i - 1 : Occupied(Pos(k, r))
      /\ Run(q, pc.inc.psl) /\ len < Limit
      /\ ~pc.displaced => pc.inc = Entry(k, pc.val, pc.i) /\ Unseen(k, pc.i)
      /\ pc.displaced => \A j \in Index : slots[j].key # q
  BY <1>1 DEF Inserts
<1>5. p \in Nat /\ p <= n /\ p \in Index /\ p - 1 = pc.inc.psl
  <2>1. p \in Nat /\ p <= n /\ p - 1 = pc.inc.psl
    BY <1>1, <1>3, <1>4
  <2> HIDE DEF Cap, p, n
  <2>2. p \in Index
    BY <2>1, <1>3 DEF Index
  <2>3. QED
    BY <2>1, <2>2
<1>6. Wrap(pc.at + 1) = Pos(k, n) /\ Wrap(pc.at + 1) = Pos(q, p) /\ Pos(k, n) \in Index
  <2>1. q \in Keys /\ pc.inc.psl \in Index
    BY <1>1
  <2>2. n \in 0 .. Cap
    BY <1>3
  <2>3. Wrap(Pos(k, pc.i) + 1) = Pos(k, n) /\ Pos(k, n) \in Index
    BY <1>1, <2>2, PosFacts
  <2>4. Wrap(Pos(q, pc.inc.psl) + 1) = Pos(q, p)
    BY <2>1, PosFacts
  <2> HIDE DEF k, q, p, n
  <2>5. QED
    BY <1>4, <2>3, <2>4
<1>7. (\A r \in 0 .. n - 1 : Occupied(Pos(k, r))) /\ Run(q, p)
  <2>1. ASSUME NEW r \in 0 .. n - 1 PROVE Occupied(Pos(k, r))
    <3>1. r = pc.i \/ r \in 0 .. pc.i - 1
      BY <1>1
    <3>2. QED
      BY <3>1, <1>1, <1>4
  <2>2. ASSUME NEW r \in 0 .. p - 1 PROVE Occupied(Pos(q, r)) /\ slots[Pos(q, r)].psl >= r
    <3>1. r = pc.inc.psl \/ r \in 0 .. pc.inc.psl - 1
      BY <1>1
    <3>2. QED
      BY <3>1, <1>1, <1>4 DEF Run
  <2>3. QED
    BY <2>1, <2>2 DEF Run
<1>8. ~pc.displaced => Unseen(k, n) /\ q = k /\ p = n
  <2> SUFFICES ASSUME ~pc.displaced PROVE Unseen(k, n) /\ q = k /\ p = n
    OBVIOUS
  <2>1. q = k /\ p = n /\ Unseen(k, pc.i)
    BY <1>4 DEF Entry
  <2>2. ASSUME NEW r \in 0 .. n - 1 PROVE slots[Pos(k, r)].key # k
    <3>1. r = pc.i \/ r \in 0 .. pc.i - 1
      BY <1>1
    <3>2. QED
      BY <3>1, <2>1, <1>1, <1>4 DEF Unseen
  <2>3. QED
    BY <2>1, <2>2 DEF Unseen
<1> DEFINE a == Wrap(pc.at + 1)
<1>9. a \in Index
  BY <1>6
<1> HIDE DEF a, p, n, k, q
<1>10. /\ pc'.inc.psl = p /\ pc'.inc.key = pc.inc.key /\ pc'.inc.val = pc.inc.val
       /\ pc'.at = a /\ pc'.i = n /\ pc'.key = pc.key /\ pc'.val = pc.val
       /\ pc'.displaced = pc.displaced /\ pc'.op = "insert"
       /\ pc'.inc \in [key : Keys, val : Vals, psl : Index]
       /\ pc' \in [op : {"insert"}, key : Keys, val : Vals, inc : [key : Keys, val : Vals, psl : Index],
                   at : Index, i : Index, displaced : BOOLEAN]
  BY <1>1, <1>2, <1>3, <1>5, <1>9 DEF a
<1>11. /\ Cap' = Cap /\ Index' = Index /\ Limit' = Limit /\ Hole' = {} /\ Hole = {} /\ Still' = Still
       /\ \A x, r : Pos(x, r)' = Pos(x, r)
       /\ \A j : Occupied(j)' <=> Occupied(j)
       /\ \A x, r : Run(x, r)' <=> Run(x, r)
       /\ \A x, r : Unseen(x, r)' <=> Unseen(x, r)
  <2>1. Hole' = {} /\ Hole = {} /\ Still' = Still
    BY <1>1, <1>10 DEF Hole, Still
  <2>2. QED
    BY <2>1, <1>2, TableKept
<1>12. Inserts'
  <2>1. pc'.inc.psl <= pc'.i /\ pc'.at = Pos(pc.key, pc.i)' /\ pc'.at = Pos(pc.inc.key, pc.inc.psl)'
    BY <1>5, <1>6, <1>10, <1>11 DEF a, k, q
  <2>2. \A r \in 0 .. pc'.i - 1 : Occupied(Pos(pc.key, r))'
    BY <1>7, <1>10, <1>11 DEF k
  <2>3. Run(pc.inc.key, pc.inc.psl)' /\ len' < Limit'
    BY <1>2, <1>4, <1>7, <1>10, <1>11 DEF q
  <2>4. ASSUME ~pc'.displaced
        PROVE  pc'.inc = Entry(pc.key, pc.val, pc.i)' /\ Unseen(pc.key, pc.i)'
    <3>1. Unseen(pc.key, pc.i)'
      BY <2>4, <1>8, <1>10, <1>11 DEF k
    <3>2. pc'.inc.key = pc'.key /\ pc'.inc.val = pc'.val /\ pc'.inc.psl = pc'.i
      BY <2>4, <1>4, <1>8, <1>10 DEF k, q, Entry
    <3>3. QED
      BY <3>1, <3>2, <1>10 DEF Entry
  <2>5. pc'.displaced => \A j \in Index' : slots'[j].key # pc'.inc.key
    BY <1>2, <1>4, <1>10, <1>11 DEF q
  <2>6. QED
    BY <1>10, <1>11, <2>1, <2>2, <2>3, <2>4, <2>5 DEF Inserts
<1>13. PcTypes' /\ Operations' /\ Seeks' /\ Shifts'
  BY <1>10 DEF PcTypes, Operations, Seeks, Shifts
<1>14. QED
  BY <1>2, <1>11, <1>12, <1>13, Keeps, KeepsMarks

(* The entry at hand takes the slot of a richer one, which is carried on.  *)
LEMMA ProbeSwapIInv ==
  ASSUME IInv, InsertProbe, slots[pc.at].psl < pc.inc.psl
  PROVE  IInv'
<1> USE DEF IInv
<1> DEFINE k == pc.key
           c == pc.at
           e == pc.inc
           o == slots[c]
           p == o.psl + 1
           n == pc.i + 1
           a == Wrap(c + 1)
           new == [o EXCEPT !.psl = p]
<1>1. /\ pc.op = "insert" /\ Occupied(c) /\ o.key # e.key
      /\ UNCHANGED <<given, len, borrow, iter>>
      /\ slots' = [slots EXCEPT ![c] = e]
      /\ pc' = [pc EXCEPT !.inc = new, !.at = a, !.i = n, !.displaced = TRUE]
  BY DEF InsertProbe, Inserting
<1>2. /\ e \in [key : Keys, val : Vals, psl : Index] /\ k \in Keys /\ e \in SlotType /\ e.key # None
      /\ pc \in [op : {"insert"}, key : Keys, val : Vals, inc : [key : Keys, val : Vals, psl : Index],
                 at : Index, i : Index, displaced : BOOLEAN]
      /\ c \in Index /\ pc.i \in Index /\ pc.i \in Nat /\ e.psl \in Nat /\ Hole = {}
      /\ \A j \in Index : slots[j].key # e.key
  BY <1>1, AtInsert DEF Inserts
<1>3. n \in Index /\ n \in Nat /\ n < Cap /\ Cap \in Nat \ {0}
  <2>1. n \in Index /\ n < Cap
    BY <1>1, HasRoom
  <2>2. QED
    BY <1>2, <2>1, CapFacts
<1>4. /\ e.psl <= pc.i /\ c = Pos(k, pc.i) /\ c = Pos(e.key, e.psl)
      /\ \A r \in 0 .. pc.i - 1 : Occupied(Pos(k, r))
      /\ Run(e.key, e.psl) /\ len < Limit
  BY <1>1 DEF Inserts
<1>5. /\ o.key \in Keys /\ o.val \in Vals /\ o.psl \in Index /\ o.psl \in Nat /\ o \in SlotType
      /\ c = Pos(o.key, o.psl) /\ Run(o.key, o.psl)
  BY <1>1, <1>2, CapFacts DEF TypeOK, TableTypes, SlotType, Occupied, Lies, Index
<1>6. p \in Nat /\ p <= n /\ p \in Index
  <2>1. p \in Nat /\ p <= n
    BY <1>2, <1>3, <1>4, <1>5
  <2> HIDE DEF Cap, p, n
  <2>2. p \in Index
    BY <2>1, <1>3 DEF Index
  <2>3. QED
    BY <2>1, <2>2
<1>7. a = Pos(k, n) /\ a = Pos(o.key, p) /\ a \in Index
  <2>1. n \in 0 .. Cap
    BY <1>3
  <2>2. Wrap(Pos(k, pc.i) + 1) = Pos(k, n) /\ Pos(k, n) \in Index
    BY <1>2, <2>1, PosFacts
  <2>3. Wrap(Pos(o.key, o.psl) + 1) = Pos(o.key, p)
    BY <1>5, PosFacts
  <2> HIDE DEF k, p, n, o, c
  <2>4. QED
    BY <1>4, <1>5, <2>2, <2>3
<1>8. /\ slots' \in [Index -> SlotType] /\ slots'[c] = e
      /\ \A j \in Index \ {c} : slots'[j] = slots[j]
  BY <1>1, <1>2 DEF TypeOK, TableTypes
<1>9. /\ Cap' = Cap /\ Index' = Index /\ Limit' = Limit
      /\ \A x, r : Pos(x, r)' = Pos(x, r)
  BY <1>1, SameTable
<1>10. new \in [key : Keys, val : Vals, psl : Index] /\ new.key = o.key /\ new.psl = p
  <2> HIDE DEF o, p
  <2>1. QED
    BY <1>5, <1>6 DEF SlotType
<1> HIDE DEF k, c, e, o, p, n, a, new
<1>11. \A j \in Index : Occupied(j)' <=> Occupied(j)
  BY <1>1, <1>2, <1>8 DEF Occupied
<1>12. /\ pc'.inc = new /\ pc'.at = a /\ pc'.i = n /\ pc'.key = k /\ pc'.displaced /\ pc'.op = "insert"
       /\ pc' \in [op : {"insert"}, key : Keys, val : Vals, inc : [key : Keys, val : Vals, psl : Index],
                   at : Index, i : Index, displaced : BOOLEAN]
  BY <1>1, <1>2, <1>3, <1>7, <1>10 DEF k
<1>13. TableTypes'
  <2>1. SlotType' = SlotType
    BY <1>9 DEF SlotType
  <2>2. \A j \in Index : Occupied(j)' => slots'[j].val \in Vals
    BY <1>2, <1>8, <1>11 DEF TypeOK, TableTypes
  <2>3. QED
    BY <1>1, <1>8, <1>9, <2>1, <2>2 DEF TypeOK, TableTypes
<1>14. Lies'
  <2>1. e.psl >= slots[c].psl
    BY <1>5, <1>2 DEF o, c, e
  <2>2. slots'[c].key = e.key /\ slots'[c].psl = e.psl
    BY <1>8
  <2>3. QED
    BY <1>1, <1>2, <1>4, <1>8, <2>1, <2>2, LiesKept
<1>15. KeysApart'
  <2>1. Hole' = {}
    BY <1>12 DEF Hole
  <2>2. ASSUME NEW i \in Index, NEW j \in Index, Occupied(i)', slots'[i].key = slots'[j].key
        PROVE  i = j
    <3>1. CASE i = c \/ j = c
      BY <2>2, <3>1, <1>2, <1>8
    <3>2. CASE i # c /\ j # c
      BY <2>2, <3>2, <1>2, <1>8, <1>11 DEF KeysApart
    <3>3. QED
      BY <3>1, <3>2
  <2>3. QED
    BY <1>9, <2>1, <2>2 DEF KeysApart
<1>16. LenIsCount'
  <2>1. Taken' = Taken
    BY <1>9, <1>11 DEF Taken
  <2>2. QED
    BY <1>1, <2>1 DEF LenIsCount, Taken
<1>17. Inserts'
  <2>1. pc'.inc.psl <= pc'.i /\ pc'.at = Pos(pc.key, pc.i)' /\ pc'.at = Pos(pc.inc.key, pc.inc.psl)'
    BY <1>6, <1>7, <1>9, <1>10, <1>12
  <2>2. \A r \in 0 .. pc'.i - 1 : Occupied(Pos(pc.key, r))'
    <3>1. ASSUME NEW r \in 0 .. n - 1 PROVE slots'[Pos(k, r)].key # None
      <4>1. r = pc.i \/ r \in 0 .. pc.i - 1
        BY <1>2 DEF n
      <4>2. Occupied(Pos(k, r))
        BY <4>1, <1>1, <1>4
      <4>3. r \in 0 .. Cap
        BY <1>3
      <4>4. Pos(k, r) \in Index
        BY <4>3, <1>2, PosFacts
      <4>5. QED
        BY <4>2, <4>4, <1>11 DEF Occupied
    <3>2. QED
      BY <3>1, <1>9, <1>12 DEF Occupied
  <2>3. Run(pc.inc.key, pc.inc.psl)'
    <3>1. ASSUME NEW r \in 0 .. p - 1
          PROVE  slots'[Pos(o.key, r)].key # None /\ slots'[Pos(o.key, r)].psl >= r
      <4>1. r = o.psl \/ r \in 0 .. o.psl - 1
        BY <1>5 DEF p
      <4>2. r \in 0 .. Cap /\ Pos(o.key, r) \in Index
        BY <1>5, <1>6, <1>3, PosFacts
      <4>3. CASE r = o.psl
        BY <4>3, <1>2, <1>5, <1>8 DEF o, c, e
      <4>4. CASE r \in 0 .. o.psl - 1
        <5>1. Occupied(Pos(o.key, r)) /\ slots[Pos(o.key, r)].psl >= r
          BY <4>4, <1>5 DEF Run
        <5>2. CASE Pos(o.key, r) = c
          BY <5>1, <5>2, <4>4, <1>2, <1>5, <1>8 DEF o, c, e
        <5>3. CASE Pos(o.key, r) # c
          BY <5>1, <5>3, <4>2, <1>8 DEF Occupied
        <5>4. QED
          BY <5>2, <5>3
      <4>5. QED
        BY <4>1, <4>3, <4>4
    <3>2. QED
      BY <3>1, <1>9, <1>10, <1>12 DEF Run, Occupied
  <2>4. \A j \in Index' : slots'[j].key # pc'.inc.key
    <3>1. ASSUME NEW j \in Index PROVE slots'[j].key # o.key
      <4>1. CASE j = c
        BY <4>1, <1>1, <1>8 DEF o, e
      <4>2. CASE j # c
        BY <4>2, <1>1, <1>2, <1>8 DEF KeysApart, o
      <4>3. QED
        BY <4>1, <4>2
    <3>2. QED
      BY <3>1, <1>9, <1>10, <1>12
  <2>5. len' < Limit'
    BY <1>1, <1>4, <1>9
  <2>6. QED
    BY <1>9, <1>12, <2>1, <2>2, <2>3, <2>4, <2>5 DEF Inserts
<1>18. PcTypes' /\ Operations' /\ Seeks' /\ Shifts' /\ ~Still'
  BY <1>12 DEF PcTypes, Operations, Seeks, Shifts, Still
<1>19. Borrows' /\ Iterates'
  BY <1>1, <1>9, <1>18 DEF Borrows, Iterates
<1>20. QED
  BY <1>13, <1>14, <1>15, <1>16, <1>17, <1>18, <1>19 DEF TypeOK

LEMMA InsertProbeIInv ==
  ASSUME IInv, InsertProbe
  PROVE  IInv'
<1>1. slots[pc.at].psl \in Int /\ pc.inc.psl \in Int
  BY AtInsert, CapFacts DEF InsertProbe, Inserting, IInv, TypeOK, TableTypes, SlotType, Index
<1>2. QED
  BY <1>1, ProbeOnIInv, ProbeSwapIInv

(* The slot a removal is emptying, and the one after it. *)
LEMMA AtShift ==
  ASSUME IInv, pc.op = "shift"
  PROVE  /\ pc \in [op : {"shift"}, curr : Index, i : Index, old : Vals]
         /\ pc.curr \in Index /\ pc.i \in Index /\ pc.i \in Nat /\ Occupied(pc.curr)
         /\ ShiftNext \in Index /\ (ShiftNext = pc.curr <=> Cap = 1)
         /\ Hole = {pc.curr} /\ ~Still
         /\ slots[pc.curr].psl \in Nat /\ slots[ShiftNext].psl \in Nat
<1> USE DEF IInv
<1>1. /\ pc \in [op : {"shift"}, curr : Index, i : Index, old : Vals]
      /\ \A r \in 0 .. pc.i : Occupied(Back(pc.curr, r))
  BY DEF Shifts
<1>2. pc.curr \in Index /\ pc.i \in Index /\ pc.i \in Nat
  BY <1>1, CapFacts DEF Index
<1>3. Occupied(pc.curr)
  <2>1. 0 \in 0 .. pc.i
    BY <1>2
  <2>2. Back(pc.curr, 0) = pc.curr
    BY <1>2, BackFacts
  <2>3. QED
    BY <1>1, <2>1, <2>2
<1>4. ShiftNext \in Index /\ (ShiftNext = pc.curr <=> Cap = 1)
  BY <1>2, BackFacts DEF ShiftNext
<1>5. Hole = {pc.curr} /\ ~Still
  BY DEF Hole, Still
<1>6. slots[pc.curr].psl \in Nat /\ slots[ShiftNext].psl \in Nat
  BY <1>2, <1>4, CapFacts DEF TypeOK, TableTypes, SlotType, Index
<1>7. QED
  BY <1>1, <1>2, <1>3, <1>4, <1>5, <1>6

LEMMA RemoveShiftIInv ==
  ASSUME IInv, RemoveShift
  PROVE  IInv'
<1> USE DEF IInv
<1> DEFINE c == pc.curr
           x == ShiftNext
           o == slots[x]
           p == o.psl - 1
           n == pc.i + 1
           new == [o EXCEPT !.psl = p]
<1>1. /\ pc.op = "shift" /\ pc.i < Cap - 1 /\ Occupied(x) /\ o.psl # 0
      /\ UNCHANGED <<given, len, borrow, iter>>
      /\ slots' = [slots EXCEPT ![c] = new]
      /\ pc' = [pc EXCEPT !.curr = x, !.i = n]
  <2>1. pc.op = "shift" /\ ~ShiftStops
    BY DEF RemoveShift
  <2>2. pc.i \in Int /\ Cap - 1 \in Int
    BY <2>1, AtShift, CapFacts
  <2>3. QED
    BY <2>1, <2>2 DEF RemoveShift, ShiftStops
<1>2. /\ pc \in [op : {"shift"}, curr : Index, i : Index, old : Vals]
      /\ c \in Index /\ pc.i \in Index /\ pc.i \in Nat /\ Occupied(c)
      /\ x \in Index /\ (x = c <=> Cap = 1) /\ Hole = {c} /\ ~Still
      /\ slots[c].psl \in Nat /\ o.psl \in Nat
  BY <1>1, AtShift
<1>3. Cap \in Nat \ {0} /\ Cap >= 2 /\ x # c /\ p \in Nat /\ p + 1 = o.psl
  BY <1>1, <1>2, CapFacts
<1>4. n \in Index /\ 1 \in Index /\ n \in Nat
  <2> HIDE DEF Cap
  <2>1. QED
    BY <1>1, <1>2, <1>3 DEF Index
<1>5. o.key \in Keys /\ o.val \in Vals /\ o.psl \in Index /\ x = Pos(o.key, o.psl) /\ Run(o.key, o.psl)
  BY <1>1, <1>2 DEF TypeOK, TableTypes, SlotType, Occupied, Lies
<1>6. p \in Index
  <2> HIDE DEF Cap, p
  <2>1. QED
    BY <1>3, <1>5 DEF Index
<1>7. Back(x, 1) = c /\ Back(x, 0) = x /\ c = Pos(o.key, p)
  <2>1. Back(x, 1) = Back(c, 0) /\ Back(c, 0) = c /\ Back(x, 0) = x
    BY <1>2, <1>4, BackFacts DEF ShiftNext
  <2> DEFINE y == Pos(o.key, p)
  <2>2. Wrap(y + 1) = Pos(o.key, p + 1) /\ y \in Index
    <3>1. p \in 0 .. Cap
      BY <1>6, CapFacts DEF Index
    <3>2. QED
      BY <1>5, <1>6, <3>1, PosFacts
  <2>3. Back(Wrap(y + 1), 1) = Back(y, 0) /\ Back(y, 0) = y
    BY <2>2, <1>4, BackFacts
  <2> HIDE DEF y, x, c, o, p
  <2>4. Wrap(y + 1) = x
    BY <1>3, <1>5, <2>2
  <2>5. QED
    BY <2>1, <2>3, <2>4 DEF y
<1>8. /\ Cap' = Cap /\ Index' = Index /\ Limit' = Limit
      /\ \A k, r : Pos(k, r)' = Pos(k, r)
  BY <1>1, SameTable
<1>9. new \in SlotType /\ new.key = o.key /\ new.psl = p /\ new.val = o.val
  <2>1. o \in SlotType
    BY <1>2 DEF TypeOK, TableTypes
  <2> HIDE DEF o, p
  <2>2. QED
    BY <1>6, <2>1 DEF SlotType
<1> HIDE DEF c, x, o, p, n, new
<1>10. /\ slots \in [Index -> SlotType] /\ slots' \in [Index -> SlotType] /\ slots'[c] = new
       /\ \A j \in Index \ {c} : slots'[j] = slots[j]
  BY <1>1, <1>2, <1>9 DEF TypeOK, TableTypes
<1>11. \A j \in Index : Occupied(j)' <=> Occupied(j)
  BY <1>1, <1>2, <1>9, <1>10 DEF Occupied, o
<1>12. pc'.curr = x /\ pc'.i = n /\ pc'.op = "shift" /\ pc'.old = pc.old
       /\ pc' \in [op : {"shift"}, curr : Index, i : Index, old : Vals]
  BY <1>1, <1>2, <1>4
<1>13. TableTypes'
  <2>1. SlotType' = SlotType
    BY <1>8 DEF SlotType
  <2>2. \A j \in Index : Occupied(j)' => slots'[j].val \in Vals
    BY <1>5, <1>9, <1>10, <1>11 DEF TypeOK, TableTypes
  <2>3. QED
    BY <1>1, <1>8, <1>10, <2>1, <2>2 DEF TypeOK, TableTypes
<1>14. Lies'
  (* A run through c goes on through x, or ends there with x's own entry.  *)
  <2>1. ASSUME NEW k \in Keys, NEW m \in Index, Run(k, m),
               Occupied(Pos(k, m)), slots[Pos(k, m)].psl = m
        PROVE  RunThen(k, m)
    <3> SUFFICES ASSUME NEW r \in 0 .. m - 1
                 PROVE  slots'[Pos(k, r)].key # None /\ slots'[Pos(k, r)].psl >= r
      BY DEF RunThen
    <3>1. r \in Index /\ r + 1 \in 0 .. m /\ r \in 0 .. Cap
      BY <2>1, <1>3 DEF Index
    <3>2. Occupied(Pos(k, r)) /\ slots[Pos(k, r)].psl >= r /\ Pos(k, r) \in Index
      BY <2>1, <3>1, PosFacts DEF Run
    <3>3. CASE Pos(k, r) # c
      BY <3>2, <3>3, <1>10 DEF Occupied
    <3>4. CASE Pos(k, r) = c
      <4>1. Pos(k, r + 1) = x
        BY <3>1, <3>4, PosFacts DEF x, c, ShiftNext
      <4>2. o.psl >= r + 1
        <5>1. r + 1 = m \/ r + 1 \in 0 .. m - 1
          BY <3>1
        <5>2. CASE r + 1 = m
          BY <5>2, <2>1, <4>1, <3>1 DEF o
        <5>3. CASE r + 1 \in 0 .. m - 1
          BY <5>3, <2>1, <4>1 DEF Run, o
        <5>4. QED
          BY <5>1, <5>2, <5>3
      <4>3. slots'[c].psl = p /\ p >= r
        BY <4>2, <3>1, <1>3, <1>9, <1>10
      <4>4. QED
        BY <4>3, <3>2, <3>4, <1>11 DEF Occupied
    <3>5. QED
      BY <3>3, <3>4
  <2>2. ASSUME NEW j \in Index, NEW k, NEW m, slots'[j].key = k, slots'[j].psl = m, k # None
        PROVE  j = Pos(k, m) /\ RunThen(k, m)
    <3>1. CASE j = c
      <4>1. k = o.key /\ m = p
        BY <2>2, <3>1, <1>9, <1>10
      <4>2. RunThen(o.key, o.psl)
        BY <2>1, <1>1, <1>5 DEF o
      <4>3. RunThen(o.key, p)
        BY <4>2, <1>2, <1>3 DEF RunThen
      <4>4. QED
        BY <4>1, <4>3, <3>1, <1>7
    <3>2. CASE j # c
      <4>1. slots[j].key = k /\ slots[j].psl = m /\ Occupied(j) /\ k \in Keys /\ m \in Index /\ m \in Nat
        BY <2>2, <3>2, <1>3, <1>10 DEF Occupied, SlotType, Index
      <4>2. j = Pos(k, m) /\ Run(k, m)
        BY <4>1 DEF Lies
      <4>3. QED
        BY <2>1, <4>1, <4>2
    <3>3. QED
      BY <3>1, <3>2
  <2>3. QED
    BY <1>1, <2>2, LiesThen
<1>15. KeysApart'
  <2>1. Hole' = {x}
    BY <1>12 DEF Hole
  <2>2. ASSUME NEW i \in Index \ {x}, NEW j \in Index \ {x}, Occupied(i)', slots'[i].key = slots'[j].key
        PROVE  i = j
    <3> DEFINE from(y) == IF y = c THEN x ELSE y
    <3>1. \A y \in Index \ {x} : from(y) \in Index \ {c} /\ slots'[y].key = slots[from(y)].key
      BY <1>2, <1>3, <1>9, <1>10 DEF o
    <3>2. Occupied(from(i)) /\ slots[from(i)].key = slots[from(j)].key
      BY <2>2, <3>1 DEF Occupied
    <3>3. from(i) = from(j)
      BY <3>1, <3>2, <1>2 DEF KeysApart
    <3>4. QED
      BY <2>2, <3>3
  <2>3. QED
    BY <1>8, <2>1, <2>2 DEF KeysApart
<1>16. LenIsCount'
  <2>1. Taken' = Taken
    BY <1>8, <1>11 DEF Taken
  <2>2. QED
    BY <1>1, <2>1 DEF LenIsCount, Taken
<1>17. Shifts'
  <2>1. ASSUME NEW r \in 0 .. n PROVE slots'[Back(x, r)].key # None
    <3>1. CASE r = 0
      BY <3>1, <1>1, <1>2, <1>7, <1>11 DEF Occupied
    <3>2. CASE r # 0
      <4>1. r \in Index /\ r - 1 \in Index /\ r - 1 \in 0 .. pc.i /\ r > 0
        <5>1. r \in 0 .. Cap - 1 /\ r - 1 \in 0 .. Cap - 1 /\ r - 1 \in 0 .. pc.i /\ r > 0
          BY <3>2, <1>2, <1>3, <1>4 DEF Index, n
        <5>2. QED
          BY <5>1 DEF Index
      <4>2. Back(x, r) = Back(c, r - 1) /\ Back(c, r - 1) \in Index
        BY <4>1, <1>2, BackFacts DEF x, c, ShiftNext
      <4>3. Occupied(Back(c, r - 1))
        BY <4>1, <1>1 DEF Shifts, c
      <4>4. QED
        BY <4>2, <4>3, <1>11 DEF Occupied
    <3>3. QED
      BY <3>1, <3>2
  <2>2. \A y, r : Back(y, r)' = Back(y, r)
    BY <1>8 DEF Back
  <2>3. \A r \in 0 .. pc'.i : Occupied(Back(pc.curr, r))'
    BY <2>1, <2>2, <1>12 DEF Occupied, Back
  <2>4. slots'[pc'.curr].psl > 0 /\ slots'[Back(pc.curr, 1)'].psl = slots'[pc'.curr].psl - 1
    <3>1. slots'[x].psl = o.psl /\ slots'[c].psl = p
      BY <1>2, <1>3, <1>9, <1>10 DEF o
    <3>2. Back(pc.curr, 1)' = c
      BY <1>7, <1>8, <1>12 DEF Back
    <3>3. o.psl > 0 /\ p = o.psl - 1
      BY <1>2, <1>3
    <3>4. QED
      BY <3>1, <3>2, <3>3, <1>12
  <2>5. QED
    BY <2>3, <2>4, <1>8, <1>12 DEF Shifts
<1>18. PcTypes' /\ Operations' /\ Inserts' /\ Seeks' /\ ~Still'
  BY <1>12 DEF PcTypes, Operations, Inserts, Seeks, Still
<1>19. Borrows' /\ Iterates'
  BY <1>1, <1>8, <1>18 DEF Borrows, Iterates
<1>20. QED
  BY <1>13, <1>14, <1>15, <1>16, <1>17, <1>18, <1>19 DEF TypeOK

(* What the slot after the emptied one holds when the shift stops. *)
LEMMA ShiftStopsAtHome ==
  ASSUME IInv, pc.op = "shift", ShiftStops, ShiftNext # pc.curr, Occupied(ShiftNext)
  PROVE  slots[ShiftNext].psl = 0
<1> USE DEF IInv
<1> SUFFICES ASSUME pc.i >= Cap - 1 PROVE slots[ShiftNext].psl = 0
  BY DEF ShiftStops
<1>1. /\ pc.curr \in Index /\ pc.i \in Index /\ pc.i \in Nat /\ ShiftNext \in Index /\ Cap # 1
      /\ slots[ShiftNext].psl \in Nat
  BY AtShift
<1>2. Cap \in Nat \ {0} /\ pc.i \in 0 .. Cap - 1 /\ (Cap > 2 => Limit < Cap)
      /\ len <= Limit /\ Limit <= Cap /\ len \in Nat /\ Limit \in Nat
  BY <1>1, CapFacts DEF Index
<1>3. pc.i = Cap - 1 /\ pc.i > 0
  BY <1>1, <1>2
<1>4. \A r \in Index : Occupied(Back(pc.curr, r))
  <2>1. \A r \in Index : r \in 0 .. pc.i
    BY <1>3 DEF Index
  <2>2. QED
    BY <2>1 DEF Shifts
<1>5. \A j \in Index : Occupied(j)
  <2>1. \A j \in Index : \E r \in Index : j = Back(pc.curr, r)
    BY <1>1, BackFacts
  <2>2. QED
    BY <1>4, <2>1
<1>6. len >= Cap
  BY <1>2, <1>5, Gap
<1>7. Cap = 2
  BY <1>1, <1>2, <1>6
<1>8. Back(pc.curr, 1) = ShiftNext
  BY <1>1, <1>7, BackFacts DEF ShiftNext
<1>9. slots[pc.curr].psl > 0 /\ slots[ShiftNext].psl = slots[pc.curr].psl - 1
  BY <1>3, <1>8 DEF Shifts
<1>10. slots[pc.curr].psl \in 0 .. 1
  BY <1>1, <1>7 DEF TypeOK, TableTypes, SlotType, Index
<1>11. QED
  BY <1>9, <1>10

LEMMA RemoveFinishIInv ==
  ASSUME IInv, RemoveFinish
  PROVE  IInv'
<1> USE DEF IInv
<1> DEFINE c == pc.curr
<1>1. /\ pc.op = "shift" /\ ShiftStops
      /\ given' = given /\ slots' = [slots EXCEPT ![c] = Vacant]
      /\ len' = IF len > 0 THEN len - 1 ELSE len
      /\ Restamp /\ iter' = NoIter /\ pc' = Ret("some", pc.old)
  BY DEF RemoveFinish
<1>2. /\ c \in Index /\ Occupied(c) /\ ShiftNext \in Index /\ (ShiftNext = c <=> Cap = 1) /\ Hole = {c}
  BY <1>1, AtShift
<1>3. Cap' = Cap /\ Index' = Index /\ Limit' = Limit /\ \A k, r : Pos(k, r)' = Pos(k, r)
  BY <1>1, SameTable
<1>4. Cap \in Nat \ {0} /\ len \in Nat /\ Limit \in Nat /\ len <= Limit
  BY CapFacts
<1>5. Vacant \in SlotType /\ Vacant.key = None
  <2>1. 0 \in Index
    <3> HIDE DEF Cap
    <3>1. QED
      BY <1>4 DEF Index
  <2>2. QED
    BY <2>1 DEF Vacant, Entry, SlotType
<1> HIDE DEF c
<1>6. /\ slots' \in [Index -> SlotType] /\ slots'[c] = Vacant
      /\ \A j \in Index \ {c} : slots'[j] = slots[j]
  BY <1>1, <1>2, <1>5 DEF TypeOK, TableTypes
<1>7. \A j \in Index : Occupied(j)' <=> Occupied(j) /\ j # c
  BY <1>2, <1>5, <1>6 DEF Occupied
<1>8. TableTypes'
  <2>1. SlotType' = SlotType
    BY <1>3 DEF SlotType
  <2>2. \A j \in Index : Occupied(j)' => slots'[j].val \in Vals
    BY <1>6, <1>7 DEF TypeOK, TableTypes
  <2>3. len' \in 0 .. Limit
    BY <1>1, <1>4
  <2>4. QED
    BY <1>1, <1>3, <1>6, <2>1, <2>2, <2>3 DEF TypeOK, TableTypes
<1>9. Lies'
  <2>1. ASSUME NEW j \in Index, NEW k, NEW m, slots'[j].key = k, slots'[j].psl = m, k # None
        PROVE  j = Pos(k, m) /\ RunThen(k, m)
    <3>1. /\ slots[j].key = k /\ slots[j].psl = m /\ Occupied(j) /\ k \in Keys
          /\ m \in Index /\ m \in Nat /\ m < Cap
      BY <2>1, <1>2, <1>4, <1>5, <1>6 DEF Occupied, SlotType, Index
    <3>2. j = Pos(k, m) /\ Run(k, m)
      BY <3>1 DEF Lies
    <3>3. ASSUME NEW r \in 0 .. m - 1
          PROVE  slots'[Pos(k, r)].key # None /\ slots'[Pos(k, r)].psl >= r
      <4>1. r \in Index /\ r \in 0 .. Cap /\ r + 1 \in 1 .. m
        BY <3>1, <1>4 DEF Index
      <4>2. Occupied(Pos(k, r)) /\ slots[Pos(k, r)].psl >= r /\ Pos(k, r) \in Index
        BY <3>1, <3>2, <4>1, PosFacts DEF Run
      <4>3. ASSUME Pos(k, r) = c PROVE FALSE
        <5>1. Pos(k, r + 1) = ShiftNext
          BY <3>1, <4>1, <4>3, PosFacts DEF ShiftNext, c
        <5>2. Cap # 1
          BY <3>1, <4>1
        <5>3. Occupied(ShiftNext) /\ slots[ShiftNext].psl >= r + 1
          <6>1. r + 1 = m \/ r + 1 \in 0 .. m - 1
            BY <3>1
          <6>2. CASE r + 1 = m
            BY <6>2, <5>1, <3>1, <3>2, <4>1
          <6>3. CASE r + 1 \in 0 .. m - 1
            BY <6>3, <5>1, <3>2 DEF Run
          <6>4. QED
            BY <6>1, <6>2, <6>3
        <5>4. slots[ShiftNext].psl = 0
          BY <5>2, <5>3, <1>1, <1>2, ShiftStopsAtHome DEF c
        <5>5. QED
          BY <4>1, <5>3, <5>4
      <4>4. QED
        BY <4>2, <4>3, <1>6 DEF Occupied
    <3>4. QED
      BY <3>2, <3>3 DEF RunThen
  <2>2. QED
    BY <1>1, <2>1, LiesThen
<1>10. KeysApart'
  <2>1. Hole' = {}
    BY <1>1, Returned, NoLoop
  <2>2. ASSUME NEW i \in Index, NEW j \in Index, Occupied(i)', slots'[i].key = slots'[j].key
        PROVE  i = j
    <3>1. i # c /\ j # c /\ Occupied(i)
      BY <2>2, <1>5, <1>6, <1>7 DEF Occupied
    <3>2. QED
      BY <2>2, <3>1, <1>2, <1>6 DEF KeysApart
  <2>3. QED
    BY <1>3, <2>1, <2>2 DEF KeysApart
<1>11. LenIsCount'
  <2>1. Taken' = Taken \ {c} /\ c \in Taken
    BY <1>2, <1>3, <1>7 DEF Taken
  <2>2. IsFiniteSet(Taken) /\ Cardinality(Taken) = len
    BY IndexFinite DEF LenIsCount, Taken
  <2>3. Cardinality(Taken \ {c}) = len - 1 /\ Cardinality(Taken \ {c}) \in Nat
    BY <2>1, <2>2, FS_RemoveElement, FS_Subset, FS_CardinalityType
  <2>4. len' = len - 1
    BY <1>1, <1>4, <2>3
  <2>5. QED
    BY <2>1, <2>3, <2>4 DEF LenIsCount, Taken
<1>12. QED
  BY <1>1, <1>8, <1>9, <1>10, <1>11, Ended, Returned, NoLoop DEF TypeOK

-----------------------------------------------------------------------------
LEMMA NextIInv == IInv /\ [Next]_vars => IInv'
<1> SUFFICES ASSUME IInv, [Next]_vars PROVE IInv'
  OBVIOUS
<1>1. ASSUME NEW c \in Abstract!Calls, Call(c[1], c[2], c[3]) PROVE IInv'
  BY <1>1, CallIInv
<1>2. CASE Clear
  BY <1>2, ClearIInv
<1>3. CASE InsertFull \/ InsertStart \/ InsertPlace \/ InsertUpdate \/ InsertProbe
  BY <1>3, InsertFullIInv, InsertStartIInv, InsertPlaceIInv, InsertUpdateIInv, InsertProbeIInv
<1>4. CASE SeekStart \/ SeekAbsent \/ SeekFound \/ SeekOn
  BY <1>4, SeekStartIInv, SeekAbsentIInv, SeekFoundIInv, SeekOnIInv
<1>5. CASE RemoveFound \/ RemoveShift \/ RemoveFinish
  BY <1>5, RemoveFoundIInv, RemoveShiftIInv, RemoveFinishIInv
<1>6. CASE IterStart \/ IterNext
  BY <1>6, IterStartIInv, IterNextIInv
<1>7. CASE Return
  BY <1>7, ReturnIInv
<1>8. CASE UNCHANGED vars
  <2>1. UNCHANGED <<given, slots, len, pc, borrow, iter>>
    BY <1>8 DEF vars
  <2>2. Index' = Index /\ Cap' = Cap /\ \A c, r : Back(c, r)' = Back(c, r)
    BY <2>1, SameTable DEF Back
  <2>3. Hole' = Hole /\ Still' = Still /\ PcTypes' = PcTypes /\ Operations' = Operations
    BY <2>1 DEF Hole, Still, PcTypes, Operations
  <2>4. Borrows' /\ Iterates'
    BY <2>1, <2>3, KeepsMarks
  <2>5. /\ Limit' = Limit /\ (\A k, r : Pos(k, r)' = Pos(k, r)) /\ (\A j : Occupied(j)' <=> Occupied(j))
        /\ (\A k, n : Run(k, n)' <=> Run(k, n)) /\ (\A k, n : Unseen(k, n)' <=> Unseen(k, n))
    BY <2>1, TableKept
  <2>6. Inserts'
    BY <2>1, <2>2, <2>5 DEF IInv, Inserts
  <2>7. Seeks' /\ Shifts'
    BY <2>1, <2>2, <2>5 DEF IInv, Seeks, Shifts, Back
  <2>8. QED
    BY <2>1, <2>3, <2>4, <2>6, <2>7, Keeps DEF IInv, TypeOK
<1>9. QED
  BY <1>1, <1>2, <1>3, <1>4, <1>5, <1>6, <1>7, <1>8 DEF Next

LEMMA SpecIInv == Spec => []IInv
BY InitIInv, NextIInv, PTL DEF Spec

(* The order that get_, insert and remove_ rely on to give up early: at    *)
(* every step of every operation, an entry lies at its probe length from   *)
(* its home, and no gap and no richer entry lies before it on its way.     *)
THEOREM HashMapRobinHood == Spec => []RobinHood
<1>1. ASSUME IInv PROVE RobinHood
  <2> SUFFICES ASSUME NEW j \in Index, Occupied(j)
               PROVE  /\ slots[j].psl \in Index
                      /\ j = Wrap(Home(slots[j].key) + slots[j].psl)
                      /\ slots[j].psl > 0 =>
                           Occupied(Before(j)) /\ slots[Before(j)].psl >= slots[j].psl - 1
    BY DEF RobinHood
  <2> DEFINE k == slots[j].key
             n == slots[j].psl
  <2>1. k \in Keys /\ n \in Index /\ j = Pos(k, n) /\ Run(k, n) /\ TypeOK
    BY <1>1 DEF IInv, TypeOK, TableTypes, SlotType, Occupied, Lies
  <2> HIDE DEF k, n
  <2>2. Pos(k, n) = Wrap(Home(k) + n)
    BY <2>1, PosFacts
  <2>3. ASSUME n > 0
        PROVE  Occupied(Before(j)) /\ slots[Before(j)].psl >= n - 1
    <3>1. Cap \in Nat \ {0} /\ n \in 0 .. Cap - 1 /\ j \in 0 .. Cap - 1
      BY <2>1, CapFacts DEF Index
    <3>2. n - 1 \in 0 .. Cap - 1 /\ n - 1 \in 0 .. Cap /\ n - 1 \in 0 .. n - 1 /\ 1 \in 0 .. Cap - 1
      BY <2>3, <3>1
    <3>3. Pos(k, n - 1) \in Index /\ Wrap(Pos(k, n - 1) + 1) = Pos(k, (n - 1) + 1)
      BY <2>1, <3>2, PosFacts DEF Index
    <3>4. Wrap(Pos(k, n - 1) + 1) = j /\ (n - 1) + 1 = n
      BY <2>1, <3>1, <3>3
    <3>5. Back(j, 1) = Pos(k, n - 1)
      <4>1. /\ Back(Wrap(Pos(k, n - 1) + 1), 1) = Back(Pos(k, n - 1), 1 - 1)
            /\ Back(Pos(k, n - 1), 0) = Pos(k, n - 1)
        BY <2>1, <3>2, <3>3, BackFacts DEF Index
      <4>2. QED
        BY <3>4, <4>1
    <3>6. Before(j) = Back(j, 1)
      <4>1. Wrap(j + (Cap - 1)) = IF j + (Cap - 1) < Cap THEN j + (Cap - 1) ELSE j + (Cap - 1) - Cap
        <5>1. Cap - 1 \in 0 .. Cap
          BY <3>1
        <5>2. QED
          BY <2>1, <5>1, WrapIs
      <4> HIDE DEF Cap
      <4>2. j + Cap - 1 = j + (Cap - 1)
        BY <3>1
      <4>3. QED
        BY <3>1, <3>2, <4>1, <4>2 DEF Before, Back
    <3>7. QED
      BY <2>1, <3>2, <3>5, <3>6 DEF Run
  <2>4. QED
    BY <2>1, <2>2, <2>3 DEF k, n
<1>2. QED
  BY <1>1, SpecIInv, PTL

(* hashmap_len, and the limit hashmap_insert refuses at, count the entries *)
(* in the table, at every step of a swap or a shift.                       *)
THEOREM HashMapLenIsCount == Spec => []LenIsCount
BY SpecIInv, PTL DEF IInv

(* A borrow hashmap_get_or_null made, that borrowed_get would still accept,*)
(* names the slot its key is in.                                           *)
THEOREM HashMapBorrowFindsKey == Spec => []BorrowFindsKey
<1>1. IInv => BorrowFindsKey
  BY DEF IInv, Borrows, BorrowFindsKey, Still, Idle
<1>2. QED
  BY <1>1, SpecIInv, PTL

(* HM_INSERT_'s loop never runs out: the return after it, which would drop *)
(* the entry in flight, is not reached, in a table of any capacity.        *)
THEOREM HashMapInsertNeverDrops == Spec => [](pc.op = "insert" => Inserting)
<1>1. ASSUME IInv, pc.op = "insert" PROVE Inserting
  <2>1. pc.i \in Index
    BY <1>1 DEF IInv, Inserts
  <2>2. pc.i < Cap
    BY <1>1, <2>1, CapFacts DEF IInv, Index
  <2>3. QED
    BY <1>1, <2>2 DEF Inserting
<1>2. IInv => (pc.op = "insert" => Inserting)
  BY <1>1
<1>3. QED
  BY <1>2, SpecIInv, PTL

-----------------------------------------------------------------------------
(* The map the table stands for. *)
Carried == pc.op = "insert" /\ pc.displaced

Holds(k, v) ==
  \/ \E j \in Index \ Hole : slots[j].key = k /\ slots[j].val = v
  \/ Carried /\ pc.inc.key = k /\ pc.inc.val = v

MapIs ==
  /\ map \in [Keys -> Vals \cup {None}]
  /\ \A k \in Keys : \A v \in Vals : map[k] = v <=> Holds(k, v)

LEMMA IInvMapIs == IInv => MapIs
<1> SUFFICES ASSUME IInv PROVE MapIs
  OBVIOUS
<1> USE DEF IInv
<1>1. ASSUME NEW e \in Entries
      PROVE  /\ e.key \in Keys /\ e.val \in Vals
             /\ \/ \E j \in Index \ Hole : e = slots[j] /\ Occupied(j)
                \/ Carried /\ e = pc.inc
  BY DEF Entries, InFlight, Carried, Inserts, Occupied, TypeOK, TableTypes, SlotType
<1>2. ASSUME NEW e \in Entries, NEW f \in Entries, e.key = f.key
      PROVE  e = f
  <2>1. CASE Carried
    <3>1. \A j \in Index : slots[j].key # pc.inc.key
      BY <2>1 DEF Carried, Inserts
    <3>2. CASE e = pc.inc
      BY <3>1, <3>2, <1>1, <1>2
    <3>3. CASE f = pc.inc
      BY <3>1, <3>3, <1>1, <1>2
    <3>4. CASE e # pc.inc /\ f # pc.inc
      BY <3>4, <1>1, <1>2 DEF KeysApart
    <3>5. QED
      BY <3>2, <3>3, <3>4
  <2>2. CASE ~Carried
    BY <2>2, <1>1, <1>2 DEF KeysApart
  <2>3. QED
    BY <2>1, <2>2
<1>3. \A k \in Keys : map[k] = IF \E e \in Entries : e.key = k
                               THEN (CHOOSE e \in Entries : e.key = k).val ELSE None
  BY DEF map
<1>4. \A e \in Entries : map[e.key] = e.val
  <2> SUFFICES ASSUME NEW e \in Entries PROVE map[e.key] = e.val
    OBVIOUS
  <2> DEFINE f == CHOOSE f \in Entries : f.key = e.key
  <2>1. f \in Entries /\ f.key = e.key
    OBVIOUS
  <2>2. f = e
    BY <2>1, <1>2
  <2>3. map[e.key] = f.val
    BY <1>1, <1>3
  <2> HIDE DEF f
  <2>4. QED
    BY <2>2, <2>3
<1>5. \A k \in Keys : (\A e \in Entries : e.key # k) => map[k] = None
  BY <1>3
<1>6. map \in [Keys -> Vals \cup {None}]
  <2>1. \A k \in Keys : map[k] \in Vals \cup {None}
    BY <1>1, <1>4, <1>5
  <2>2. map = [k \in Keys |-> map[k]]
    BY DEF map
  <2> HIDE DEF map
  <2>3. QED
    BY <2>1, <2>2
<1>7. ASSUME NEW k \in Keys, NEW v \in Vals
      PROVE  (\E e \in Entries : e.key = k /\ e.val = v) <=> Holds(k, v)
  <2>1. ASSUME NEW j \in Index \ Hole, slots[j].key = k PROVE slots[j] \in Entries
    BY <2>1, HashMapAssumption DEF Entries, Occupied
  <2>2. Carried => pc.inc \in Entries
    BY DEF Entries, InFlight, Carried
  <2>3. QED
    BY <1>1, <2>1, <2>2 DEF Holds
<1>8. ASSUME NEW k \in Keys, NEW v \in Vals
      PROVE  map[k] = v <=> (\E e \in Entries : e.key = k /\ e.val = v)
  BY <1>4, <1>5, HashMapAssumption
<1>9. QED
  BY <1>6, <1>7, <1>8 DEF MapIs

LEMMA SameMap ==
  ASSUME MapIs, MapIs', \A k \in Keys : \A v \in Vals : Holds(k, v)' <=> Holds(k, v)
  PROVE  map' = map
<1>1. map \in [Keys -> Vals \cup {None}] /\ map' \in [Keys -> Vals \cup {None}]
  BY DEF MapIs
<1>2. ASSUME NEW k \in Keys
      PROVE  map'[k] = map[k]
  <2>1. \A v \in Vals : map[k] = v <=> map'[k] = v
    BY DEF MapIs
  <2> HIDE DEF map
  <2>2. QED
    BY <1>1, <2>1
<1> HIDE DEF map
<1>3. QED
  BY <1>1, <1>2

LEMMA SetMap ==
  ASSUME MapIs, MapIs', NEW key \in Keys, NEW val \in Vals \cup {None},
         \A k \in Keys : \A v \in Vals :
           Holds(k, v)' <=> IF k = key THEN v = val ELSE Holds(k, v)
  PROVE  map' = [map EXCEPT ![key] = val]
<1>1. map \in [Keys -> Vals \cup {None}] /\ map' \in [Keys -> Vals \cup {None}]
  BY DEF MapIs
<1>2. ASSUME NEW k \in Keys
      PROVE  map'[k] = IF k = key THEN val ELSE map[k]
  <2>1. \A v \in Vals : (IF k = key THEN v = val ELSE map[k] = v) <=> map'[k] = v
    BY DEF MapIs
  <2> HIDE DEF map
  <2>2. QED
    BY <1>1, <2>1, HashMapAssumption
<1> HIDE DEF map
<1>3. QED
  BY <1>1, <1>2

LEMMA IInvMapIsThen == IInv' => MapIs'
BY IInvMapIs, PTL

LEMMA PresentIs ==
  ASSUME IInv, NEW k \in Keys
  PROVE  /\ k \in Abstract!Present <=> \E v \in Vals : Holds(k, v)
         /\ Hole = {} /\ ~Carried => (k \in Abstract!Present <=> \E j \in Index : slots[j].key = k)
<1>1. MapIs
  BY IInvMapIs
<1>2. k \in Abstract!Present <=> map[k] # None
  BY DEF Abstract!Present
<1>3. map[k] # None <=> \E v \in Vals : Holds(k, v)
  <2>1. map[k] \in Vals \cup {None} /\ None \notin Vals /\ \A v \in Vals : map[k] = v <=> Holds(k, v)
    BY <1>1, HashMapAssumption DEF MapIs
  <2> HIDE DEF map
  <2>2. QED
    BY <2>1
<1>4. \A j \in Index : slots[j].key = k => slots[j].val \in Vals
  BY HashMapAssumption DEF IInv, TypeOK, TableTypes, Occupied
<1>5. Hole = {} /\ ~Carried =>
        ((\E v \in Vals : Holds(k, v)) <=> \E j \in Index : slots[j].key = k)
  BY <1>4 DEF Holds
<1>6. QED
  BY <1>2, <1>3, <1>5

(* Between the steps of a swap or of a shift, len is the size of the map. *)
LEMMA PresentCount ==
  ASSUME IInv, Hole = {}, ~Carried
  PROVE  Cardinality(Abstract!Present) = len
<1> DEFINE key == [j \in Taken |-> slots[j].key]
<1>1. Abstract!Present \subseteq Keys
  BY DEF Abstract!Present
<1>2. \A j \in Taken : slots[j].key \in Keys /\ slots[j].key \in Abstract!Present
  BY PresentIs DEF IInv, TypeOK, TableTypes, SlotType, Occupied, Taken
<1>3. \A k \in Abstract!Present : \E j \in Taken : slots[j].key = k
  BY <1>1, PresentIs, HashMapAssumption DEF Taken, Occupied
<1>4. \A i, j \in Taken : slots[i].key = slots[j].key => i = j
  BY DEF IInv, KeysApart, Taken
<1>5. key \in Bijection(Taken, Abstract!Present)
  BY <1>2, <1>3, <1>4 DEF Bijection, Injection, IsInjective, Surjection
<1>6. ExistsBijection(Taken, Abstract!Present)
  BY <1>5 DEF ExistsBijection
<1>7. IsFiniteSet(Taken) /\ Cardinality(Taken) = len
  BY IndexFinite DEF IInv, LenIsCount, Taken
<1>8. QED
  BY <1>6, <1>7, FS_Bijection

(* hashmap_iter_next goes through the slots in order: an iteration no      *)
(* mutation has ended returns every key, each key of the map and no other. *)
THEOREM HashMapIterationComplete == Spec => []IterationComplete
<1>1. ASSUME IInv, pc = Idle, iter.on, iter.at = Cap
      PROVE  iter.seen = Abstract!Present /\ ~iter.again
  <2>1. Still /\ Hole = {} /\ ~Carried
    BY <1>1 DEF Still, Hole, Carried, Idle
  <2>2. iter.seen = {slots[j].key : j \in {i \in Index : Occupied(i)}}
    <3>1. \A i \in Index : i < Cap
      BY <1>1, CapFacts DEF IInv, Index
    <3>2. iter.seen = Passed(Cap)
      BY <1>1, <2>1 DEF IInv, Iterates
    <3>3. QED
      BY <3>1, <3>2 DEF Passed
  <2>3. \A j \in Index : Occupied(j) => slots[j].key \in Keys
    BY <1>1 DEF IInv, TypeOK, TableTypes, SlotType, Occupied
  <2>4. Abstract!Present \subseteq Keys
    BY DEF Abstract!Present
  <2>5. \A k \in Keys : k \in Abstract!Present <=> \E j \in Index : slots[j].key = k
    BY <1>1, <2>1, PresentIs
  <2>6. \A k \in Keys : k # None
    BY HashMapAssumption
  <2>7. ~iter.again
    BY <1>1, <2>1 DEF IInv, Iterates
  <2>8. QED
    BY <2>2, <2>3, <2>4, <2>5, <2>6, <2>7 DEF Occupied
<1>2. IInv => IterationComplete
  BY <1>1 DEF IterationComplete
<1>3. QED
  BY <1>2, SpecIInv, PTL

-----------------------------------------------------------------------------
(* Every operation does what it promises of the map, at one of its steps.  *)

LEMMA CallIs ==
  /\ pc.op = "idle" => call = Abstract!Idle
  /\ pc.op = "called" => call = Abstract!Pending(pc.what, pc.key, pc.val)
  /\ pc.op = "seek" => call = Abstract!Pending(pc.what, pc.key, None)
  /\ pc.op = "insert" /\ ~pc.displaced => call = Abstract!Pending("insert", pc.key, pc.val)
  /\ Carried => call = Abstract!Done("new", None)
  /\ pc.op = "shift" => call = Abstract!Done("some", pc.old)
  /\ pc.op = "return" => call = Abstract!Done(pc.is, pc.val)
BY DEF call, Carried, Abstract!Idle, Abstract!Pending, Abstract!Done

LEMMA CallIsThen ==
  /\ pc'.op = "idle" => call' = Abstract!Idle
  /\ pc'.op = "called" => call' = Abstract!Pending(pc'.what, pc'.key, pc'.val)
  /\ pc'.op = "seek" => call' = Abstract!Pending(pc'.what, pc'.key, None)
  /\ pc'.op = "insert" /\ ~pc'.displaced => call' = Abstract!Pending("insert", pc'.key, pc'.val)
  /\ Carried' => call' = Abstract!Done("new", None)
  /\ pc'.op = "shift" => call' = Abstract!Done("some", pc'.old)
  /\ pc'.op = "return" => call' = Abstract!Done(pc'.is, pc'.val)
BY DEF call, Carried, Abstract!Idle, Abstract!Pending, Abstract!Done

LEMMA InitMaps == Init => Abstract!Init
<1> SUFFICES ASSUME Init PROVE Abstract!Init
  OBVIOUS
<1>1. IInv /\ pc.op = "idle"
  BY InitIInv DEF Init, Idle
<1>2. Limit \in Nat /\ call = Abstract!Idle
  BY <1>1, CapFacts, CallIs DEF IInv
<1>3. map = [k \in Keys |-> None]
  <2>1. Entries = {}
    BY <1>1 DEF Init, Entries, InFlight, Occupied, Vacant, Entry
  <2>2. QED
    BY <2>1 DEF map
<1>4. QED
  BY <1>2, <1>3 DEF Abstract!Init

(* Steps at which nothing is seen of the map. *)
LEMMA Stutters ==
  ASSUME MapIs, MapIs', given' = given, call' = call,
         \A k \in Keys : \A v \in Vals : Holds(k, v)' <=> Holds(k, v)
  PROVE  UNCHANGED Abstract!vars
<1>1. map' = map
  BY SameMap
<1>2. Limit' = Limit
  BY SameTable
<1>3. QED
  BY <1>1, <1>2 DEF Abstract!vars

(* Steps that leave the table alone, and begin or end no swap or shift. *)
LEMMA HoldsKept ==
  ASSUME UNCHANGED <<given, slots>>, Hole' = Hole,
         Carried' <=> Carried, Carried => pc'.inc.key = pc.inc.key /\ pc'.inc.val = pc.inc.val
  PROVE  \A k \in Keys : \A v \in Vals : Holds(k, v)' <=> Holds(k, v)
<1>1. Index' = Index
  BY SameTable
<1>2. QED
  BY <1>1 DEF Holds

LEMMA CallMaps ==
  ASSUME IInv, IInv', NEW c \in Abstract!Calls, Call(c[1], c[2], c[3])
  PROVE  Abstract!Next
<1>1. /\ pc = Idle /\ UNCHANGED <<given, slots, len, borrow, iter>>
      /\ pc' = [op |-> "called", what |-> c[1], key |-> c[2], val |-> c[3]]
  BY DEF Call
<1>2. pc.op = "idle" /\ pc'.op = "called" /\ pc'.what = c[1] /\ pc'.key = c[2] /\ pc'.val = c[3]
  BY <1>1 DEF Idle
<1>3. call = Abstract!Idle /\ call' = Abstract!Pending(c[1], c[2], c[3])
  BY <1>2, CallIs, CallIsThen
<1>4. \A k \in Keys : \A v \in Vals : Holds(k, v)' <=> Holds(k, v)
  BY <1>1, <1>2, HoldsKept DEF Hole, Carried
<1>5. map' = map
  BY <1>4, IInvMapIs, IInvMapIsThen, SameMap
<1>6. Limit' = Limit
  BY <1>1, SameTable
<1>7. Abstract!Invoke(c[1], c[2], c[3])
  BY <1>3, <1>5 DEF Abstract!Invoke
<1>8. QED
  BY <1>6, <1>7 DEF Abstract!Next

LEMMA ReturnMaps ==
  ASSUME IInv, IInv', Return
  PROVE  Abstract!Next
<1>1. pc.op = "return" /\ pc' = Idle /\ UNCHANGED <<given, slots, len, borrow, iter>>
  BY DEF Return
<1>2. pc'.op = "idle"
  BY <1>1 DEF Idle
<1>3. call = Abstract!Done(pc.is, pc.val) /\ call' = Abstract!Idle
  BY <1>1, <1>2, CallIs, CallIsThen
<1>4. \A k \in Keys : \A v \in Vals : Holds(k, v)' <=> Holds(k, v)
  BY <1>1, <1>2, HoldsKept DEF Hole, Carried
<1>5. map' = map
  BY <1>4, IInvMapIs, IInvMapIsThen, SameMap
<1>6. Limit' = Limit
  BY <1>1, SameTable
<1>7. Abstract!Return
  BY <1>3, <1>5 DEF Abstract!Return, Abstract!Done
<1>8. QED
  BY <1>6, <1>7 DEF Abstract!Next

LEMMA ClearMaps ==
  ASSUME IInv, IInv', Clear
  PROVE  Abstract!Next
<1>1. /\ pc.op = "called" /\ pc.what = "clear" /\ given' = given
      /\ slots' = [j \in Index |-> Vacant] /\ pc' = Ret("cleared", None)
  BY DEF Clear, Called
<1>2. pc'.op = "return" /\ pc'.is = "cleared" /\ pc'.val = None /\ Index' = Index /\ Limit' = Limit
  BY <1>1, Returned, SameTable
<1>3. call = Abstract!Pending("clear", pc.key, pc.val) /\ call' = Abstract!Done("cleared", None)
  BY <1>1, <1>2, CallIs, CallIsThen
<1>4. map' = [k \in Keys |-> None]
  <2>1. map' \in [Keys -> Vals \cup {None}]
    BY IInvMapIsThen DEF MapIs
  <2>2. ASSUME NEW k \in Keys, NEW v \in Vals PROVE map'[k] # v
    <3>1. map'[k] = v <=> Holds(k, v)'
      BY IInvMapIsThen DEF MapIs
    <3>2. ~Carried' /\ Hole' = {}
      BY <1>2 DEF Carried, Hole
    <3>3. \A j \in Index : slots'[j].key # k
      BY <1>1, HashMapAssumption DEF Vacant, Entry
    <3>4. ~Holds(k, v)'
      BY <1>2, <3>2, <3>3 DEF Holds
    <3>5. QED
      BY <3>1, <3>4
  <2> HIDE DEF map
  <2>3. QED
    BY <2>1, <2>2
<1>5. Abstract!Clear
  BY <1>3, <1>4 DEF Abstract!Clear, Abstract!Pending
<1>6. QED
  BY <1>2, <1>5 DEF Abstract!Next

(* MapSpec counts with its own instance of Cardinality. *)
LEMMA SameCardinality == \A S : Abstract!Cardinality(S) = Cardinality(S)
BY DEF Abstract!Cardinality, Cardinality

LEMMA InsertFullMaps ==
  ASSUME IInv, IInv', InsertFull
  PROVE  Abstract!Next
<1>1. /\ pc.op = "called" /\ pc.what = "insert" /\ len >= Limit
      /\ pc' = Ret("full", None) /\ UNCHANGED <<given, slots, len, borrow, iter>>
  BY DEF InsertFull, Called
<1>2. pc'.op = "return" /\ pc'.is = "full" /\ pc'.val = None /\ Hole = {} /\ ~Carried
  BY <1>1, Returned DEF Hole, Carried
<1>3. call = Abstract!Pending("insert", pc.key, pc.val) /\ call' = Abstract!Done("full", None)
  BY <1>1, <1>2, CallIs, CallIsThen
<1>4. \A k \in Keys : \A v \in Vals : Holds(k, v)' <=> Holds(k, v)
  BY <1>1, <1>2, HoldsKept DEF Hole, Carried
<1>5. map' = map
  BY <1>4, IInvMapIs, IInvMapIsThen, SameMap
<1>6. Limit' = Limit
  BY <1>1, SameTable
<1>7. Abstract!Cardinality(Abstract!Present) >= Limit
  BY <1>1, <1>2, PresentCount, SameCardinality
<1>8. Abstract!Insert
  BY <1>3, <1>5, <1>7 DEF Abstract!Insert, Abstract!Pending
<1>9. QED
  BY <1>6, <1>8 DEF Abstract!Next

LEMMA InsertStartMaps ==
  ASSUME IInv, IInv', InsertStart
  PROVE  UNCHANGED Abstract!vars
<1>1. /\ pc.op = "called" /\ pc.what = "insert" /\ UNCHANGED <<given, slots, len, borrow, iter>>
      /\ pc'.op = "insert" /\ pc'.key = pc.key /\ pc'.val = pc.val /\ ~pc'.displaced
  BY DEF InsertStart, Called
<1>2. call' = call
  BY <1>1, CallIs, CallIsThen
<1>3. \A k \in Keys : \A v \in Vals : Holds(k, v)' <=> Holds(k, v)
  BY <1>1, HoldsKept DEF Hole, Carried
<1>4. QED
  BY <1>1, <1>2, <1>3, IInvMapIs, IInvMapIsThen, Stutters

(* An insert takes effect: the step is that of the map. *)
LEMMA TakesEffect ==
  ASSUME IInv, IInv', pc.op = "insert", ~pc.displaced, given' = given,
         NEW is \in {"new", "updated"}, call' = Abstract!Done(is, None),
         is = "updated" <=> \E j \in Index : slots[j].key = pc.key,
         \A k \in Keys : \A v \in Vals :
           Holds(k, v)' <=> IF k = pc.key THEN v = pc.val ELSE Holds(k, v)
  PROVE  Abstract!Next
<1>1. pc.key \in Keys /\ pc.val \in Vals /\ len < Limit /\ Hole = {} /\ ~Carried
  BY DEF IInv, Inserts, Hole, Carried
<1>2. call = Abstract!Pending("insert", pc.key, pc.val)
  BY CallIs
<1>3. map' = [map EXCEPT ![pc.key] = pc.val]
  BY <1>1, IInvMapIs, IInvMapIsThen, SetMap
<1>4. Abstract!Cardinality(Abstract!Present) = len /\ len \in Nat /\ Limit \in Nat
  BY <1>1, PresentCount, SameCardinality, CapFacts DEF IInv
<1>5. ~(Abstract!Cardinality(Abstract!Present) >= Limit)
  BY <1>1, <1>4
<1>6. is = IF pc.key \in Abstract!Present THEN "updated" ELSE "new"
  BY <1>1, PresentIs
<1>7. Abstract!Insert
  BY <1>2, <1>3, <1>5, <1>6 DEF Abstract!Insert, Abstract!Pending
<1>8. Limit' = Limit
  BY SameTable
<1>9. QED
  BY <1>7, <1>8 DEF Abstract!Next

LEMMA InsertPlaceMaps ==
  ASSUME IInv, IInv', InsertPlace
  PROVE  Abstract!Next \/ UNCHANGED Abstract!vars
<1> DEFINE c == pc.at
           e == pc.inc
<1>1. /\ pc.op = "insert" /\ ~Occupied(c)
      /\ given' = given /\ slots' = [slots EXCEPT ![c] = e] /\ pc' = Ret("new", None)
  BY DEF InsertPlace, Inserting
<1>2. /\ c \in Index /\ Hole = {} /\ \A j \in Index : slots[j].key # e.key
      /\ slots \in [Index -> SlotType]
  BY <1>1, AtInsert DEF IInv, TypeOK, TableTypes
<1>3. pc'.op = "return" /\ pc'.is = "new" /\ pc'.val = None /\ Index' = Index /\ Hole' = {} /\ ~Carried'
  BY <1>1, Returned, NoLoop, SameTable DEF Carried
<1>4. call' = Abstract!Done("new", None)
  BY <1>3, CallIsThen
<1>5. ASSUME NEW k \in Keys, NEW v \in Vals
      PROVE  Holds(k, v)' <=> \/ e.key = k /\ e.val = v
                              \/ \E j \in Index : slots[j].key = k /\ slots[j].val = v
  <2>1. slots[c].key # k
    BY <1>1, HashMapAssumption DEF Occupied
  <2>2. \A j \in Index : slots'[j] = IF j = c THEN e ELSE slots[j]
    BY <1>1, <1>2
  <2>3. Holds(k, v)' <=> \E j \in Index : slots'[j].key = k /\ slots'[j].val = v
    BY <1>3 DEF Holds
  <2> HIDE DEF c, e
  <2>4. QED
    BY <1>2, <2>1, <2>2, <2>3
<1>6. CASE pc.displaced
  <2>1. Carried /\ call' = call
    BY <1>1, <1>4, <1>6, CallIs DEF Carried
  <2>2. \A k \in Keys : \A v \in Vals : Holds(k, v)' <=> Holds(k, v)
    BY <1>2, <1>5, <2>1 DEF Holds
  <2>3. QED
    BY <1>1, <2>1, <2>2, IInvMapIs, IInvMapIsThen, Stutters
<1>7. CASE ~pc.displaced
  <2>1. e.key = pc.key /\ e.val = pc.val
    BY <1>1, <1>7 DEF IInv, Inserts, Entry
  <2>2. ASSUME NEW k \in Keys, NEW v \in Vals
        PROVE  Holds(k, v)' <=> IF k = pc.key THEN v = pc.val ELSE Holds(k, v)
    <3>1. Holds(k, v) <=> \E j \in Index : slots[j].key = k /\ slots[j].val = v
      BY <1>2, <1>7 DEF Holds, Carried
    <3>2. QED
      BY <3>1, <2>1, <1>2, <1>5
  <2>3. ~\E j \in Index : slots[j].key = pc.key
    BY <1>2, <2>1
  <2>4. QED
    BY <1>1, <1>4, <1>7, <2>2, <2>3, TakesEffect
<1>8. QED
  BY <1>6, <1>7

LEMMA InsertUpdateMaps ==
  ASSUME IInv, IInv', InsertUpdate
  PROVE  Abstract!Next
<1> DEFINE c == pc.at
<1>1. /\ pc.op = "insert" /\ Occupied(c) /\ slots[c].key = pc.inc.key
      /\ given' = given /\ slots' = [slots EXCEPT ![c].val = pc.inc.val] /\ pc' = Ret("updated", None)
  BY DEF InsertUpdate, Inserting
<1>2. c \in Index /\ Hole = {} /\ slots \in [Index -> SlotType]
  BY <1>1, AtInsert DEF IInv, TypeOK, TableTypes
<1>3. pc'.op = "return" /\ pc'.is = "updated" /\ pc'.val = None /\ Index' = Index /\ Hole' = {} /\ ~Carried'
  BY <1>1, Returned, NoLoop, SameTable DEF Carried
<1>4. call' = Abstract!Done("updated", None)
  BY <1>3, CallIsThen
<1>5. ~pc.displaced /\ pc.inc.key = pc.key /\ pc.inc.val = pc.val
  BY <1>1, <1>2 DEF IInv, Inserts, Entry
<1>6. \A j \in Index : /\ slots'[j].key = slots[j].key
                       /\ slots'[j].val = IF j = c THEN pc.val ELSE slots[j].val
  <2>1. slots[c] \in SlotType
    BY <1>2
  <2> DEFINE v == pc.inc.val
  <2>2. slots' = [slots EXCEPT ![c] = [slots[c] EXCEPT !.val = v]]
    BY <1>1
  <2> HIDE DEF v
  <2>3. [slots[c] EXCEPT !.val = v].val = v /\ [slots[c] EXCEPT !.val = v].key = slots[c].key
    BY <2>1 DEF SlotType
  <2>4. QED
    BY <1>2, <1>5, <2>2, <2>3 DEF v
<1>7. ASSUME NEW k \in Keys, NEW v \in Vals
      PROVE  Holds(k, v)' <=> IF k = pc.key THEN v = pc.val ELSE Holds(k, v)
  <2>1. Holds(k, v) <=> \E j \in Index : slots[j].key = k /\ slots[j].val = v
    BY <1>2, <1>5 DEF Holds, Carried
  <2>2. Holds(k, v)' <=> \E j \in Index : slots'[j].key = k /\ slots'[j].val = v
    BY <1>3 DEF Holds
  <2>3. \A j \in Index : slots[j].key = pc.key => j = c
    BY <1>1, <1>2, <1>5 DEF IInv, KeysApart
  <2>4. slots[c].key = pc.key
    BY <1>1, <1>5
  <2> HIDE DEF c
  <2>5. QED
    BY <1>2, <1>6, <2>1, <2>2, <2>3, <2>4
<1>8. \E j \in Index : slots[j].key = pc.key
  BY <1>1, <1>2, <1>5
<1>9. QED
  BY <1>1, <1>4, <1>5, <1>7, <1>8, TakesEffect

LEMMA ProbeOnMaps ==
  ASSUME IInv, IInv', InsertProbe, slots[pc.at].psl >= pc.inc.psl
  PROVE  UNCHANGED Abstract!vars
<1>1. pc.op = "insert" /\ pc.at \in Index /\ slots[pc.at].psl \in Int /\ pc.inc.psl \in Int
  BY AtInsert, CapFacts DEF InsertProbe, Inserting, IInv, TypeOK, TableTypes, SlotType, Index
<1>2. /\ UNCHANGED <<given, slots>>
      /\ pc' = [pc EXCEPT !.inc.psl = @ + 1, !.at = Wrap(@ + 1), !.i = @ + 1]
  BY <1>1 DEF InsertProbe
<1>3. pc \in [op : {"insert"}, key : Keys, val : Vals, inc : [key : Keys, val : Vals, psl : Index],
              at : Index, i : Index, displaced : BOOLEAN]
  BY <1>1 DEF IInv, Inserts
<1>4. /\ pc'.op = "insert" /\ pc'.key = pc.key /\ pc'.val = pc.val /\ pc'.displaced = pc.displaced
      /\ pc'.inc.key = pc.inc.key /\ pc'.inc.val = pc.inc.val
  BY <1>2, <1>3
<1>5. call' = call
  BY <1>1, <1>4, CallIs, CallIsThen DEF Carried
<1>6. \A k \in Keys : \A v \in Vals : Holds(k, v)' <=> Holds(k, v)
  BY <1>1, <1>2, <1>4, HoldsKept DEF Hole, Carried
<1>7. QED
  BY <1>2, <1>5, <1>6, IInvMapIs, IInvMapIsThen, Stutters

LEMMA ProbeSwapMaps ==
  ASSUME IInv, IInv', InsertProbe, slots[pc.at].psl < pc.inc.psl
  PROVE  Abstract!Next \/ UNCHANGED Abstract!vars
<1> DEFINE c == pc.at
           e == pc.inc
           o == slots[c]
           n == o.psl + 1
<1>1. /\ pc.op = "insert" /\ Occupied(c) /\ given' = given
      /\ slots' = [slots EXCEPT ![c] = e]
      /\ pc' = [pc EXCEPT !.inc = [o EXCEPT !.psl = n], !.at = Wrap(@ + 1), !.i = @ + 1, !.displaced = TRUE]
  BY DEF InsertProbe, Inserting
<1>2. /\ c \in Index /\ Hole = {} /\ \A j \in Index : slots[j].key # e.key
      /\ slots \in [Index -> SlotType] /\ o \in SlotType
      /\ pc \in [op : {"insert"}, key : Keys, val : Vals, inc : [key : Keys, val : Vals, psl : Index],
                 at : Index, i : Index, displaced : BOOLEAN]
  BY <1>1, AtInsert DEF IInv, TypeOK, TableTypes, Inserts
<1>3. /\ pc'.op = "insert" /\ pc'.displaced /\ pc'.inc.key = o.key /\ pc'.inc.val = o.val
  <2> HIDE DEF o, n
  <2>1. [o EXCEPT !.psl = n].key = o.key /\ [o EXCEPT !.psl = n].val = o.val
    BY <1>2 DEF SlotType
  <2>2. QED
    BY <1>1, <1>2, <2>1
<1>4. Index' = Index /\ Hole' = {} /\ Carried' /\ call' = Abstract!Done("new", None)
  BY <1>1, <1>3, SameTable, CallIsThen DEF Hole, Carried
<1>5. ASSUME NEW k \in Keys, NEW v \in Vals
      PROVE  Holds(k, v)' <=> \/ e.key = k /\ e.val = v
                              \/ \E j \in Index : slots[j].key = k /\ slots[j].val = v
  <2>1. \A j \in Index : slots'[j] = IF j = c THEN e ELSE slots[j]
    BY <1>1, <1>2
  <2>2. Holds(k, v)' <=> \/ \E j \in Index : slots'[j].key = k /\ slots'[j].val = v
                         \/ o.key = k /\ o.val = v
    BY <1>3, <1>4 DEF Holds
  <2>3. o = slots[c]
    OBVIOUS
  <2> HIDE DEF c, e, o
  <2>4. QED
    BY <1>2, <2>1, <2>2, <2>3
<1>6. CASE pc.displaced
  <2>1. Carried /\ call' = call
    BY <1>1, <1>4, <1>6, CallIs DEF Carried
  <2>2. \A k \in Keys : \A v \in Vals : Holds(k, v)' <=> Holds(k, v)
    BY <1>2, <1>5, <2>1 DEF Holds
  <2>3. QED
    BY <1>1, <2>1, <2>2, IInvMapIs, IInvMapIsThen, Stutters
<1>7. CASE ~pc.displaced
  <2>1. e.key = pc.key /\ e.val = pc.val
    BY <1>1, <1>7 DEF IInv, Inserts, Entry
  <2>2. ASSUME NEW k \in Keys, NEW v \in Vals
        PROVE  Holds(k, v)' <=> IF k = pc.key THEN v = pc.val ELSE Holds(k, v)
    <3>1. Holds(k, v) <=> \E j \in Index : slots[j].key = k /\ slots[j].val = v
      BY <1>2, <1>7 DEF Holds, Carried
    <3>2. QED
      BY <3>1, <2>1, <1>2, <1>5
  <2>3. ~\E j \in Index : slots[j].key = pc.key
    BY <1>2, <2>1
  <2>4. QED
    BY <1>1, <1>4, <1>7, <2>2, <2>3, TakesEffect
<1>8. QED
  BY <1>6, <1>7

LEMMA InsertProbeMaps ==
  ASSUME IInv, IInv', InsertProbe
  PROVE  Abstract!Next \/ UNCHANGED Abstract!vars
<1>1. slots[pc.at].psl \in Int /\ pc.inc.psl \in Int
  BY AtInsert, CapFacts DEF InsertProbe, Inserting, IInv, TypeOK, TableTypes, SlotType, Index
<1>2. QED
  BY <1>1, ProbeOnMaps, ProbeSwapMaps

LEMMA SeekStartMaps ==
  ASSUME IInv, IInv', SeekStart
  PROVE  UNCHANGED Abstract!vars
<1>1. /\ pc.op = "called" /\ pc.what \in Searches /\ UNCHANGED <<given, slots>>
      /\ pc'.op = "seek" /\ pc'.what = pc.what /\ pc'.key = pc.key
  BY DEF SeekStart
<1>2. pc.val = None
  BY <1>1 DEF IInv, Operations, Searches
<1>3. call' = call
  BY <1>1, <1>2, CallIs, CallIsThen
<1>4. \A k \in Keys : \A v \in Vals : Holds(k, v)' <=> Holds(k, v)
  BY <1>1, HoldsKept DEF Hole, Carried
<1>5. QED
  BY <1>1, <1>3, <1>4, IInvMapIs, IInvMapIsThen, Stutters

LEMMA SeekOnMaps ==
  ASSUME IInv, IInv', SeekOn
  PROVE  UNCHANGED Abstract!vars
<1>1. /\ pc.op = "seek" /\ UNCHANGED <<given, slots>>
      /\ pc' = [pc EXCEPT !.psl = @ + 1, !.at = Wrap(@ + 1)]
  BY DEF SeekOn, Seeking
<1>2. pc \in [op : {"seek"}, what : Searches, key : Keys, at : Index, psl : 0 .. Cap]
  BY <1>1 DEF IInv, Seeks
<1>3. pc'.op = "seek" /\ pc'.what = pc.what /\ pc'.key = pc.key
  BY <1>1, <1>2
<1>4. call' = call
  BY <1>1, <1>3, CallIs, CallIsThen
<1>5. \A k \in Keys : \A v \in Vals : Holds(k, v)' <=> Holds(k, v)
  BY <1>1, <1>3, HoldsKept DEF Hole, Carried
<1>6. QED
  BY <1>1, <1>4, <1>5, IInvMapIs, IInvMapIsThen, Stutters

LEMMA SeekAbsentMaps ==
  ASSUME IInv, IInv', SeekAbsent
  PROVE  Abstract!Next
<1>1. /\ pc.op = "seek" /\ UNCHANGED <<given, slots>> /\ pc' = Ret("none", None)
      /\ pc.psl = Cap \/ ~Occupied(pc.at) \/ slots[pc.at].psl < pc.psl
  BY DEF SeekAbsent
<1>2. /\ pc.what \in Searches /\ pc.key \in Keys /\ pc.psl \in 0 .. Cap
      /\ pc.at = Pos(pc.key, pc.psl) /\ Unseen(pc.key, pc.psl)
  BY <1>1 DEF IInv, Seeks
<1>3. pc'.op = "return" /\ pc'.is = "none" /\ pc'.val = None /\ Hole = {} /\ ~Carried
  BY <1>1, Returned DEF Hole, Carried
<1>4. call = Abstract!Pending(pc.what, pc.key, None) /\ call' = Abstract!Done("none", None)
  BY <1>1, <1>3, CallIs, CallIsThen
<1>5. \A j \in Index : slots[j].key # pc.key
  BY <1>1, <1>2, Absent DEF IInv
<1>6. pc.key \notin Abstract!Present
  BY <1>2, <1>3, <1>5, PresentIs
<1>7. \A k \in Keys : \A v \in Vals : Holds(k, v)' <=> Holds(k, v)
  BY <1>1, <1>3, HoldsKept DEF Hole, Carried
<1>8. map' = map
  BY <1>7, IInvMapIs, IInvMapIsThen, SameMap
<1>9. map' = [map EXCEPT ![pc.key] = None]
  <2>1. ASSUME NEW v \in Vals PROVE ~Holds(pc.key, v)
    BY <1>3, <1>5 DEF Holds
  <2>2. ASSUME NEW k \in Keys, NEW v \in Vals
        PROVE  Holds(k, v)' <=> IF k = pc.key THEN v = None ELSE Holds(k, v)
    BY <1>7, <2>1, HashMapAssumption
  <2>3. QED
    BY <1>2, <2>2, IInvMapIs, IInvMapIsThen, SetMap
<1>10. Abstract!Lookup \/ Abstract!Remove
  <2>1. call.phase = "pending" /\ call.op = pc.what /\ call.key = pc.key
    BY <1>4 DEF Abstract!Pending
  <2> HIDE DEF map, call
  <2>2. CASE pc.what = "remove"
    BY <2>1, <2>2, <1>4, <1>6, <1>9 DEF Abstract!Remove
  <2>3. CASE pc.what # "remove"
    BY <2>1, <2>3, <1>2, <1>4, <1>6, <1>8 DEF Abstract!Lookup, Searches
  <2>4. QED
    BY <2>2, <2>3
<1>11. Limit' = Limit
  BY <1>1, SameTable
<1>12. QED
  BY <1>10, <1>11 DEF Abstract!Next

(* A search that has met its key has met its value in the map. *)
LEMMA MetIsMapped ==
  ASSUME IInv, pc.op = "seek", Meets(pc.key)
  PROVE  pc.key \in Abstract!Present /\ map[pc.key] = slots[pc.at].val
<1>1. /\ pc.key \in Keys /\ pc.at \in Index /\ slots[pc.at].key = pc.key
      /\ slots[pc.at].val \in Vals /\ Hole = {}
  BY Met
<1>2. Holds(pc.key, slots[pc.at].val)
  BY <1>1 DEF Holds
<1>3. QED
  BY <1>1, <1>2, PresentIs, IInvMapIs DEF MapIs

LEMMA SeekFoundMaps ==
  ASSUME IInv, IInv', SeekFound
  PROVE  Abstract!Next
<1>1. /\ pc.op = "seek" /\ pc.what # "remove" /\ Meets(pc.key)
      /\ UNCHANGED <<given, slots>> /\ pc' = Ret("some", slots[pc.at].val)
  BY DEF SeekFound
<1>2. pc.what \in Searches
  BY <1>1 DEF IInv, Seeks
<1>3. pc'.op = "return" /\ pc'.is = "some" /\ pc'.val = slots[pc.at].val
  BY <1>1, Returned
<1>4. /\ call = Abstract!Pending(pc.what, pc.key, None)
      /\ call' = Abstract!Done("some", slots[pc.at].val)
  BY <1>1, <1>3, CallIs, CallIsThen
<1>5. pc.key \in Abstract!Present /\ map[pc.key] = slots[pc.at].val
  BY <1>1, MetIsMapped
<1>6. \A k \in Keys : \A v \in Vals : Holds(k, v)' <=> Holds(k, v)
  BY <1>1, <1>3, HoldsKept DEF Hole, Carried
<1>7. map' = map /\ Limit' = Limit
  BY <1>1, <1>6, IInvMapIs, IInvMapIsThen, SameMap, SameTable
<1>8. call.phase = "pending" /\ call.op = pc.what /\ call.key = pc.key
  BY <1>4 DEF Abstract!Pending
<1> HIDE DEF map, call
<1>9. Abstract!Lookup
  BY <1>1, <1>2, <1>4, <1>5, <1>7, <1>8 DEF Abstract!Lookup, Searches
<1>10. QED
  BY <1>7, <1>9 DEF Abstract!Next

LEMMA RemoveFoundMaps ==
  ASSUME IInv, IInv', RemoveFound
  PROVE  Abstract!Next
<1>1. /\ pc.op = "seek" /\ pc.what = "remove" /\ Meets(pc.key) /\ UNCHANGED <<given, slots>>
      /\ pc'.op = "shift" /\ pc'.curr = pc.at /\ pc'.old = slots[pc.at].val
  BY DEF RemoveFound
<1>2. /\ pc.key \in Keys /\ pc.at \in Index /\ slots[pc.at].key = pc.key /\ Occupied(pc.at) /\ Hole = {}
  BY <1>1, Met
<1>3. Hole' = {pc.at} /\ ~Carried /\ ~Carried' /\ Index' = Index /\ Limit' = Limit
  BY <1>1, SameTable DEF Hole, Carried
<1>4. /\ call = Abstract!Pending("remove", pc.key, None)
      /\ call' = Abstract!Done("some", slots[pc.at].val)
  BY <1>1, CallIs, CallIsThen
<1>5. pc.key \in Abstract!Present /\ map[pc.key] = slots[pc.at].val
  BY <1>1, MetIsMapped
<1>6. map' = [map EXCEPT ![pc.key] = None]
  <2>1. ASSUME NEW k \in Keys, NEW v \in Vals
        PROVE  Holds(k, v)' <=> IF k = pc.key THEN v = None ELSE Holds(k, v)
    <3>1. Holds(k, v) <=> \E j \in Index : slots[j].key = k /\ slots[j].val = v
      BY <1>2, <1>3 DEF Holds
    <3>2. Holds(k, v)' <=> \E j \in Index \ {pc.at} : slots[j].key = k /\ slots[j].val = v
      BY <1>1, <1>3 DEF Holds
    <3>3. \A j \in Index : slots[j].key = pc.key => j = pc.at
      BY <1>2 DEF IInv, KeysApart
    <3>4. QED
      BY <3>1, <3>2, <3>3, <1>2, HashMapAssumption
  <2>2. QED
    BY <1>2, <2>1, IInvMapIs, IInvMapIsThen, SetMap
<1>7. call.phase = "pending" /\ call.op = "remove" /\ call.key = pc.key
  BY <1>4 DEF Abstract!Pending
<1> HIDE DEF map, call
<1>8. Abstract!Remove
  BY <1>4, <1>5, <1>6, <1>7 DEF Abstract!Remove
<1>9. QED
  BY <1>3, <1>8 DEF Abstract!Next

LEMMA RemoveShiftMaps ==
  ASSUME IInv, IInv', RemoveShift
  PROVE  UNCHANGED Abstract!vars
<1> DEFINE c == pc.curr
           x == ShiftNext
           o == slots[x]
           p == o.psl - 1
<1>1. /\ pc.op = "shift" /\ pc.i < Cap - 1 /\ given' = given
      /\ slots' = [slots EXCEPT ![c] = [o EXCEPT !.psl = p]]
      /\ pc' = [pc EXCEPT !.curr = x, !.i = @ + 1]
  <2>1. pc.op = "shift" /\ ~ShiftStops
    BY DEF RemoveShift
  <2>2. pc.i \in Int /\ Cap - 1 \in Int
    BY <2>1, AtShift, CapFacts DEF IInv
  <2>3. QED
    BY <2>1, <2>2 DEF RemoveShift, ShiftStops
<1>2. /\ pc \in [op : {"shift"}, curr : Index, i : Index, old : Vals] /\ pc.i \in Nat
      /\ c \in Index /\ x \in Index /\ (x = c <=> Cap = 1) /\ Hole = {c}
      /\ slots \in [Index -> SlotType]
  BY <1>1, AtShift DEF IInv, TypeOK, TableTypes
<1>3. x # c
  BY <1>1, <1>2, CapFacts DEF IInv
<1>4. pc'.op = "shift" /\ pc'.curr = x /\ pc'.old = pc.old
  BY <1>1, <1>2
<1>5. Hole' = {x} /\ ~Carried /\ ~Carried' /\ Index' = Index /\ call' = call
  BY <1>1, <1>4, SameTable, CallIs, CallIsThen DEF Hole, Carried
<1>6. \A j \in Index : /\ slots'[j].key = IF j = c THEN slots[x].key ELSE slots[j].key
                       /\ slots'[j].val = IF j = c THEN slots[x].val ELSE slots[j].val
  <2>1. o \in SlotType
    BY <1>2
  <2> HIDE DEF p
  <2>2. [o EXCEPT !.psl = p].key = o.key /\ [o EXCEPT !.psl = p].val = o.val
    BY <2>1 DEF SlotType
  <2>3. QED
    BY <1>1, <1>2, <2>2
<1>7. \A k \in Keys : \A v \in Vals : Holds(k, v)' <=> Holds(k, v)
  <2> SUFFICES ASSUME NEW k \in Keys, NEW v \in Vals PROVE Holds(k, v)' <=> Holds(k, v)
    OBVIOUS
  <2>1. Holds(k, v) <=> \E j \in Index \ {c} : slots[j].key = k /\ slots[j].val = v
    BY <1>2, <1>5 DEF Holds
  <2>2. Holds(k, v)' <=> \E j \in Index \ {x} : slots'[j].key = k /\ slots'[j].val = v
    BY <1>5 DEF Holds
  <2> HIDE DEF c, x
  <2>3. ASSUME Holds(k, v) PROVE Holds(k, v)'
    <3>1. PICK j \in Index \ {c} : slots[j].key = k /\ slots[j].val = v
      BY <2>1, <2>3
    <3>2. CASE j = x
      BY <3>1, <3>2, <2>2, <1>2, <1>3, <1>6
    <3>3. CASE j # x
      BY <3>1, <3>3, <2>2, <1>6
    <3>4. QED
      BY <3>2, <3>3
  <2>4. ASSUME Holds(k, v)' PROVE Holds(k, v)
    <3>1. PICK j \in Index \ {x} : slots'[j].key = k /\ slots'[j].val = v
      BY <2>2, <2>4
    <3>2. QED
      BY <3>1, <2>1, <1>2, <1>3, <1>6
  <2>5. QED
    BY <2>3, <2>4
<1>8. QED
  BY <1>1, <1>5, <1>7, IInvMapIs, IInvMapIsThen, Stutters

LEMMA RemoveFinishMaps ==
  ASSUME IInv, IInv', RemoveFinish
  PROVE  UNCHANGED Abstract!vars
<1> DEFINE c == pc.curr
<1>1. /\ pc.op = "shift" /\ given' = given
      /\ slots' = [slots EXCEPT ![c] = Vacant] /\ pc' = Ret("some", pc.old)
  BY DEF RemoveFinish
<1>2. c \in Index /\ Hole = {c} /\ slots \in [Index -> SlotType]
  BY <1>1, AtShift DEF IInv, TypeOK, TableTypes
<1>3. /\ pc'.op = "return" /\ pc'.is = "some" /\ pc'.val = pc.old
      /\ Hole' = {} /\ Index' = Index /\ ~Carried /\ ~Carried'
  BY <1>1, Returned, NoLoop, SameTable DEF Carried
<1>4. call' = call
  BY <1>1, <1>3, CallIs, CallIsThen
<1>5. \A k \in Keys : \A v \in Vals : Holds(k, v)' <=> Holds(k, v)
  <2> SUFFICES ASSUME NEW k \in Keys, NEW v \in Vals PROVE Holds(k, v)' <=> Holds(k, v)
    OBVIOUS
  <2>1. Holds(k, v) <=> \E j \in Index \ {c} : slots[j].key = k /\ slots[j].val = v
    BY <1>2, <1>3 DEF Holds
  <2>2. Holds(k, v)' <=> \E j \in Index : slots'[j].key = k /\ slots'[j].val = v
    BY <1>3 DEF Holds
  <2>3. \A j \in Index : slots'[j] = IF j = c THEN Vacant ELSE slots[j]
    BY <1>1, <1>2
  <2>4. Vacant.key # k
    BY HashMapAssumption DEF Vacant, Entry
  <2> HIDE DEF c
  <2>5. QED
    BY <1>2, <2>1, <2>2, <2>3, <2>4
<1>6. QED
  BY <1>1, <1>4, <1>5, IInvMapIs, IInvMapIsThen, Stutters

(* Steps of an iteration, and steps of nothing. *)
LEMMA SameMaps ==
  ASSUME IInv, IInv', UNCHANGED <<given, slots, pc>>
  PROVE  UNCHANGED Abstract!vars
<1>1. call' = call /\ Hole' = Hole /\ Carried' = Carried
  BY DEF call, Hole, Carried
<1>2. \A k \in Keys : \A v \in Vals : Holds(k, v)' <=> Holds(k, v)
  BY <1>1, HoldsKept
<1>3. QED
  BY <1>1, <1>2, IInvMapIs, IInvMapIsThen, Stutters

LEMMA NextMaps ==
  ASSUME IInv, IInv', [Next]_vars
  PROVE  [Abstract!Next]_(Abstract!vars)
<1>1. ASSUME NEW c \in Abstract!Calls, Call(c[1], c[2], c[3]) PROVE Abstract!Next
  BY <1>1, CallMaps
<1>2. CASE Clear
  BY <1>2, ClearMaps
<1>3. CASE InsertFull \/ InsertStart \/ InsertPlace \/ InsertUpdate \/ InsertProbe
  BY <1>3, InsertFullMaps, InsertStartMaps, InsertPlaceMaps, InsertUpdateMaps, InsertProbeMaps
<1>4. CASE SeekStart \/ SeekAbsent \/ SeekFound \/ SeekOn
  BY <1>4, SeekStartMaps, SeekAbsentMaps, SeekFoundMaps, SeekOnMaps
<1>5. CASE RemoveFound \/ RemoveShift \/ RemoveFinish
  BY <1>5, RemoveFoundMaps, RemoveShiftMaps, RemoveFinishMaps
<1>6. CASE IterStart \/ IterNext
  BY <1>6, SameMaps DEF IterStart, IterNext
<1>7. CASE Return
  BY <1>7, ReturnMaps
<1>8. CASE UNCHANGED vars
  BY <1>8, SameMaps DEF vars
<1>9. QED
  BY <1>1, <1>2, <1>3, <1>4, <1>5, <1>6, <1>7, <1>8 DEF Next

(* The table is a map: every operation returns what the map would, no      *)
(* entry is lost or doubled by the swaps of an insert or the shifts of a   *)
(* removal, and a search that gives up early would not have found its key. *)
THEOREM HashMapImplements == Spec => Implements
<1>1. Init => Abstract!Init
  BY InitMaps
<1>2. IInv /\ IInv' /\ [Next]_vars => [Abstract!Next]_(Abstract!vars)
  BY NextMaps
<1>3. QED
  BY <1>1, <1>2, SpecIInv, PTL DEF Spec, Implements, Abstract!Spec
=============================================================================
