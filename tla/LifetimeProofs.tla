--------------------------- MODULE LifetimeProofs ---------------------------
(***************************************************************************)
(* The borrow check is exact, for any number of owners, threads,           *)
(* translation units and borrows, when the tokens of a family of owners    *)
(* come from one counter, cannot coincide, and are drawn atomically or one *)
(* at a time.                                                              *)
(*                                                                         *)
(* CheckIsExact is not inductive: it says nothing of where the ids it      *)
(* compares come from.  IInv adds that every id in the system is the token *)
(* of a recorded birth of its own family, and that no two births share a   *)
(* counter value of one translation unit.                                  *)
(***************************************************************************)
EXTENDS Lifetime, SequenceTheorems, TLAPS

BirthsPast ==
  \A i \in 1 .. Len(births) :
    /\ births[i].c < counter[births[i].tu]
    /\ births[i].tu \in StampTU[births[i].owner]
    /\ births[i].addr \in StampAddr[births[i].owner]

BirthsUnique ==
  \A i, j \in 1 .. Len(births) :
    (births[i].tu = births[j].tu /\ births[i].c = births[j].c) => i = j

LoadedAlone ==
  \A t \in Threads : pc[t].at = "loaded" =>
    LET b == pc[t].birth IN
      /\ Serialised /\ b.tu \in PlainTUs
      /\ b.c = counter[b.tu]
      /\ b.owner = pc[t].owner
      /\ b.tu \in StampTU[b.owner]
      /\ b.addr \in StampAddr[b.owner]
      /\ Len(births) < MaxDraws
      /\ \A s \in Threads : s # t => pc[s] = Idle

DrawnBirth ==
  \A t \in Threads : pc[t].at = "drawn" =>
    /\ pc[t].inc \in 1 .. Len(births)
    /\ births[pc[t].inc].owner = pc[t].owner

(* id is the token of birth i, and that birth is of the family of o. *)
Certified(id, i, o) ==
  /\ i \in 1 .. Len(births)
  /\ Family(births[i].owner, o)
  /\ id = Token(births[i].c, births[i].addr)

OwnersCertified ==
  \A o \in Owners :
    /\ lt[o].inc = 0 => lt[o] = ZeroToken
    /\ lt[o].inc # 0 => Certified(lt[o].id, lt[o].inc, o)

BorrowsCertified ==
  \A b \in Borrows :
    IF Tracked(b)
    THEN /\ borrow[b].source # None
         /\ Certified(borrow[b].id, borrow[b].inc, borrow[b].source)
    ELSE borrow[b].id = RegionIdStatic

IInv ==
  /\ TypeOK
  /\ BirthsPast
  /\ BirthsUnique
  /\ LoadedAlone
  /\ DrawnBirth
  /\ OwnersCertified
  /\ BorrowsCertified

-----------------------------------------------------------------------------
LEMMA FamilyEquivalence ==
  ASSUME NEW o \in Owners, NEW p \in Owners, NEW q \in Owners
  PROVE  /\ Family(o, o)
         /\ Family(o, p) => Family(p, o)
         /\ Family(o, p) /\ Family(p, q) => Family(o, q)
BY DEF Family

(* canon_lifetime_next_id_ never hands out REGION_ID_STATIC. *)
LEMMA TokenType ==
  ASSUME NEW c \in Counters, NEW a \in Addresses
  PROVE  Token(c, a) \in Nat \ {RegionIdStatic}
BY XorAssumption DEF Token, RegionIdStatic

LEMMA AddressOf ==
  ASSUME NEW o \in Owners, NEW a \in StampAddr[o]
  PROVE  a \in Addresses
BY DEF Addresses

LEMMA BirthFacts ==
  ASSUME TypeOK, BirthsPast, NEW i \in 1 .. Len(births)
  PROVE  /\ births[i] \in BirthType /\ births[i].owner \in Owners
         /\ births[i].tu \in TUs /\ births[i].c \in Counters
         /\ births[i].addr \in Addresses
<1>1. births[i] \in BirthType
  BY DEF TypeOK
<1>2. births[i].owner \in Owners /\ births[i].addr \in StampAddr[births[i].owner]
  BY <1>1 DEF BirthsPast, BirthType
<1>3. QED
  BY <1>1, <1>2, AddressOf DEF BirthType

(* Two births of one family with the same token are the same birth. *)
LEMMA TokenIdentifiesBirth ==
  ASSUME IInv, OneCounter, TokensApart,
         NEW o \in Owners, NEW i, NEW j, NEW x, NEW y,
         Certified(x, i, o), Certified(y, j, o)
  PROVE  x = y <=> i = j
<1> DEFINE p == births[i].owner
           q == births[j].owner
<1>1. /\ i \in 1 .. Len(births) /\ j \in 1 .. Len(births)
      /\ births[i] \in BirthType /\ births[j] \in BirthType
  BY DEF Certified, IInv, TypeOK
<1>2. p \in Owners /\ q \in Owners /\ Family(p, q)
  BY <1>1, FamilyEquivalence DEF Certified, BirthType
<1>3. births[i].tu = births[j].tu
  BY <1>1, <1>2 DEF OneCounter, IInv, BirthsPast
<1>4. x = y => births[i].c = births[j].c
  <2>1. /\ births[i].addr \in StampAddr[p] /\ births[j].addr \in StampAddr[q]
        /\ births[i].c \in Counters /\ births[j].c \in Counters
    BY <1>1 DEF IInv, BirthsPast, BirthType
  <2>2. Token(births[i].c, births[i].addr) = Token(births[j].c, births[j].addr)
          => births[i].c = births[j].c
    BY <1>2, <2>1 DEF TokensApart
  <2>3. QED
    BY <2>2 DEF Certified
<1>5. QED
  BY <1>1, <1>3, <1>4 DEF IInv, BirthsUnique, Certified

-----------------------------------------------------------------------------
LEMMA InitIInv == Init => IInv
<1> SUFFICES ASSUME Init PROVE IInv
  OBVIOUS
<1>1. TypeOK
  BY ConstantsAssumption DEF Init, TypeOK, PcType, Idle, Ids, RegionIdStatic, ZeroToken
<1>2. OwnersCertified /\ BorrowsCertified
  BY DEF Init, OwnersCertified, BorrowsCertified, Tracked, ZeroToken
<1>3. QED
  BY <1>1, <1>2, ConstantsAssumption
     DEF Init, IInv, BirthsPast, BirthsUnique, LoadedAlone, DrawnBirth, Idle

-----------------------------------------------------------------------------
(* A step that leaves the births and the counters alone keeps what is said *)
(* of them.                                                                *)
LEMMA BirthsKept ==
  ASSUME IInv, UNCHANGED <<counter, births>>
  PROVE  BirthsPast' /\ BirthsUnique'
BY DEF IInv, BirthsPast, BirthsUnique

(* Recording a birth keeps the certificates given on the earlier ones. *)
LEMMA CertifiedKept ==
  ASSUME TypeOK, NEW b \in BirthType, births' = Append(births, b),
         NEW x, NEW i, NEW o, Certified(x, i, o)
  PROVE  Certified(x, i, o)'
BY DEF TypeOK, Certified

(* A new birth takes a counter value no earlier one of its TU had. *)
LEMMA BirthRecorded ==
  ASSUME IInv, NEW u \in TUs, NEW o \in Owners, u \in StampTU[o],
         NEW a \in StampAddr[o], counter[u] \in Counters,
         Len(births) < MaxDraws,
         births' = Append(births, Birth(u, counter[u], o, a)),
         counter' = [counter EXCEPT ![u] = counter[u] + 1]
  PROVE  /\ BirthsPast' /\ BirthsUnique'
         /\ OwnersCertified /\ UNCHANGED lt => OwnersCertified'
         /\ BorrowsCertified /\ UNCHANGED borrow => BorrowsCertified'
         /\ counter' \in [TUs -> 1 .. MaxDraws + 1]
         /\ births' \in Seq(BirthType) /\ Len(births') <= MaxDraws
         /\ Len(births') = Len(births) + 1
         /\ births'[Len(births')] = Birth(u, counter[u], o, a)
         /\ \A i \in 1 .. Len(births) : births'[i] = births[i]
<1> DEFINE b == Birth(u, counter[u], o, a)
<1>0. b \in BirthType
  BY AddressOf, ConstantsAssumption DEF Birth, BirthType
<1>1. /\ births' \in Seq(BirthType) /\ Len(births') = Len(births) + 1
      /\ \A i \in 1 .. Len(births) : births'[i] = births[i]
      /\ births'[Len(births) + 1] = b
  BY <1>0 DEF IInv, TypeOK
<1>2. /\ counter \in [TUs -> 1 .. MaxDraws + 1]
      /\ counter' \in [TUs -> 1 .. MaxDraws + 1]
      /\ counter'[u] = counter[u] + 1
      /\ \A v \in TUs \ {u} : counter'[v] = counter[v]
  BY ConstantsAssumption DEF IInv, TypeOK, Counters
<1>3. \A i \in 1 .. Len(births) : births[i] \in BirthType
  BY DEF IInv, TypeOK
<1>4. \A i \in 1 .. Len(births) :
        births[i].c \in Nat /\ births[i].tu \in TUs
  BY <1>3 DEF BirthType, Counters
<1>5. b.tu = u /\ b.c = counter[u] /\ b.owner = o /\ b.addr = a
  BY DEF Birth
<1>6. BirthsPast'
  BY <1>1, <1>2, <1>4, <1>5, ConstantsAssumption DEF IInv, BirthsPast, TypeOK
<1>7. BirthsUnique'
  BY <1>1, <1>2, <1>4, <1>5, ConstantsAssumption
     DEF IInv, BirthsPast, BirthsUnique, TypeOK
<1>8. ASSUME OwnersCertified, UNCHANGED lt PROVE OwnersCertified'
  BY <1>0, <1>8, CertifiedKept DEF IInv, OwnersCertified
<1>9. ASSUME BorrowsCertified, UNCHANGED borrow PROVE BorrowsCertified'
  BY <1>0, <1>9, CertifiedKept DEF IInv, BorrowsCertified, Tracked
<1>10. QED
  BY <1>1, <1>2, <1>6, <1>7, <1>8, <1>9, ConstantsAssumption DEF IInv, TypeOK

-----------------------------------------------------------------------------
LEMMA LoadCounterStep ==
  ASSUME IInv, Ladder, NEW t \in Threads, NEW o \in Owners, NEW u \in StampTU[o],
         NEW a \in StampAddr[o], NEW opens \in BOOLEAN,
         LoadCounter(t, u, o, a, opens)
  PROVE  IInv'
<1> DEFINE b == Birth(u, counter[u], o, a)
<1>1. b \in BirthType /\ b.tu = u /\ b.c = counter[u] /\ b.owner = o /\ b.addr = a
  BY ConstantsAssumption DEF LoadCounter, MayStamp, Birth, BirthType
<1>2. \A s \in Threads : s # t => pc'[s] = Idle
  BY DEF LoadCounter, MayStamp, Ladder, IInv, TypeOK
<1>3. /\ pc'[t] = [at |-> "loaded", owner |-> o, opens |-> opens, birth |-> b]
      /\ pc' \in [Threads -> PcType]
  BY <1>1 DEF LoadCounter, IInv, TypeOK, PcType
<1>4. TypeOK'
  BY <1>3 DEF LoadCounter, IInv, TypeOK
<1>5. LoadedAlone'
  <2>1. Serialised /\ u \in PlainTUs
    BY DEF LoadCounter, Ladder
  <2>2. QED
    BY <1>1, <1>2, <1>3, <2>1 DEF LoadedAlone, LoadCounter, MayStamp, Idle
<1>6. DrawnBirth'
  BY <1>2, <1>3 DEF DrawnBirth, Idle
<1>7. BirthsPast' /\ BirthsUnique'
  BY BirthsKept DEF LoadCounter
<1>8. OwnersCertified' /\ BorrowsCertified'
  BY DEF LoadCounter, IInv, OwnersCertified, BorrowsCertified, Tracked, Certified
<1>9. QED
  BY <1>4, <1>5, <1>6, <1>7, <1>8 DEF IInv

LEMMA StoreCounterStep ==
  ASSUME IInv, NEW t \in Threads, StoreCounter(t)
  PROVE  IInv'
<1> DEFINE b == pc[t].birth
           o == pc[t].owner
<1>1. /\ pc[t] \in [at : {"loaded"}, owner : Owners, opens : BOOLEAN, birth : BirthType]
      /\ b.c = counter[b.tu] /\ b.owner = o /\ o \in Owners
      /\ b.tu \in StampTU[o] /\ b.addr \in StampAddr[o]
      /\ b \in BirthType
      /\ \A s \in Threads : s # t => pc[s] = Idle
  BY DEF StoreCounter, IInv, LoadedAlone, TypeOK, PcType, Idle
<1>2. b = Birth(b.tu, counter[b.tu], o, b.addr) /\ b.tu \in TUs /\ b.c \in Counters
  BY <1>1 DEF Birth, BirthType
<1>3. Len(births) < MaxDraws
  BY DEF StoreCounter, IInv, LoadedAlone
<1>4. /\ counter' = [counter EXCEPT ![b.tu] = counter[b.tu] + 1]
      /\ births' = Append(births, Birth(b.tu, counter[b.tu], o, b.addr))
      /\ pc' = [pc EXCEPT ![t] = Drawn(o, pc[t].opens)]
      /\ UNCHANGED <<lt, borrow>>
  BY <1>1, <1>2 DEF StoreCounter
<1>5. /\ BirthsPast' /\ BirthsUnique' /\ OwnersCertified' /\ BorrowsCertified'
      /\ counter' \in [TUs -> 1 .. MaxDraws + 1]
      /\ births' \in Seq(BirthType) /\ Len(births') <= MaxDraws
      /\ Len(births') = Len(births) + 1
      /\ births'[Len(births')].owner = o
  <2> HIDE DEF b, o
  <2>1. counter[b.tu] \in Counters /\ o \in Owners
    BY <1>1, <1>2
  <2>2. QED
    BY <1>1, <1>2, <1>3, <1>4, <2>1, BirthRecorded DEF IInv, Birth
<1>6. /\ pc' \in [Threads -> PcType]
      /\ pc'[t] = Drawn(o, pc[t].opens)
      /\ \A s \in Threads : s # t => pc'[s] = Idle
  <2>1. Drawn(o, pc[t].opens) \in PcType
    BY <1>1, <1>3, ConstantsAssumption DEF Drawn, PcType, Counters, IInv, TypeOK
  <2>2. QED
    BY <1>1, <1>4, <2>1 DEF IInv, TypeOK
<1>7. LoadedAlone' /\ DrawnBirth'
  <2>1. /\ pc'[t].at = "drawn" /\ pc'[t].owner = o
        /\ pc'[t].inc = Len(births')
    BY <1>5, <1>6 DEF Drawn
  <2>2. Len(births') \in 1 .. Len(births')
    BY <1>5 DEF IInv, TypeOK
  <2> HIDE DEF b, o
  <2>3. \A s \in Threads : s # t => pc'[s].at = "idle"
    BY <1>6 DEF Idle
  <2>4. QED
    BY <1>5, <2>1, <2>2, <2>3 DEF LoadedAlone, DrawnBirth
<1>8. QED
  BY <1>4, <1>5, <1>6, <1>7 DEF IInv, TypeOK

LEMMA FetchAddStep ==
  ASSUME IInv, NEW t \in Threads, NEW o \in Owners, NEW u \in StampTU[o],
         NEW a \in StampAddr[o], NEW opens \in BOOLEAN,
         FetchAdd(t, u, o, a, opens)
  PROVE  IInv'
<1>1. /\ counter' = [counter EXCEPT ![u] = counter[u] + 1]
      /\ births' = Append(births, Birth(u, counter[u], o, a))
      /\ pc' = [pc EXCEPT ![t] = Drawn(o, opens)]
      /\ lt' = lt /\ borrow' = borrow
      /\ counter[u] \in Counters /\ Len(births) < MaxDraws
  BY DEF FetchAdd, MayStamp
<1>2. u \in TUs
  BY ConstantsAssumption
<1>3. /\ BirthsPast' /\ BirthsUnique' /\ OwnersCertified' /\ BorrowsCertified'
      /\ counter' \in [TUs -> 1 .. MaxDraws + 1]
      /\ births' \in Seq(BirthType) /\ Len(births') <= MaxDraws
      /\ Len(births') = Len(births) + 1
      /\ births'[Len(births')].owner = o
      /\ \A i \in 1 .. Len(births) : births'[i] = births[i]
  <2>1. Birth(u, counter[u], o, a).owner = o
    BY DEF Birth
  <2>2. QED
    BY <1>1, <1>2, <2>1, BirthRecorded DEF IInv
<1>4. Drawn(o, opens) \in PcType
  BY <1>1, ConstantsAssumption DEF Drawn, PcType, Counters, IInv, TypeOK
<1>5. pc' \in [Threads -> PcType]
  BY <1>1, <1>4 DEF IInv, TypeOK
<1>6. LoadedAlone'
  <2> SUFFICES ASSUME NEW s \in Threads, pc'[s].at = "loaded" PROVE FALSE
    BY DEF LoadedAlone
  <2>1. pc[s].at = "loaded" /\ s # t
    BY <1>1 DEF Drawn, IInv, TypeOK
  <2>2. QED
    BY <2>1 DEF FetchAdd, MayStamp, IInv, LoadedAlone
<1>7. DrawnBirth'
  BY <1>1, <1>3 DEF DrawnBirth, Drawn, IInv, TypeOK
<1>8. QED
  BY <1>1, <1>3, <1>5, <1>6, <1>7 DEF IInv, TypeOK

LEMMA StampStep ==
  ASSUME IInv, NEW t \in Threads, Stamp(t)
  PROVE  IInv'
<1> DEFINE o == pc[t].owner
           i == pc[t].inc
           new == [id |-> Token(births[i].c, births[i].addr),
                   open |-> lt[o].open \/ pc[t].opens, inc |-> i]
<1>1. /\ pc[t] \in [at : {"drawn"}, owner : Owners, opens : BOOLEAN, inc : Counters]
      /\ i \in 1 .. Len(births) /\ births[i].owner = o
  BY DEF Stamp, IInv, DrawnBirth, TypeOK, PcType, Idle
<1>2. /\ births[i] \in BirthType /\ o \in Owners
      /\ births[i].addr \in Addresses /\ births[i].c \in Counters
  BY <1>1, BirthFacts DEF IInv
<1>3. /\ new.id \in Ids /\ new.open \in BOOLEAN /\ new.inc \in 0 .. MaxDraws
      /\ new.inc # 0
  BY <1>1, <1>2, TokenType, ConstantsAssumption DEF Ids, IInv, TypeOK, Counters
<1>4. /\ lt' = [lt EXCEPT ![o] = new]
      /\ pc' = [pc EXCEPT ![t] = Idle]
      /\ UNCHANGED <<counter, borrow, births>>
  BY DEF Stamp
<1>5. TypeOK'
  BY <1>3, <1>4 DEF IInv, TypeOK, PcType
<1>6. LoadedAlone' /\ DrawnBirth'
  BY <1>4 DEF IInv, TypeOK, LoadedAlone, DrawnBirth, Idle
<1>7. Certified(new.id, new.inc, o)
  BY <1>1, <1>2, FamilyEquivalence DEF Certified
<1>8. OwnersCertified'
  <2> SUFFICES ASSUME NEW q \in Owners
               PROVE  /\ lt'[q].inc = 0 => lt'[q] = ZeroToken
                      /\ lt'[q].inc # 0 => Certified(lt[q].id, lt[q].inc, q)'
    BY DEF OwnersCertified
  <2>1. CASE q = o
    BY <1>3, <1>4, <1>7, <2>1 DEF IInv, TypeOK, Certified
  <2>2. CASE q # o
    BY <1>4, <2>2 DEF IInv, TypeOK, OwnersCertified, Certified
  <2>3. QED
    BY <2>1, <2>2
<1>9. BorrowsCertified'
  BY <1>4 DEF IInv, BorrowsCertified, Tracked, Certified
<1>10. QED
  BY <1>4, <1>5, <1>6, <1>8, <1>9, BirthsKept DEF IInv

(* Steps outside the stamping helpers: the generator rests. *)
LEMMA RestStep ==
  ASSUME IInv, UNCHANGED <<counter, pc, births>>,
         OwnersCertified', BorrowsCertified',
         lt' \in [Owners -> [id : Ids, open : BOOLEAN, inc : 0 .. MaxDraws]],
         borrow' \in [Borrows -> [source : Owners \cup {None}, id : Ids,
                                  inc : 0 .. MaxDraws]]
  PROVE  IInv'
BY BirthsKept DEF IInv, TypeOK, LoadedAlone, DrawnBirth

LEMMA CloseStep ==
  ASSUME IInv, NEW o \in Owners, Close(o)
  PROVE  IInv'
<1>1. lt' \in [Owners -> [id : Ids, open : BOOLEAN, inc : 0 .. MaxDraws]]
  BY DEF Close, IInv, TypeOK
<1>2. OwnersCertified'
  <2> SUFFICES ASSUME NEW q \in Owners
               PROVE  /\ lt'[q].inc = 0 => lt'[q] = ZeroToken
                      /\ lt'[q].inc # 0 => Certified(lt[q].id, lt[q].inc, q)'
    BY DEF OwnersCertified
  <2>1. CASE q = o
    <3>1. /\ lt'[o].id = lt[o].id /\ lt'[o].open = FALSE /\ lt'[o].inc = lt[o].inc
          /\ lt'[o] \in [id : Ids, open : BOOLEAN, inc : 0 .. MaxDraws]
      BY <1>1 DEF Close, IInv, TypeOK
    <3>2. lt'[o].inc = 0 => lt'[o] = ZeroToken
      <4>1. lt[o].inc = 0 => lt[o].id = RegionIdStatic
        BY DEF IInv, OwnersCertified, ZeroToken
      <4>2. QED
        BY <3>1, <4>1 DEF ZeroToken
    <3>3. lt'[o].inc # 0 => Certified(lt[o].id, lt[o].inc, o)'
      BY <3>1 DEF Close, IInv, OwnersCertified, Certified
    <3>4. QED
      BY <2>1, <3>2, <3>3
  <2>2. CASE q # o
    BY <2>2 DEF Close, IInv, TypeOK, OwnersCertified, Certified
  <2>3. QED
    BY <2>1, <2>2
<1>3. BorrowsCertified'
  BY DEF Close, IInv, BorrowsCertified, Tracked, Certified
<1>4. QED
  BY <1>1, <1>2, <1>3, RestStep DEF Close, IInv, TypeOK

LEMMA OpenRefusedStep ==
  ASSUME IInv, NEW o \in Owners, OpenRefused(o)
  PROVE  IInv'
<1>1. ZeroToken \in [id : Ids, open : BOOLEAN, inc : 0 .. MaxDraws] /\ ZeroToken.inc = 0
  BY ConstantsAssumption DEF ZeroToken, Ids, RegionIdStatic
<1>2. lt' \in [Owners -> [id : Ids, open : BOOLEAN, inc : 0 .. MaxDraws]]
  BY <1>1 DEF OpenRefused, IInv, TypeOK
<1>3. OwnersCertified' /\ BorrowsCertified'
  BY <1>1 DEF OpenRefused, IInv, TypeOK, OwnersCertified, BorrowsCertified, Tracked, Certified
<1>4. QED
  BY <1>2, <1>3, RestStep DEF OpenRefused, IInv, TypeOK

LEMMA SwapStep ==
  ASSUME IInv, NEW o \in Owners, NEW p \in Owners, Swap(o, p)
  PROVE  IInv'
<1>1. lt' \in [Owners -> [id : Ids, open : BOOLEAN, inc : 0 .. MaxDraws]]
  BY DEF Swap, IInv, TypeOK
<1>2. Family(o, p)
  BY DEF Swap, Family
<1>3. OwnersCertified'
  <2> SUFFICES ASSUME NEW q \in Owners
               PROVE  /\ lt'[q].inc = 0 => lt'[q] = ZeroToken
                      /\ lt'[q].inc # 0 => Certified(lt[q].id, lt[q].inc, q)'
    BY DEF OwnersCertified
  <2>1. \A r \in Owners : lt[r].inc # 0 => births[lt[r].inc].owner \in Owners
    BY BirthFacts DEF IInv, OwnersCertified, Certified
  <2>2. /\ lt[p].inc # 0 => Certified(lt[p].id, lt[p].inc, o)
        /\ lt[o].inc # 0 => Certified(lt[o].id, lt[o].inc, p)
    BY <1>2, <2>1, FamilyEquivalence DEF IInv, OwnersCertified, Certified
  <2>3. CASE q = o
    BY <2>2, <2>3 DEF Swap, IInv, TypeOK, OwnersCertified, Certified
  <2>4. CASE q = p
    BY <2>2, <2>4 DEF Swap, IInv, TypeOK, OwnersCertified, Certified
  <2>5. CASE q # o /\ q # p
    BY <2>5 DEF Swap, IInv, TypeOK, OwnersCertified, Certified
  <2>6. QED
    BY <2>3, <2>4, <2>5
<1>4. BorrowsCertified'
  BY DEF Swap, IInv, BorrowsCertified, Tracked, Certified
<1>5. QED
  BY <1>1, <1>3, <1>4, RestStep DEF Swap, IInv, TypeOK

LEMMA BorrowStep ==
  ASSUME IInv,
         \/ \E b \in Borrows, o \in Owners : Capture(b, o)
         \/ \E b \in Borrows : Untracked(b)
         \/ \E b, c \in Borrows : Inherit(b, c)
  PROVE  IInv'
<1>1. PICK b \in Borrows :
        \/ \E o \in Owners : Capture(b, o)
        \/ Untracked(b)
        \/ \E c \in Borrows : Inherit(b, c)
  OBVIOUS
<1>2. UNCHANGED <<counter, pc, births, lt>>
  BY <1>1 DEF Capture, Untracked, Inherit
<1>3. borrow' \in [Borrows -> [source : Owners \cup {None}, id : Ids, inc : 0 .. MaxDraws]]
  <2> DEFINE R == [source : Owners \cup {None}, id : Ids, inc : 0 .. MaxDraws]
  <2>1. \E r \in R : borrow' = [borrow EXCEPT ![b] = r]
    <3>1. CASE \E o \in Owners : Capture(b, o)
      <4>1. PICK o \in Owners : Capture(b, o)
        BY <3>1
      <4>2. [source |-> o, id |-> lt[o].id, inc |-> lt[o].inc] \in R
        BY DEF IInv, TypeOK
      <4>3. QED
        BY <4>1, <4>2 DEF Capture
    <3>2. CASE Untracked(b)
      <4>1. [source |-> None, id |-> RegionIdStatic, inc |-> 0] \in R
        BY ConstantsAssumption DEF Ids, RegionIdStatic
      <4>2. QED
        BY <3>2, <4>1 DEF Untracked
    <3>3. CASE \E c \in Borrows : Inherit(b, c)
      BY <3>3 DEF Inherit, IInv, TypeOK
    <3>4. QED
      BY <1>1, <3>1, <3>2, <3>3
  <2>2. QED
    BY <2>1 DEF IInv, TypeOK
<1>4. OwnersCertified'
  BY <1>2 DEF IInv, OwnersCertified, Certified
<1>6. \A c \in Borrows : c # b => borrow'[c] = borrow[c]
  BY <1>1 DEF Capture, Untracked, Inherit, IInv, TypeOK
<1>7. IF borrow'[b].inc # 0
      THEN /\ borrow'[b].source # None
           /\ Certified(borrow'[b].id, borrow'[b].inc, borrow'[b].source)
      ELSE borrow'[b].id = RegionIdStatic
  <2>1. CASE \E o \in Owners : Capture(b, o)
    <3>1. PICK o \in Owners : Capture(b, o)
      BY <2>1
    <3>2. borrow'[b] = [source |-> o, id |-> lt[o].id, inc |-> lt[o].inc]
      BY <3>1 DEF Capture, IInv, TypeOK
    <3>3. QED
      BY <3>2, ConstantsAssumption DEF IInv, OwnersCertified, ZeroToken
  <2>2. CASE Untracked(b)
    BY <2>2 DEF Untracked, IInv, TypeOK
  <2>3. CASE \E c \in Borrows : Inherit(b, c)
    BY <2>3 DEF Inherit, IInv, TypeOK, BorrowsCertified, Tracked
  <2>4. QED
    BY <1>1, <2>1, <2>2, <2>3
<1>8. BorrowsCertified'
  <2> SUFFICES ASSUME NEW c \in Borrows
               PROVE  IF borrow'[c].inc # 0
                      THEN /\ borrow'[c].source # None
                           /\ Certified(borrow[c].id, borrow[c].inc, borrow[c].source)'
                      ELSE borrow'[c].id = RegionIdStatic
    BY DEF BorrowsCertified, Tracked
  <2>1. CASE c = b
    BY <1>2, <1>7, <2>1 DEF Certified
  <2>2. CASE c # b
    BY <1>2, <1>6, <2>2 DEF IInv, BorrowsCertified, Tracked, Certified
  <2>3. QED
    BY <2>1, <2>2
<1>9. QED
  BY <1>2, <1>3, <1>4, <1>8, RestStep DEF IInv, TypeOK

LEMMA NextIInv ==
  ASSUME Ladder, IInv, [Next]_vars
  PROVE  IInv'
<1>1. ASSUME NEW t \in Threads, Draw(t) PROVE IInv'
  BY <1>1, LoadCounterStep, FetchAddStep DEF Draw
<1>2. CASE UNCHANGED vars
  BY <1>2, RestStep DEF vars, IInv, TypeOK, OwnersCertified, BorrowsCertified, Tracked, Certified
<1>3. QED
  BY <1>1, <1>2, StoreCounterStep, StampStep, CloseStep, OpenRefusedStep, SwapStep, BorrowStep
     DEF Next

-----------------------------------------------------------------------------
LEMMA IInvImpliesExact ==
  ASSUME IInv, OneCounter, TokensApart
  PROVE  CheckIsExact
<1>0. \A b \in Borrows : ~Tracked(b) => Validates(b)
  BY DEF IInv, BorrowsCertified, Validates
<1> SUFFICES ASSUME NEW b \in Borrows, Tracked(b)
             PROVE  Validates(b) <=> ~Stale(b)
  BY <1>0 DEF CheckIsExact
<1> DEFINE o == borrow[b].source
<1>1. o \in Owners /\ Certified(borrow[b].id, borrow[b].inc, o)
  BY DEF IInv, TypeOK, BorrowsCertified
<1>2. borrow[b].id # RegionIdStatic
  <2>1. /\ births[borrow[b].inc].c \in Counters
        /\ births[borrow[b].inc].addr \in Addresses
    BY <1>1, BirthFacts DEF Certified, IInv
  <2>2. QED
    BY <1>1, <2>1, TokenType DEF Certified
<1>3. CASE lt[o].open
  <2>1. Certified(lt[o].id, lt[o].inc, o)
    BY <1>1, <1>3 DEF IInv, OwnersCertified, ZeroToken
  <2>2. lt[o].id = borrow[b].id <=> lt[o].inc = borrow[b].inc
    BY <1>1, <2>1, TokenIdentifiesBirth
  <2>3. QED
    BY <1>2, <1>3, <2>2 DEF Validates, Stale
<1>4. CASE ~lt[o].open
  BY <1>2, <1>4 DEF Validates, Stale
<1>5. QED
  BY <1>3, <1>4

(* Type correctness of the token machine, whatever the addresses, when the *)
(* counter is atomic or its callers serialise (canon_lifetime_next_id_).   *)
THEOREM LifetimeTypeOK == Ladder => (Spec => []TypeOK)
<1> SUFFICES ASSUME Ladder PROVE Spec => []TypeOK
  OBVIOUS
<1>1. IInv /\ [Next]_vars => IInv'
  BY NextIInv
<1>2. IInv => TypeOK
  BY DEF IInv
<1>3. QED
  BY InitIInv, <1>1, <1>2, PTL DEF Spec

(* The borrow check (lifetime_assert_valid in every borrowed_*_get) lets   *)
(* no stale borrow of an owner that was opened through, refuses no good    *)
(* one, and never refuses one that is untracked or was captured from a     *)
(* zero struct, as a refused init returns it.                              *)
THEOREM CheckExact ==
  Ladder /\ OneCounter /\ TokensApart => (Spec => []CheckIsExact)
<1> SUFFICES ASSUME Ladder, OneCounter, TokensApart PROVE Spec => []CheckIsExact
  OBVIOUS
<1>1. IInv /\ [Next]_vars => IInv'
  BY NextIInv
<1>2. IInv => CheckIsExact
  BY IInvImpliesExact
<1>3. QED
  BY InitIInv, <1>1, <1>2, PTL DEF Spec
=============================================================================
