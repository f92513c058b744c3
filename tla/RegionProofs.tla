----------------------------- MODULE RegionProofs -----------------------------
(***************************************************************************)
(* Regions, for any number of them, of arenas and of hooks, and any depth  *)
(* of region_end inside hooks: hooks are called last registered first,     *)
(* arenas outlive them, and the arena a region had is empty after its end. *)
(*                                                                         *)
(* The hooks owed are the table below the number the loop counts down      *)
(* from.  What a hook registers goes into the table above that number, so  *)
(* the loop, which only looks below it, calls what was there at the start. *)
(***************************************************************************)
EXTENDS Region, SequenceTheorems, TLAPS

(* The first n slots of r's table hold what is owed to it. *)
Holds(r, n) ==
  /\ Len(owed[r]) = n /\ n <= region[r].num
  /\ \A k \in 1 .. n : region[r].hooks[k] = owed[r][k]

(* Hooks a call of region_end has still to call. *)
Left(f) == IF f.running = None THEN f.i ELSE f.i - 1

Closeds == \A r \in Regions : ~region[r].open => owed[r] = <<>>
Quiets == \A r \in Regions : region[r].open /\ ~Ending(r) => Holds(r, region[r].num)

(* A call of region_end in progress. *)
InEnds(f) == \E j \in 1 .. Len(ends) : ends[j] = f
Sound(f) ==
  /\ region[f.r].open
  /\ f.saved = attached[f.r]
  /\ f.running # None => f.i >= 1
  /\ f.i <= region[f.r].num
  /\ Holds(f.r, Left(f))
Frames == \A f \in FrameType : InEnds(f) => Sound(f)

FramesApart == \A j, k \in 1 .. Len(ends) : j # k => ends[j].r # ends[k].r

OwedOnce ==
  \A r \in Regions : \A j, k \in 1 .. Len(owed[r]) : j # k => owed[r][j] # owed[r][k]

IInv == TypeOK /\ Closeds /\ Quiets /\ Frames /\ FramesApart /\ OwedOnce

-----------------------------------------------------------------------------
(* Taking the last element out of a sequence without repetitions. *)
LEMMA RemoveLast ==
  ASSUME NEW S, NEW s \in Seq(S), s # <<>>,
         \A j, k \in 1 .. Len(s) : j # k => s[j] # s[k]
  PROVE  RemoveFirst(s, s[Len(s)]) = Front(s)
<1> DEFINE n == Len(s)
           I == {i \in 1 .. n : s[i] = s[n]}
<1>1. n \in Nat /\ n >= 1 /\ n \in 1 .. n
  BY EmptySeq, LenProperties
<1>2. I = {n}
  BY <1>1
<1>3. Min(I) = n
  <2>1. \E x \in I : \A y \in I : x <= y
    BY <1>1, <1>2
  <2>2. (CHOOSE x \in I : \A y \in I : x <= y) \in I
    BY <2>1
  <2>3. QED
    BY <2>2, <1>2 DEF Min
<1>4. SelectInSeq(s, LAMBDA v : v = s[n]) = n
  <2>1. I # {}
    BY <1>2
  <2>2. QED
    BY <2>1, <1>3 DEF SelectInSeq
<1>5. RemoveFirst(s, s[n]) = RemoveAt(s, n)
  BY <1>1, <1>4 DEF RemoveFirst
<1>6. SubSeq(s, n + 1, n) = <<>>
  BY <1>1, SubSeqEmpty
<1>7. SubSeq(s, 1, n - 1) \in Seq(S)
  BY <1>1, SubSeqProperties
<1>8. SubSeq(s, 1, n - 1) \o <<>> = SubSeq(s, 1, n - 1)
  BY <1>7, ConcatEmptySeq
<1>9. QED
  BY <1>5, <1>6, <1>8 DEF RemoveAt, Front

LEMMA FrontFacts ==
  ASSUME NEW S, NEW s \in Seq(S), s # <<>>
  PROVE  /\ Front(s) \in Seq(S) /\ Len(Front(s)) = Len(s) - 1
         /\ Len(s) \in Nat /\ Len(s) >= 1
         /\ \A k \in 1 .. Len(s) - 1 : Front(s)[k] = s[k]
<1>1. Len(s) \in Nat /\ Len(s) >= 1
  BY EmptySeq, LenProperties
<1>2. \A k \in 1 .. Len(s) - 1 : s[k] \in S
  BY <1>1, ElementOfSeq
<1>3. SubSeq(s, 1, Len(s) - 1) \in Seq(S)
  BY <1>1, <1>2, SubSeqProperties
<1>4. Len(SubSeq(s, 1, Len(s) - 1)) = (IF 1 <= Len(s) - 1 THEN Len(s) - 1 - 1 + 1 ELSE 0)
  BY <1>1, <1>2, SubSeqProperties
<1>5. Len(SubSeq(s, 1, Len(s) - 1)) = Len(s) - 1
  <2> DEFINE m == Len(SubSeq(s, 1, Len(s) - 1))
             n == Len(s)
  <2>1. m = (IF 1 <= n - 1 THEN n - 1 - 1 + 1 ELSE 0) /\ n \in Nat /\ n >= 1
    BY <1>1, <1>4
  <2> HIDE DEF m, n
  <2>2. m = n - 1
    BY <2>1
  <2>3. QED
    BY <2>2 DEF m, n
<1>6. \A k \in 1 .. Len(s) - 1 - 1 + 1 : SubSeq(s, 1, Len(s) - 1)[k] = s[1 + k - 1]
  BY <1>1, <1>2, SubSeqProperties
<1>7. ASSUME NEW k \in 1 .. Len(s) - 1
      PROVE  SubSeq(s, 1, Len(s) - 1)[k] = s[k]
  <2>1. k \in 1 .. Len(s) - 1 - 1 + 1 /\ 1 + k - 1 = k
    BY <1>1
  <2>2. QED
    BY <1>6, <2>1
<1>8. Front(s) = SubSeq(s, 1, Len(s) - 1)
  BY DEF Front
<1>9. QED
  BY <1>1, <1>3, <1>5, <1>7, <1>8

LEMMA TopIsAFrame ==
  ASSUME TypeOK, ends # <<>>
  PROVE  /\ Len(ends) \in Nat /\ Len(ends) \in 1 .. Len(ends)
         /\ Top = ends[Len(ends)] /\ Top \in FrameType
<1>1. Len(ends) \in Nat /\ Len(ends) >= 1
  BY EmptySeq, LenProperties DEF TypeOK
<1>2. QED
  BY <1>1, ElementOfSeq DEF TypeOK, Top, Last

LEMMA Fields ==
  ASSUME TypeOK, NEW r \in Regions
  PROVE  /\ region[r].open \in BOOLEAN /\ region[r].arena \in Arenas \cup {None}
         /\ region[r].hooks \in [Slots -> Hooks \cup {None}]
         /\ region[r].num \in 0 .. MaxHooks /\ MaxHooks \in Nat
         /\ owed[r] \in Seq(Hooks) /\ Len(owed[r]) \in Nat
BY LenProperties, RegionAssumption DEF TypeOK, StructType

LEMMA FrameFields ==
  ASSUME TypeOK, NEW j \in 1 .. Len(ends)
  PROVE  /\ ends[j] \in FrameType /\ ends[j].r \in Regions /\ ends[j].i \in 0 .. MaxHooks
         /\ Left(ends[j]) \in Int
<1>1. ends[j] \in FrameType
  BY ElementOfSeq DEF TypeOK
<1>2. QED
  BY <1>1, RegionAssumption DEF FrameType, Left

LEMMA InitIInv == Init => IInv
<1> SUFFICES ASSUME Init PROVE IInv
  OBVIOUS
<1>1. Len(ends) = 0 /\ \A r \in Regions : Len(owed[r]) = 0
  BY EmptySeq DEF Init
<1>2. TypeOK
  <2>1. Closed \in StructType
    BY RegionAssumption DEF Closed, StructType
  <2>2. <<>> \in Seq(FrameType) /\ <<>> \in Seq(Hooks)
    BY EmptySeq
  <2>3. QED
    BY <2>1, <2>2, RegionAssumption DEF Init, TypeOK
<1>3. Closeds /\ Quiets
  BY DEF Init, Closeds, Quiets, Closed
<1>4. Frames /\ FramesApart /\ OwedOnce
  BY <1>1 DEF Frames, InEnds, FramesApart, OwedOnce
<1>5. QED
  BY <1>2, <1>3, <1>4 DEF IInv

LEMMA BeginIInv ==
  ASSUME IInv, NEW r \in Regions, Begin(r)
  PROVE  IInv'
<1> USE DEF IInv
<1>1. /\ region'[r].open /\ region'[r].num = 0 /\ owed[r] = <<>>
      /\ \A q \in Regions : q # r => region'[q] = region[q]
  BY DEF Begin, TypeOK, Closed, Closeds
<1>2. \A f \in FrameType : InEnds(f) => f.r \in Regions /\ f.r # r
  BY DEF Begin, Frames, Sound, FrameType
<1>3. ends' = ends /\ owed' = owed /\ attached' = attached
  BY DEF Begin
<1>4. TypeOK'
  <2>1. Closed \in StructType
    BY RegionAssumption DEF Closed, StructType
  <2>2. [Closed EXCEPT !.open = TRUE] \in StructType
    BY <2>1 DEF StructType
  <2>3. QED
    BY <2>2 DEF Begin, TypeOK
<1>5. Holds(r, region[r].num)'
  BY <1>1, <1>3, EmptySeq DEF Holds
<1>6. \A q \in Regions, n \in Int : q # r /\ Holds(q, n) => Holds(q, n)'
  BY <1>1, <1>3 DEF Holds
<1>7. Closeds'
  BY <1>1, <1>3 DEF Closeds
<1>8. Quiets'
  <2> SUFFICES ASSUME NEW q \in Regions, region'[q].open, ~Ending(q)'
               PROVE  Holds(q, region[q].num)'
    BY DEF Quiets
  <2>1. CASE q = r
    BY <2>1, <1>5
  <2>2. CASE q # r
    <3>1. Holds(q, region[q].num) /\ region'[q].num = region[q].num /\ region[q].num \in Int
      BY <2>2, <1>1, <1>3, Fields DEF Quiets, Ending
    <3>2. QED
      BY <2>2, <3>1, <1>1, <1>3 DEF Holds
  <2>3. QED
    BY <2>1, <2>2
<1>9. Frames'
  <2> SUFFICES ASSUME NEW f \in FrameType, InEnds(f)'
               PROVE  Sound(f)'
    BY DEF Frames
  <2>1. InEnds(f)
    BY <1>3 DEF InEnds
  <2>2. Sound(f) /\ region'[f.r] = region[f.r]
    BY <2>1, <1>1, <1>2 DEF Frames
  <2>3. QED
    BY <2>2, <1>3 DEF Sound, Holds, Left
<1>10. FramesApart' /\ OwedOnce'
  BY <1>3 DEF FramesApart, OwedOnce
<1>11. QED
  BY <1>4, <1>7, <1>8, <1>9, <1>10

(* A step that leaves the calls of region_end alone, and of every region   *)
(* whether it is open and its count and table as far as it was filled.     *)
LEMMA TablesKept ==
  ASSUME IInv, ends' = ends, owed' = owed, attached' = attached, TypeOK',
         \A q \in Regions :
           /\ region'[q].open = region[q].open
           /\ region'[q].num = region[q].num
           /\ region'[q].hooks = region[q].hooks
  PROVE  IInv'
<1> USE DEF IInv
<1>1. \A q \in Regions, n \in Int : Holds(q, n)' <=> Holds(q, n)
  BY DEF Holds
<1>2. Closeds' /\ FramesApart' /\ OwedOnce'
  BY DEF Closeds, FramesApart, OwedOnce
<1>3. Quiets'
  <2>1. \A q \in Regions : region[q].num \in Int /\ (Ending(q)' <=> Ending(q))
    BY Fields DEF Ending
  <2>2. \A q \in Regions : Holds(q, region[q].num)' <=> Holds(q, region[q].num)
    BY DEF Holds
  <2>3. QED
    BY <2>1, <2>2 DEF Quiets
<1>4. Frames'
  <2> SUFFICES ASSUME NEW f \in FrameType, InEnds(f)'
               PROVE  Sound(f)'
    BY DEF Frames
  <2>1. InEnds(f) /\ f.r \in Regions
    BY DEF InEnds, FrameType
  <2>2. Sound(f)
    BY <2>1 DEF Frames
  <2>3. QED
    BY <2>1, <2>2 DEF Sound, Holds, Left
<1>5. QED
  BY <1>2, <1>3, <1>4

LEMMA AttachArenaIInv ==
  ASSUME IInv, NEW r \in Regions, NEW a \in Arenas, AttachArena(r, a)
  PROVE  IInv'
<1> USE DEF IInv
<1>1. \A q \in Regions :
        /\ region'[q].open = region[q].open
        /\ region'[q].num = region[q].num
        /\ region'[q].hooks = region[q].hooks
        /\ region'[q] \in StructType
  BY DEF AttachArena, TypeOK, StructType
<1>2. region' \in [Regions -> StructType]
  BY <1>1 DEF AttachArena, TypeOK
<1>3. TypeOK'
  BY <1>2 DEF AttachArena, TypeOK
<1>4. QED
  BY <1>1, <1>3, TablesKept DEF AttachArena

LEMMA AllocIInv ==
  ASSUME IInv, NEW a \in Arenas, Alloc(a)
  PROVE  IInv'
<1> USE DEF IInv
<1>1. TypeOK'
  BY RegionAssumption DEF Alloc, TypeOK
<1>2. QED
  BY <1>1, TablesKept DEF Alloc

LEMMA RegisterIInv ==
  ASSUME IInv, NEW r \in Regions, NEW h \in Hooks, Register(r, h)
  PROVE  IInv'
<1> USE DEF IInv
<1> DEFINE n == region[r].num
<1>1. /\ region' = [region EXCEPT ![r].hooks[n + 1] = h, ![r].num = @ + 1]
      /\ ends' = ends /\ attached' = attached /\ fill' = fill
      /\ region[r].open /\ ~Registered(h)
      /\ n \in 0 .. MaxHooks - 1 /\ MaxHooks \in Nat
  BY Fields DEF Register
<1>2. /\ region'[r].open
      /\ region'[r].num = n + 1 /\ n + 1 \in Slots /\ n \in Nat
      /\ region'[r].hooks = [region[r].hooks EXCEPT ![n + 1] = h]
      /\ \A q \in Regions : q # r => region'[q] = region[q]
  BY <1>1 DEF TypeOK, StructType, Slots
<1>3. region' \in [Regions -> StructType]
  <2>1. region[r] \in StructType
    BY DEF TypeOK
  <2>2. n + 1 \in 0 .. MaxHooks
    BY <1>1
  <2>3. [region[r].hooks EXCEPT ![n + 1] = h] \in [Slots -> Hooks \cup {None}]
    BY Fields
  <2> DEFINE hs == [region[r].hooks EXCEPT ![n + 1] = h]
             m == n + 1
  <2>4. region' = [region EXCEPT ![r] = [region[r] EXCEPT !.hooks = hs, !.num = m]]
    BY <2>1, <1>1 DEF TypeOK, StructType
  <2>5. hs \in [Slots -> Hooks \cup {None}] /\ m \in 0 .. MaxHooks
    BY <2>2, <2>3
  <2> HIDE DEF hs, m
  <2>6. [region[r] EXCEPT !.hooks = hs, !.num = m] \in StructType
    BY <2>1, <2>5 DEF StructType
  <2>7. QED
    BY <2>4, <2>6 DEF TypeOK
<1>4. /\ region'[r].hooks[n + 1] = h
      /\ \A k \in 1 .. n : region'[r].hooks[k] = region[r].hooks[k]
  <2>1. region[r].hooks \in [Slots -> Hooks \cup {None}]
    BY Fields
  <2>2. \A k \in 1 .. n : k \in Slots /\ k # n + 1
    BY <1>1, <1>2 DEF Slots
  <2>3. QED
    BY <2>1, <2>2, <1>2
<1>5. \A q \in Regions : Ending(q)' <=> Ending(q)
  BY <1>1 DEF Ending
<1>6. \A q \in Regions, m \in Int : owed'[q] = owed[q] /\ Holds(q, m) => Holds(q, m)'
  <2> SUFFICES ASSUME NEW q \in Regions, NEW m \in Int, owed'[q] = owed[q], Holds(q, m)
               PROVE  Holds(q, m)'
    OBVIOUS
  <2>1. CASE q = r
    <3>1. m <= n /\ \A k \in 1 .. m : k \in 1 .. n
      BY <2>1, <1>1 DEF Holds
    <3>2. \A k \in 1 .. m : region'[q].hooks[k] = region[q].hooks[k]
      BY <3>1, <2>1, <1>4
    <3>3. m <= region'[q].num
      BY <3>1, <2>1, <1>1, <1>2
    <3>4. QED
      BY <3>2, <3>3 DEF Holds
  <2>2. CASE q # r
    BY <2>2, <1>2 DEF Holds
  <2>3. QED
    BY <2>1, <2>2
<1>7. CASE Ending(r)
  <2>1. owed' = owed /\ late' = [late EXCEPT ![r] = @ \cup {h}]
    BY <1>7 DEF Register
  <2>2. TypeOK'
    BY <2>1, <1>1, <1>3 DEF TypeOK
  <2>3. Closeds' /\ FramesApart' /\ OwedOnce'
    BY <2>1, <1>1, <1>2 DEF Closeds, FramesApart, OwedOnce
  <2>4. Quiets'
    <3> SUFFICES ASSUME NEW q \in Regions, region'[q].open, ~Ending(q)'
                 PROVE  Holds(q, region[q].num)'
      BY DEF Quiets
    <3>1. q # r /\ region'[q] = region[q]
      BY <1>2, <1>5, <1>7
    <3>2. Holds(q, region[q].num)
      BY <3>1, <1>5 DEF Quiets
    <3>3. QED
      BY <3>1, <3>2, <2>1 DEF Holds
  <2>5. Frames'
    <3> SUFFICES ASSUME NEW f \in FrameType, InEnds(f)'
                 PROVE  Sound(f)'
      BY DEF Frames
    <3>1. InEnds(f) /\ f.r \in Regions /\ f.i \in Int /\ Left(f) \in Int
      BY <1>1 DEF InEnds, FrameType, Left
    <3>2. Sound(f)
      BY <3>1 DEF Frames
    <3>3. Holds(f.r, Left(f))'
      <4>1. Holds(f.r, Left(f))
        BY <3>2 DEF Sound
      <4>2. \A m \in Int : Holds(f.r, m) => Holds(f.r, m)'
        BY <3>1, <1>6, <2>1
      <4>3. QED
        BY <4>1, <4>2, <3>1 DEF Holds, Left
    <3>4. region'[f.r].open /\ f.i <= region'[f.r].num
      <4>1. region[f.r].open /\ f.i <= region[f.r].num
        BY <3>2 DEF Sound
      <4>2. CASE f.r = r
        BY <4>1, <4>2, <3>1, <1>1, <1>2
      <4>3. CASE f.r # r
        BY <4>1, <4>3, <3>1, <1>2
      <4>4. QED
        BY <4>2, <4>3
    <3>5. QED
      BY <3>2, <3>3, <3>4, <1>1 DEF Sound
  <2>6. QED
    BY <2>2, <2>3, <2>4, <2>5
<1>8. CASE ~Ending(r)
  <2>1. owed' = [owed EXCEPT ![r] = Append(@, h)] /\ late' = late
    BY <1>8 DEF Register
  <2>2. /\ owed'[r] \in Seq(Hooks) /\ Len(owed'[r]) = Len(owed[r]) + 1
        /\ \A k \in 1 .. Len(owed[r]) : owed'[r][k] = owed[r][k]
        /\ owed'[r][Len(owed[r]) + 1] = h
        /\ \A q \in Regions : q # r => owed'[q] = owed[q]
    BY <2>1, AppendProperties DEF TypeOK
  <2>3. Holds(r, n)
    BY <1>1, <1>8 DEF Quiets
  <2>4. Holds(r, region[r].num)'
    <3>1. Len(owed'[r]) = n + 1 /\ Len(owed[r]) = n
      BY <2>2, <2>3 DEF Holds
    <3>2. ASSUME NEW k \in 1 .. n + 1
          PROVE  region'[r].hooks[k] = owed'[r][k]
      <4>1. CASE k = n + 1
        BY <4>1, <1>4, <2>2, <3>1
      <4>2. CASE k # n + 1
        <5>1. k \in 1 .. n
          BY <4>2, <1>1
        <5>2. QED
          BY <5>1, <1>4, <2>2, <2>3, <3>1 DEF Holds
      <4>3. QED
        BY <4>1, <4>2
    <3>3. region'[r].num = n + 1 /\ n + 1 <= n + 1
      BY <1>2
    <3> HIDE DEF n
    <3>4. QED
      BY <3>1, <3>2, <3>3 DEF Holds
  <2>5. TypeOK'
    BY <2>1, <2>2, <1>1, <1>3 DEF TypeOK
  <2>6. Closeds'
    BY <2>2, <1>2 DEF Closeds
  <2>7. FramesApart'
    BY <1>1 DEF FramesApart
  <2>8. OwedOnce'
    <3> SUFFICES ASSUME NEW q \in Regions, NEW j \in 1 .. Len(owed'[q]),
                        NEW k \in 1 .. Len(owed'[q]), j # k
                 PROVE  owed'[q][j] # owed'[q][k]
      BY DEF OwedOnce
    <3>1. CASE q # r
      BY <3>1, <2>2 DEF OwedOnce
    <3>2. CASE q = r
      <4>1. \A l \in 1 .. Len(owed[r]) : owed[r][l] # h
        BY <1>1 DEF Registered
      <4>2. /\ Len(owed[r]) \in Nat
            /\ \A l \in 1 .. Len(owed'[r]) : l \in 1 .. Len(owed[r]) \/ l = Len(owed[r]) + 1
        BY <2>2, Fields
      <4>3. QED
        BY <3>2, <4>1, <4>2, <2>2 DEF OwedOnce
    <3>3. QED
      BY <3>1, <3>2
  <2>9. Quiets'
    <3> SUFFICES ASSUME NEW q \in Regions, region'[q].open, ~Ending(q)'
                 PROVE  Holds(q, region[q].num)'
      BY DEF Quiets
    <3>1. CASE q = r
      BY <3>1, <2>4
    <3>2. CASE q # r
      <4>1. region'[q] = region[q] /\ owed'[q] = owed[q] /\ Holds(q, region[q].num)
        BY <3>2, <1>2, <1>5, <2>2 DEF Quiets
      <4>2. QED
        BY <4>1 DEF Holds
    <3>3. QED
      BY <3>1, <3>2
  <2>10. Frames'
    <3> SUFFICES ASSUME NEW f \in FrameType, InEnds(f)'
                 PROVE  Sound(f)'
      BY DEF Frames
    <3>1. InEnds(f) /\ f.r \in Regions /\ f.r # r
      BY <1>1, <1>8 DEF InEnds, FrameType, Ending
    <3>2. Sound(f) /\ region'[f.r] = region[f.r] /\ owed'[f.r] = owed[f.r]
      BY <3>1, <1>2, <2>2 DEF Frames
    <3>3. QED
      BY <3>2, <1>1 DEF Sound, Holds, Left
  <2>11. QED
    BY <2>5, <2>6, <2>7, <2>8, <2>9, <2>10
<1>9. QED
  BY <1>7, <1>8

LEMMA EndStartIInv ==
  ASSUME IInv, NEW r \in Regions, EndStart(r)
  PROVE  IInv'
<1> USE DEF IInv
<1> DEFINE g == [r |-> r, i |-> region[r].num, saved |-> region[r].arena, running |-> None]
<1>1. /\ region[r].open /\ ~Ending(r) /\ ends' = Append(ends, g)
      /\ attached' = [attached EXCEPT ![r] = region[r].arena]
      /\ region' = region /\ fill' = fill /\ owed' = owed /\ late' = late
  BY DEF EndStart
<1>2. g \in FrameType /\ region[r].arena \in Arenas \cup {None}
  BY Fields DEF FrameType
<1>3. /\ attached' \in [Regions -> Arenas \cup {None}]
      /\ attached'[r] = region[r].arena
      /\ \A q \in Regions : q # r => attached'[q] = attached[q]
  BY <1>1, <1>2 DEF TypeOK
<1>4. g.r = r /\ g.i = region[r].num /\ g.saved = region[r].arena /\ g.running = None
  OBVIOUS
<1> HIDE DEF g
<1>5. /\ ends \in Seq(FrameType) /\ ends' \in Seq(FrameType)
      /\ Len(ends) \in Nat /\ Len(ends') = Len(ends) + 1
      /\ \A j \in 1 .. Len(ends) : ends'[j] = ends[j]
      /\ ends'[Len(ends) + 1] = g
  BY <1>1, <1>2, AppendProperties, LenProperties DEF TypeOK
<1>6. \A j \in 1 .. Len(ends') : j \in 1 .. Len(ends) \/ j = Len(ends) + 1
  BY <1>5
<1>7. \A j \in 1 .. Len(ends) : j \in 1 .. Len(ends') /\ ends[j].r # r
  BY <1>5, <1>1 DEF Ending
<1>8. \A f \in FrameType : InEnds(f)' => f = g \/ (InEnds(f) /\ f.r # r)
  BY <1>5, <1>6, <1>7 DEF InEnds
<1>9. \A q \in Regions : ~Ending(q)' => ~Ending(q) /\ q # r
  <2>1. Len(ends) + 1 \in 1 .. Len(ends')
    BY <1>5
  <2>2. QED
    BY <2>1, <1>4, <1>5, <1>7 DEF Ending
<1>10. TypeOK'
  BY <1>1, <1>3, <1>5 DEF TypeOK
<1>11. Closeds' /\ OwedOnce'
  BY <1>1 DEF Closeds, OwedOnce
<1>12. FramesApart'
  <2> SUFFICES ASSUME NEW j \in 1 .. Len(ends'), NEW k \in 1 .. Len(ends'), j # k
               PROVE  ends'[j].r # ends'[k].r
    BY DEF FramesApart
  <2>1. CASE j \in 1 .. Len(ends) /\ k \in 1 .. Len(ends)
    BY <2>1, <1>5 DEF FramesApart
  <2>2. CASE j = Len(ends) + 1 /\ k \in 1 .. Len(ends)
    BY <2>2, <1>4, <1>5, <1>7
  <2>3. CASE j \in 1 .. Len(ends) /\ k = Len(ends) + 1
    BY <2>3, <1>4, <1>5, <1>7
  <2>4. QED
    BY <2>1, <2>2, <2>3, <1>6
<1>13. Quiets'
  BY <1>1, <1>9 DEF Quiets, Holds
<1>14. Frames'
  <2> SUFFICES ASSUME NEW f \in FrameType, InEnds(f)'
               PROVE  Sound(f)'
    BY DEF Frames
  <2>1. CASE f = g
    <3>1. Holds(r, region[r].num) /\ region[r].num \in Nat
      BY <1>1, Fields DEF Quiets
    <3>2. Left(f) = region[r].num /\ f.r = r
      BY <2>1, <1>4 DEF Left
    <3>3. Holds(f.r, Left(f))'
      BY <3>1, <3>2, <1>1 DEF Holds, Left
    <3>4. QED
      BY <2>1, <3>1, <3>3, <1>1, <1>3, <1>4 DEF Sound
  <2>2. CASE InEnds(f) /\ f.r # r
    <3>1. Sound(f) /\ f.r \in Regions
      BY <2>2 DEF Frames, FrameType
    <3>2. QED
      BY <2>2, <3>1, <1>1, <1>3 DEF Sound, Holds, Left
  <2>3. QED
    BY <2>1, <2>2, <1>8
<1>15. QED
  BY <1>10, <1>11, <1>12, <1>13, <1>14

-----------------------------------------------------------------------------
(* The steps of region_end at the top of the stack. *)
LEMMA TopIsSound ==
  ASSUME IInv, ends # <<>>
  PROVE  /\ Top \in FrameType /\ InEnds(Top) /\ Sound(Top)
         /\ Top.r \in Regions /\ Top.i \in 0 .. MaxHooks /\ Ending(Top.r)
<1>1. Len(ends) \in 1 .. Len(ends) /\ Top = ends[Len(ends)] /\ Top \in FrameType
  BY TopIsAFrame DEF IInv
<1>2. InEnds(Top) /\ Ending(Top.r)
  BY <1>1 DEF InEnds, Ending
<1>3. QED
  BY <1>1, <1>2 DEF FrameType, IInv, Frames

LEMMA TopReplaced ==
  ASSUME IInv, ends # <<>>, NEW g \in FrameType, g.r = Top.r,
         ends' = [ends EXCEPT ![Len(ends)] = g]
  PROVE  /\ ends' \in Seq(FrameType)
         /\ Last(ends') = g
         /\ FramesApart'
         /\ \A q \in Regions : Ending(q)' <=> Ending(q)
         /\ \A f \in FrameType : InEnds(f)' => f = g \/ (InEnds(f) /\ f.r # Top.r)
<1>1. /\ Len(ends) \in Nat /\ Len(ends) \in 1 .. Len(ends) /\ Top = ends[Len(ends)]
      /\ ends \in Seq(FrameType)
  BY TopIsAFrame DEF IInv, TypeOK
<1>2. ends' \in Seq(FrameType) /\ Len(ends') = Len(ends)
  BY <1>1, ExceptSeq
<1>3. /\ ends'[Len(ends)] = g
      /\ \A j \in 1 .. Len(ends) : j # Len(ends) => ends'[j] = ends[j]
  BY <1>1, ExceptSeq
<1>4. \A j \in 1 .. Len(ends) : ends'[j].r = ends[j].r
  BY <1>1, <1>3
<1>5. /\ FramesApart'
      /\ \A q \in Regions : Ending(q)' <=> Ending(q)
  <2>1. 1 .. Len(ends') = 1 .. Len(ends)
    BY <1>2
  <2>2. FramesApart'
    <3>1. \A j, k \in 1 .. Len(ends) : j # k => ends'[j].r # ends'[k].r
      BY <1>4 DEF IInv, FramesApart
    <3>2. QED
      BY <2>1, <3>1 DEF FramesApart
  <2>3. ASSUME NEW q \in Regions
        PROVE  Ending(q)' <=> Ending(q)
    <3>1. Ending(q)' <=> \E j \in 1 .. Len(ends) : ends'[j].r = q
      BY <2>1 DEF Ending
    <3>2. QED
      BY <3>1, <1>4 DEF Ending
  <2>4. QED
    BY <2>2, <2>3
<1>6. \A j \in 1 .. Len(ends) : j # Len(ends) => ends[j].r # Top.r
  BY <1>1 DEF IInv, FramesApart
<1>7. \A f \in FrameType : InEnds(f)' => f = g \/ (InEnds(f) /\ f.r # Top.r)
  BY <1>2, <1>3, <1>6 DEF InEnds
<1>8. QED
  BY <1>2, <1>3, <1>5, <1>7 DEF Last

(* What CallHook does: the hook called is the last one owed. *)
LEMMA CallHookFacts ==
  ASSUME IInv, CallHook
  PROVE  /\ ends # <<>> /\ owed[Top.r] # <<>>
         /\ Top.i = Len(owed[Top.r]) /\ Top.running = None
         /\ region[Top.r].hooks[Top.i] = Last(owed[Top.r])
         /\ Last(owed[Top.r]) \in Hooks
         /\ owed' = [owed EXCEPT ![Top.r] = Front(@)]
         /\ ends' = [ends EXCEPT ![Len(ends)] = [Top EXCEPT !.running = Last(owed[Top.r])]]
<1> USE DEF IInv
<1> DEFINE r == Top.r
           h == region[r].hooks[Top.i]
<1>1. ends # <<>> /\ Top.running = None /\ Top.i > 0
  BY DEF CallHook, InLoop
<1>2. Sound(Top) /\ r \in Regions /\ Top.i \in Nat /\ owed[r] \in Seq(Hooks)
  BY <1>1, TopIsSound, Fields, RegionAssumption
<1>3. Len(owed[r]) = Top.i /\ h = owed[r][Top.i]
  BY <1>1, <1>2 DEF Sound, Holds, Left
<1>4. owed[r] # <<>>
  BY <1>1, <1>3, EmptySeq
<1>5. Top.i \in 1 .. Len(owed[r])
  BY <1>1, <1>2, <1>3
<1>6. h = Last(owed[r]) /\ h \in Hooks
  BY <1>2, <1>3, <1>5, ElementOfSeq DEF Last
<1>7. RemoveFirst(owed[r], h) = Front(owed[r])
  <2>1. h = owed[r][Len(owed[r])]
    BY <1>3
  <2>2. RemoveFirst(owed[r], owed[r][Len(owed[r])]) = Front(owed[r])
    BY <1>2, <1>4, RemoveLast DEF OwedOnce
  <2>3. QED
    BY <2>1, <2>2
<1>8. /\ owed' = [owed EXCEPT ![r] = RemoveFirst(@, h)]
      /\ ends' = [ends EXCEPT ![Len(ends)].running = h]
  BY DEF CallHook
<1>9. owed' = [owed EXCEPT ![r] = Front(@)]
  BY <1>7, <1>8
<1>10. ends' = [ends EXCEPT ![Len(ends)] = [Top EXCEPT !.running = Last(owed[r])]]
  BY <1>6, <1>8 DEF Top, Last
<1>11. QED
  BY <1>1, <1>3, <1>4, <1>6, <1>9, <1>10

LEMMA CallHookIInv ==
  ASSUME IInv, CallHook
  PROVE  IInv'
<1> USE DEF IInv
<1> DEFINE r == Top.r
           h == Last(owed[r])
           g == [Top EXCEPT !.running = h]
<1>1. /\ ends # <<>> /\ owed[r] # <<>> /\ Top.i = Len(owed[r]) /\ Top.running = None
      /\ h \in Hooks /\ owed' = [owed EXCEPT ![r] = Front(@)]
      /\ ends' = [ends EXCEPT ![Len(ends)] = g]
  BY CallHookFacts
<1>2. /\ region' = region /\ fill' = fill /\ attached' = attached
      /\ late' = [late EXCEPT ![r] = @ \ {region[r].hooks[Top.i]}]
  BY DEF CallHook
<1>3. /\ Top \in FrameType /\ Sound(Top) /\ r \in Regions /\ Ending(r)
      /\ Top.i \in 0 .. MaxHooks /\ owed[r] \in Seq(Hooks)
  BY <1>1, TopIsSound, Fields
<1>4. /\ g \in FrameType /\ g.r = r /\ g.i = Top.i /\ g.saved = Top.saved
      /\ g.running = h /\ h # None
  BY <1>1, <1>3, RegionAssumption DEF FrameType
<1>5. /\ Front(owed[r]) \in Seq(Hooks) /\ Len(Front(owed[r])) = Len(owed[r]) - 1
      /\ Len(owed[r]) \in Nat /\ Len(owed[r]) >= 1
      /\ \A k \in 1 .. Len(owed[r]) - 1 : Front(owed[r])[k] = owed[r][k]
  BY <1>1, <1>3, FrontFacts
<1>6. /\ owed'[r] = Front(owed[r]) /\ owed' \in [Regions -> Seq(Hooks)]
      /\ \A q \in Regions : q # r => owed'[q] = owed[q]
  BY <1>1, <1>3, <1>5 DEF TypeOK
<1> HIDE DEF g, h
<1>7. /\ ends' \in Seq(FrameType) /\ FramesApart'
      /\ \A q \in Regions : Ending(q)' <=> Ending(q)
      /\ \A f \in FrameType : InEnds(f)' => f = g \/ (InEnds(f) /\ f.r # Top.r)
  BY <1>1, <1>4, TopReplaced
<1>8. TypeOK'
  BY <1>2, <1>6, <1>7 DEF TypeOK
<1>9. region[r].open
  BY <1>3 DEF Sound
<1>10. Closeds'
  BY <1>2, <1>6, <1>9 DEF Closeds
<1>11. Quiets'
  BY <1>2, <1>3, <1>6, <1>7 DEF Quiets, Holds
<1>12. OwedOnce'
  <2> SUFFICES ASSUME NEW q \in Regions, NEW j \in 1 .. Len(owed'[q]),
                      NEW k \in 1 .. Len(owed'[q]), j # k
               PROVE  owed'[q][j] # owed'[q][k]
    BY DEF OwedOnce
  <2>1. CASE q # r
    BY <2>1, <1>6 DEF OwedOnce
  <2>2. CASE q = r
    <3>1. /\ j \in 1 .. Len(owed[r]) - 1 /\ k \in 1 .. Len(owed[r]) - 1
      BY <2>2, <1>5, <1>6
    <3>2. j \in 1 .. Len(owed[r]) /\ k \in 1 .. Len(owed[r])
      BY <3>1, <1>5
    <3>3. owed[r][j] # owed[r][k]
      BY <3>2, <1>3 DEF OwedOnce
    <3>4. QED
      BY <2>2, <3>1, <3>3, <1>5, <1>6
  <2>3. QED
    BY <2>1, <2>2
<1>13. Frames'
  <2> SUFFICES ASSUME NEW f \in FrameType, InEnds(f)'
               PROVE  Sound(f)'
    BY DEF Frames
  <2>1. CASE f = g
    <3>1. Left(f) = Top.i - 1 /\ f.r = r
      BY <2>1, <1>4 DEF Left
    <3>2. Holds(r, Top.i)
      BY <1>1, <1>3 DEF Sound, Left
    <3>3. /\ Len(owed'[r]) = Top.i - 1 /\ Top.i - 1 <= region[r].num
          /\ \A k \in 1 .. Top.i - 1 : region[r].hooks[k] = owed'[r][k]
      <4>1. Len(owed'[r]) = Top.i - 1 /\ Top.i >= 1 /\ Top.i \in Nat
        BY <1>1, <1>5, <1>6
      <4>2. Top.i - 1 <= region[r].num
        BY <4>1, <3>2, <1>3, Fields DEF Holds
      <4>3. \A k \in 1 .. Top.i - 1 : k \in 1 .. Top.i /\ k \in 1 .. Len(owed[r]) - 1
        BY <4>1, <1>1
      <4>4. QED
        BY <4>1, <4>2, <4>3, <3>2, <1>5, <1>6 DEF Holds
    <3>4. Holds(f.r, Left(f))'
      BY <3>1, <3>3, <1>2 DEF Holds, Left
    <3>5. f.i >= 1
      BY <2>1, <1>1, <1>4, <1>5
    <3>6. QED
      BY <2>1, <3>4, <3>5, <1>2, <1>3, <1>4 DEF Sound
  <2>2. CASE InEnds(f) /\ f.r # r
    <3>1. Sound(f) /\ f.r \in Regions
      BY <2>2 DEF Frames, FrameType
    <3>2. QED
      BY <2>2, <3>1, <1>2, <1>6 DEF Sound, Holds, Left
  <2>3. QED
    BY <2>1, <2>2, <1>7
<1>14. QED
  BY <1>7, <1>8, <1>10, <1>11, <1>12, <1>13

LEMMA HookReturnsIInv ==
  ASSUME IInv, HookReturns
  PROVE  IInv'
<1> USE DEF IInv
<1> DEFINE r == Top.r
           n == Top.i
           g == [Top EXCEPT !.running = None, !.i = n - 1]
<1>1. /\ ends # <<>> /\ Top.running # None
      /\ region' = [region EXCEPT ![r].hooks[n] = None]
      /\ ends' = [ends EXCEPT ![Len(ends)].running = None, ![Len(ends)].i = @ - 1]
      /\ fill' = fill /\ owed' = owed /\ late' = late /\ attached' = attached
  BY DEF HookReturns, InHook
<1>2. /\ Top \in FrameType /\ Sound(Top) /\ r \in Regions /\ n \in 0 .. MaxHooks
      /\ n >= 1 /\ MaxHooks \in Nat
  BY <1>1, TopIsSound, RegionAssumption DEF Sound
<1>3. /\ g \in FrameType /\ g.r = r /\ g.i = n - 1 /\ g.saved = Top.saved /\ g.running = None
  <2> DEFINE m == n - 1
  <2>1. m \in 0 .. MaxHooks
    BY <1>2
  <2> HIDE DEF m
  <2>2. LET f == [Top EXCEPT !.running = None, !.i = m]
        IN  f \in FrameType /\ f.r = r /\ f.i = m /\ f.saved = Top.saved /\ f.running = None
    BY <1>2, <2>1 DEF FrameType
  <2>3. QED
    BY <2>2 DEF m
<1>4. ends' = [ends EXCEPT ![Len(ends)] = g]
  <2>1. Len(ends) \in 1 .. Len(ends) /\ Top = ends[Len(ends)]
    BY <1>1, TopIsAFrame
  <2>2. ends' = [ends EXCEPT ![Len(ends)] =
                   [ends[Len(ends)] EXCEPT !.running = None, !.i = ends[Len(ends)].i - 1]]
    BY <1>1, <1>2, <2>1 DEF FrameType
  <2>3. QED
    BY <2>1, <2>2
<1>5. /\ region'[r].open = region[r].open /\ region'[r].num = region[r].num
      /\ region'[r].hooks = [region[r].hooks EXCEPT ![n] = None]
      /\ \A q \in Regions : q # r => region'[q] = region[q]
  BY <1>1, <1>2 DEF TypeOK, StructType
<1> HIDE DEF g
<1>6. /\ ends' \in Seq(FrameType) /\ FramesApart'
      /\ \A q \in Regions : Ending(q)' <=> Ending(q)
      /\ \A f \in FrameType : InEnds(f)' => f = g \/ (InEnds(f) /\ f.r # Top.r)
  BY <1>1, <1>3, <1>4, TopReplaced
<1>7. region' \in [Regions -> StructType]
  <2> DEFINE hs == [region[r].hooks EXCEPT ![n] = None]
  <2>1. region[r] \in StructType /\ hs \in [Slots -> Hooks \cup {None}]
    BY <1>2, Fields DEF TypeOK
  <2>2. region' = [region EXCEPT ![r] = [region[r] EXCEPT !.hooks = hs]]
    BY <1>1, <1>2, <2>1 DEF TypeOK, StructType
  <2> HIDE DEF hs
  <2>3. [region[r] EXCEPT !.hooks = hs] \in StructType
    BY <2>1 DEF StructType
  <2>4. QED
    BY <2>2, <2>3 DEF TypeOK
<1>8. TypeOK'
  BY <1>1, <1>6, <1>7 DEF TypeOK
<1>9. Closeds' /\ OwedOnce'
  <2>1. \A q \in Regions : region'[q].open = region[q].open
    BY <1>5
  <2>2. QED
    BY <2>1, <1>1 DEF Closeds, OwedOnce
<1>10. Ending(r)
  BY <1>1, TopIsSound
<1>11. Quiets'
  <2> SUFFICES ASSUME NEW q \in Regions, region'[q].open, ~Ending(q)'
               PROVE  Holds(q, region[q].num)'
    BY DEF Quiets
  <2>1. q # r /\ region'[q] = region[q] /\ owed'[q] = owed[q]
    BY <1>1, <1>5, <1>6, <1>10
  <2>2. Holds(q, region[q].num)
    BY <2>1, <1>6 DEF Quiets
  <2>3. QED
    BY <2>1, <2>2 DEF Holds
<1>12. Frames'
  <2> SUFFICES ASSUME NEW f \in FrameType, InEnds(f)'
               PROVE  Sound(f)'
    BY DEF Frames
  <2>1. CASE f = g
    <3>1. Left(f) = n - 1 /\ f.r = r /\ f.i = n - 1 /\ f.running = None
      BY <2>1, <1>3 DEF Left
    <3>2. Holds(r, n - 1) /\ n <= region[r].num
      BY <1>1, <1>2 DEF Sound, Left
    <3>3. \A k \in 1 .. n - 1 : region'[r].hooks[k] = region[r].hooks[k]
      <4>1. region[r].hooks \in [Slots -> Hooks \cup {None}]
        BY <1>2, Fields
      <4>2. \A k \in 1 .. n - 1 : k \in Slots /\ k # n
        BY <1>2 DEF Slots
      <4>3. QED
        BY <4>1, <4>2, <1>5
    <3>4. Holds(f.r, Left(f))'
      <4>1. Len(owed[r]) = n - 1 /\ n - 1 <= region'[r].num
        BY <3>2, <1>5 DEF Holds
      <4>2. \A k \in 1 .. n - 1 : region'[r].hooks[k] = owed[r][k]
        BY <3>2, <3>3 DEF Holds
      <4> HIDE DEF n, r
      <4>3. QED
        BY <4>1, <4>2, <3>1, <1>1 DEF Holds, Left
    <3>5. f.i <= region'[f.r].num
      BY <3>1, <3>2, <1>2, <1>5, Fields
    <3>6. region'[f.r].open /\ f.saved = attached[f.r]
      BY <2>1, <1>2, <1>3, <1>5 DEF Sound
    <3>7. QED
      BY <3>1, <3>4, <3>5, <3>6, <1>1 DEF Sound
  <2>2. CASE InEnds(f) /\ f.r # r
    <3>1. Sound(f) /\ f.r \in Regions
      BY <2>2 DEF Frames, FrameType
    <3>2. QED
      BY <2>2, <3>1, <1>1, <1>5 DEF Sound, Holds, Left
  <2>3. QED
    BY <2>1, <2>2, <1>6
<1>13. QED
  BY <1>6, <1>8, <1>9, <1>11, <1>12

(* When the loop is over nothing is owed, and the arena saved is the one   *)
(* the region had.                                                         *)
LEMMA EndFinishFacts ==
  ASSUME IInv, EndFinish
  PROVE  /\ ends # <<>> /\ Top.r \in Regions /\ Ending(Top.r)
         /\ owed[Top.r] = <<>> /\ attached[Top.r] = Top.saved
         /\ fill' = [a \in Arenas |-> IF a = Top.saved THEN 0 ELSE fill[a]]
<1>1. ends # <<>> /\ Top.running = None /\ Top.i = 0
  BY DEF EndFinish, InLoop
<1>2. Sound(Top) /\ Top.r \in Regions /\ Ending(Top.r) /\ owed[Top.r] \in Seq(Hooks)
  BY <1>1, TopIsSound, Fields DEF IInv
<1>3. Len(owed[Top.r]) = 0
  BY <1>1, <1>2 DEF Sound, Holds, Left
<1>4. owed[Top.r] = <<>>
  BY <1>2, <1>3, EmptySeq
<1>5. QED
  BY <1>1, <1>2, <1>4 DEF Sound, EndFinish

LEMMA EndFinishIInv ==
  ASSUME IInv, EndFinish
  PROVE  IInv'
<1> USE DEF IInv
<1> DEFINE r == Top.r
<1>1. /\ ends # <<>> /\ r \in Regions /\ owed[r] = <<>>
      /\ fill' = [a \in Arenas |-> IF a = Top.saved THEN 0 ELSE fill[a]]
  BY EndFinishFacts
<1>2. /\ region' = [region EXCEPT ![r] = [@ EXCEPT !.num = 0, !.arena = None, !.open = FALSE]]
      /\ ends' = Front(ends) /\ attached' = [attached EXCEPT ![r] = None]
      /\ owed' = owed /\ late' = late
  BY DEF EndFinish
<1>3. /\ region'[r].open = FALSE
      /\ \A q \in Regions : q # r => region'[q] = region[q] /\ attached'[q] = attached[q]
  BY <1>1, <1>2 DEF TypeOK, StructType
<1>4. region' \in [Regions -> StructType]
  <2>1. region[r] \in StructType
    BY <1>1 DEF TypeOK
  <2>2. 0 \in 0 .. MaxHooks
    BY RegionAssumption
  <2>3. [region[r] EXCEPT !.num = 0, !.arena = None, !.open = FALSE] \in StructType
    BY <2>1, <2>2 DEF StructType
  <2>4. QED
    BY <2>3, <1>2 DEF TypeOK
<1>5. /\ Front(ends) \in Seq(FrameType) /\ Len(Front(ends)) = Len(ends) - 1
      /\ Len(ends) \in Nat /\ Len(ends) >= 1
      /\ \A j \in 1 .. Len(ends) - 1 : Front(ends)[j] = ends[j]
  BY <1>1, FrontFacts DEF TypeOK
<1>6. \A j \in 1 .. Len(ends') :
        j \in 1 .. Len(ends) /\ j # Len(ends) /\ ends'[j] = ends[j]
  BY <1>2, <1>5
<1>7. \A j \in 1 .. Len(ends) : j # Len(ends) => j \in 1 .. Len(ends') /\ ends[j].r # r
  <2>1. Len(ends) \in 1 .. Len(ends) /\ Top = ends[Len(ends)]
    BY <1>1, TopIsAFrame
  <2>2. QED
    BY <2>1, <1>2, <1>5 DEF FramesApart
<1>8. fill' \in [Arenas -> 0 .. MaxFill]
  BY <1>1, RegionAssumption DEF TypeOK
<1>9. TypeOK'
  BY <1>2, <1>4, <1>5, <1>8 DEF TypeOK
<1>10. Closeds' /\ OwedOnce'
  BY <1>1, <1>2, <1>3 DEF Closeds, OwedOnce
<1>11. FramesApart'
  BY <1>6 DEF FramesApart
<1>12. Quiets'
  <2> SUFFICES ASSUME NEW q \in Regions, region'[q].open, ~Ending(q)'
               PROVE  Holds(q, region[q].num)'
    BY DEF Quiets
  <2>1. q # r
    BY <1>3
  <2>2. ~Ending(q)
    <3> SUFFICES ASSUME NEW j \in 1 .. Len(ends), ends[j].r = q PROVE FALSE
      BY DEF Ending
    <3>1. j # Len(ends)
      BY <2>1, <1>1, TopIsAFrame
    <3>2. j \in 1 .. Len(ends') /\ ends'[j] = ends[j]
      BY <3>1, <1>6, <1>7
    <3>3. QED
      BY <3>2 DEF Ending
  <2>3. Holds(q, region[q].num) /\ region'[q] = region[q]
    BY <2>1, <2>2, <1>3 DEF Quiets
  <2>4. QED
    BY <2>3, <1>2 DEF Holds
<1>13. Frames'
  <2> SUFFICES ASSUME NEW f \in FrameType, InEnds(f)'
               PROVE  Sound(f)'
    BY DEF Frames
  <2>1. InEnds(f) /\ f.r # r /\ f.r \in Regions
    BY <1>6, <1>7 DEF InEnds, FrameType
  <2>2. Sound(f)
    BY <2>1 DEF Frames
  <2>3. QED
    BY <2>1, <2>2, <1>2, <1>3 DEF Sound, Holds, Left
<1>14. QED
  BY <1>9, <1>10, <1>11, <1>12, <1>13

-----------------------------------------------------------------------------
LEMMA NextIInv == IInv /\ [Next]_vars => IInv'
<1> SUFFICES ASSUME IInv, [Next]_vars PROVE IInv'
  OBVIOUS
<1>1. ASSUME NEW r \in Regions, Begin(r) PROVE IInv'
  BY <1>1, BeginIInv
<1>2. ASSUME NEW r \in Regions, EndStart(r) PROVE IInv'
  BY <1>2, EndStartIInv
<1>3. ASSUME NEW r \in Regions, NEW a \in Arenas, AttachArena(r, a) PROVE IInv'
  BY <1>3, AttachArenaIInv
<1>4. ASSUME NEW r \in Regions, NEW h \in Hooks, Register(r, h) PROVE IInv'
  BY <1>4, RegisterIInv
<1>5. ASSUME NEW a \in Arenas, Alloc(a) PROVE IInv'
  BY <1>5, AllocIInv
<1>6. CASE CallHook
  BY <1>6, CallHookIInv
<1>7. CASE HookReturns
  BY <1>7, HookReturnsIInv
<1>8. CASE EndFinish
  BY <1>8, EndFinishIInv
<1>9. CASE UNCHANGED vars
  <2>1. TypeOK' /\ ends' = ends /\ owed' = owed /\ attached' = attached /\ region' = region
    BY <1>9 DEF IInv, TypeOK, vars
  <2>2. QED
    BY <2>1, TablesKept
<1>10. QED
  BY <1>1, <1>2, <1>3, <1>4, <1>5, <1>6, <1>7, <1>8, <1>9 DEF Next

LEMMA SpecIInv == Spec => []IInv
BY InitIInv, NextIInv, PTL DEF Spec

(* The stack of region_end, the tables and the ghosts keep their types: a  *)
(* registration is refused when the table is full, whatever hooks call.    *)
THEOREM RegionTypeOK == Spec => []TypeOK
<1>1. IInv => TypeOK
  BY DEF IInv
<1>2. QED
  BY <1>1, SpecIInv, PTL

(* region_end calls each hook once, last registered first, and returns     *)
(* when none that was there at its start is left, whatever hooks register, *)
(* begin and end meanwhile.                                                *)
THEOREM RegionHooksInReverse == Spec => HooksInReverse
<1>1. ASSUME IInv, CallHook
      PROVE  /\ owed[Top.r] # <<>>
             /\ Last(ends').running = Last(owed[Top.r])
             /\ owed'[Top.r] = Front(owed[Top.r])
  <2> DEFINE h == Last(owed[Top.r])
             g == [Top EXCEPT !.running = h]
  <2>1. /\ ends # <<>> /\ owed[Top.r] # <<>> /\ h \in Hooks
        /\ owed' = [owed EXCEPT ![Top.r] = Front(@)]
        /\ ends' = [ends EXCEPT ![Len(ends)] = g]
    BY <1>1, CallHookFacts
  <2>2. Top \in FrameType /\ Top.r \in Regions
    BY <1>1, <2>1, TopIsSound
  <2>3. g \in FrameType /\ g.r = Top.r /\ g.running = h
    BY <2>1, <2>2 DEF FrameType
  <2> HIDE DEF g
  <2>4. Last(ends') = g
    BY <1>1, <2>1, <2>3, TopReplaced
  <2>5. owed'[Top.r] = Front(owed[Top.r])
    BY <1>1, <2>1, <2>2 DEF IInv, TypeOK
  <2>6. QED
    BY <2>1, <2>3, <2>4, <2>5
<1>2. IInv /\ EndFinish => owed[Top.r] = <<>>
  BY EndFinishFacts
<1>3. IInv =>
        /\ CallHook =>
             /\ owed[Top.r] # <<>>
             /\ Last(ends').running = Last(owed[Top.r])
             /\ owed'[Top.r] = Front(owed[Top.r])
        /\ EndFinish => owed[Top.r] = <<>>
  BY <1>1, <1>2
<1>4. QED
  BY <1>3, SpecIInv, PTL DEF HooksInReverse

(* An arena loses what was allocated in it only to a region_end that has   *)
(* called all its hooks.                                                   *)
THEOREM RegionArenaOutlivesHooks == Spec => ArenaOutlivesHooks
<1>1. ASSUME IInv, [Next]_vars, NEW a \in Arenas, fill'[a] < fill[a]
      PROVE  \E r \in Regions : Ending(r) /\ attached[r] = a /\ owed[r] = <<>>
  <2>1. fill[a] \in Nat
    BY <1>1, RegionAssumption DEF IInv, TypeOK
  <2>2. fill' # fill
    BY <1>1, <2>1
  <2>3. ASSUME NEW b \in Arenas, Alloc(b) PROVE FALSE
    <3>1. fill'[a] = fill[a] \/ fill'[a] = fill[a] + 1
      BY <1>1, <2>3 DEF Alloc, IInv, TypeOK
    <3>2. QED
      BY <1>1, <2>1, <3>1
  <2>4. EndFinish
    BY <1>1, <2>2, <2>3
       DEF Next, Begin, EndStart, AttachArena, Register, CallHook, HookReturns, vars
  <2>5. /\ Top.r \in Regions /\ Ending(Top.r)
        /\ owed[Top.r] = <<>> /\ attached[Top.r] = Top.saved
        /\ fill' = [b \in Arenas |-> IF b = Top.saved THEN 0 ELSE fill[b]]
    BY <1>1, <2>4, EndFinishFacts
  <2>6. a = Top.saved
    BY <1>1, <2>1, <2>5
  <2>7. QED
    BY <2>5, <2>6
<1>2. IInv /\ [Next]_vars =>
        \A a \in Arenas : fill'[a] < fill[a] =>
          \E r \in Regions : Ending(r) /\ attached[r] = a /\ owed[r] = <<>>
  BY <1>1
<1>3. QED
  BY <1>2, SpecIInv, PTL DEF ArenaOutlivesHooks, Spec

(* region_end empties the arena the region had when it was called, even if *)
(* a hook attached another one.                                            *)
THEOREM RegionEndEmptiesArena == Spec => EndEmptiesArena
<1>1. ASSUME IInv, EndFinish, attached[Top.r] # None
      PROVE  fill'[attached[Top.r]] = 0
  <2>1. /\ Top.r \in Regions /\ attached[Top.r] = Top.saved
        /\ fill' = [b \in Arenas |-> IF b = Top.saved THEN 0 ELSE fill[b]]
    BY <1>1, EndFinishFacts
  <2>2. attached[Top.r] \in Arenas
    BY <1>1, <2>1 DEF IInv, TypeOK
  <2>3. QED
    BY <2>1, <2>2
<1>2. IInv => (EndFinish => (attached[Top.r] # None => fill'[attached[Top.r]] = 0))
  BY <1>1
<1>3. QED
  BY <1>2, SpecIInv, PTL DEF EndEmptiesArena
=============================================================================
