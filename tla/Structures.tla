----------------------------- MODULE Structures -----------------------------
(***************************************************************************)
(* The containers and the arithmetic, side by side: none of them shares    *)
(* state with another, so a behaviour is one of the part it starts with.   *)
(***************************************************************************)
EXTENDS Deque, PriorityQueue, Intern

CONSTANTS
  Nul, Junk,
  VecAddrs, VecInitial, ElemSize, UsizeMax,  \* DynVec
  InlineCap,                                 \* SmallVec
  VecCapacities,                             \* Vec
  StringAddrs, StringInitial, AllocMax,      \* DynString
  BufCapacities,                             \* StringBuf
  Bitsets, CapacityOf, OrPairs, Width,       \* Bitset
  RangeMax, CheckedMax,                      \* Range's ISIZE_MAX, and Checked's
  Keys, MaxLen, Cutoff                       \* SortSearch

VARIABLES
  part,
  dv, dvBlock, dvLoan, dvRet,
  sv, svInner, svOuter, svHeap, svRet,
  fv, fvRet,
  ds, dsBlock, dsLoan, dsRet,
  sb, sbLen, sbRet,
  bs, bsRet,
  rg, rgRet,
  ckU, ckI, ckOk,
  ss, ssTemp, ssCalls, ssFound

dvVars == <<dv, dvBlock, dvLoan, dvRet>>
svVars == <<sv, svInner, svOuter, svHeap, svRet>>
fvVars == <<fv, fvRet>>
dsVars == <<ds, dsBlock, dsLoan, dsRet>>
sbVars == <<sb, sbLen, sbRet>>
bsVars == <<bs, bsRet>>
rgVars == <<rg, rgRet>>
ckVars == <<ckU, ckI, ckOk>>
ssVars == <<ss, ssTemp, ssCalls, ssFound>>

DV == INSTANCE DynVec WITH
  Addrs <- VecAddrs, Initial <- VecInitial,
  v <- dv, block <- dvBlock, loan <- dvLoan, ret <- dvRet

SV == INSTANCE SmallVec WITH
  v <- sv, inner <- svInner, outer <- svOuter, heap <- svHeap, ret <- svRet

FV == INSTANCE Vec WITH
  Capacities <- VecCapacities, v <- fv, ret <- fvRet

DS == INSTANCE DynString WITH
  Chars <- Vals, Addrs <- StringAddrs, Initial <- StringInitial,
  s <- ds, block <- dsBlock, loan <- dsLoan, ret <- dsRet

SB == INSTANCE StringBuf WITH
  Chars <- Vals, Capacities <- BufCapacities, data <- sb, len <- sbLen, ret <- sbRet

BS == INSTANCE Bitset WITH words <- bs, ret <- bsRet

RG == INSTANCE Range WITH IsizeMax <- RangeMax, r <- rg, ret <- rgRet

CK == INSTANCE Checked WITH IsizeMax <- CheckedMax, u <- ckU, i <- ckI, ok <- ckOk

SS == INSTANCE SortSearch WITH
  arr <- ss, temp <- ssTemp, calls <- ssCalls, found <- ssFound

ASSUME StructuresAssumption ==
  /\ DV!DynVecAssumption /\ SV!SmallVecAssumption /\ FV!VecAssumption
  /\ DS!DynStringAssumption /\ SB!StringBufAssumption
  /\ BS!BitsetAssumption /\ RG!RangeAssumption /\ CK!CheckedAssumption
  /\ SS!SortAssumption

-----------------------------------------------------------------------------
(* The parts that do not run start as some fixed one of their inits.       *)
Elsewhere(p, start) == part # p => start

StructuresInit ==
  /\ part \in {"deque", "queue", "intern", "dynvec", "smallvec", "vec", "dynstring",
               "stringbuf", "bitset", "range", "checked", "sort"}
  /\ Init /\ Elsewhere("deque", \A d \in Deques :
                              /\ dq[d] = Opened(d)
                              /\ \A i \in DOMAIN mem[d] : mem[d][i] = CHOOSE x \in Vals : TRUE)
  /\ PQInit /\ Elsewhere("queue", heap = [i \in Slots |-> CHOOSE e \in Elems : TRUE])
  /\ InternInit /\ Elsewhere("intern", hash = [t \in Texts |-> 0])
  /\ DV!Init
  /\ SV!Init /\ Elsewhere("smallvec", sv = SV!Opened(FALSE))
  /\ FV!Init /\ DS!Init /\ SB!Init /\ BS!Init
  /\ RG!Init /\ Elsewhere("range", rg = RG!Make(0, 1, 1))
  /\ CK!Init
  /\ SS!Init /\ Elsewhere("sort", ss = <<>> /\ ssTemp)

Only(p) ==
  /\ part = p /\ UNCHANGED part
  /\ p # "deque" => UNCHANGED vars
  /\ p # "queue" => UNCHANGED pqvars
  /\ p # "intern" => UNCHANGED internVars
  /\ p # "dynvec" => UNCHANGED dvVars
  /\ p # "smallvec" => UNCHANGED svVars
  /\ p # "vec" => UNCHANGED fvVars
  /\ p # "dynstring" => UNCHANGED dsVars
  /\ p # "stringbuf" => UNCHANGED sbVars
  /\ p # "bitset" => UNCHANGED bsVars
  /\ p # "range" => UNCHANGED rgVars
  /\ p # "checked" => UNCHANGED ckVars
  /\ p # "sort" => UNCHANGED ssVars

StructuresNext ==
  \/ Only("deque") /\ Next
  \/ Only("queue") /\ PQNext
  \/ Only("intern") /\ InternNext
  \/ Only("dynvec") /\ DV!Next
  \/ Only("smallvec") /\ SV!Next
  \/ Only("vec") /\ FV!Next
  \/ Only("dynstring") /\ DS!Next
  \/ Only("stringbuf") /\ SB!Next
  \/ Only("bitset") /\ BS!Next
  \/ Only("range") /\ RG!Next
  \/ Only("checked") /\ CK!Next
  \/ Only("sort") /\ SS!Next

allVars ==
  <<part, vars, pqvars, internVars, dvVars, svVars, fvVars, dsVars, sbVars,
    bsVars, rgVars, ckVars, ssVars>>

StructuresSpec == StructuresInit /\ [][StructuresNext]_allVars /\ WF_pqvars(Runs)

-----------------------------------------------------------------------------
(* The type invariants of the parts that state one. *)
TypesOK == TypeOK /\ PQTypeOK /\ InternTypeOK /\ DV!TypeOK /\ SV!TypeOK

(* DynVec, DynString: see BorrowTellsMoves there. *)
BorrowsTellMoves == DV!BorrowTellsMoves /\ DS!BorrowTellsMoves

(* SmallVec: see OneBlockOut there. *)
OneBlockOut == SV!OneBlockOut

(* Vec, DynVec and SmallVec each serve a sequence. *)
VectorsServe == FV!Implements /\ DV!Implements /\ SV!SpillsAtMostOnce

(* DynString and StringBuf: what they give out is a C string. *)
StringsTerminated == DS!Terminated /\ SB!Terminated

(* DynString and StringBuf each serve a sequence of characters. *)
StringsServe == DS!Implements /\ SB!Implements

(* Bitset: see Implements there. *)
BitsetsServe == BS!Implements

(* Range: see RangeCounts there. *)
RangeCounts == RG!RangeCounts

(* Checked: see CheckedExact there. *)
CheckedExact == CK!CheckedExact

(* SortSearch: see SortsStably and BoundsDelimit there. *)
SortsStably == SS!SortsStably
BoundsDelimit == SS!BoundsDelimit
=============================================================================
