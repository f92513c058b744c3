------------------------------ MODULE ArenaOps ------------------------------
(***************************************************************************)
(* The arithmetic of the bump allocators: usize sums that wrap, alignment  *)
(* padding, the size rounding of mem_align, and the fit test and the       *)
(* placement that arena_alloc and arena_alloc_aligned share.               *)
(*                                                                         *)
(* Addresses and offsets are numbers; an arena's buffer starts at address  *)
(* base and offset o of it is the address base + o.                        *)
(***************************************************************************)
EXTENDS Integers

CONSTANTS
  UsizeMax,      \* CANON_USIZE_MAX
  DefaultAlign   \* CANON_DEFAULT_ALIGN

ASSUME ArenaOpsAssumption ==
  /\ UsizeMax \in Nat
  /\ DefaultAlign \in 1 .. UsizeMax

Usize == 0 .. UsizeMax

(* a + b on usize. *)
Add(a, b) == IF a + b > UsizeMax THEN a + b - (UsizeMax + 1) ELSE a + b

(* a * b on usize. *)
Mul(a, b) == (a * b) % (UsizeMax + 1)

(* ptr_align_padding: (0 - addr) & (align - 1) for a power of two. *)
PadOf(addr, align) == (align - (addr % align)) % align

(* mem_align: rounds up to the default alignment, saturating. *)
MemAlign(size) ==
  IF size > UsizeMax - (DefaultAlign - 1) THEN UsizeMax
  ELSE size + PadOf(size, DefaultAlign)

(* The fit test without its two overflow guards. *)
Fits_Unguarded(off, pad, size, cap) == Add(Add(off, pad), size) <= cap

(* The fit test without the padding. *)
Fits_NoPadding(off, pad, size, cap) ==
  /\ ~(off > UsizeMax - size)
  /\ Add(off, size) <= cap

(* The three-part fit test; the first two guards keep the third from       *)
(* wrapping.                                                               *)
Fits(off, pad, size, cap) ==
  /\ ~(off > UsizeMax - pad)
  /\ ~(Add(off, pad) > UsizeMax - size)
  /\ Add(Add(off, pad), size) <= cap

CanPlace(base, cap, off, size, align) ==
  /\ size > 0
  /\ Fits(off, PadOf(base + off, align), size, cap)

(* Where the block begins, and where the offset is left. *)
PlaceAt(base, off, align) == Add(off, PadOf(base + off, align))
OffsetAfter(base, off, size, align) == Add(PlaceAt(base, off, align), size)

(* The offsets a block covers. *)
Span(at, len) == at .. at + len - 1
=============================================================================
