------------------------------ MODULE Checked -------------------------------
(***************************************************************************)
(* Checked arithmetic, in the portable form the compilers without overflow *)
(* builtins get: what it answers is decided without an intermediate that   *)
(* overflows.  A program computes with one unsigned and one signed number; *)
(* the other widths do what usize does.                                    *)
(***************************************************************************)
EXTENDS Integers

CONSTANT IsizeMax  \* ISIZE_MAX; nothing here needs it to be a power of two less 1

CheckedAssumption == IsizeMax \in Nat \ {0}

VARIABLES
  u,   \* a usize
  i,   \* an isize
  ok   \* what the last call returned

vars == <<u, i, ok>>

-----------------------------------------------------------------------------
IsizeMin == -IsizeMax - 1
Isize == IsizeMin .. IsizeMax
CANON_USIZE_MAX == 2 * IsizeMax + 1
Usize == 0 .. CANON_USIZE_MAX

Wrapped(x) == x % (CANON_USIZE_MAX + 1)

(* C's division, which rounds towards 0. *)
Quotient(a, b) ==
  LET abs(x) == IF x < 0 THEN -x ELSE x
      q == abs(a) \div abs(b)
  IN IF (a < 0) = (b < 0) THEN q ELSE -q

Yields(x) == [ok |-> TRUE, val |-> x]
Refuses(x) == [ok |-> FALSE, val |-> x]
Judged(good, x) == IF good THEN Yields(x) ELSE Refuses(x)

(* The unsigned forms store the wrapped result either way. *)
CheckedAdd(a, b) == Judged(Wrapped(a + b) >= a, Wrapped(a + b))
CheckedSub(a, b) == Judged(b <= a, Wrapped(a - b))
CheckedMul(a, b) ==
  IF a = 0 \/ b = 0 THEN Yields(0)
  ELSE Judged(Wrapped(a * b) \div a = b, Wrapped(a * b))
CheckedDiv(a, b) == IF b = 0 THEN Refuses(a) ELSE Yields(a \div b)
CheckedMod(a, b) == IF b = 0 THEN Refuses(a) ELSE Yields(a % b)

(* The signed forms leave *result, here a, as it is when they refuse. *)
CheckedAddIsize(a, b) ==
  IF \/ a > 0 /\ b > 0 /\ b > IsizeMax - a
     \/ a < 0 /\ b < 0 /\ b < IsizeMin - a
  THEN Refuses(a) ELSE Yields(a + b)

CheckedSubIsize(a, b) ==
  IF \/ b > 0 /\ a < IsizeMin + b
     \/ b < 0 /\ a > IsizeMax + b
  THEN Refuses(a) ELSE Yields(a - b)

(* Two negative factors are not looked at. *)
CheckedMulIsize_MixedSignsOnly(a, b) ==
  IF a = 0 \/ b = 0 THEN Yields(0)
  ELSE IF \/ a > 0 /\ b > 0 /\ a > Quotient(IsizeMax, b)
          \/ a > 0 /\ b < 0 /\ b < Quotient(IsizeMin, a)
          \/ a < 0 /\ b > 0 /\ a < Quotient(IsizeMin, b)
  THEN Refuses(a) ELSE Yields(a * b)

CheckedMulIsize(a, b) ==
  IF a = 0 \/ b = 0 THEN Yields(0)
  ELSE IF a = 1 \/ b = 1 THEN Yields(a * b)
  ELSE IF \/ a = IsizeMin \/ b = IsizeMin
          \/ a > 0 /\ b > 0 /\ a > Quotient(IsizeMax, b)
          \/ a < 0 /\ b < 0 /\ a < Quotient(IsizeMax, b)
          \/ a > 0 /\ b < 0 /\ b < Quotient(IsizeMin, a)
          \/ a < 0 /\ b > 0 /\ a < Quotient(IsizeMin, b)
  THEN Refuses(a) ELSE Yields(a * b)

CheckedDivIsize(a, b) ==
  IF b = 0 \/ (a = IsizeMin /\ b = -1) THEN Refuses(a) ELSE Yields(Quotient(a, b))
CheckedModIsize(a, b) ==
  IF b = 0 \/ (a = IsizeMin /\ b = -1) THEN Refuses(a) ELSE Yields(a - b * Quotient(a, b))

-----------------------------------------------------------------------------
Init == u = 0 /\ i = 0 /\ ok = TRUE

Unsigned(answer) == u' = answer.val /\ ok' = answer.ok /\ UNCHANGED i
Signed(answer) == i' = answer.val /\ ok' = answer.ok /\ UNCHANGED u

Add(b) == Unsigned(CheckedAdd(u, b))
Sub(b) == Unsigned(CheckedSub(u, b))
Mul(b) == Unsigned(CheckedMul(u, b))
Div(b) == Unsigned(CheckedDiv(u, b))
Mod(b) == Unsigned(CheckedMod(u, b))

AddIsize(b) == Signed(CheckedAddIsize(i, b))
SubIsize(b) == Signed(CheckedSubIsize(i, b))
MulIsize(b) == Signed(CheckedMulIsize(i, b))
DivIsize(b) == Signed(CheckedDivIsize(i, b))
ModIsize(b) == Signed(CheckedModIsize(i, b))

Next ==
  \/ \E b \in Usize : Add(b) \/ Sub(b) \/ Mul(b) \/ Div(b) \/ Mod(b)
  \/ \E b \in Isize : AddIsize(b) \/ SubIsize(b) \/ MulIsize(b) \/ DivIsize(b) \/ ModIsize(b)

Spec == Init /\ [][Next]_vars

-----------------------------------------------------------------------------
(* For every pair of numbers: a call answers yes exactly if the result     *)
(* exists and has a place in the type, and then it is the result.          *)
Exact(answer, type, defined, result) ==
  IF defined /\ result \in type THEN answer = Yields(result) ELSE ~answer.ok

CheckedExact ==
  /\ \A b \in Usize :
       /\ Exact(CheckedAdd(u, b), Usize, TRUE, u + b)
       /\ Exact(CheckedSub(u, b), Usize, TRUE, u - b)
       /\ Exact(CheckedMul(u, b), Usize, TRUE, u * b)
       /\ b # 0 => LET q == CheckedDiv(u, b).val
                       m == CheckedMod(u, b).val
                   IN q * b + m = u /\ m \in 0 .. b - 1
  /\ \A b \in Isize :
       /\ Exact(CheckedAddIsize(i, b), Isize, TRUE, i + b)
       /\ Exact(CheckedSubIsize(i, b), Isize, TRUE, i - b)
       /\ Exact(CheckedMulIsize(i, b), Isize, TRUE, i * b)
       /\ Exact(CheckedDivIsize(i, b), Isize, b # 0, IF b = 0 THEN 0 ELSE Quotient(i, b))
       /\ CheckedModIsize(i, b).ok = CheckedDivIsize(i, b).ok
=============================================================================
