------------------------------- MODULE Range --------------------------------
(***************************************************************************)
(* Integer ranges.  isize and usize are as wide as IsizeMax says; signed   *)
(* arithmetic that leaves isize is undefined, and goes round here, which   *)
(* the property would show.                                                *)
(***************************************************************************)
EXTENDS Integers, FiniteSets

CONSTANT IsizeMax  \* ISIZE_MAX; that it is a power of two less 1 matters to nothing here

RangeAssumption == IsizeMax \in Nat \ {0}

VARIABLES
  r,    \* [current, end, step]
  ret   \* the value of the last range_next, <<>> after another call

vars == <<r, ret>>

-----------------------------------------------------------------------------
IsizeMin == -IsizeMax - 1
Isize == IsizeMin .. IsizeMax
UsizeSize == 2 * (IsizeMax + 1)

Signed(x) == ((x - IsizeMin) % UsizeSize) + IsizeMin
Unsigned(x) == x % UsizeSize

(* checked_add_isize answers whether it fits. *)
AddFits(a, b) == a + b \in Isize

IsEmpty == IF r.step > 0 THEN r.current >= r.end ELSE r.current <= r.end

(* range_len: the span of a range over both signs is summed in two parts. *)
AbsStep == IF r.step > 0 THEN r.step ELSE Signed(-r.step)
Span ==
  LET lo == IF r.step > 0 THEN r.current ELSE r.end
      hi == IF r.step > 0 THEN r.end ELSE r.current
  IN IF lo >= 0 \/ hi < 0 THEN Unsigned(Signed(hi - lo))
     ELSE Unsigned(hi + Signed(-(lo + 1)) + 1)
RangeLen == IF IsEmpty THEN 0 ELSE ((Span - 1) \div AbsStep) + 1

(* range_make of anything but a step of ISIZE_MIN; 0 is made 1. *)
Make(start, end, step) ==
  [current |-> start, end |-> end, step |-> IF step = 0 THEN 1 ELSE step]

Init ==
  /\ \E start, end, step \in Isize : step # IsizeMin /\ r = Make(start, end, step)
  /\ ret = <<>>

-----------------------------------------------------------------------------
(* A step past the end, or out of isize, ends at the end. *)
RangeNext ==
  LET next == r.current + r.step
      passed == IF r.step > 0 THEN next >= r.end ELSE next <= r.end
  IN /\ ~IsEmpty
     /\ r' = [r EXCEPT !.current = IF ~AddFits(r.current, r.step) \/ passed THEN r.end ELSE next]
     /\ ret' = <<r.current>>

(* An offset that is no isize exhausts the range. *)
Skip_ExhaustsEarly(n) ==
  /\ r' = [r EXCEPT !.current =
       IF n = 0 \/ IsEmpty THEN @
       ELSE IF n >= RangeLen \/ n * AbsStep > IsizeMax THEN r.end
       ELSE IF r.step > 0 THEN @ + n * AbsStep ELSE @ - n * AbsStep]
  /\ ret' = <<>>

(* An offset larger than ISIZE_MAX is applied in two parts. *)
Skip(n) ==
  LET Moved(x, by) == IF r.step > 0 THEN Signed(x + by) ELSE Signed(x - by)
      offset == Unsigned(n * AbsStep)
  IN /\ r' = [r EXCEPT !.current =
          IF n = 0 \/ IsEmpty THEN @
          ELSE IF n >= RangeLen THEN r.end
          ELSE IF offset > IsizeMax THEN Moved(Moved(@, IsizeMax), offset - IsizeMax)
          ELSE Moved(@, offset)]
     /\ ret' = <<>>

Reset(start) == r' = [r EXCEPT !.current = start] /\ ret' = <<>>

Next ==
  \/ RangeNext
  \/ \E n \in 0 .. UsizeSize - 1 : Skip(n)
  \/ \E start \in Isize : Reset(start)

Spec == Init /\ [][Next]_vars

-----------------------------------------------------------------------------
(* What the range still has: the integers from current on, step by step,   *)
(* that lie before end.                                                    *)
Values ==
  {x \in Isize :
     /\ IF r.step > 0 THEN r.current <= x /\ x < r.end ELSE r.current >= x /\ x > r.end
     /\ (x - r.current) % AbsStep = 0}

After(x) == {y \in Values : IF r.step > 0 THEN y > x ELSE y < x}

(* len counts what next will yield, at the ends of the integers too; next  *)
(* yields the first and leaves the others, and skip(n) leaves what n calls *)
(* of next would.                                                          *)
RangeCounts ==
  /\ [](RangeLen = Cardinality(Values))
  /\ [][/\ ret' = <<r.current>> => r.current \in Values /\ Values' = After(r.current)
        /\ \A n \in 0 .. UsizeSize - 1 : Skip(n) =>
             Values' = {x \in Values : Cardinality(Values \ (After(x) \cup {x})) >= n}]_vars
=============================================================================
