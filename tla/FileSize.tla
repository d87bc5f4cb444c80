------------------------------- MODULE FileSize ------------------------------
(***************************************************************************)
(* FormatFileSize of src/pbf/meta.cc, how `meta --pretty` prints a size.   *)
(*                                                                         *)
(* A size is given by its digits in base kDivisor, the last one first, so  *)
(* that each division of the code drops one; what is left for the last unit*)
(* has no limit.  (Dividing a double by 1024 is exact, and so is the       *)
(* conversion of sizes below 2^53 to double.)                              *)
(***************************************************************************)
EXTENDS Naturals, Sequences

kDivisor == 1024
kUnits   == <<"B", "K", "M", "G", "T">>

IsSize(size) ==
  /\ size \in Seq(Nat) /\ Len(size) <= Len(kUnits)
  /\ \A n \in DOMAIN size : n < Len(kUnits) => size[n] < kDivisor
  /\ size # <<>> => size[Len(size)] # 0

\* Mutant: less than ten units are shown with one decimal.
DecimalPlaces_OneForUnits(unit, whole) == IF unit = 0 \/ whole >= 100 THEN 0 ELSE 1

DecimalPlaces(unit, whole) ==
  CASE unit = 0 \/ whole >= 100 -> 0
    [] unit # 0 /\ whole \in 10..99 -> 1
    [] unit # 0 /\ whole < 10 -> 2

\* Mutant: decimals that round up to a whole are shown as zeros.
RoundUp_NoCarry(shown, up, scale) ==
  IF up THEN (scale * (shown \div scale)) + ((shown + 1) % scale) ELSE shown
RoundUp(shown, up, scale) == IF up THEN shown + 1 ELSE shown

(***************************************************************************)
(* std::fixed with a precision: size / kDivisor^unit in units of 1/scale,  *)
(* the nearest integer, the even one of two.  What is below the unit is    *)
(* multiplied by scale digit by digit: carry is what gets above the digit, *)
(* top what stays in its place, rest is zero if nothing is below that.     *)
(***************************************************************************)
Multiplied(done, digit, scale) ==
  LET product == digit * scale + done.carry
  IN  [carry |-> product \div kDivisor, top |-> product % kDivisor, rest |-> done.rest + done.top]

Below(size, unit, scale) ==
  LET upto[n \in 0..unit] ==
        IF n = 0 THEN [carry |-> 0, top |-> 0, rest |-> 0]
        ELSE Multiplied(upto[n - 1], size[n], scale)
  IN  upto

\* Is the nearest integer the one above shown?
Rounds(below, shown) ==
  LET half == kDivisor \div 2
  IN  below.top > half \/ (below.top = half /\ (below.rest # 0 \/ shown % 2 = 1))

Fixed(size, unit, scale) ==
  LET below == Below(size, unit, scale)[unit]
      shown == size[unit + 1] * scale + below.carry
  IN  RoundUp(shown, Rounds(below, shown), scale)

\* What is printed: shown / scale, and the unit.
FormatFileSize(size) ==
  IF size = <<>> THEN [shown |-> 0, scale |-> 1, unit |-> 0]
  ELSE LET unit  == Len(size) - 1
           scale == <<1, 10, 100>>[DecimalPlaces(unit, size[unit + 1]) + 1]
       IN  [shown |-> Fixed(size, unit, scale), scale |-> scale, unit |-> unit]

-----------------------------------------------------------------------------
\* The size in units of kDivisor^(unit - 1), rounded down.
InUnit(size, unit) ==
  (IF size = <<>> THEN 0 ELSE kDivisor * size[unit + 1]) + (IF unit = 0 THEN 0 ELSE size[unit])

\* What is printed is within half a per cent of the size.
Accurate(size, printed) ==
  LET exact == InUnit(size, printed.unit) * printed.scale
      shown == printed.shown * kDivisor
  IN  /\ 200 * shown <= 201 * (exact + printed.scale)
      /\ 200 * shown >= 199 * exact

\* One size is not shown as more than another.
AtMost(printed, other) ==
  IF printed.unit = other.unit
  THEN printed.shown * other.scale <= other.shown * printed.scale
  ELSE /\ printed.unit < other.unit
       /\ printed.shown <= kDivisor * printed.scale /\ other.shown >= other.scale

\* Smaller or equal, for sizes.
SizeAtMost(size, other) ==
  \/ Len(size) < Len(other)
  \/ Len(size) = Len(other) /\
       (size = other \/ \E n \in DOMAIN size :
          size[n] < other[n] /\ \A m \in (n + 1)..Len(size) : size[m] = other[m])
=============================================================================
