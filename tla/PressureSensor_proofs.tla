------------------------ MODULE PressureSensor_proofs ------------------------
(***************************************************************************)
(* Proofs about PressureSensor, for every number of samples, every width   *)
(* of the result register and every scale.  The inductive invariant adds   *)
(* to the types that the sum lies between i times the least and i times    *)
(* the greatest sample; the rest is that scaling, rounding and clamping    *)
(* never turn two pressures round.                                         *)
(***************************************************************************)
EXTENDS PressureSensor, TLAPS

SumInv == i * lo <= pres /\ pres <= i * hi

PInv == TypeOK /\ SumInv

-----------------------------------------------------------------------------
(* Arithmetic.                                                             *)

\* Integer division is monotonic.
LEMMA DivMonotonic ==
  ASSUME NEW a \in Int, NEW b \in Int, NEW d \in Nat \ {0}, a <= b
  PROVE  a \div d \in Int /\ a \div d <= b \div d
BY SMTT(30)

\* So is the product with a natural number.
LEMMA MulMonotonic ==
  ASSUME NEW a \in Int, NEW b \in Int, NEW c \in Nat, a <= b
  PROVE  a * c <= b * c /\ c * a <= c * b
BY SMTT(30)

\* The quotient of a natural number is one.
LEMMA DivNat ==
  ASSUME NEW a \in Nat, NEW d \in Nat \ {0}
  PROVE  a \div d \in Nat
BY SMTT(30)

\* Rounding gives an integer and keeps the order, also across zero.
LEMMA RoundMonotonic ==
  ASSUME NEW a \in Int, NEW b \in Int, NEW d \in Nat \ {0}, a <= b
  PROVE  Round(a, d) \in Int /\ Round(a, d) <= Round(b, d)
<1>1. 2 * d \in Nat \ {0}
  OBVIOUS
<1>2. ASSUME NEW n \in Int, n >= 0 PROVE Round(n, d) \in Nat
  BY <1>1, <1>2, DivNat DEF Round
<1>3. ASSUME NEW n \in Int, n < 0
      PROVE  (d - 2 * n) \div (2 * d) \in Nat
             /\ Round(n, d) = -((d - 2 * n) \div (2 * d))
  BY <1>1, <1>3, DivNat DEF Round
<1>4. CASE a >= 0
  <2>1. 2 * a + d <= 2 * b + d
    OBVIOUS
  <2>2. QED
    BY <1>1, <1>2, <1>4, <2>1, DivMonotonic DEF Round
<1>5. CASE a < 0 /\ b >= 0
  BY <1>2, <1>3, <1>5
<1>6. CASE b < 0
  <2>1. d - 2 * b <= d - 2 * a
    OBVIOUS
  <2>2. (d - 2 * b) \div (2 * d) <= (d - 2 * a) \div (2 * d)
    BY <1>1, <2>1, DivMonotonic
  <2>3. QED
    BY <1>3, <1>6, <2>2
<1>7. QED
  BY <1>4, <1>5, <1>6

\* So do the percentage and what is shown of it.
LEMMA ShownMonotonic ==
  ASSUME NEW a \in Int, NEW b \in Int, a <= b
  PROVE  Clamp(Percentage(a)) \in {0, 100} \union 3 .. 98
         /\ Clamp(Percentage(a)) <= Clamp(Percentage(b))
<1> DEFINE d == Samples * Half * Span
           x == a * FullScale * 100
           y == b * FullScale * 100
<1>1. d \in Nat \ {0}
  <2>1. Samples * Half \in Nat \ {0}
    BY ConstantsOK, SMTT(30)
  <2>2. QED
    BY <2>1, ConstantsOK, SMTT(30)
<1>2. x \in Int /\ y \in Int /\ x <= y
  <2>1. a * FullScale \in Int /\ b * FullScale \in Int
        /\ a * FullScale <= b * FullScale
    BY ConstantsOK, MulMonotonic
  <2>2. QED
    BY <2>1
<1> HIDE DEF d, x, y
<1>3. Round(x, d) \in Int /\ Round(y, d) \in Int /\ Round(x, d) <= Round(y, d)
  BY <1>1, <1>2, RoundMonotonic
<1>4. Percentage(a) = Round(x, d) /\ Percentage(b) = Round(y, d)
  BY DEF Percentage, d, x, y
<1>5. QED
  BY <1>3, <1>4 DEF Clamp

\* A sample is within the range that lo and hi start from.
LEMMA SignedRange ==
  ASSUME NEW r \in RawValues
  PROVE  Signed(r) \in -2 * Half .. 2 * Half
BY ConstantsOK DEF Signed

-----------------------------------------------------------------------------
(* The invariant.                                                          *)

\* At start no sample has been taken.
LEMMA PressureInit == Init => PInv
<1>1. SUFFICES ASSUME Init PROVE PInv
  OBVIOUS
<1>2. Half \in Nat \ {0} /\ Samples \in Nat \ {0}
  BY ConstantsOK
<1>3. TypeOK
  <2>1. 2 * Half \in -2 * Half .. 2 * Half /\ -2 * Half \in -2 * Half .. 2 * Half
    BY <1>2
  <2>2. 0 \in 0 .. Samples /\ 0 # Samples
    BY <1>2
  <2>3. i \in 0 .. Samples /\ (i = Samples <=> p_pc = "show")
    BY <1>1, <2>2 DEF Init
  <2>4. lo \in -2 * Half .. 2 * Half /\ hi \in -2 * Half .. 2 * Half
    BY <1>1, <2>1 DEF Init
  <2>5. converting \in BOOLEAN /\ result \in RawValues
    BY <1>1 DEF Init
  <2>6. /\ p_pc \in {"command", "poll", "data", "show"}
        /\ pres \in Int /\ shown \in {0, 100} \union 3 .. 98
    BY <1>1 DEF Init
  <2>7. QED
    BY <2>3, <2>4, <2>5, <2>6 DEF TypeOK
<1>4. 0 * lo = 0 /\ 0 * hi = 0
  BY <1>1, <1>2 DEF Init
<1>5. QED
  BY <1>1, <1>3, <1>4 DEF Init, PInv, SumInv

\* Every transaction, failed or not, keeps the sum between its bounds.
LEMMA PressureStep == PInv /\ [Next]_vars => PInv'
<1> SUFFICES ASSUME PInv, [Next]_vars PROVE PInv'
  OBVIOUS
<1> USE DEF PInv
<1>c. Half \in Nat \ {0} /\ Samples \in Nat \ {0}
  BY ConstantsOK
<1>1. CASE Converted
  BY <1>1 DEF Converted, TypeOK, SumInv
<1>2. CASE StartConversion
  BY <1>2 DEF StartConversion, TypeOK, SumInv
<1>3. CASE PollSCO
  BY <1>3 DEF PollSCO, TypeOK, SumInv, sensor
<1>4. CASE ReadResult
  <2> DEFINE x == Signed(result)
  <2>1. x \in -2 * Half .. 2 * Half
    BY SignedRange DEF TypeOK
  <2>2. /\ pres' = pres + x /\ i' = i + 1
        /\ lo' = IF x < lo THEN x ELSE lo
        /\ hi' = IF x > hi THEN x ELSE hi
        /\ UNCHANGED <<converting, result, shown>>
        /\ p_pc = "data"
        /\ p_pc' = IF i' < Samples THEN "command" ELSE "show"
    BY <1>4 DEF ReadResult, sensor
  <2> HIDE DEF x
  <2>3. i \in 0 .. Samples - 1 /\ pres \in Int
        /\ lo \in -2 * Half .. 2 * Half /\ hi \in -2 * Half .. 2 * Half
    BY <2>2, <1>c DEF TypeOK
  <2>4. TypeOK'
    BY <2>1, <2>2, <2>3, <1>c DEF TypeOK
  <2>5. lo' \in Int /\ lo' <= lo /\ lo' <= x /\ hi' \in Int /\ hi <= hi' /\ x <= hi'
    BY <2>1, <2>2, <2>3, <1>c
  <2>6. i * lo' <= i * lo /\ i * hi <= i * hi'
    <3>1. i \in Nat /\ lo \in Int /\ hi \in Int
      BY <2>3, <1>c
    <3>2. QED
      BY <2>5, <3>1, MulMonotonic
  <2>7. i * lo' + lo' <= pres' /\ pres' <= i * hi' + hi'
    BY <2>1, <2>2, <2>3, <2>5, <2>6, <1>c DEF SumInv
  <2>8. i' * lo' = i * lo' + lo' /\ i' * hi' = i * hi' + hi'
    BY <2>2, <2>3, <2>5, <1>c
  <2>9. QED
    BY <2>4, <2>7, <2>8 DEF SumInv
<1>5. CASE ShowPressure
  <2>1. pres' = 0 /\ i' = 0 /\ lo' = 2 * Half /\ hi' = -2 * Half
        /\ p_pc' = "command" /\ UNCHANGED sensor
        /\ shown' = Clamp(Percentage(pres))
    BY <1>5 DEF ShowPressure
  <2>2. shown' \in {0, 100} \union 3 .. 98
    BY <2>1, ShownMonotonic DEF TypeOK
  <2>3. TypeOK'
    BY <2>1, <2>2, <1>c DEF TypeOK, sensor
  <2>4. QED
    BY <2>1, <2>3, <1>c DEF SumInv
<1>6. CASE TransactionFails
  BY <1>6 DEF TransactionFails, TypeOK, SumInv
<1>7. CASE UNCHANGED vars
  BY <1>7 DEF vars, sensor, TypeOK, SumInv
<1>8. QED
  BY <1>1, <1>2, <1>3, <1>4, <1>5, <1>6, <1>7 DEF Next, pressure_read

-----------------------------------------------------------------------------
(* Theorems.                                                               *)

\* The sum lies between its bounds after every transaction (main.c, 167-178).
THEOREM PressureInvariance == Spec => []PInv
BY PressureInit, PressureStep, PTL DEF Spec

\* The labels show 0, 100 or a percentage from 3 to 98 (main.c, 181-185), and
\* exactly the samples that were read are counted.
THEOREM PressureTypes == Spec => []TypeOK
<1>1. PInv => TypeOK
  BY DEF PInv
<1>2. QED
  BY <1>1, PressureInvariance, PTL

\* What is shown lies between the least and the greatest sample, however many
\* transactions have failed between them (main.c, 169-187).
THEOREM PressureIsMean == Spec => ShownIsMean
<1> DEFINE Mean ==
      ShowPressure =>
        /\ Clamp(Percentage(Samples * lo)) <= shown'
        /\ shown' <= Clamp(Percentage(Samples * hi))
<1>1. ASSUME PInv, ShowPressure
      PROVE  /\ Clamp(Percentage(Samples * lo)) <= shown'
             /\ shown' <= Clamp(Percentage(Samples * hi))
  <2>1. i = Samples /\ shown' = Clamp(Percentage(pres)) /\ pres \in Int
    BY <1>1 DEF ShowPressure, PInv, TypeOK
  <2>2. lo \in Int /\ hi \in Int /\ Samples \in Nat
    BY <1>1, ConstantsOK DEF PInv, TypeOK
  <2>3. Samples * lo \in Int /\ Samples * hi \in Int
    BY <2>2
  <2>4. Samples * lo <= pres /\ pres <= Samples * hi
    BY <1>1, <2>1 DEF PInv, SumInv
  <2>5. QED
    BY <2>1, <2>3, <2>4, ShownMonotonic
<1>2. PInv => Mean
  BY <1>1
<1>3. PInv /\ [Next]_vars => [Mean]_vars
  BY <1>2
<1>4. QED
  BY <1>3, PressureInvariance, PTL DEF Spec, ShownIsMean

=============================================================================
