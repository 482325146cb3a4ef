--------------------------- MODULE CalculationsProofs --------------------------
(***************************************************************************)
(* What the calculations say, for any data they are given.                 *)
(*                                                                         *)
(* The liquidity forecast: the required collection is enough and least,    *)
(* the additional collection ends the need, the cash path is the books of  *)
(* the covered years, unknown years stay unknown, and a forecast that      *)
(* claims to be complete is.                                               *)
(*                                                                         *)
(* The figures: every repair and every figure of the account data is       *)
(* counted once, the browser's views show what the server calculates, and  *)
(* a comparison of two balance sheets adds up.  These follow from the types*)
(* of the data and from what a sum is (SetLemmas).                         *)
(***************************************************************************)
EXTENDS Calculations, Sequences, SetLemmas, TLAPS

-----------------------------------------------------------------------------
(* The liquidity forecast.                                                   *)

\* The years the running loop is through with.
Walked(y) == pc = "path" => y < year
Solved(y) == pc = "done" \/ (pc = "collection" /\ y < year)

\* The row of a walked year: a covered year closes with what it opened with, the
\* margin and the costs, a year beyond shows nothing.
RowRight(y) ==
  /\ path[y].costsKnown = Covered(input, y)
  /\ Covered(input, y) =>
       /\ path[y].closing \in Int
       /\ path[y].closing = (IF y = StartYear THEN input.currentCash ELSE path[y - 1].closing)
                              + input.margin - input.cost[y]
       /\ path[y].shortfall = Larger(0, Buffer(input) - path[y].closing)
  /\ ~Covered(input, y) =>
       /\ path[y].closing = Absent /\ path[y].shortfall = Absent
       /\ y # StartYear /\ ~Covered(input, y - 1) => path[y].opening = Absent

\* What the cash path has reached.
PathInv ==
  /\ \A y \in Years : Walked(y) => RowRight(y)
  /\ pc = "path" =>
       /\ cumulative = 0 /\ required = 0
       /\ year = StartYear => opening = input.currentCash
       /\ year # StartYear /\ Covered(input, year - 1) => opening = path[year - 1].closing
       /\ year # StartYear /\ ~Covered(input, year - 1) => opening = Absent

\* What the second loop has reached.
CollectionInv ==
  /\ pc = "collection" =>
       /\ year = StartYear => cumulative = 0 /\ required = 0
       /\ year # StartYear => cumulative = through[year - 1]
  /\ \A y \in Years : Solved(y) =>
       /\ CashWith(required, y) >= Buffer(input)
       /\ Covered(input, y) => path[y].closing = CashWith(input.margin, y)
  /\ pc \in {"collection", "done"} /\ required > 0 =>
       \E y \in Years : Solved(y) /\ CashWith(required - 1, y) < Buffer(input)

LiquidityInv == TypeOK /\ PathInv /\ CollectionInv

-----------------------------------------------------------------------------

\* Math.ceil of a quotient is the least integer that is not below it.
LEMMA CeilDivLeast ==
  ASSUME NEW a \in Int, NEW n \in Nat, n > 0
  PROVE  /\ CeilDiv(a, n) \in Int
         /\ n * CeilDiv(a, n) >= a
         /\ n * (CeilDiv(a, n) - 1) < a
<1>1. /\ (-a) \div n \in Int
      /\ -a = n * ((-a) \div n) + ((-a) % n)
      /\ (-a) % n \in 0 .. n - 1
  OBVIOUS
<1> DEFINE q == (-a) \div n
<1>2. n * (-q) = -(n * q) /\ n * (-q - 1) = -(n * q) - n
  BY <1>1
<1> QED
  BY <1>1, <1>2 DEF CeilDiv

\* More of what is multiplied gives more.
LEMMA ProductMonotone ==
  ASSUME NEW n \in Nat, NEW a \in Int, NEW b \in Int, a >= b
  PROVE  n * a >= n * b
OBVIOUS

\* The buffer is a number of cents.
LEMMA BufferNat == ASSUME TypeOK PROVE Buffer(input) \in Nat
<1>1. /\ input.trailing12mOperatingCosts \in Nat
      /\ input.userOverride \in Nat \cup {Absent}
      /\ HalfMonths(input) \in Nat
  BY DEF TypeOK, Input, HalfMonths, DefaultBufferHalfMonths
<1>2. input.trailing12mOperatingCosts * HalfMonths(input) \in Nat
  BY <1>1
<1>3. (input.trailing12mOperatingCosts * HalfMonths(input) + 12) \div 24 \in Nat
  <2> DEFINE p == input.trailing12mOperatingCosts * HalfMonths(input)
  <2> SUFFICES (p + 12) \div 24 \in Nat
    OBVIOUS
  <2>1. p \in Nat
    BY <1>2
  <2> HIDE DEF p
  <2> QED
    BY <2>1
<1> QED
  BY <1>1, <1>3 DEF Buffer

\* The input's parts, with their types.
LEMMA InputTypes ==
  ASSUME TypeOK
  PROVE  /\ \A y \in Years : input.cost[y] \in Nat
         /\ input.currentCash \in Nat /\ input.margin \in Int
         /\ input.coverage \in Int \cup {Absent}
         /\ Years \subseteq Nat \ {0} /\ StartYear \in Years /\ EndYear \in Years
BY HorizonAssumption DEF TypeOK, Input, Years

-----------------------------------------------------------------------------

\* A forecast begins with nothing walked.
LEMMA InitInv == Init => LiquidityInv
<1> SUFFICES ASSUME Init PROVE LiquidityInv
  OBVIOUS
<1>1. TypeOK
  BY HorizonAssumption, InputsAssumption DEF Init, TypeOK, Input, Years, Row, NoRow
<1>2. /\ pc = "path" /\ year = StartYear
      /\ \A y \in Years : ~(y < year)
  BY HorizonAssumption DEF Init, Years
<1> QED
  BY <1>1, <1>2 DEF Init, LiquidityInv, PathInv, CollectionInv, Walked, Solved

\* The loop of the cash path starts the second loop with nothing solved.
LEMMA PathStepSolvesNothing ==
  ASSUME LiquidityInv, pc = "path",
         cumulative' = cumulative, required' = required, through' = through,
         \/ year < EndYear /\ year' = year + 1 /\ pc' = pc
         \/ year = EndYear /\ year' = StartYear /\ pc' = "collection"
  PROVE  CollectionInv'
<1>1. cumulative' = 0 /\ required' = 0
  BY DEF LiquidityInv, PathInv
<1>2. \A y \in Years : ~Solved(y)'
  BY HorizonAssumption DEF Solved, Years
<1>3. pc' # "done" /\ (pc' = "collection" => year' = StartYear)
  OBVIOUS
<1> QED
  BY <1>1, <1>2, <1>3 DEF CollectionInv

\* A step of the cash path that writes the row of its year keeps the rows before it.
LEMMA PathStepKeepsRows ==
  ASSUME LiquidityInv, pc = "path", input' = input, NEW r, NEW n, n = year,
         path' = [path EXCEPT ![n] = r],
         \/ year < EndYear /\ year' = year + 1 /\ pc' = pc
         \/ year = EndYear /\ year' = StartYear /\ pc' = "collection",
         RowRight(n)'
  PROVE  \A y \in Years : Walked(y)' => RowRight(y)'
<1> SUFFICES ASSUME NEW y \in Years, Walked(y)', y # n PROVE RowRight(y)'
  OBVIOUS
<1>1. y < n /\ n \in Years
  BY HorizonAssumption DEF Walked, Years, LiquidityInv, TypeOK
<1>2. RowRight(y) /\ path \in [Years -> Row]
  BY <1>1 DEF LiquidityInv, PathInv, Walked, TypeOK
<1>3. path'[y] = path[y] /\ (y # StartYear => path'[y - 1] = path[y - 1])
  BY <1>1, <1>2, HorizonAssumption DEF Years
<1> QED
  BY <1>2, <1>3 DEF RowRight, Buffer, Covered, HalfMonths

\* The walk of the cash path, a covered year.
LEMMA CoveredYearInv ==
  ASSUME LiquidityInv, CoveredYear
  PROVE  LiquidityInv'
<1> PICK n : n = year
  OBVIOUS
<1> DEFINE closing == opening + input.margin - input.cost[n]
           row == [costsKnown |-> TRUE, opening |-> opening, closing |-> closing,
                   shortfall |-> Larger(0, Buffer(input) - closing)]
<1>1. /\ pc = "path" /\ Covered(input, n) /\ input' = input
      /\ path' = [path EXCEPT ![n] = row]
      /\ opening' = closing
      /\ cumulative' = cumulative /\ required' = required /\ through' = through
  BY DEF CoveredYear
<1>2. TypeOK /\ Buffer(input) \in Nat /\ n \in Years /\ path \in [Years -> Row]
  BY BufferNat DEF LiquidityInv, TypeOK
<1>a. \/ year < EndYear /\ year' = year + 1 /\ pc' = pc
      \/ year = EndYear /\ year' = StartYear /\ pc' = "collection"
  BY <1>2, HorizonAssumption DEF CoveredYear, Advance, Years
<1>3. n # StartYear => n - 1 \in Years /\ n - 1 < n /\ Covered(input, n - 1)
  BY <1>1, <1>2, InputTypes, HorizonAssumption, AbsentAssumption DEF Years, Covered
<1>4. opening = IF n = StartYear THEN input.currentCash ELSE path[n - 1].closing
  BY <1>1, <1>3 DEF LiquidityInv, PathInv
<1>5. opening \in Int
  BY <1>1, <1>2, <1>3, <1>4, InputTypes DEF LiquidityInv, PathInv, Walked, RowRight
<1>6. closing \in Int /\ Larger(0, Buffer(input) - closing) \in Nat
  BY <1>2, <1>5, InputTypes DEF Larger
<1>7. row \in Row
  BY <1>5, <1>6 DEF Row
<1>8. TypeOK'
  BY <1>1, <1>2, <1>a, <1>6, <1>7, HorizonAssumption DEF TypeOK, Years
<1>9. path'[n] = row /\ (n # StartYear => path'[n - 1] = path[n - 1])
  <2> HIDE DEF row, closing
  <2> QED
    BY <1>1, <1>2, <1>3, HorizonAssumption DEF Years
<1>10. RowRight(n)'
  <2>1. /\ path'[n].costsKnown = TRUE
        /\ path'[n].closing = closing
        /\ path'[n].shortfall = Larger(0, Buffer(input) - closing)
    BY <1>9
  <2>2. closing = (IF n = StartYear THEN input.currentCash ELSE path'[n - 1].closing)
                    + input.margin - input.cost[n]
    BY <1>4, <1>9
  <2> HIDE DEF closing, row
  <2> QED
    BY <1>1, <1>6, <2>1, <2>2 DEF RowRight
<1>11. \A y \in Years : Walked(y)' => RowRight(y)'
  <2> HIDE DEF row
  <2> QED
    BY <1>1, <1>a, <1>10, PathStepKeepsRows
<1>12. PathInv'
  <2>1. CASE year < EndYear
    <3>1. /\ year' = n + 1 /\ year' # StartYear /\ year' - 1 = n
          /\ Covered(input', year' - 1) /\ path'[year' - 1].closing = opening'
          /\ cumulative' = 0 /\ required' = 0
      BY <1>1, <1>2, <1>a, <1>9, <2>1, HorizonAssumption DEF Years, LiquidityInv, PathInv
    <3> QED
      BY <3>1, <1>11 DEF PathInv
  <2>2. CASE year = EndYear
    BY <1>a, <1>11, <2>2, <1>2, HorizonAssumption DEF PathInv, Years
  <2> QED
    BY <2>1, <2>2, <1>2, HorizonAssumption DEF Years
<1>13. CollectionInv'
  BY <1>1, <1>a, PathStepSolvesNothing
<1> QED
  BY <1>8, <1>12, <1>13 DEF LiquidityInv

\* The walk of the cash path, a year beyond the coverage.
LEMMA BeyondYearInv ==
  ASSUME LiquidityInv, BeyondYear
  PROVE  LiquidityInv'
<1> PICK n : n = year
  OBVIOUS
<1> DEFINE row == [costsKnown |-> FALSE, opening |-> opening,
                   closing |-> Absent, shortfall |-> Absent]
<1>1. /\ pc = "path" /\ ~Covered(input, n) /\ input' = input
      /\ path' = [path EXCEPT ![n] = row]
      /\ opening' = Absent
      /\ cumulative' = cumulative /\ required' = required /\ through' = through
  BY DEF BeyondYear
<1>2. TypeOK /\ n \in Years /\ path \in [Years -> Row] /\ opening \in Int \cup {Absent}
  BY DEF LiquidityInv, TypeOK
<1>a. \/ year < EndYear /\ year' = year + 1 /\ pc' = pc
      \/ year = EndYear /\ year' = StartYear /\ pc' = "collection"
  BY <1>2, HorizonAssumption DEF BeyondYear, Advance, Years
<1>3. row \in Row
  BY <1>2 DEF Row
<1>4. TypeOK'
  BY <1>1, <1>2, <1>a, <1>3, HorizonAssumption DEF TypeOK, Years
<1>5. path'[n] = row
  BY <1>1, <1>2
<1>6. RowRight(n)'
  <2>1. /\ path'[n].costsKnown = FALSE /\ path'[n].closing = Absent
        /\ path'[n].shortfall = Absent /\ path'[n].opening = opening
    BY <1>5
  <2>2. n # StartYear /\ ~Covered(input, n - 1) => opening = Absent
    BY <1>1 DEF LiquidityInv, PathInv
  <2>3. Covered(input, n) = FALSE
    BY <1>1 DEF Covered
  <2> QED
    BY <1>1, <2>1, <2>2, <2>3 DEF RowRight
<1>7. \A y \in Years : Walked(y)' => RowRight(y)'
  <2> HIDE DEF row
  <2> QED
    BY <1>1, <1>a, <1>6, PathStepKeepsRows
<1>8. PathInv'
  <2>1. CASE year < EndYear
    <3>1. /\ year' = n + 1 /\ year' # StartYear /\ year' - 1 = n
          /\ ~Covered(input', year' - 1) /\ opening' = Absent
          /\ cumulative' = 0 /\ required' = 0
      BY <1>1, <1>2, <1>a, <2>1, HorizonAssumption DEF Years, LiquidityInv, PathInv
    <3> QED
      BY <3>1, <1>7 DEF PathInv
  <2>2. CASE year = EndYear
    BY <1>a, <1>7, <2>2, <1>2, HorizonAssumption DEF PathInv, Years
  <2> QED
    BY <2>1, <2>2, <1>2, HorizonAssumption DEF Years
<1>9. CollectionInv'
  BY <1>1, <1>a, PathStepSolvesNothing
<1> QED
  BY <1>4, <1>8, <1>9 DEF LiquidityInv

\* The second loop: what is required through a year is required through all before it.
LEMMA CollectionYearInv ==
  ASSUME LiquidityInv, CollectionYear
  PROVE  LiquidityInv'
<1> PICK n : n = year
  OBVIOUS
<1> DEFINE c == cumulative + input.cost[n]
           k == n - StartYear + 1
           b == Buffer(input) - input.currentCash + c
<1>1. /\ pc = "collection" /\ input' = input /\ opening' = opening /\ path' = path
      /\ cumulative' = c
      /\ required' = Larger(required, CeilDiv(b, k))
      /\ through' = [through EXCEPT ![n] = c]
  BY DEF CollectionYear
<1>2. /\ TypeOK /\ Buffer(input) \in Nat /\ n \in Years
      /\ through \in [Years -> Nat] /\ required \in Nat /\ cumulative \in Nat
  BY BufferNat DEF LiquidityInv, TypeOK
<1>3. \/ year < EndYear /\ year' = year + 1 /\ pc' = pc
      \/ year = EndYear /\ year' = StartYear /\ pc' = "done"
  BY <1>2, HorizonAssumption DEF CollectionYear, Advance, Years
<1>4. c \in Nat /\ k \in Nat /\ k > 0 /\ b \in Int
  <2>1. input.cost[n] \in Nat /\ input.currentCash \in Nat
    BY <1>2, InputTypes
  <2>2. n \in Int /\ StartYear \in Int /\ StartYear <= n
    BY <1>2, HorizonAssumption DEF Years
  <2> QED
    BY <1>2, <2>1, <2>2
<1>5. /\ CeilDiv(b, k) \in Int
      /\ k * CeilDiv(b, k) >= b
      /\ k * (CeilDiv(b, k) - 1) < b
  <2> HIDE DEF b, k
  <2> QED
    BY <1>4, CeilDivLeast
<1> HIDE DEF b, c, k
<1>6. /\ required' \in Nat /\ required' >= required /\ required' >= CeilDiv(b, k)
      /\ required' = required \/ required' = CeilDiv(b, k)
  BY <1>1, <1>2, <1>5 DEF Larger
<1>7. TypeOK'
  BY <1>1, <1>2, <1>3, <1>4, <1>6, HorizonAssumption DEF TypeOK, Years
<1>8. /\ through'[n] = c
      /\ \A y \in Years : y # n => through'[y] = through[y]
  BY <1>1, <1>2
<1>9. PathInv'
  <2>1. \A y \in Years : RowRight(y)
    BY <1>1 DEF LiquidityInv, PathInv, Walked
  <2>2. \A y \in Years : RowRight(y)'
    BY <1>1, <2>1 DEF RowRight
  <2> QED
    BY <1>1, <1>3, <2>2 DEF PathInv
<1>10. \A y \in Years : Solved(y)' <=> y = n \/ (y < n /\ Solved(y))
  <2>1. SUFFICES ASSUME NEW y \in Years
                 PROVE  Solved(y)' <=> y = n \/ (y < n /\ Solved(y))
    OBVIOUS
  <2>2. y \in Int /\ n \in Int /\ y <= EndYear /\ EndYear \in Int /\ (Solved(y) <=> y < n)
    BY <1>1, <1>2, HorizonAssumption DEF Solved, Years
  <2>3. CASE year < EndYear /\ year' = year + 1 /\ pc' = pc
    BY <1>1, <2>2, <2>3 DEF Solved
  <2>4. CASE year = EndYear /\ year' = StartYear /\ pc' = "done"
    BY <1>1, <2>2, <2>4 DEF Solved
  <2> QED
    BY <1>3, <2>3, <2>4
<1>12. input.currentCash \in Nat /\ input.margin \in Int
  BY <1>2, InputTypes
<1>13. CashWith(required, n)' >= Buffer(input)'
  <2>1. /\ CashWith(required, n)' = input.currentCash + k * required' - c
        /\ Buffer(input)' = Buffer(input)
    BY <1>1, <1>8 DEF CashWith, Buffer, HalfMonths, k
  <2>2. k * required' >= k * CeilDiv(b, k)
    BY <1>4, <1>5, <1>6, ProductMonotone
  <2>3. k * required' \in Int /\ k * CeilDiv(b, k) \in Int
    BY <1>4, <1>5, <1>6
  <2>4. k * required' >= b
    BY <1>4, <1>5, <2>2, <2>3
  <2> QED
    BY <1>2, <1>4, <1>12, <2>1, <2>3, <2>4 DEF b
<1>14. \A y \in Years : y # n /\ Solved(y) => CashWith(required, y)' >= Buffer(input)'
  <2>1. SUFFICES ASSUME NEW y \in Years, y # n, Solved(y)
                 PROVE  CashWith(required, y)' >= Buffer(input)'
    OBVIOUS
  <2> DEFINE j == y - StartYear + 1
  <2>2. j \in Nat /\ through[y] \in Nat
    BY <1>2, HorizonAssumption DEF Years
  <2>3. /\ CashWith(required, y) = input.currentCash + j * required - through[y]
        /\ CashWith(required, y)' = input.currentCash + j * required' - through[y]
        /\ Buffer(input)' = Buffer(input)
    BY <1>1, <1>8, <2>1 DEF CashWith, Buffer, HalfMonths
  <2>4. input.currentCash + j * required - through[y] >= Buffer(input)
    BY <2>1, <2>3 DEF LiquidityInv, CollectionInv
  <2> HIDE DEF j
  <2>5. required \in Int /\ required' \in Int /\ required' >= required
    BY <1>2, <1>6
  <2>6. j * required' >= j * required
    BY <2>2, <2>5, ProductMonotone
  <2>7. j * required \in Int /\ j * required' \in Int
    BY <2>2, <2>5
  <2> QED
    BY <1>2, <1>12, <2>2, <2>3, <2>4, <2>6, <2>7
<1>15. Covered(input, n) => path[n].closing = CashWith(input.margin, n)'
  <2> SUFFICES ASSUME Covered(input, n) PROVE path[n].closing = CashWith(input.margin, n)'
    OBVIOUS
  <2>1. path[n].closing = (IF n = StartYear THEN input.currentCash ELSE path[n - 1].closing)
                            + input.margin - input.cost[n]
    BY <1>1, <1>2 DEF LiquidityInv, PathInv, Walked, RowRight
  <2>2. CashWith(input.margin, n)' = input.currentCash + k * input.margin - c
    BY <1>1, <1>8 DEF CashWith, k
  <2>3. n \in Int /\ StartYear \in Int /\ StartYear <= n /\ input.cost[n] \in Nat
    BY <1>2, InputTypes, HorizonAssumption DEF Years
  <2>4. CASE n = StartYear
    <3>1. cumulative = 0 /\ k = 1
      BY <1>1, <2>3, <2>4 DEF LiquidityInv, CollectionInv, k
    <3> QED
      BY <1>12, <2>1, <2>2, <2>3, <2>4, <3>1 DEF c
  <2>5. CASE n # StartYear
    <3>1. n - 1 \in Years /\ n - 1 < n /\ Covered(input, n - 1)
      BY <1>2, <2>3, <2>5, InputTypes, HorizonAssumption, AbsentAssumption DEF Years, Covered
    <3>2. cumulative = through[n - 1] /\ Solved(n - 1)
      BY <1>1, <2>5, <3>1 DEF LiquidityInv, CollectionInv, Solved
    <3>3. path[n - 1].closing = CashWith(input.margin, n - 1)
      BY <3>1, <3>2 DEF LiquidityInv, CollectionInv
    <3>4. path[n - 1].closing = input.currentCash + (k - 1) * input.margin - cumulative
      BY <2>3, <3>2, <3>3 DEF CashWith, k
    <3>5. /\ (k - 1) * input.margin = k * input.margin - input.margin
          /\ k * input.margin \in Int
      BY <1>4, <1>12
    <3> QED
      BY <1>2, <1>12, <2>1, <2>2, <2>3, <2>5, <3>4, <3>5 DEF c
  <2> QED
    BY <2>4, <2>5
<1>16. \A y \in Years : y # n /\ Solved(y) /\ Covered(input, y) =>
         path[y].closing = CashWith(input.margin, y)'
  BY <1>1, <1>8 DEF LiquidityInv, CollectionInv, CashWith
<1>17. required' > 0 =>
         \E y \in Years : (y = n \/ Solved(y)) /\ CashWith(required - 1, y)' < Buffer(input)'
  <2> SUFFICES ASSUME required' > 0
               PROVE  \E y \in Years : (y = n \/ Solved(y))
                                         /\ CashWith(required - 1, y)' < Buffer(input)'
    OBVIOUS
  <2>1. Buffer(input)' = Buffer(input)
    BY <1>1 DEF Buffer, HalfMonths
  <2>2. CASE required' = CeilDiv(b, k)
    <3>1. CashWith(required - 1, n)' = input.currentCash + k * (CeilDiv(b, k) - 1) - c
      BY <1>1, <1>8, <2>2 DEF CashWith, k
    <3>2. k * (CeilDiv(b, k) - 1) \in Int
      BY <1>4, <1>5
    <3>3. CashWith(required - 1, n)' < Buffer(input)'
      BY <1>2, <1>4, <1>5, <1>12, <2>1, <3>1, <3>2 DEF b
    <3> QED
      BY <1>2, <3>3
  <2>3. CASE required' = required
    <3>1. PICK y \in Years : Solved(y) /\ CashWith(required - 1, y) < Buffer(input)
      BY <1>1, <2>3 DEF LiquidityInv, CollectionInv
    <3>2. CASE y = n
      BY <1>1, <1>2, <3>1, <3>2, HorizonAssumption DEF Solved, Years
    <3>3. CASE y # n
      <4>1. CashWith(required - 1, y)' = CashWith(required - 1, y)
        BY <1>1, <1>8, <2>3, <3>3 DEF CashWith
      <4> QED
        BY <2>1, <3>1, <4>1
    <3> QED
      BY <3>2, <3>3
  <2> QED
    BY <1>6, <2>2, <2>3
<1>18. CollectionInv'
  <2>1. pc' = "collection" => year' # StartYear /\ cumulative' = through'[year' - 1]
    BY <1>1, <1>2, <1>3, <1>8, HorizonAssumption DEF Years
  <2>2. \A y \in Years : Solved(y)' =>
          /\ CashWith(required, y)' >= Buffer(input)'
          /\ Covered(input, y)' => path'[y].closing = CashWith(input.margin, y)'
    <3>1. SUFFICES ASSUME NEW y \in Years, Solved(y)'
                   PROVE  /\ CashWith(required, y)' >= Buffer(input)'
                          /\ Covered(input, y) => path[y].closing = CashWith(input.margin, y)'
      BY <1>1
    <3> QED
      BY <1>10, <1>13, <1>14, <1>15, <1>16, <3>1
  <2>3. required' > 0 =>
          \E y \in Years : Solved(y)' /\ CashWith(required - 1, y)' < Buffer(input)'
    <3>1. \A y \in Years : y = n \/ Solved(y) => Solved(y)'
      BY <1>1, <1>2, <1>10, HorizonAssumption DEF Solved, Years
    <3> QED
      BY <1>17, <3>1
  <2> QED
    BY <2>1, <2>2, <2>3 DEF CollectionInv
<1> QED
  BY <1>7, <1>9, <1>18 DEF LiquidityInv

\* The inductive invariant holds throughout.
THEOREM Invariance == Spec => []LiquidityInv
<1>1. LiquidityInv /\ [Next]_vars => LiquidityInv'
  <2> SUFFICES ASSUME LiquidityInv, [Next]_vars PROVE LiquidityInv'
    OBVIOUS
  <2>1. CASE CoveredYear
    BY <2>1, CoveredYearInv
  <2>2. CASE BeyondYear
    BY <2>2, BeyondYearInv
  <2>3. CASE CollectionYear
    BY <2>3, CollectionYearInv
  <2>4. CASE UNCHANGED vars
    BY <2>4 DEF vars, LiquidityInv, TypeOK, PathInv, CollectionInv, Walked, Solved,
                RowRight, CashWith, Buffer, HalfMonths, Covered
  <2> QED
    BY <2>1, <2>2, <2>3, <2>4 DEF Next
<1> QED
  BY InitInv, <1>1, PTL DEF Spec

\* The variables of the forecast have their types, for any horizon and any inputs.
THEOREM TypeCorrect == Spec => []TypeOK
<1>1. LiquidityInv => TypeOK
  BY DEF LiquidityInv
<1> QED
  BY <1>1, Invariance, PTL

\* calculateRequiredCollection: what is required keeps the buffer in every year.
THEOREM RequiredCollectionIsEnough == Spec => []RequiredKeepsBuffer
<1>1. LiquidityInv => RequiredKeepsBuffer
  BY DEF LiquidityInv, CollectionInv, RequiredKeepsBuffer, Solved
<1> QED
  BY <1>1, Invariance, PTL

\* calculateRequiredCollection: less than what is required leaves some year short.
THEOREM RequiredCollectionIsLeast == Spec => []RequiredIsLeast
<1>1. LiquidityInv => RequiredIsLeast
  BY DEF LiquidityInv, CollectionInv, RequiredIsLeast, Solved
<1> QED
  BY <1>1, Invariance, PTL

\* projectCashPath: the closing cash of a covered year is the books up to that year.
THEOREM CashPathAddsUp == Spec => []PathAddsUp
<1>1. LiquidityInv => PathAddsUp
  BY DEF LiquidityInv, PathInv, CollectionInv, PathAddsUp, Solved, Walked, RowRight
<1> QED
  BY <1>1, Invariance, PTL

\* findFundingNeed and calculateRequiredCollection agree that money is missing, and
\* the additional collection is what is missing.
THEOREM SignalsAgree == Spec => []AdditionalEndsTheNeed
<1>1. LiquidityInv => AdditionalEndsTheNeed
  <2> SUFFICES ASSUME LiquidityInv, pc = "done"
               PROVE  /\ ~OwnFundingSufficient => Additional > 0
                      /\ \A y \in Years :
                           CashWith(input.margin + Additional, y) >= Buffer(input)
    BY DEF AdditionalEndsTheNeed
  <2>1. /\ TypeOK /\ Buffer(input) \in Nat /\ required \in Int
        /\ input.margin \in Int /\ input.currentCash \in Int
    BY BufferNat, InputTypes DEF LiquidityInv, TypeOK
  <2>2. /\ Additional \in Int /\ Additional >= 0
        /\ input.margin + Additional >= required
        /\ input.margin < required => Additional > 0
    BY <2>1 DEF Additional, Larger
  <2>3. \A y \in Years : /\ y - StartYear + 1 \in Nat /\ through[y] \in Int
                         /\ CashWith(required, y) >= Buffer(input)
    BY <2>1, HorizonAssumption DEF Years, LiquidityInv, CollectionInv, Solved, TypeOK
  <2>4. ASSUME NEW y \in Years, NEW a \in Int, a >= required
        PROVE  CashWith(a, y) >= Buffer(input)
    <3> DEFINE n == y - StartYear + 1
    <3>1. n \in Nat /\ through[y] \in Int
      BY <2>3
    <3>2. /\ CashWith(a, y) = input.currentCash + n * a - through[y]
          /\ input.currentCash + n * required - through[y] >= Buffer(input)
      BY <2>3 DEF CashWith
    <3> HIDE DEF n
    <3>3. n * a >= n * required
      BY <2>1, <2>4, <3>1, ProductMonotone
    <3>4. n * a \in Int /\ n * required \in Int
      BY <2>1, <3>1
    <3> QED
      BY <2>1, <3>1, <3>2, <3>3, <3>4
  <2>5. ASSUME ~OwnFundingSufficient PROVE input.margin < required
    <3>1. PICK y \in Years : path[y].costsKnown /\ path[y].shortfall > 0
      BY <2>5 DEF OwnFundingSufficient, ShortfallYears
    <3>2. RowRight(y) /\ Covered(input, y)
      BY <3>1 DEF LiquidityInv, PathInv, Walked, RowRight
    <3>3. /\ path[y].closing \in Int
          /\ path[y].shortfall = Larger(0, Buffer(input) - path[y].closing)
          /\ path[y].closing = CashWith(input.margin, y)
      BY <3>2 DEF RowRight, LiquidityInv, CollectionInv, Solved
    <3>4. path[y].closing < Buffer(input)
      BY <2>1, <3>1, <3>3 DEF Larger
    <3> QED
      BY <2>1, <2>4, <3>3, <3>4
  <2> QED
    BY <2>1, <2>2, <2>4, <2>5
<1> QED
  BY <1>1, Invariance, PTL

\* projectCashPath and findFundingNeed: no figure comes from a year nobody planned.
THEOREM UnknownYearsStayUnknown == Spec => []UnknownStaysUnknown
<1>1. LiquidityInv => UnknownStaysUnknown
  <2> SUFFICES ASSUME LiquidityInv, pc = "done", input.coverage # Absent
               PROVE  UnknownStaysUnknown
    BY DEF UnknownStaysUnknown
  <2>1. /\ \A y \in Years : RowRight(y)
        /\ input.coverage \in Int
        /\ \A y \in Years : Covered(input, y) <=> y <= input.coverage
        /\ EndYear \in Years /\ Years \subseteq Int /\ StartYear \in Int
    BY InputTypes, HorizonAssumption DEF LiquidityInv, PathInv, Walked, Covered
  <2>2. ASSUME NEW y \in Years, y > input.coverage
        PROVE  /\ path[y].closing = Absent /\ path[y].shortfall = Absent
               /\ y - 1 \in Years /\ y - 1 > input.coverage => path[y].opening = Absent
    <3>1. ~Covered(input, y) /\ y \in Int
      BY <2>1, <2>2
    <3>2. y - 1 \in Years /\ y - 1 > input.coverage => y # StartYear /\ ~Covered(input, y - 1)
      BY <2>1, <3>1, HorizonAssumption DEF Years
    <3> QED
      BY <2>1, <3>1, <3>2 DEF RowRight
  <2>3. \A y \in ShortfallYears : y <= input.coverage
    BY <2>1 DEF ShortfallYears, RowRight
  <2>4. input.coverage < EndYear => FinalCash = Absent
    BY <2>1 DEF FinalCash, RowRight
  <2> QED
    BY <2>2, <2>3, <2>4 DEF UnknownStaysUnknown
<1> QED
  BY <1>1, Invariance, PTL

\* What the additional collection is enough for bounds how low the cash can get.
LEMMA ClosingBounded ==
  ASSUME LiquidityInv, pc = "done"
  PROVE  \E b \in Int : \A y \in Years : Covered(input, y) => path[y].closing >= b
<1> DEFINE span == EndYear - StartYear + 1
           low == Buffer(input) - span * Additional
<1>1. /\ Buffer(input) \in Nat /\ required \in Nat /\ input.margin \in Int
      /\ input.currentCash \in Int
  BY BufferNat, InputTypes DEF LiquidityInv, TypeOK
<1>2. Additional \in Nat /\ span \in Nat /\ input.margin + Additional >= required
  BY <1>1, HorizonAssumption DEF Additional, Larger
<1>3. low \in Int
  <2>1. span * Additional \in Int
    BY <1>2
  <2> QED
    BY <1>1, <2>1
<1>4. ASSUME NEW y \in Years, Covered(input, y) PROVE path[y].closing >= low
  <2> DEFINE n == y - StartYear + 1
  <2>1. /\ through[y] \in Int
        /\ path[y].closing = CashWith(input.margin, y)
        /\ CashWith(required, y) >= Buffer(input)
    BY <1>4 DEF LiquidityInv, CollectionInv, Solved, TypeOK
  <2>2. n \in Nat /\ n <= span
    BY <1>4, HorizonAssumption DEF Years
  <2>3. /\ path[y].closing = input.currentCash + n * input.margin - through[y]
        /\ input.currentCash + n * required - through[y] >= Buffer(input)
    BY <2>1 DEF CashWith
  <2>4. n * (input.margin + Additional) = n * input.margin + n * Additional
    BY <1>1, <1>2, <2>2
  <2> HIDE DEF n, span
  <2>5. n * (input.margin + Additional) >= n * required
    BY <1>1, <1>2, <2>2, ProductMonotone
  <2>6. n * Additional <= span * Additional
    <3>1. Additional * span >= Additional * n
      BY <1>2, <2>2, ProductMonotone
    <3>2. Additional * span = span * Additional /\ Additional * n = n * Additional
      BY <1>2, <2>2
    <3> QED
      BY <3>1, <3>2
  <2>7. /\ n * input.margin \in Int /\ n * Additional \in Int
        /\ n * required \in Int /\ span * Additional \in Int
    BY <1>1, <1>2, <2>2
  <2> QED
    BY <1>1, <1>2, <2>1, <2>3, <2>4, <2>5, <2>6, <2>7
<1> QED
  BY <1>3, <1>4

\* buildLiquidityForecast: what is said to be complete lacks nothing, and its
\* greatest shortfall is the one of its lowest cash.
THEOREM CompleteIsComplete == Spec => []ClaimsAreEarned
<1>1. LiquidityInv => ClaimsAreEarned
  <2> SUFFICES ASSUME LiquidityInv, pc = "done", ForecastComplete
               PROVE  /\ input.coverage # Absent /\ FinalCash # Absent /\ input.gaps = {}
                      /\ MaximumBufferShortfall
                           = Larger(0, Buffer(input) - MinimumClosingCash)
    BY DEF ClaimsAreEarned
  <2>1. /\ input.gaps = {} /\ input.coverage # Absent
        /\ ~(input.coverage < EndYear)
    BY DEF ForecastComplete, ForecastIncompleteReasons, Reason
  <2>2. /\ Buffer(input) \in Nat /\ input.coverage \in Int
        /\ Years \subseteq Nat /\ EndYear \in Years
    BY <2>1, BufferNat, InputTypes DEF LiquidityInv
  <2>3. ASSUME NEW y \in Years
        PROVE  /\ Covered(input, y) /\ path[y].costsKnown
               /\ path[y].closing \in Int
               /\ path[y].shortfall = Larger(0, Buffer(input) - path[y].closing)
    <3>1. Covered(input, y)
      BY <2>1, <2>2, HorizonAssumption DEF Covered, Years
    <3> QED
      BY <3>1 DEF LiquidityInv, PathInv, Walked, RowRight
  <2>4. FinalCash # Absent
    BY <2>2, <2>3, AbsentAssumption DEF FinalCash
  <2> DEFINE low == Min(ClosingCashes)
  <2>5. /\ ClosingCashes = {path[y].closing : y \in Years}
        /\ ClosingCashes # {} /\ ClosingCashes \in SUBSET Int
    <3>1. {x \in Years : path[x].closing # Absent} = Years
      BY <2>3, AbsentAssumption
    <3> QED
      BY <2>2, <2>3, <3>1 DEF ClosingCashes
  <2>6. low \in ClosingCashes /\ \A c \in ClosingCashes : low <= c
    <3>1. PICK b \in Int : \A y \in Years : Covered(input, y) => path[y].closing >= b
      BY ClosingBounded
    <3>2. \A c \in ClosingCashes : c >= b
      BY <2>3, <2>5, <3>1
    <3> QED
      BY <2>5, <3>2, MinOfBounded
  <2>7. MinimumClosingCash = low
    BY <2>5 DEF MinimumClosingCash
  <2>8. PICK worst \in Years : path[worst].closing = low
    BY <2>5, <2>6
  <2> DEFINE shortfalls == {0} \cup {path[y].shortfall : y \in ShortfallYears}
             most == Larger(0, Buffer(input) - low)
  <2>9. low \in Int /\ most \in Int /\ most >= 0
    BY <2>2, <2>5, <2>6 DEF Larger
  <2>10. shortfalls \in SUBSET Int /\ \A s \in shortfalls : s <= most
    <3>1. ASSUME NEW y \in ShortfallYears
          PROVE  path[y].shortfall \in Int /\ path[y].shortfall <= most
      <4>1. y \in Years /\ low <= path[y].closing
        BY <2>5, <2>6 DEF ShortfallYears
      <4> HIDE DEF low
      <4> QED
        BY <2>2, <2>3, <2>9, <4>1 DEF Larger
    <3> HIDE DEF most
    <3> QED
      BY <2>9, <3>1
  <2>11. most \in shortfalls
    <3>1. CASE most = 0
      BY <3>1
    <3>2. CASE most # 0
      <4>1. path[worst].shortfall = most
        BY <2>3, <2>8
      <4>2. worst \in ShortfallYears
        BY <2>3, <2>8, <2>9, <3>2, <4>1 DEF ShortfallYears
      <4> QED
        BY <4>1, <4>2
    <3> QED
      BY <3>1, <3>2
  <2>12. MaximumBufferShortfall = most
    <3>1. Max(shortfalls) \in shortfalls /\ \A s \in shortfalls : Max(shortfalls) >= s
      <4> HIDE DEF most, shortfalls
      <4>1. shortfalls # {}
        BY <2>11
      <4> QED
        BY <2>9, <2>10, <4>1, MaxOfBounded
    <3>2. Max(shortfalls) = most
      <4> HIDE DEF most, shortfalls
      <4>1. Max(shortfalls) \in Int /\ Max(shortfalls) <= most /\ Max(shortfalls) >= most
        BY <2>10, <2>11, <3>1
      <4> QED
        BY <2>9, <4>1
    <3> QED
      BY <3>2 DEF MaximumBufferShortfall
  <2> QED
    BY <2>1, <2>4, <2>7, <2>12
<1> QED
  BY <1>1, Invariance, PTL

\* Every forecast, for every horizon, input and amount, says what follows from it.
THEOREM ForecastSound == Spec => []ForecastIsSound
BY RequiredCollectionIsEnough, RequiredCollectionIsLeast, CashPathAddsUp, SignalsAgree,
   UnknownYearsStayUnknown, CompleteIsComplete, PTL DEF ForecastIsSound

-----------------------------------------------------------------------------
(* The five parts.                                                           *)

\* A run of the calculations is a run of every part.
LEMMA PartsRun ==
  CalculationsSpec => Spec /\ Costs!Spec /\ Views!BooksSpec /\ Table!Spec /\ Position!PositionSpec
<1>1. CalculationsInit => Init /\ Costs!Init /\ Views!BooksInit /\ Table!Init /\ Position!Init
  BY DEF CalculationsInit
<1>2. [CalculationsNext]_CalculationsVars =>
        /\ [Next]_vars
        /\ [Costs!Next]_(Costs!vars)
        /\ [Views!EditBooks]_(Views!bookVars)
        /\ [Table!Next]_(Table!vars)
        /\ [Position!Next]_(Position!positionVars)
  BY DEF CalculationsNext, CalculationsVars, vars, projectionVars, figureVars, tableVars,
         positionVars, Costs!vars, Views!bookVars, Table!vars, Table!bookVars,
         Position!positionVars
<1> QED
  BY <1>1, <1>2, PTL
     DEF CalculationsSpec, Spec, Costs!Spec, Views!BooksSpec, Table!Spec, Position!PositionSpec

-----------------------------------------------------------------------------
(* An instance has its own copies of the library's operators; they are the same. *)

\* Of the projection.
LEMMA CostsLibrary ==
  /\ \A S : Costs!IsFiniteSet(S) <=> IsFiniteSet(S)
  /\ \A f : Costs!SumFunction(f) = SumFunction(f)
  /\ \A S : Costs!Cardinality(S) = Cardinality(S)
<1>1. \A S : Costs!IsFiniteSet(S) <=> IsFiniteSet(S)
  BY DEF Costs!IsFiniteSet, IsFiniteSet
<1>2. \A f : Costs!SumFunction(f) = SumFunction(f)
  BY DEF Costs!SumFunction, Costs!SumFunctionOnSet,
         Costs!FoldFunctionOnSet, Costs!MapThenFoldSet,
         SumFunction, SumFunctionOnSet, FoldFunctionOnSet, MapThenFoldSet
<1>3. \A S : Costs!Cardinality(S) = Cardinality(S)
  BY DEF Costs!Cardinality, Cardinality
<1> QED
  BY <1>1, <1>2, <1>3

\* Of the figures and their views.
LEMMA ViewsLibrary ==
  /\ \A S : Views!IsFiniteSet(S) <=> IsFiniteSet(S)
  /\ \A f : Views!SumFunction(f) = SumFunction(f)
  /\ \A S : Views!Cardinality(S) = Cardinality(S)
  /\ \A S : Views!Max(S) = Max(S)
<1>1. \A S : Views!IsFiniteSet(S) <=> IsFiniteSet(S)
  BY DEF Views!IsFiniteSet, IsFiniteSet
<1>2. \A f : Views!SumFunction(f) = SumFunction(f)
  BY DEF Views!SumFunction, Views!SumFunctionOnSet,
         Views!FoldFunctionOnSet, Views!MapThenFoldSet,
         SumFunction, SumFunctionOnSet, FoldFunctionOnSet, MapThenFoldSet
<1>3. \A S : Views!Cardinality(S) = Cardinality(S)
  BY DEF Views!Cardinality, Cardinality
<1>4. \A S : Views!Max(S) = Max(S)
  BY DEF Views!Max, Max
<1> QED
  BY <1>1, <1>2, <1>3, <1>4

\* Of the cash path table.
LEMMA TableLibrary ==
  /\ \A S : Table!IsFiniteSet(S) <=> IsFiniteSet(S)
  /\ \A f : Table!SumFunction(f) = SumFunction(f)
  /\ \A S : Table!Cardinality(S) = Cardinality(S)
  /\ \A S : Table!Min(S) = Min(S)
  /\ \A S : Table!Max(S) = Max(S)
<1>1. \A S : Table!IsFiniteSet(S) <=> IsFiniteSet(S)
  BY DEF Table!IsFiniteSet, IsFiniteSet
<1>2. \A f : Table!SumFunction(f) = SumFunction(f)
  BY DEF Table!SumFunction, Table!SumFunctionOnSet,
         Table!FoldFunctionOnSet, Table!MapThenFoldSet,
         SumFunction, SumFunctionOnSet, FoldFunctionOnSet, MapThenFoldSet
<1>3. \A S : Table!Cardinality(S) = Cardinality(S)
  BY DEF Table!Cardinality, Cardinality
<1>4. \A S : Table!Min(S) = Min(S)
  BY DEF Table!Min, Min
<1>5. \A S : Table!Max(S) = Max(S)
  BY DEF Table!Max, Max
<1> QED
  BY <1>1, <1>2, <1>3, <1>4, <1>5

\* Of its balance sheets.
LEMMA TableSheetsLibrary ==
  /\ \A S : Table!B!IsFiniteSet(S) <=> IsFiniteSet(S)
  /\ \A f : Table!B!SumFunction(f) = SumFunction(f)
  /\ \A S : Table!B!Min(S) = Min(S)
<1>1. \A S : Table!B!IsFiniteSet(S) <=> IsFiniteSet(S)
  BY DEF Table!B!IsFiniteSet, IsFiniteSet
<1>2. \A f : Table!B!SumFunction(f) = SumFunction(f)
  BY DEF Table!B!SumFunction, Table!B!SumFunctionOnSet,
         Table!B!FoldFunctionOnSet, Table!B!MapThenFoldSet,
         SumFunction, SumFunctionOnSet, FoldFunctionOnSet, MapThenFoldSet
<1>3. \A S : Table!B!Min(S) = Min(S)
  BY DEF Table!B!Min, Min
<1> QED
  BY <1>1, <1>2, <1>3

\* Of its projection.
LEMMA TableRepairsLibrary ==
  /\ \A S : Table!P!IsFiniteSet(S) <=> IsFiniteSet(S)
  /\ \A f : Table!P!SumFunction(f) = SumFunction(f)
  /\ \A S : Table!P!Cardinality(S) = Cardinality(S)
<1>1. \A S : Table!P!IsFiniteSet(S) <=> IsFiniteSet(S)
  BY DEF Table!P!IsFiniteSet, IsFiniteSet
<1>2. \A f : Table!P!SumFunction(f) = SumFunction(f)
  BY DEF Table!P!SumFunction, Table!P!SumFunctionOnSet,
         Table!P!FoldFunctionOnSet, Table!P!MapThenFoldSet,
         SumFunction, SumFunctionOnSet, FoldFunctionOnSet, MapThenFoldSet
<1>3. \A S : Table!P!Cardinality(S) = Cardinality(S)
  BY DEF Table!P!Cardinality, Cardinality
<1> QED
  BY <1>1, <1>2, <1>3

\* Of the balance sheets.
LEMMA SheetsLibrary ==
  /\ \A S : Position!IsFiniteSet(S) <=> IsFiniteSet(S)
  /\ \A f : Position!SumFunction(f) = SumFunction(f)
  /\ \A S : Position!Min(S) = Min(S)
<1>1. \A S : Position!IsFiniteSet(S) <=> IsFiniteSet(S)
  BY DEF Position!IsFiniteSet, IsFiniteSet
<1>2. \A f : Position!SumFunction(f) = SumFunction(f)
  BY DEF Position!SumFunction, Position!SumFunctionOnSet,
         Position!FoldFunctionOnSet, Position!MapThenFoldSet,
         SumFunction, SumFunctionOnSet, FoldFunctionOnSet, MapThenFoldSet
<1>3. \A S : Position!Min(S) = Min(S)
  BY DEF Position!Min, Min
<1> QED
  BY <1>1, <1>2, <1>3

-----------------------------------------------------------------------------
(* Types. *)

\* The projection keeps its types.
LEMMA CostsTypes == Costs!Spec => []Costs!TypeOK
<1>1. Costs!Init => Costs!TypeOK
  BY DEF Costs!Init, Costs!TypeOK
<1>2. Costs!TypeOK /\ [Costs!Next]_(Costs!vars) => Costs!TypeOK'
  <2> SUFFICES ASSUME Costs!TypeOK, [Costs!Next]_(Costs!vars) PROVE Costs!TypeOK'
    OBVIOUS
  <2>1. ASSUME NEW e \in EventIds, NEW v \in Versions \cup {Absent}, Costs!EditEvent(e, v)
        PROVE  Costs!TypeOK'
    BY <2>1 DEF Costs!EditEvent, Costs!TypeOK
  <2>2. ASSUME NEW h \in Horizons, Costs!AskHorizon(h) PROVE Costs!TypeOK'
    BY <2>2, CalculationsAssumption
       DEF Costs!AskHorizon, Costs!TypeOK, Costs!InputsAssumption, Costs!Horizon
  <2> QED
    BY <2>1, <2>2 DEF Costs!Next, Costs!vars, Costs!TypeOK
<1> QED
  BY <1>1, <1>2, PTL DEF Costs!Spec

\* The account data keep theirs, and an entry names an account there is.
LEMMA BooksTypes == Views!BooksSpec => []Views!BooksTypeOK
<1>1. Views!BooksInit => Views!BooksTypeOK
  BY DEF Views!BooksInit, Views!BooksTypeOK, Views!Entered
<1>2. Views!BooksTypeOK /\ [Views!EditBooks]_(Views!bookVars) => Views!BooksTypeOK'
  <2> SUFFICES ASSUME Views!BooksTypeOK, [Views!EditBooks]_(Views!bookVars)
               PROVE  Views!BooksTypeOK'
    OBVIOUS
  <2> USE CalculationsAssumption DEF Views!ViewsAssumption, Views!VersionsAssumption, Views!BooksTypeOK, Views!Entered
  <2>1. ASSUME NEW k \in DOMAIN AccountVersions, NEW a \in AccountVersions[k],
               Views!SaveAccount(k, a)
        PROVE  Views!BooksTypeOK'
    BY <2>1 DEF Views!SaveAccount
  <2>2. ASSUME NEW k \in DOMAIN AccountVersions, Views!DeleteAccount(k)
        PROVE  Views!BooksTypeOK'
    <3>1. k \in Codes
      OBVIOUS
    <3>2. ASSUME NEW c \in Codes \X BookYears, entries[c] # Absent
          PROVE  accounts'[c[1]] # Absent
      <4>1. c = <<c[1], c[2]>> /\ c[1] \in Codes /\ c[2] \in BookYears
        OBVIOUS
      <4>2. c[1] # k
        BY <2>2, <3>2, <4>1 DEF Views!DeleteAccount
      <4> QED
        BY <2>2, <3>2, <4>1, <4>2 DEF Views!DeleteAccount
    <3> QED
      BY <2>2, <3>1, <3>2 DEF Views!DeleteAccount
  <2>3. ASSUME NEW c \in DOMAIN EntryVersions, NEW e \in EntryVersions[c] \cup {Absent},
               Views!EditEntry(c, e)
        PROVE  Views!BooksTypeOK'
    BY <2>3 DEF Views!EditEntry
  <2>4. ASSUME NEW r \in DOMAIN GroupVersions, NEW v \in GroupVersions[r] \cup {Absent},
               Views!EditGroupRow(r, v)
        PROVE  Views!BooksTypeOK'
    BY <2>4 DEF Views!EditGroupRow
  <2>5. CASE UNCHANGED Views!bookVars
    BY <2>5 DEF Views!bookVars
  <2> QED
    BY <2>1, <2>2, <2>3, <2>4, <2>5 DEF Views!EditBooks
<1> QED
  BY <1>1, <1>2, PTL DEF Views!BooksSpec

\* A sheet that is saved is a sheet.
LEMMA PastedSheet ==
  ASSUME NEW p \in Pastes, Position!LineErrors(p) = {}, p.day # Absent, p.lines # <<>>
  PROVE  LET b == [year |-> p.year, day |-> p.day, items |-> p.lines]
         IN  b \in Position!Sheet /\ Position!SheetOK(b)
<1>1. /\ p.year \in Int /\ p.day \in Int
      /\ p.lines \in Seq(LineFlaws \cup Position!Item)
  BY CalculationsAssumption DEF Position!PositionAssumption, Position!PastesAssumption
<1>2. DOMAIN p.lines = 1 .. Len(p.lines) /\ Len(p.lines) \in Nat
  BY <1>1
<1>3. \A i \in DOMAIN p.lines : p.lines[i] \in Position!Item /\ p.lines[i] \notin LineFlaws
  BY <1>1, <1>2 DEF Position!LineErrors
<1>4. p.lines \in Seq(Position!Item)
  BY <1>1, <1>2, <1>3
<1>5. ASSUME NEW i \in DOMAIN p.lines, NEW j \in DOMAIN p.lines, p.lines[j].key = p.lines[i].key
      PROVE  j = i
  <2>1. \A k \in DOMAIN p.lines : \A l \in 1 .. k - 1 : p.lines[l].key # p.lines[k].key
    BY <1>2, <1>3 DEF Position!LineErrors
  <2>2. i \in Int /\ j \in Int /\ ~(j \in 1 .. i - 1) /\ ~(i \in 1 .. j - 1)
    BY <1>2, <1>5, <2>1
  <2> QED
    BY <1>2, <2>2
<1> QED
  BY <1>1, <1>4, <1>5 DEF Position!Sheet, Position!SheetOK

\* Pasting and deleting keep the types of the sheets.
LEMMA SheetsStep ==
  ASSUME Position!SheetsTypeOK, Position!EditSheets
  PROVE  Position!SheetsTypeOK'
<1>1. ASSUME NEW p \in Pastes, Position!PasteSheet(p) PROVE Position!SheetsTypeOK'
  <2> DEFINE b == [year |-> p.year, day |-> p.day, items |-> p.lines]
  <2>1. b \in Position!Sheet /\ Position!SheetOK(b)
    BY <1>1, PastedSheet DEF Position!PasteSheet
  <2>2. sheets' = [sheets EXCEPT ![p.id] = b]
    BY <1>1 DEF Position!PasteSheet
  <2> HIDE DEF b
  <2> QED
    BY <2>1, <2>2 DEF Position!SheetsTypeOK
<1>2. ASSUME NEW id \in SheetIds, Position!DeleteSheet(id) PROVE Position!SheetsTypeOK'
  BY <1>2 DEF Position!DeleteSheet, Position!SheetsTypeOK
<1> QED
  BY <1>1, <1>2 DEF Position!EditSheets

\* So does the view, which changes no sheet.
LEMMA SheetsTypes == Position!PositionSpec => []Position!SheetsTypeOK
<1>1. Position!Init => Position!SheetsTypeOK
  BY DEF Position!Init, Position!SheetsInit, Position!SheetsTypeOK
<1>2. Position!SheetsTypeOK /\ [Position!Next]_(Position!positionVars) => Position!SheetsTypeOK'
  BY SheetsStep
     DEF Position!Next, Position!Reload, Position!ChooseSheet, Position!ChooseComparison,
         Position!positionVars, Position!SheetsTypeOK
<1> QED
  BY <1>1, <1>2, PTL DEF Position!PositionSpec

\* The table's own books and sheets.
LEMMA TableBooksStep ==
  ASSUME Table!BooksTypeOK, Table!EditBooks
  PROVE  Table!BooksTypeOK'
<1> USE CalculationsAssumption DEF Table!TableAssumption, Table!VersionsAssumption, Table!BooksTypeOK, Table!Entered
<1>1. ASSUME NEW k \in DOMAIN TableAccountVersions, NEW a \in TableAccountVersions[k],
             Table!SaveAccount(k, a)
      PROVE  Table!BooksTypeOK'
  BY <1>1 DEF Table!SaveAccount
<1>2. ASSUME NEW k \in DOMAIN TableAccountVersions, Table!DeleteAccount(k)
      PROVE  Table!BooksTypeOK'
  <2>1. k \in Codes
    OBVIOUS
  <2>2. ASSUME NEW c \in Codes \X TableYears, tableEntries[c] # Absent
        PROVE  tableAccounts'[c[1]] # Absent
    <3>1. c = <<c[1], c[2]>> /\ c[1] \in Codes /\ c[2] \in TableYears
      OBVIOUS
    <3>2. c[1] # k
      BY <1>2, <2>2, <3>1 DEF Table!DeleteAccount
    <3> QED
      BY <1>2, <2>2, <3>1, <3>2 DEF Table!DeleteAccount
  <2> QED
    BY <1>2, <2>1, <2>2 DEF Table!DeleteAccount
<1>3. ASSUME NEW c \in DOMAIN TableEntryVersions, NEW e \in TableEntryVersions[c] \cup {Absent},
             Table!EditEntry(c, e)
      PROVE  Table!BooksTypeOK'
  BY <1>3 DEF Table!EditEntry
<1>4. ASSUME NEW r \in DOMAIN TableGroupVersions, NEW v \in TableGroupVersions[r] \cup {Absent},
             Table!EditGroupRow(r, v)
      PROVE  Table!BooksTypeOK'
  BY <1>4 DEF Table!EditGroupRow
<1> QED
  BY <1>1, <1>2, <1>3, <1>4 DEF Table!EditBooks

\* The same for a sheet of the cash path.
LEMMA TablePastedSheet ==
  ASSUME NEW p \in TablePastes, Table!B!LineErrors(p) = {}, p.day # Absent, p.lines # <<>>
  PROVE  LET b == [year |-> p.year, day |-> p.day, items |-> p.lines]
         IN  b \in Table!B!Sheet /\ Table!B!SheetOK(b)
<1>1. /\ p.year \in Int /\ p.day \in Int
      /\ p.lines \in Seq({} \cup Table!B!Item)
  BY CalculationsAssumption DEF Table!TableAssumption, Table!B!PastesAssumption
<1>2. DOMAIN p.lines = 1 .. Len(p.lines) /\ Len(p.lines) \in Nat
  BY <1>1
<1>3. \A i \in DOMAIN p.lines : p.lines[i] \in Table!B!Item /\ p.lines[i] \notin {}
  BY <1>1, <1>2 DEF Table!B!LineErrors
<1>4. p.lines \in Seq(Table!B!Item)
  BY <1>1, <1>2, <1>3
<1>5. ASSUME NEW i \in DOMAIN p.lines, NEW j \in DOMAIN p.lines, p.lines[j].key = p.lines[i].key
      PROVE  j = i
  <2>1. \A k \in DOMAIN p.lines : \A l \in 1 .. k - 1 : p.lines[l].key # p.lines[k].key
    BY <1>2, <1>3 DEF Table!B!LineErrors
  <2>2. i \in Int /\ j \in Int /\ ~(j \in 1 .. i - 1) /\ ~(i \in 1 .. j - 1)
    BY <1>2, <1>5, <2>1
  <2> QED
    BY <1>2, <2>2
<1> QED
  BY <1>1, <1>4, <1>5 DEF Table!B!Sheet, Table!B!SheetOK

\* The same for the sheets of the cash path.
LEMMA TableSheetsStep ==
  ASSUME Table!B!SheetsTypeOK, Table!B!EditSheets
  PROVE  Table!B!SheetsTypeOK'
<1>1. ASSUME NEW p \in TablePastes, Table!B!PasteSheet(p) PROVE Table!B!SheetsTypeOK'
  <2> DEFINE b == [year |-> p.year, day |-> p.day, items |-> p.lines]
  <2>1. b \in Table!B!Sheet /\ Table!B!SheetOK(b)
    BY <1>1, TablePastedSheet DEF Table!B!PasteSheet
  <2>2. tableSheets' = [tableSheets EXCEPT ![p.id] = b]
    BY <1>1 DEF Table!B!PasteSheet
  <2> HIDE DEF b
  <2> QED
    BY <2>1, <2>2 DEF Table!B!SheetsTypeOK
<1>2. ASSUME NEW id \in SheetIds, Table!B!DeleteSheet(id) PROVE Table!B!SheetsTypeOK'
  BY <1>2 DEF Table!B!DeleteSheet, Table!B!SheetsTypeOK
<1> QED
  BY <1>1, <1>2 DEF Table!B!EditSheets

\* The cash path table keeps its types.
LEMMA TableTypes == Table!Spec => []Table!TypeOK
<1>1. Table!Init => Table!TypeOK
  BY DEF Table!Init, Table!TypeOK, Table!BooksInit, Table!BooksTypeOK, Table!Entered,
         Table!B!SheetsInit, Table!B!SheetsTypeOK
<1>2. Table!TypeOK /\ [Table!Next]_(Table!vars) => Table!TypeOK'
  <2> SUFFICES ASSUME Table!TypeOK, [Table!Next]_(Table!vars)
               PROVE  Table!TypeOK'
    OBVIOUS
  <2>1. CASE Table!EditBooks /\ UNCHANGED <<tableSheets, tableEvents, coverage>>
    BY <2>1, TableBooksStep DEF Table!TypeOK, Table!B!SheetsTypeOK
  <2>2. CASE Table!B!EditSheets /\ UNCHANGED <<Table!bookVars, tableEvents, coverage>>
    BY <2>2, TableSheetsStep DEF Table!TypeOK, Table!bookVars, Table!BooksTypeOK, Table!Entered
  <2>3. ASSUME NEW e \in TableEventIds, NEW v \in TableEventVersions \cup {Absent},
               Table!EditEvent(e, v)
        PROVE  Table!TypeOK'
    BY <2>3 DEF Table!EditEvent, Table!TypeOK, Table!bookVars, Table!BooksTypeOK,
                Table!Entered, Table!B!SheetsTypeOK
  <2>4. ASSUME NEW y \in Coverages \cup {Absent}, Table!SetCoverage(y)
        PROVE  Table!TypeOK'
    BY <2>4 DEF Table!SetCoverage, Table!TypeOK, Table!bookVars, Table!BooksTypeOK,
                Table!Entered, Table!B!SheetsTypeOK
  <2>5. CASE UNCHANGED Table!vars
    BY <2>5 DEF Table!vars, Table!TypeOK, Table!bookVars, Table!BooksTypeOK,
                Table!Entered, Table!B!SheetsTypeOK
  <2> QED
    BY <2>1, <2>2, <2>3, <2>4, <2>5 DEF Table!Next
<1> QED
  BY <1>1, <1>2, PTL DEF Table!Spec

-----------------------------------------------------------------------------
(* The view of the balance sheets. *)

\* Of sheets that are there, one is the latest.
LEMMA LatestIsOne ==
  ASSUME NEW at \in [SheetIds -> Position!Sheet \cup {Absent}],
         NEW ids \in SUBSET {id \in SheetIds : at[id] # Absent}, ids # {}
  PROVE  Position!LatestOf(at, ids) \in ids
<1> DEFINE later == [a \in ids |-> {b \in ids : Position!Precedes(at, a, b)}]
<1>1. IsFiniteSet(ids) /\ ids \subseteq Int
  BY CalculationsAssumption, SheetsLibrary, FS_Subset
     DEF Position!PositionAssumption, Position!PastesAssumption
<1>2. \A a \in ids : at[a].year \in Int /\ at[a].day \in Int
  BY DEF Position!Sheet
<1>3. \A a, b \in ids : b \in later[a] <=> Position!Precedes(at, a, b)
  OBVIOUS
<1>4. \A a, b \in ids : a # b => b \in later[a] \/ a \in later[b]
  <2> HIDE DEF later
  <2> QED
    BY <1>1, <1>2, <1>3 DEF Position!Precedes
<1>5. \A a, b, c \in ids : b \in later[a] /\ c \in later[b] => c \in later[a]
  <2> HIDE DEF later
  <2> QED
    BY <1>1, <1>2, <1>3 DEF Position!Precedes
<1>6. \E a \in ids : \A b \in ids \ {a} : a \in later[b]
  <2> HIDE DEF later
  <2>1. IsFiniteSet(ids) /\ ids # {}
    BY <1>1
  <2> QED
    BY <1>4, <1>5, <2>1, LastOfOrdered
<1>7. \E a \in ids : \A b \in ids \ {a} : Position!Precedes(at, b, a)
  BY <1>3, <1>6
<1> QED
  BY <1>7 DEF Position!LatestOf

\* Whatever the lists showed, a rendering shows a sheet there is and compares it with another.
LEMMA RenderCompares ==
  ASSUME Position!SheetsTypeOK', NEW show, NEW compare, Position!Render(sheets', show, compare)
  PROVE  Position!TwoSheetsAreCompared'
<1> DEFINE present == {id \in SheetIds : sheets'[id] # Absent}
           earlier == {id \in present : Position!Precedes(sheets', id, shown')}
<1>0. /\ sheets' \in [SheetIds -> Position!Sheet \cup {Absent}]
      /\ Position!Present' = present
      /\ None \notin present
  BY CalculationsAssumption
     DEF Position!SheetsTypeOK, Position!Present, Position!PositionAssumption
<1>1. shown' = IF show \in present THEN show ELSE Position!LatestOf(sheets', present)
  BY DEF Position!Render, Position!ShownOf
<1>2. present # {} => shown' \in present
  BY <1>0, <1>1, LatestIsOne
<1>3. present = {} => shown' = None
  BY <1>1 DEF Position!LatestOf
<1>4. ASSUME compared' # None PROVE compared' \in present \ {shown'}
  <2>1. shown' # None /\ compared' = Position!ComparedOf(sheets', compare, shown')
    BY <1>4 DEF Position!Render
  <2>2. CASE compare \in present \ {shown'}
    BY <2>1, <2>2 DEF Position!ComparedOf
  <2>3. CASE compare \notin present \ {shown'}
    <3>1. compared' = Position!LatestOf(sheets', earlier)
      BY <2>1, <2>3 DEF Position!ComparedOf
    <3>2. earlier # {}
      BY <1>4, <3>1 DEF Position!LatestOf
    <3>3. compared' \in earlier
      BY <1>0, <3>1, <3>2, LatestIsOne
    <3>4. shown' \in present
      BY <1>2, <1>3, <2>1
    <3>5. sheets'[shown'].year \in Int /\ sheets'[shown'].day \in Int /\ shown' \in Int
      BY <1>0, <3>4, CalculationsAssumption
         DEF Position!Sheet, Position!PositionAssumption, Position!PastesAssumption
    <3>6. ~Position!Precedes(sheets', shown', shown')
      BY <3>5 DEF Position!Precedes
    <3> QED
      BY <3>3, <3>6
  <2> QED
    BY <2>2, <2>3
<1> QED
  BY <1>0, <1>2, <1>3, <1>4 DEF Position!TwoSheetsAreCompared

\* However the sheets change and whatever is chosen, two of them are compared.
LEMMA SheetsCompared == Position!PositionSpec => []Position!TwoSheetsAreCompared
<1>1. Position!Init => Position!TwoSheetsAreCompared
  BY DEF Position!Init, Position!SheetsInit, Position!TwoSheetsAreCompared, Position!Present
<1>2. Position!SheetsTypeOK' /\ Position!TwoSheetsAreCompared
        /\ [Position!Next]_(Position!positionVars) => Position!TwoSheetsAreCompared'
  <2> SUFFICES ASSUME Position!SheetsTypeOK', Position!TwoSheetsAreCompared,
                      [Position!Next]_(Position!positionVars)
               PROVE  Position!TwoSheetsAreCompared'
    OBVIOUS
  <2>1. CASE Position!Reload
    BY <2>1, RenderCompares DEF Position!Reload
  <2>2. ASSUME NEW id, Position!ChooseSheet(id) PROVE Position!TwoSheetsAreCompared'
    BY <2>2, RenderCompares DEF Position!ChooseSheet
  <2>3. ASSUME NEW id, Position!ChooseComparison(id) PROVE Position!TwoSheetsAreCompared'
    BY <2>3, RenderCompares DEF Position!ChooseComparison
  <2>4. CASE UNCHANGED Position!positionVars
    BY <2>4 DEF Position!positionVars, Position!TwoSheetsAreCompared, Position!Present
  <2> QED
    BY <2>1, <2>2, <2>3, <2>4 DEF Position!Next
<1> QED
  BY <1>1, <1>2, SheetsTypes, PTL DEF Position!PositionSpec

\* A reload changes only the choice of a sheet that is gone.
LEMMA ReloadKeeps ==
  ASSUME Position!TwoSheetsAreCompared, [Position!Next]_(Position!positionVars)
  PROVE  Position!AReloadKeepsTheChoices
<1> SUFFICES ASSUME sheets' # sheets
             PROVE  /\ shown \in Position!Present' => shown' = shown
                    /\ compared \in Position!Present' /\ shown \in Position!Present' =>
                         compared' = compared
  BY DEF Position!AReloadKeepsTheChoices
<1>1. Position!Render(sheets', shown, compared)
  BY DEF Position!Next, Position!Reload, Position!ChooseSheet, Position!ChooseComparison,
         Position!positionVars
<1>2. ASSUME shown \in Position!Present' PROVE shown' = shown
  BY <1>1, <1>2 DEF Position!Render, Position!ShownOf, Position!Present
<1>3. ASSUME compared \in Position!Present', shown \in Position!Present'
      PROVE  compared' = compared
  <2>1. shown \in SheetIds /\ compared \in SheetIds /\ None \notin SheetIds
    BY <1>3, CalculationsAssumption DEF Position!Present, Position!PositionAssumption
  <2>2. compared # shown
    BY <2>1 DEF Position!TwoSheetsAreCompared
  <2>3. compared' = Position!ComparedOf(sheets', compared, shown)
    BY <1>1, <1>2, <1>3, <2>1 DEF Position!Render
  <2> QED
    BY <1>3, <2>2, <2>3 DEF Position!ComparedOf, Position!Present
<1> QED
  BY <1>2, <1>3

\* A year with a cash line on one of its sheets has its closing cash.
LEMMA FirstCashIsItem ==
  ASSUME NEW b \in Position!Sheet, NEW i \in DOMAIN b.items, Position!IsCash(b.items[i])
  PROVE  Position!FirstCash(b, Position!Sections) \in Position!Item
<1> DEFINE places == {j \in DOMAIN b.items :
                        b.items[j].section \in Position!Sections /\ Position!IsCash(b.items[j])}
<1>1. b.items \in Seq(Position!Item)
  BY DEF Position!Sheet
<1>2. DOMAIN b.items = 1 .. Len(b.items) /\ Len(b.items) \in Nat
      /\ \A j \in DOMAIN b.items : b.items[j] \in Position!Item
  BY <1>1
<1>3. i \in places
  BY <1>2 DEF Position!Item
<1>4. Min(places) \in places
  <2>1. places \in SUBSET Int /\ places # {} /\ \A j \in places : j >= 1
    BY <1>2, <1>3
  <2> HIDE DEF places
  <2> QED
    BY <2>1, MinOfBounded
<1>5. Position!FirstCash(b, Position!Sections) = b.items[Min(places)]
  BY <1>3, SheetsLibrary DEF Position!FirstCash
<1> HIDE DEF places
<1>6. Min(places) \in DOMAIN b.items
  BY <1>4 DEF places
<1> QED
  BY <1>2, <1>5, <1>6

\* Of sheets that are there, one supersedes the others.
LEMMA SupersedingIsOne ==
  ASSUME NEW at \in [SheetIds -> Position!Sheet \cup {Absent}],
         NEW ids \in SUBSET {id \in SheetIds : at[id] # Absent}, ids # {}
  PROVE  \E a \in ids : \A b \in ids \ {a} :
           at[a].day > at[b].day \/ (at[a].day = at[b].day /\ a > b)
<1> DEFINE Under(b, a) == at[a].day > at[b].day \/ (at[a].day = at[b].day /\ a > b)
           later == [a \in ids |-> {b \in ids : Under(a, b)}]
<1>1. IsFiniteSet(ids) /\ ids \subseteq Int
  BY CalculationsAssumption, SheetsLibrary, FS_Subset
     DEF Position!PositionAssumption, Position!PastesAssumption
<1>2. \A a \in ids : at[a].day \in Int
  BY DEF Position!Sheet
<1>3. \A a, b \in ids : b \in later[a] <=> Under(a, b)
  OBVIOUS
<1>4. \A a, b \in ids : a # b => b \in later[a] \/ a \in later[b]
  <2> TAKE a, b \in ids
  <2>1. a \in Int /\ b \in Int /\ at[a].day \in Int /\ at[b].day \in Int
    BY <1>1, <1>2
  <2>2. a # b => Under(a, b) \/ Under(b, a)
    BY <2>1
  <2> HIDE DEF later
  <2> QED
    BY <1>3, <2>2
<1>5. \A a, b, c \in ids : b \in later[a] /\ c \in later[b] => c \in later[a]
  <2> HIDE DEF later
  <2> QED
    BY <1>1, <1>2, <1>3
<1>6. \E a \in ids : \A b \in ids \ {a} : a \in later[b]
  <2> HIDE DEF later
  <2>1. IsFiniteSet(ids) /\ ids # {}
    BY <1>1
  <2> QED
    BY <1>4, <1>5, <2>1, LastOfOrdered
<1> QED
  BY <1>3, <1>6

\* A year that some sheet states the cash of has its closing cash.
LEMMA ClosingCashIsStated ==
  ASSUME Position!SheetsTypeOK
  PROVE  Position!ACashLineStatesItsYear
<1> SUFFICES ASSUME NEW id \in Position!Present, NEW i \in DOMAIN sheets[id].items,
                    Position!IsCash(sheets[id].items[i])
             PROVE  Position!ClosingCash(sheets[id].year) # Absent
  BY DEF Position!ACashLineStatesItsYear
<1> DEFINE y == sheets[id].year
           stating == {x \in SheetIds :
                         /\ sheets[x] # Absent
                         /\ sheets[x].year = y
                         /\ Position!FirstCash(sheets[x], Position!Sections) # Absent}
           last == CHOOSE a \in stating : \A b \in stating \ {a} : Position!Supersedes(a, b)
<1>1. IsFiniteSet(SheetIds) /\ SheetIds \subseteq Int
      /\ Absent \notin Int /\ Absent \notin Position!Item
  BY CalculationsAssumption, SheetsLibrary
     DEF Position!PositionAssumption, Position!PastesAssumption
<1>2. \A x \in SheetIds : sheets[x] # Absent => sheets[x] \in Position!Sheet
  BY DEF Position!SheetsTypeOK
<1>3. id \in stating
  BY <1>1, <1>2, FirstCashIsItem DEF Position!Present
<1>4. last \in stating
  <2>1. /\ sheets \in [SheetIds -> Position!Sheet \cup {Absent}]
        /\ stating \in SUBSET {x \in SheetIds : sheets[x] # Absent}
        /\ stating # {}
    BY <1>3 DEF Position!SheetsTypeOK
  <2> HIDE DEF stating
  <2>2. \E a \in stating : \A b \in stating \ {a} : Position!Supersedes(a, b)
    BY <2>1, SupersedingIsOne DEF Position!Supersedes
  <2> QED
    BY <2>2
<1>5. Position!ClosingCash(y) = Position!FirstCash(sheets[last], Position!Sections).amount
  BY <1>3 DEF Position!ClosingCash
<1>6. Position!FirstCash(sheets[last], Position!Sections) \in Position!Item
  <2>1. /\ sheets[last] \in Position!Sheet
        /\ Position!FirstCash(sheets[last], Position!Sections) # Absent
    BY <1>2, <1>4
  <2> HIDE DEF last
  <2>2. \E j \in DOMAIN sheets[last].items : Position!IsCash(sheets[last].items[j])
    BY <2>1, SheetsLibrary DEF Position!FirstCash
  <2> QED
    BY <2>1, <2>2, FirstCashIsItem
<1>7. Position!FirstCash(sheets[last], Position!Sections).amount \in Int
  BY <1>6 DEF Position!Item
<1> QED
  BY <1>1, <1>5, <1>7

-----------------------------------------------------------------------------
(* The comparison of two sheets. *)

\* The lines of a section are numbers, and finitely many.
LEMMA SectionItems ==
  ASSUME NEW b \in Position!Sheet, NEW s
  PROVE  /\ IsFiniteSet(Position!ItemsOf(b, s))
         /\ \A i \in Position!ItemsOf(b, s) : b.items[i].amount \in Int
         /\ Position!SectionTotal(b, s) \in Int
         /\ Position!SectionTotal(b, s)
              = SumFunctionOnSet([i \in DOMAIN b.items |-> b.items[i].amount], Position!ItemsOf(b, s))
<1> DEFINE S == Position!ItemsOf(b, s)
           amount == [i \in DOMAIN b.items |-> b.items[i].amount]
<1>1. b.items \in Seq(Position!Item)
  BY DEF Position!Sheet
<1>2. DOMAIN b.items = 1 .. Len(b.items) /\ Len(b.items) \in Nat
      /\ \A j \in DOMAIN b.items : b.items[j] \in Position!Item
  BY <1>1
<1>3. S \subseteq 1 .. Len(b.items)
  BY <1>2 DEF Position!ItemsOf
<1>4. IsFiniteSet(S)
  <2>1. IsFiniteSet(1 .. Len(b.items))
    BY <1>2, FS_Interval
  <2> HIDE DEF S
  <2> QED
    BY <1>3, <2>1, FS_Subset
<1>5. \A i \in S : b.items[i].amount \in Int /\ amount[i] = b.items[i].amount
  BY <1>2, <1>3 DEF Position!Item
<1>6. SumFunction([i \in S |-> amount[i]]) = SumFunctionOnSet(amount, S)
  <2> HIDE DEF amount, S
  <2> QED
    BY <1>4, <1>5, SumOver
<1>7. [i \in S |-> amount[i]] = [i \in S |-> b.items[i].amount]
  BY <1>5
<1>8. Position!SectionTotal(b, s) = SumFunctionOnSet(amount, S)
  BY <1>6, <1>7, SheetsLibrary DEF Position!SectionTotal
<1>9. SumFunctionOnSet(amount, S) \in Int
  <2> HIDE DEF amount, S
  <2> QED
    BY <1>4, <1>5, SumInt
<1> QED
  BY <1>4, <1>5, <1>8, <1>9

\* The rows of a section add up to the change of its total.
LEMMA SectionAddsUp ==
  ASSUME NEW newer \in Position!Sheet, Position!SheetOK(newer),
         NEW older \in Position!Sheet, Position!SheetOK(older), NEW s
  PROVE  Position!SumFunction([r \in Position!Changes(newer, older, s) |-> r.change])
           = Position!SectionTotal(newer, s) - Position!SectionTotal(older, s)
<1> DEFINE N == Position!ItemsOf(newer, s)
           O == Position!ItemsOf(older, s)
           old(i) == {j \in O : older.items[j].key = newer.items[i].key}
           keys == {newer.items[i].key : i \in N}
           Kept == {j \in O : older.items[j].key \in keys}
           Gone == {j \in O : older.items[j].key \notin keys}
           oldAmount == [j \in DOMAIN older.items |-> older.items[j].amount]
           newAmount == [i \in DOMAIN newer.items |-> newer.items[i].amount]
           before == [i \in N |-> SumFunctionOnSet(oldAmount, old(i))]
           change == [i \in N |-> newAmount[i] - before[i]]
           minus == [j \in O |-> -oldAmount[j]]
           newRow == [i \in N |-> [key |-> newer.items[i].key, change |-> change[i]]]
           goneRow == [j \in O |-> [key |-> older.items[j].key, change |-> minus[j]]]
           NewRows == {newRow[i] : i \in N}
           GoneRows == {goneRow[j] : j \in Gone}
           Rows == NewRows \cup GoneRows
           delta == [r \in Rows |-> r.change]
<1>1. /\ IsFiniteSet(N) /\ IsFiniteSet(O)
      /\ N \subseteq DOMAIN newer.items /\ O \subseteq DOMAIN older.items
      /\ \A i \in N : newAmount[i] \in Int /\ newAmount[i] = newer.items[i].amount
      /\ \A j \in O : oldAmount[j] \in Int /\ oldAmount[j] = older.items[j].amount
  BY SectionItems DEF Position!ItemsOf
<1>2. /\ Position!SectionTotal(newer, s) = SumFunctionOnSet(newAmount, N)
      /\ Position!SectionTotal(older, s) = SumFunctionOnSet(oldAmount, O)
      /\ Position!SectionTotal(newer, s) \in Int /\ Position!SectionTotal(older, s) \in Int
  BY SectionItems
<1>3. /\ \A i \in N : old(i) \subseteq O /\ old(i) \subseteq Kept
      /\ Kept \cup Gone = O /\ Kept \cap Gone = {} /\ Kept \subseteq O /\ Gone \subseteq O
      /\ IsFiniteSet(Kept) /\ IsFiniteSet(Gone)
  BY <1>1, FS_Subset
<1>4. \A i \in N : IsFiniteSet(old(i)) /\ before[i] = SumFunctionOnSet(oldAmount, old(i))
  BY <1>1, <1>3, FS_Subset
<1>5. \A i \in N : before[i] \in Int
  <2> TAKE i \in N
  <2>1. \A j \in old(i) : oldAmount[j] \in Int
    BY <1>1
  <2>2. IsFiniteSet(old(i)) /\ before[i] = SumFunctionOnSet(oldAmount, old(i))
    BY <1>4
  <2> HIDE DEF old, oldAmount, before, N
  <2> QED
    BY <2>1, <2>2, SumInt
<1>6. \A i \in N : change[i] \in Int /\ newAmount[i] = change[i] + before[i]
  <2>1. \A i \in N : change[i] = newAmount[i] - before[i]
    OBVIOUS
  <2> HIDE DEF change, before, newAmount, N
  <2> QED
    BY <1>1, <1>5, <2>1
<1>7. SumFunctionOnSet(newAmount, N) = SumFunctionOnSet(change, N) + SumFunctionOnSet(before, N)
  <2> HIDE DEF change, before, newAmount, N
  <2> QED
    BY <1>1, <1>5, <1>6, SumAdds
<1>8. SumFunctionOnSet(before, N) = SumFunctionOnSet(oldAmount, Kept)
  <2> DEFINE replaced == [i \in N |-> old(i)]
  <2>1. \A i \in N : replaced[i] \subseteq Kept /\ before[i] = SumFunctionOnSet(oldAmount, replaced[i])
    BY <1>3
  <2>2. \A j \in Kept : oldAmount[j] \in Int /\ \E i \in N : j \in replaced[i]
    BY <1>1
  <2>3. ASSUME NEW i \in N, NEW k \in N, NEW j \in replaced[i], j \in replaced[k] PROVE i = k
    BY <1>1, <2>3 DEF Position!SheetOK
  <2> HIDE DEF replaced, before, oldAmount, Kept, N
  <2> QED
    BY <1>1, <1>3, <2>1, <2>2, <2>3, SumOfParts
<1>9. SumFunctionOnSet(oldAmount, O)
        = SumFunctionOnSet(oldAmount, Kept) + SumFunctionOnSet(oldAmount, Gone)
  <2> HIDE DEF oldAmount, Kept, Gone, O
  <2> QED
    BY <1>1, <1>3, SumUnion
<1>10. SumFunctionOnSet(oldAmount, Gone) + SumFunctionOnSet(minus, Gone) = 0
  <2> DEFINE zero == [j \in O |-> 0]
  <2>1. \A j \in Gone : oldAmount[j] \in Int /\ minus[j] = -oldAmount[j] /\ zero[j] = 0
    BY <1>1
  <2>2. \A j \in Gone : minus[j] \in Int /\ zero[j] = oldAmount[j] + minus[j]
    <3> HIDE DEF oldAmount, minus, zero, Gone
    <3> QED
      BY <2>1
  <2> HIDE DEF oldAmount, minus, zero, Gone
  <2>3. SumFunctionOnSet(zero, Gone) = SumFunctionOnSet(oldAmount, Gone) + SumFunctionOnSet(minus, Gone)
    BY <1>3, <2>1, <2>2, SumAdds
  <2>4. SumFunctionOnSet(zero, Gone) = 0
    BY <1>3, <2>1, SumZero
  <2> QED
    BY <2>3, <2>4
<1>11. /\ SumFunctionOnSet(change, N) = SumFunctionOnSet(delta, NewRows)
       /\ IsFiniteSet(NewRows) /\ \A r \in NewRows : delta[r] \in Int
  <2>0. \A i \in N : change[i] \in Int
    <3> HIDE DEF change, newAmount, before, N
    <3> QED
      BY <1>6
  <2>1. IsFiniteSet(NewRows)
    <3> HIDE DEF newRow, N
    <3> QED
      BY <1>1, FiniteValues
  <2>2. \A i \in N : /\ newRow[i] \in NewRows /\ delta[newRow[i]] = change[i]
                     /\ newRow[i].key = newer.items[i].key
    OBVIOUS
  <2>3. \A i, k \in N : newRow[i] = newRow[k] => i = k
    BY <1>1, <2>2 DEF Position!SheetOK
  <2>4. \A r \in NewRows : \E i \in N : newRow[i] = r
    OBVIOUS
  <2> HIDE DEF newRow, NewRows, delta, change, N
  <2>5. SumFunctionOnSet(change, N) = SumFunctionOnSet(delta, NewRows)
    BY <1>1, <2>0, <2>1, <2>2, <2>3, <2>4, SumRenamed
  <2>6. \A r \in NewRows : delta[r] \in Int
    BY <2>0, <2>2, <2>4
  <2> QED
    BY <2>1, <2>5, <2>6
<1>12. /\ SumFunctionOnSet(minus, Gone) = SumFunctionOnSet(delta, GoneRows)
       /\ IsFiniteSet(GoneRows) /\ \A r \in GoneRows : delta[r] \in Int
  <2>0. \A j \in Gone : minus[j] \in Int
    <3>1. \A j \in Gone : oldAmount[j] \in Int /\ minus[j] = -oldAmount[j]
      BY <1>1
    <3> HIDE DEF minus, oldAmount, Gone
    <3> QED
      BY <3>1
  <2>1. IsFiniteSet(GoneRows)
    <3> HIDE DEF goneRow, Gone
    <3> QED
      BY <1>3, FiniteValues
  <2>2. \A j \in Gone : /\ goneRow[j] \in GoneRows /\ delta[goneRow[j]] = minus[j]
                        /\ goneRow[j].key = older.items[j].key
    OBVIOUS
  <2>3. \A i, k \in Gone : goneRow[i] = goneRow[k] => i = k
    BY <1>1, <1>3, <2>2 DEF Position!SheetOK
  <2>4. \A r \in GoneRows : \E j \in Gone : goneRow[j] = r
    OBVIOUS
  <2> HIDE DEF goneRow, GoneRows, delta, minus, Gone
  <2>5. SumFunctionOnSet(minus, Gone) = SumFunctionOnSet(delta, GoneRows)
    BY <1>3, <2>0, <2>1, <2>2, <2>3, <2>4, SumRenamed
  <2>6. \A r \in GoneRows : delta[r] \in Int
    BY <2>0, <2>2, <2>4
  <2> QED
    BY <2>1, <2>5, <2>6
<1>13. NewRows \cap GoneRows = {}
  <2>1. \A r \in NewRows : r.key \in keys
    <3>1. \A i \in N : newRow[i].key \in keys
      OBVIOUS
    <3> HIDE DEF newRow, keys, N
    <3> QED
      BY <3>1
  <2>2. \A r \in GoneRows : r.key \notin keys
    <3>1. \A j \in Gone : goneRow[j].key \notin keys
      OBVIOUS
    <3> HIDE DEF goneRow, keys, Gone
    <3> QED
      BY <3>1
  <2> HIDE DEF NewRows, GoneRows, keys
  <2> QED
    BY <2>1, <2>2
<1>14. SumFunctionOnSet(delta, Rows)
         = SumFunctionOnSet(delta, NewRows) + SumFunctionOnSet(delta, GoneRows)
  <2> HIDE DEF delta, NewRows, GoneRows
  <2> QED
    BY <1>11, <1>12, <1>13, SumUnion
<1>15. Position!Changes(newer, older, s) = Rows
  <2>1. ASSUME NEW i \in N
        PROVE  newRow[i] = [key |-> newer.items[i].key,
                            change |-> newer.items[i].amount
                              - Position!SumFunction([j \in old(i) |-> older.items[j].amount])]
    <3>1. before[i] = SumFunction([j \in old(i) |-> oldAmount[j]])
      <4>1. IsFiniteSet(old(i)) /\ before[i] = SumFunctionOnSet(oldAmount, old(i))
            /\ \A j \in old(i) : oldAmount[j] \in Int
        BY <1>1, <1>4
      <4> HIDE DEF before, old, oldAmount
      <4> QED
        BY <4>1, SumOver
    <3>2. [j \in old(i) |-> oldAmount[j]] = [j \in old(i) |-> older.items[j].amount]
      BY <1>1
    <3>3. change[i] = newer.items[i].amount - before[i]
      BY <1>1
    <3> HIDE DEF before, change, old, oldAmount, N
    <3> QED
      BY <3>1, <3>2, <3>3, SheetsLibrary
  <2>2. \A j \in Gone : goneRow[j] = [key |-> older.items[j].key,
                                      change |-> -older.items[j].amount]
    BY <1>1
  <2>3. Position!Changes(newer, older, s)
          = {[key |-> newer.items[i].key,
              change |-> newer.items[i].amount
                           - Position!SumFunction([j \in old(i) |-> older.items[j].amount])] :
               i \in N}
            \cup {[key |-> older.items[j].key, change |-> -older.items[j].amount] : j \in Gone}
    BY DEF Position!Changes
  <2> HIDE DEF newRow, goneRow, old, N, Gone
  <2> QED
    BY <2>1, <2>2, <2>3
<1>16. Position!SumFunction([r \in Position!Changes(newer, older, s) |-> r.change])
         = SumFunctionOnSet(delta, Rows)
  <2>1. Position!SumFunction(delta) = SumFunctionOnSet(delta, Rows)
    BY SheetsLibrary DEF SumFunction
  <2> HIDE DEF Rows
  <2> QED
    BY <1>15, <2>1
<1>17. /\ SumFunctionOnSet(oldAmount, Gone) \in Int /\ SumFunctionOnSet(minus, Gone) \in Int
       /\ SumFunctionOnSet(oldAmount, Kept) \in Int /\ SumFunctionOnSet(change, N) \in Int
  <2>1. /\ \A j \in Gone : oldAmount[j] \in Int
        /\ \A j \in Kept : oldAmount[j] \in Int
        /\ \A j \in Gone : minus[j] \in Int
    <3>1. \A j \in O : oldAmount[j] \in Int /\ minus[j] = -oldAmount[j]
      BY <1>1
    <3> HIDE DEF minus, oldAmount, O
    <3>2. \A j \in O : oldAmount[j] \in Int /\ minus[j] \in Int
      BY <3>1
    <3> QED
      BY <3>2
  <2> HIDE DEF minus, oldAmount, change, Gone, Kept, N
  <2> QED
    BY <1>1, <1>3, <1>6, <2>1, SumInt
<1> HIDE DEF newAmount, oldAmount, change, before, minus, delta, Rows, NewRows, GoneRows, N, O,
             Kept, Gone
<1> QED
  BY <1>2, <1>7, <1>8, <1>9, <1>10, <1>11, <1>12, <1>14, <1>16, <1>17

\* The changes of the rows add up to the change of the whole.
LEMMA ComparisonOfTypes ==
  ASSUME Position!SheetsTypeOK
  PROVE  Position!ComparisonAddsUp
<1> SUFFICES ASSUME NEW n \in Position!Present, NEW o \in Position!Present
             PROVE  LET newer == sheets[n]
                        older == sheets[o]
                        rows(s) == Position!SumFunction(
                                     [r \in Position!Changes(newer, older, s) |-> r.change])
                    IN  /\ \A s \in Position!Sections :
                             rows(s) = Position!SectionTotal(newer, s)
                                         - Position!SectionTotal(older, s)
                        /\ Position!Difference(newer) - Position!Difference(older)
                             = Position!SumFunction([s \in Position!Assets |-> rows(s)])
                                 - Position!SumFunction(
                                     [s \in Position!Sections \ Position!Assets |-> rows(s)])
  BY DEF Position!ComparisonAddsUp
<1> DEFINE newer == sheets[n]
           older == sheets[o]
           All == Position!Sections
           new == [s \in All |-> Position!SectionTotal(newer, s)]
           old == [s \in All |-> Position!SectionTotal(older, s)]
           rows == [s \in All |->
                      Position!SumFunction([r \in Position!Changes(newer, older, s) |-> r.change])]
<1>1. /\ newer \in Position!Sheet /\ Position!SheetOK(newer)
      /\ older \in Position!Sheet /\ Position!SheetOK(older)
  BY DEF Position!SheetsTypeOK, Position!Present
<1>2. \A s \in All : new[s] \in Int /\ old[s] \in Int /\ rows[s] = new[s] - old[s]
  <2> TAKE s \in All
  <2>1. Position!SectionTotal(newer, s) \in Int /\ Position!SectionTotal(older, s) \in Int
    BY <1>1, SectionItems
  <2>2. rows[s] = Position!SectionTotal(newer, s) - Position!SectionTotal(older, s)
    <3> HIDE DEF newer, older
    <3> QED
      BY <1>1, SectionAddsUp
  <2> HIDE DEF newer, older
  <2> QED
    BY <2>1, <2>2
<1>3. \A S \in SUBSET All :
        /\ SumFunctionOnSet(rows, S) = SumFunctionOnSet(new, S) - SumFunctionOnSet(old, S)
        /\ SumFunctionOnSet(new, S) \in Int /\ SumFunctionOnSet(old, S) \in Int
        /\ SumFunctionOnSet(rows, S) \in Int
        /\ SumFunction([s \in S |-> rows[s]]) = SumFunctionOnSet(rows, S)
        /\ SumFunction([s \in S |-> new[s]]) = SumFunctionOnSet(new, S)
        /\ SumFunction([s \in S |-> old[s]]) = SumFunctionOnSet(old, S)
  <2> HIDE DEF new, old, rows
  <2> TAKE S \in SUBSET All
  <2>1. IsFiniteSet(S)
    <3>1. All = {"fixed_assets"} \cup {"current_assets"} \cup {"restricted_equity"}
                  \cup {"unrestricted_equity"} \cup {"liabilities"}
      BY DEF Position!Sections
    <3>2. IsFiniteSet(All)
      BY <3>1, FS_Singleton, FS_Union
    <3> QED
      BY <3>2, FS_Subset
  <2>2. \A s \in S : /\ new[s] \in Int /\ old[s] \in Int /\ rows[s] \in Int
                     /\ new[s] = rows[s] + old[s]
    BY <1>2
  <2> HIDE DEF All
  <2>3. SumFunctionOnSet(new, S) = SumFunctionOnSet(rows, S) + SumFunctionOnSet(old, S)
    BY <2>1, <2>2, SumAdds
  <2>4. /\ SumFunctionOnSet(new, S) \in Int /\ SumFunctionOnSet(old, S) \in Int
        /\ SumFunctionOnSet(rows, S) \in Int
    BY <2>1, <2>2, SumInt
  <2>5. /\ SumFunction([s \in S |-> rows[s]]) = SumFunctionOnSet(rows, S)
        /\ SumFunction([s \in S |-> new[s]]) = SumFunctionOnSet(new, S)
        /\ SumFunction([s \in S |-> old[s]]) = SumFunctionOnSet(old, S)
    BY <2>1, <2>2, SumOver
  <2> QED
    BY <2>3, <2>4, <2>5
<1>4. Position!Assets \in SUBSET All /\ All \ Position!Assets \in SUBSET All
  BY DEF Position!Assets, Position!Sections
<1>5. ASSUME NEW S \in SUBSET All
      PROVE  /\ Position!GroupTotal(newer, S) = SumFunctionOnSet(new, S)
             /\ Position!GroupTotal(older, S) = SumFunctionOnSet(old, S)
  <2>1. /\ [s \in S |-> new[s]] = [s \in S |-> Position!SectionTotal(newer, s)]
        /\ [s \in S |-> old[s]] = [s \in S |-> Position!SectionTotal(older, s)]
    OBVIOUS
  <2> HIDE DEF new, old, newer, older, All
  <2> QED
    BY <1>3, <2>1, SheetsLibrary DEF Position!GroupTotal
<1>6. ASSUME NEW S \in SUBSET All
      PROVE  Position!SumFunction(
               [s \in S |-> Position!SumFunction(
                              [r \in Position!Changes(newer, older, s) |-> r.change])])
               = SumFunctionOnSet(rows, S)
  <2>1. [s \in S |-> rows[s]]
          = [s \in S |-> Position!SumFunction(
                           [r \in Position!Changes(newer, older, s) |-> r.change])]
    OBVIOUS
  <2> HIDE DEF rows, newer, older, All
  <2> QED
    BY <1>3, <2>1, SheetsLibrary
<1>7. \A s \in All :
        Position!SumFunction([r \in Position!Changes(newer, older, s) |-> r.change])
          = Position!SectionTotal(newer, s) - Position!SectionTotal(older, s)
  BY <1>1, SectionAddsUp
<1>8. /\ Position!Difference(newer)
           = SumFunctionOnSet(new, Position!Assets) - SumFunctionOnSet(new, All \ Position!Assets)
      /\ Position!Difference(older)
           = SumFunctionOnSet(old, Position!Assets) - SumFunctionOnSet(old, All \ Position!Assets)
  BY <1>4, <1>5 DEF Position!Difference
<1>9. Position!Difference(newer) - Position!Difference(older)
        = SumFunctionOnSet(rows, Position!Assets) - SumFunctionOnSet(rows, All \ Position!Assets)
  <2>1. \A S \in SUBSET All :
          /\ SumFunctionOnSet(rows, S) = SumFunctionOnSet(new, S) - SumFunctionOnSet(old, S)
          /\ SumFunctionOnSet(new, S) \in Int /\ SumFunctionOnSet(old, S) \in Int
    BY <1>3
  <2> HIDE DEF new, old, rows, newer, older, All
  <2>2. \A S \in {Position!Assets, All \ Position!Assets} :
          /\ SumFunctionOnSet(rows, S) = SumFunctionOnSet(new, S) - SumFunctionOnSet(old, S)
          /\ SumFunctionOnSet(new, S) \in Int /\ SumFunctionOnSet(old, S) \in Int
    BY <1>4, <2>1
  <2> QED
    BY <1>8, <2>2
<1> QED
  BY <1>4, <1>6, <1>7, <1>9

-----------------------------------------------------------------------------
(* What a change leaves alone. *)

\* Accounts without entries report nothing.
LEMMA IdleAccounts ==
  ASSUME Views!BooksTypeOK, Views!BooksTypeOK', [Views!EditBooks]_(Views!bookVars)
  PROVE  Views!IdleAccountsReclassifyNothing
<1> SUFFICES ASSUME accounts' # accounts,
                    \A k \in Codes : accounts'[k] # accounts[k] =>
                      \A y \in BookYears : entries[<<k, y>>] = Absent,
                    NEW side \in Views!Sides
             PROVE  Views!RepairGroups(side)' = Views!RepairGroups(side)
  BY DEF Views!IdleAccountsReclassifyNothing
<1>1. entries' = entries /\ groupRows' = groupRows
  BY DEF Views!EditBooks, Views!SaveAccount, Views!DeleteAccount, Views!EditEntry,
         Views!EditGroupRow, Views!bookVars
<1>2. \A k, y, s : Views!Stated(k, y, s)' = Views!Stated(k, y, s)
  BY <1>1 DEF Views!Stated
<1>3. \A k \in Codes : (\E y \in BookYears, s \in Views!Sides : Views!Stated(k, y, s) # Absent)
        => accounts'[k] = accounts[k]
  BY DEF Views!Stated
<1>4. \A kind, g : \A y \in BookYears, s \in Views!Sides :
        {k \in Views!GroupAccounts(kind, g)' : Views!Stated(k, y, s)' # Absent}
          = {k \in Views!GroupAccounts(kind, g) : Views!Stated(k, y, s) # Absent}
  BY <1>2, <1>3 DEF Views!GroupAccounts
<1>5. \A kind, g : \A y \in BookYears, s \in Views!Sides :
        Views!AccountSum(kind, s, g, y)' = Views!AccountSum(kind, s, g, y)
  BY <1>2, <1>4 DEF Views!AccountSum
<1>6. \A kind, g : \A y \in BookYears, s \in Views!Sides :
        Views!GroupFigure(kind, s, g, y)' = Views!GroupFigure(kind, s, g, y)
  BY <1>1, <1>5 DEF Views!GroupFigure, Views!GroupLevel
<1>7. Views!FigureGroups("expense", side)' = Views!FigureGroups("expense", side)
  BY <1>6 DEF Views!FigureGroups
<1>8. \A g : Views!IsRepairGroup(side, g)' <=> Views!IsRepairGroup(side, g)
  <2> TAKE g
  <2> DEFINE reporting == {k \in Views!GroupAccounts("expense", g) :
                             \E y \in BookYears : Views!Stated(k, y, side) # Absent}
  <2>1. reporting' = reporting
    BY <1>2, <1>3 DEF Views!GroupAccounts
  <2>2. \A k \in reporting : k \in Codes /\ accounts'[k] = accounts[k]
    BY <1>3 DEF Views!GroupAccounts
  <2>3. {accounts[k].nature : k \in reporting}' = {accounts[k].nature : k \in reporting}
    <3> HIDE DEF reporting
    <3> QED
      BY <2>1, <2>2
  <2> QED
    BY <2>3 DEF Views!IsRepairGroup
<1> QED
  BY <1>7, <1>8 DEF Views!RepairGroups

\* The actual rows are read off the books and the sheets.
LEMMA ClosedYears ==
  ASSUME [Table!Next]_(Table!vars)
  PROVE  Table!PlansLeaveClosedYears
<1> SUFFICES ASSUME <<tableEvents', coverage'>> # <<tableEvents, coverage>>
             PROVE  /\ Table!Actual' = Table!Actual
                    /\ Table!BudgetRowYears' = Table!BudgetRowYears
                    /\ \A y \in Table!Actual : Table!ActualRow(y)' = Table!ActualRow(y)
  BY DEF Table!PlansLeaveClosedYears
<1>1. /\ tableAccounts' = tableAccounts /\ tableEntries' = tableEntries
      /\ tableGroupRows' = tableGroupRows /\ tableSheets' = tableSheets
  BY DEF Table!Next, Table!EditEvent, Table!SetCoverage, Table!vars, Table!bookVars
<1>2. \A k, y, s : Table!Stated(k, y, s)' = Table!Stated(k, y, s)
  BY <1>1 DEF Table!Stated
<1>3. \A kind, g : Table!GroupAccounts(kind, g)' = Table!GroupAccounts(kind, g)
  BY <1>1 DEF Table!GroupAccounts
<1>4. \A kind, s, g, y : Table!GroupFigure(kind, s, g, y)' = Table!GroupFigure(kind, s, g, y)
  BY <1>1, <1>2, <1>3 DEF Table!GroupFigure, Table!GroupLevel, Table!AccountSum
<1>5. \A kind, s : /\ Table!FigureYears(kind, s)' = Table!FigureYears(kind, s)
                   /\ Table!FigureGroups(kind, s)' = Table!FigureGroups(kind, s)
  BY <1>4 DEF Table!FigureYears, Table!FigureGroups
<1>6. \A groups, kind, s, y :
        Table!SumPresent(groups, kind, s, y)' = Table!SumPresent(groups, kind, s, y)
  BY <1>4 DEF Table!SumPresent
<1>7. \A s : Table!RepairGroups(s)' = Table!RepairGroups(s)
  BY <1>1, <1>2, <1>3, <1>5 DEF Table!RepairGroups, Table!IsRepairGroup
<1>8. \A kind, s, y : /\ Table!Total(kind, s, y)' = Table!Total(kind, s, y)
                      /\ Table!Repairs(s, y)' = Table!Repairs(s, y)
  BY <1>6, <1>7 DEF Table!Total, Table!Repairs
<1>9. \A s, y : /\ Table!MarginYears(s)' = Table!MarginYears(s)
                /\ Table!MarginOf(s, y)' = Table!MarginOf(s, y)
  BY <1>5, <1>8 DEF Table!MarginYears, Table!MarginOf
<1>10. /\ Table!Actual' = Table!Actual /\ Table!Budgeted' = Table!Budgeted
       /\ Table!BudgetRowYears' = Table!BudgetRowYears
  BY <1>9 DEF Table!Actual, Table!Budgeted, Table!BudgetRowYears
<1>11. \A y : Table!B!ClosingCash(y)' = Table!B!ClosingCash(y)
  BY <1>1 DEF Table!B!ClosingCash, Table!B!FirstCash, Table!B!Supersedes
<1>12. \A y : Table!ActualRow(y)' = Table!ActualRow(y)
  BY <1>9, <1>10, <1>11 DEF Table!ActualRow
<1> QED
  BY <1>10, <1>12

-----------------------------------------------------------------------------
(* The projection of the approved repairs. *)

\* The approved rows are finitely many, with their years and prices.
LEMMA ScheduledRows ==
  ASSUME Costs!TypeOK
  PROVE  /\ IsFiniteSet(Costs!Scheduled)
         /\ \A x \in Costs!Scheduled :
              x.entry.year \in Int /\ (x.entry.amount # Gap => x.entry.amount \in Int)
         /\ horizon.start \in Int /\ horizon.end \in Int
<1> DEFINE live == {e \in EventIds : events[e] # Absent /\ events[e].status = "approved"}
           rows == [e \in live |-> {[event |-> e, entry |-> r] : r \in events[e].schedule}]
<1>1. /\ IsFiniteSet(EventIds) /\ Amounts \subseteq Nat /\ Calendar \subseteq Int
      /\ Versions \subseteq Costs!Event /\ \A v \in Versions : IsFiniteSet(v.schedule)
  BY CalculationsAssumption, CostsLibrary DEF Costs!InputsAssumption
<1>2. \A e \in live : events[e] \in Versions
  BY DEF Costs!TypeOK
<1>3. IsFiniteSet(live)
  BY <1>1, FS_Subset
<1>4. \A e \in live : IsFiniteSet(rows[e])
  <2> TAKE e \in live
  <2> DEFINE schedule == events[e].schedule
             row == [r \in schedule |-> [event |-> e, entry |-> r]]
  <2>1. IsFiniteSet(schedule)
    BY <1>1, <1>2
  <2>2. IsFiniteSet({row[r] : r \in schedule})
    <3> HIDE DEF row, schedule
    <3> QED
      BY <2>1, FiniteValues
  <2>3. rows[e] = {row[r] : r \in schedule}
    OBVIOUS
  <2> HIDE DEF rows, row, schedule
  <2> QED
    BY <2>2, <2>3
<1>5. Costs!Scheduled = UNION {rows[e] : e \in live}
  BY DEF Costs!Scheduled
<1>6. IsFiniteSet(Costs!Scheduled)
  <2> HIDE DEF rows, live
  <2>1. IsFiniteSet({rows[e] : e \in live})
    BY <1>3, FiniteValues
  <2> QED
    BY <1>4, <1>5, <2>1, FS_UNION
<1>7. ASSUME NEW x \in Costs!Scheduled
      PROVE  x.entry.year \in Int /\ (x.entry.amount # Gap => x.entry.amount \in Int)
  <2>1. PICK e \in live : x \in rows[e]
    BY <1>5
  <2>2. PICK r \in events[e].schedule : x = [event |-> e, entry |-> r]
    BY <2>1
  <2>3. r \in Costs!Entry
    BY <1>1, <1>2 DEF Costs!Event
  <2>4. x.entry = r
    BY <2>2
  <2>5. r.year \in Calendar /\ r.amount \in Amounts \cup {Gap}
    BY <2>3 DEF Costs!Entry
  <2>6. Calendar \subseteq Int /\ Amounts \subseteq Int
    BY <1>1
  <2> HIDE DEF live, rows
  <2> QED
    BY <2>4, <2>5, <2>6
<1>8. horizon.start \in Int /\ horizon.end \in Int
  BY <1>1 DEF Costs!TypeOK, Costs!Horizon
<1> QED
  BY <1>6, <1>7, <1>8

\* The rows of a scenario with a cost, and their amounts.
LEMMA ProjectedRows ==
  ASSUME Costs!TypeOK, NEW s
  PROVE  LET S == Costs!Projected(s)
             amount == [x \in S |-> x.entry.amount]
         IN  /\ IsFiniteSet(S) /\ IsFiniteSet(Costs!DataGaps(s))
             /\ \A x \in S : amount[x] \in Int
             /\ \A T \in SUBSET S :
                  /\ IsFiniteSet(T)
                  /\ Costs!Amount(T) = SumFunctionOnSet(amount, T)
                  /\ Costs!Amount(T) \in Int
<1> DEFINE S == Costs!Projected(s)
           amount == [x \in S |-> x.entry.amount]
<1>1. IsFiniteSet(S) /\ IsFiniteSet(Costs!DataGaps(s))
  BY ScheduledRows, FS_Subset DEF Costs!Projected, Costs!DataGaps
<1>2. \A x \in S : amount[x] \in Int
  BY ScheduledRows DEF Costs!Projected
<1>3. ASSUME NEW T \in SUBSET S
      PROVE  /\ IsFiniteSet(T)
             /\ Costs!Amount(T) = SumFunctionOnSet(amount, T)
             /\ Costs!Amount(T) \in Int
  <2>1. [x \in T |-> amount[x]] = [x \in T |-> x.entry.amount]
    OBVIOUS
  <2> HIDE DEF amount, S
  <2>2. IsFiniteSet(T) /\ \A x \in T : amount[x] \in Int
    BY <1>1, <1>2, FS_Subset
  <2>3. SumFunction([x \in T |-> amount[x]]) = SumFunctionOnSet(amount, T)
    BY <2>2, SumOver
  <2>4. SumFunctionOnSet(amount, T) \in Int
    BY <2>2, SumInt
  <2> QED
    BY <2>1, <2>2, <2>3, <2>4, CostsLibrary DEF Costs!Amount
<1> QED
  BY <1>1, <1>2, <1>3

\* A row is within the horizon when its year is one of the years shown.
LEMMA YearsWithin ==
  ASSUME Costs!TypeOK, NEW s
  PROVE  /\ IsFiniteSet(Costs!YearsOf(s))
         /\ \A y \in Costs!YearsOf(s) : y \in horizon.start .. horizon.end
         /\ \A x \in Costs!Projected(s) \cup Costs!DataGaps(s) :
              /\ x.entry.year \in Int
              /\ Costs!Within(x) <=> x.entry.year \in Costs!YearsOf(s)
              /\ Costs!Within(x) <=> x.entry.year \in horizon.start .. horizon.end
<1> DEFINE rows == {x \in Costs!Projected(s) \cup Costs!DataGaps(s) : Costs!Within(x)}
           itsYear == [x \in rows |-> x.entry.year]
<1>1. \A x \in Costs!Projected(s) \cup Costs!DataGaps(s) :
        /\ x.entry.year \in Int
        /\ Costs!Within(x) <=> x.entry.year \in horizon.start .. horizon.end
  BY ScheduledRows
     DEF Costs!Projected, Costs!DataGaps, Costs!Within, Costs!Before, Costs!After
<1>2. IsFiniteSet(rows)
  BY ProjectedRows, FS_Union, FS_Subset
<1>3. Costs!YearsOf(s) = {itsYear[x] : x \in rows}
  BY DEF Costs!YearsOf
<1>4. IsFiniteSet({itsYear[x] : x \in rows})
  <2> HIDE DEF itsYear, rows
  <2> QED
    BY <1>2, FiniteValues
<1>5. \A y \in Costs!YearsOf(s) : y \in horizon.start .. horizon.end
  BY <1>1 DEF Costs!YearsOf
<1>6. \A x \in Costs!Projected(s) \cup Costs!DataGaps(s) :
        Costs!Within(x) <=> x.entry.year \in Costs!YearsOf(s)
  BY <1>1, <1>5 DEF Costs!YearsOf
<1> QED
  BY <1>1, <1>3, <1>4, <1>5, <1>6

\* The rows of a scenario are those before the horizon, those of its years, and those
\* after it.
LEMMA RowsAddUp ==
  ASSUME Costs!TypeOK, NEW s
  PROVE  LET p == Costs!ScenarioProjection(s)
             S == Costs!Projected(s)
         IN  /\ p.beforeHorizonAmount + p.horizonAmount + p.afterHorizonAmount = Costs!Amount(S)
             /\ p.horizonEventCount = Cardinality({x \in S : Costs!Within(x)})
<1> DEFINE S == Costs!Projected(s)
           K == Costs!YearsOf(s)
           amount == [x \in S |-> x.entry.amount]
           one == [x \in S |-> 1]
           Early == {x \in S : Costs!Before(x)}
           Mid == {x \in S : Costs!Within(x)}
           Late == {x \in S : Costs!After(x)}
           ofYear == [y \in K |-> {x \in S : x.entry.year = y}]
           yearAmount == [y \in K |-> Costs!Amount(ofYear[y])]
           yearCount == [y \in K |-> Cardinality(ofYear[y])]
<1>1. /\ IsFiniteSet(S) /\ IsFiniteSet(K)
      /\ \A x \in S : amount[x] \in Int
      /\ \A T \in SUBSET S : /\ IsFiniteSet(T)
                             /\ Costs!Amount(T) = SumFunctionOnSet(amount, T)
                             /\ Costs!Amount(T) \in Int
  <2> HIDE DEF K
  <2>1. IsFiniteSet(K)
    BY YearsWithin DEF K
  <2> QED
    BY <2>1, ProjectedRows
<1>2. /\ Early \cup Mid \cup Late = S
      /\ Early \cap Mid = {} /\ (Early \cup Mid) \cap Late = {}
      /\ {Early, Mid, Late, Early \cup Mid} \subseteq SUBSET S
  <2>1. \A x \in S : x.entry.year \in Int /\ horizon.start \in Int /\ horizon.end \in Int
                     /\ horizon.start <= horizon.end
    BY ScheduledRows DEF Costs!TypeOK, Costs!Horizon, Costs!Projected
  <2>2. \A x \in S : /\ Costs!Before(x) \/ Costs!Within(x) \/ Costs!After(x)
                     /\ ~(Costs!Before(x) /\ Costs!Within(x))
                     /\ ~(Costs!After(x) /\ Costs!Within(x))
                     /\ ~(Costs!Before(x) /\ Costs!After(x))
    <3> HIDE DEF S
    <3> QED
      BY <2>1 DEF Costs!Before, Costs!Within, Costs!After
  <2> HIDE DEF S
  <2> QED
    BY <2>2
<1>3. /\ \A y \in K : ofYear[y] \subseteq Mid
      /\ \A x \in Mid : \E y \in K : x \in ofYear[y]
      /\ \A k, l \in K : \A x \in ofYear[k] : x \in ofYear[l] => k = l
  <2>1. \A x \in S : Costs!Within(x) <=> x.entry.year \in K
    BY YearsWithin
  <2> HIDE DEF K, S
  <2> QED
    BY <2>1
<1>4. /\ \A y \in K : yearAmount[y] = SumFunctionOnSet(amount, ofYear[y]) /\ yearAmount[y] \in Int
      /\ \A y \in K : ofYear[y] \in SUBSET S
  <2> HIDE DEF amount, K, S
  <2> QED
    BY <1>1
<1>5. Costs!Amount(Mid) = SumFunctionOnSet(yearAmount, K)
  <2>1. /\ IsFiniteSet(Mid) /\ Costs!Amount(Mid) = SumFunctionOnSet(amount, Mid)
        /\ \A x \in Mid : amount[x] \in Int
    <3> HIDE DEF amount, S, K
    <3> QED
      BY <1>1
  <2>2. \A y \in K : yearAmount[y] = SumFunctionOnSet(amount, ofYear[y])
    BY <1>4
  <2> HIDE DEF amount, Mid, K, ofYear, yearAmount
  <2>3. SumFunctionOnSet(amount, Mid) = SumFunctionOnSet(yearAmount, K)
    BY ONLY <1>1, <1>3, <2>1, <2>2, SumOfParts
  <2> QED
    BY <2>1, <2>3
<1>6. Costs!Amount(S) = Costs!Amount(Early) + Costs!Amount(Mid) + Costs!Amount(Late)
  <2>1. /\ \A T \in {Early, Mid, Late, Early \cup Mid, S} :
             /\ IsFiniteSet(T) /\ Costs!Amount(T) = SumFunctionOnSet(amount, T)
             /\ \A x \in T : amount[x] \in Int
    <3> HIDE DEF amount, S, Early, Mid, Late
    <3> QED
      BY <1>1, <1>2
  <2> HIDE DEF amount, S, Early, Mid, Late
  <2>2. SumFunctionOnSet(amount, Early \cup Mid)
          = SumFunctionOnSet(amount, Early) + SumFunctionOnSet(amount, Mid)
    BY <1>2, <2>1, SumUnion
  <2>3. SumFunctionOnSet(amount, (Early \cup Mid) \cup Late)
          = SumFunctionOnSet(amount, Early \cup Mid) + SumFunctionOnSet(amount, Late)
    BY <1>2, <2>1, SumUnion
  <2> QED
    BY <1>2, <2>1, <2>2, <2>3
<1>7. Cardinality(Mid) = SumFunctionOnSet(yearCount, K)
  <2>1. /\ IsFiniteSet(Mid) /\ \A x \in Mid : one[x] = 1
        /\ \A y \in K : IsFiniteSet(ofYear[y]) /\ \A x \in ofYear[y] : one[x] = 1
    <3>1. \A x \in S : one[x] = 1
      OBVIOUS
    <3> HIDE DEF one, S, K
    <3> QED
      BY <1>1, <3>1
  <2>2. \A y \in K : yearCount[y] = Cardinality(ofYear[y])
    OBVIOUS
  <2> HIDE DEF one, Mid, K, ofYear, yearCount
  <2>3. \A y \in K : yearCount[y] = SumFunctionOnSet(one, ofYear[y])
    BY <2>1, <2>2, CountIsSum
  <2>4. \A x \in Mid : one[x] \in Int
    BY <2>1
  <2>5. SumFunctionOnSet(one, Mid) = SumFunctionOnSet(yearCount, K)
    BY ONLY <1>1, <1>3, <2>1, <2>3, <2>4, SumOfParts
  <2> QED
    BY <2>1, <2>5, CountIsSum
<1>8. /\ DOMAIN Costs!YearRows(s) = K
      /\ \A y \in K : /\ Costs!YearRows(s)[y].amount = yearAmount[y]
                      /\ Costs!YearRows(s)[y].eventCount = yearCount[y]
  BY CostsLibrary DEF Costs!YearRows
<1>9. /\ Costs!ScenarioProjection(s).horizonAmount = SumFunctionOnSet(yearAmount, K)
      /\ Costs!ScenarioProjection(s).horizonEventCount = SumFunctionOnSet(yearCount, K)
  <2>1. /\ [y \in K |-> Costs!YearRows(s)[y].amount] = yearAmount
        /\ [y \in K |-> Costs!YearRows(s)[y].eventCount] = yearCount
        /\ DOMAIN yearAmount = K /\ DOMAIN yearCount = K
    BY <1>8
  <2> HIDE DEF yearAmount, yearCount, K
  <2> QED
    BY <1>8, <2>1, CostsLibrary DEF Costs!ScenarioProjection, SumFunction
<1>10. /\ Costs!ScenarioProjection(s).beforeHorizonAmount = Costs!Amount(Early)
       /\ Costs!ScenarioProjection(s).afterHorizonAmount = Costs!Amount(Late)
  BY DEF Costs!ScenarioProjection
<1>11. {Costs!Amount(Early), Costs!Amount(Mid), Costs!Amount(Late)} \subseteq Int
  <2> HIDE DEF amount, S, Early, Mid, Late
  <2> QED
    BY <1>1, <1>2
<1> QED
  <2> HIDE DEF Early, Mid, Late, yearAmount, yearCount, K
  <2>1. Costs!ScenarioProjection(s).horizonEventCount = Cardinality(Mid)
    BY <1>7, <1>9
  <2>2. Costs!ScenarioProjection(s).beforeHorizonAmount
          + Costs!ScenarioProjection(s).horizonAmount
          + Costs!ScenarioProjection(s).afterHorizonAmount = Costs!Amount(S)
    BY <1>5, <1>6, <1>9, <1>10, <1>11
  <2> QED
    BY <2>1, <2>2 DEF Mid

\* Every row without a price is a gap of one year, or before or after the horizon.
LEMMA GapsAddUp ==
  ASSUME Costs!TypeOK, NEW s
  PROVE  LET p == Costs!ScenarioProjection(s)
         IN  /\ Cardinality(p.beforeGaps) + Cardinality(p.withinGaps) + Cardinality(p.afterGaps)
                  = Cardinality(Costs!DataGaps(s))
             /\ p.withinGaps = UNION {p.years[y].gaps : y \in DOMAIN p.years}
<1> DEFINE G == Costs!DataGaps(s)
           K == Costs!YearsOf(s)
           Early == {x \in G : Costs!Before(x)}
           Mid == {x \in G : Costs!Within(x)}
           Late == {x \in G : Costs!After(x)}
<1>1. IsFiniteSet(G)
  BY ProjectedRows
<1>2. /\ Early \cup Mid \cup Late = G
      /\ Early \cap Mid = {} /\ (Early \cup Mid) \cap Late = {}
      /\ {Early, Mid, Late, Early \cup Mid} \subseteq SUBSET G
  <2>1. \A x \in G : x.entry.year \in Int /\ horizon.start \in Int /\ horizon.end \in Int
                     /\ horizon.start <= horizon.end
    BY ScheduledRows DEF Costs!TypeOK, Costs!Horizon, Costs!DataGaps
  <2>2. \A x \in G : /\ Costs!Before(x) \/ Costs!Within(x) \/ Costs!After(x)
                     /\ ~(Costs!Before(x) /\ Costs!Within(x))
                     /\ ~(Costs!After(x) /\ Costs!Within(x))
                     /\ ~(Costs!Before(x) /\ Costs!After(x))
    <3> HIDE DEF G
    <3> QED
      BY <2>1 DEF Costs!Before, Costs!Within, Costs!After
  <2> HIDE DEF G
  <2> QED
    BY <2>2
<1>3. Cardinality(Early) + Cardinality(Mid) + Cardinality(Late) = Cardinality(G)
  <2> HIDE DEF G, Early, Mid, Late
  <2>1. /\ IsFiniteSet(Early) /\ IsFiniteSet(Mid) /\ IsFiniteSet(Late)
        /\ IsFiniteSet(Early \cup Mid)
    BY <1>1, <1>2, FS_Subset
  <2>2. /\ Cardinality(Early) \in Int /\ Cardinality(Mid) \in Int /\ Cardinality(Late) \in Int
        /\ Cardinality(Early \cup Mid) \in Int
    BY <2>1, FS_CardinalityType
  <2>3. Cardinality(Early \cup Mid) = Cardinality(Early) + Cardinality(Mid)
    <3>1. Cardinality(Early \cap Mid) = 0
      BY <1>2, FS_EmptySet
    <3>2. Cardinality(Early \cup Mid)
            = Cardinality(Early) + Cardinality(Mid) - Cardinality(Early \cap Mid)
      BY ONLY <2>1, FS_Union, Zenon
    <3> QED
      BY <2>2, <3>1, <3>2
  <2>4. Cardinality((Early \cup Mid) \cup Late) = Cardinality(Early \cup Mid) + Cardinality(Late)
    <3>1. Cardinality((Early \cup Mid) \cap Late) = 0
      BY <1>2, FS_EmptySet
    <3>2. Cardinality((Early \cup Mid) \cup Late)
            = Cardinality(Early \cup Mid) + Cardinality(Late) - Cardinality((Early \cup Mid) \cap Late)
      BY ONLY <2>1, FS_Union, Zenon
    <3> QED
      BY <2>2, <3>1, <3>2
  <2> QED
    BY <1>2, <2>2, <2>3, <2>4
<1>4. /\ DOMAIN Costs!YearRows(s) = K
      /\ \A y \in K : Costs!YearRows(s)[y].gaps = {x \in G : x.entry.year = y}
  BY DEF Costs!YearRows
<1>5. Mid = UNION {Costs!YearRows(s)[y].gaps : y \in K}
  <2>1. \A x \in G : Costs!Within(x) <=> x.entry.year \in K
    BY YearsWithin
  <2> HIDE DEF G, K
  <2> QED
    BY <1>4, <2>1
<1>6. /\ Costs!ScenarioProjection(s).beforeGaps = Early
      /\ Costs!ScenarioProjection(s).withinGaps = Mid
      /\ Costs!ScenarioProjection(s).afterGaps = Late
      /\ Costs!ScenarioProjection(s).years = Costs!YearRows(s)
  BY DEF Costs!ScenarioProjection
<1> HIDE DEF G, K, Early, Mid, Late
<1> QED
  BY <1>3, <1>4, <1>5, <1>6 DEF G

\* Every approved row is counted in exactly one place.
LEMMA CostsCountedOnce == ASSUME Costs!TypeOK PROVE Costs!RowsAreCountedOnce
<1> DEFINE p(s) == Costs!ScenarioProjection(s)
           live == {e \in EventIds : events[e] # Absent /\ events[e].status = "approved"}
           approved(s) == UNION {{[event |-> e, entry |-> r] :
                                    r \in {x \in events[e].schedule : x.scenario = s}} : e \in live}
           priced(s) == {x \in approved(s) : x.entry.amount # Gap}
<1> SUFFICES ASSUME NEW s \in Scenarios
             PROVE
    /\ p(s).beforeHorizonAmount + p(s).horizonAmount + p(s).afterHorizonAmount
         = Costs!SumFunction([x \in priced(s) |-> x.entry.amount])
    /\ p(s).horizonEventCount
         = Costs!Cardinality({x \in priced(s) : x.entry.year \in horizon.start .. horizon.end})
    /\ Costs!Cardinality(p(s).beforeGaps) + Costs!Cardinality(p(s).withinGaps)
         + Costs!Cardinality(p(s).afterGaps)
         = Costs!Cardinality(approved(s) \ priced(s))
    /\ p(s).withinGaps = UNION {p(s).years[y].gaps : y \in DOMAIN p(s).years}
  BY Zenon DEF Costs!RowsAreCountedOnce
<1>1. approved(s) = {x \in Costs!Scheduled : x.entry.scenario = s}
  BY DEF Costs!Scheduled
<1>2. priced(s) = Costs!Projected(s)
  BY <1>1 DEF Costs!Projected
<1>3. approved(s) \ priced(s) = Costs!DataGaps(s)
  BY <1>1 DEF Costs!DataGaps
<1>4. {x \in priced(s) : x.entry.year \in horizon.start .. horizon.end}
        = {x \in Costs!Projected(s) : Costs!Within(x)}
  <2> HIDE DEF priced
  <2> QED
    BY <1>2, YearsWithin
<1> HIDE DEF p, approved, priced
<1> QED
  BY <1>2, <1>3, <1>4, RowsAddUp, GapsAddUp, CostsLibrary DEF p, Costs!Amount

-----------------------------------------------------------------------------

\* Whole cents stay whole when they are added, so that the total is that of the years.
LEMMA CostsAccepted == ASSUME Costs!TypeOK PROVE Costs!OwnProjectionAccepted
<1> SUFFICES ASSUME NEW s \in Scenarios, \A x \in Costs!Projected(s) : x.entry.amount % 10 = 0
             PROVE  Costs!Consistent(Costs!ScenarioProjection(s))
  BY DEF Costs!OwnProjectionAccepted
<1> DEFINE S == Costs!Projected(s)
           K == Costs!YearsOf(s)
           amount == [x \in S |-> x.entry.amount]
           cents == [x \in S |-> x.entry.amount \div 10]
           ofYear == [y \in K |-> {x \in S : x.entry.year = y}]
           yearAmount == [y \in K |-> Costs!Amount(ofYear[y])]
           yearCents == [y \in K |-> SumFunctionOnSet(cents, ofYear[y])]
<1>1. /\ IsFiniteSet(S) /\ IsFiniteSet(K)
      /\ \A x \in S : amount[x] \in Int
      /\ \A T \in SUBSET S : IsFiniteSet(T) /\ Costs!Amount(T) = SumFunctionOnSet(amount, T)
  <2> HIDE DEF K
  <2>1. IsFiniteSet(K)
    BY YearsWithin DEF K
  <2> QED
    BY <2>1, ProjectedRows
<1>2. \A x \in S : cents[x] \in Int /\ amount[x] = 10 * cents[x]
  <2> TAKE x \in S
  <2>1. amount[x] \in Int /\ amount[x] % 10 = 0 /\ cents[x] = amount[x] \div 10
    BY <1>1
  <2> HIDE DEF amount, cents
  <2> QED
    BY <2>1
<1>3. ASSUME NEW y \in K
      PROVE  /\ yearAmount[y] = 10 * yearCents[y] /\ yearCents[y] \in Int
             /\ Costs!ToCents(yearAmount[y]) = yearCents[y]
  <2>1. ofYear[y] \in SUBSET S /\ yearAmount[y] = Costs!Amount(ofYear[y])
        /\ yearCents[y] = SumFunctionOnSet(cents, ofYear[y])
    OBVIOUS
  <2> HIDE DEF S, K, amount, cents, ofYear, yearAmount, yearCents
  <2>2. IsFiniteSet(ofYear[y]) /\ yearAmount[y] = SumFunctionOnSet(amount, ofYear[y])
        /\ \A x \in ofYear[y] : cents[x] \in Int /\ amount[x] = 10 * cents[x]
    BY <1>1, <1>2, <2>1
  <2>3. yearAmount[y] = 10 * yearCents[y]
    BY <2>1, <2>2, SumMultiplies
  <2>4. yearCents[y] \in Int
    BY <2>1, <2>2, SumInt
  <2> QED
    BY <2>3, <2>4 DEF Costs!ToCents
<1>4. /\ DOMAIN Costs!YearRows(s) = K
      /\ \A y \in K : Costs!YearRows(s)[y].amount = yearAmount[y]
  BY DEF Costs!YearRows
<1>5. /\ Costs!ScenarioProjection(s).years = Costs!YearRows(s)
      /\ Costs!ScenarioProjection(s).horizonAmount = SumFunctionOnSet(yearAmount, K)
  <2>1. [y \in K |-> Costs!YearRows(s)[y].amount] = yearAmount /\ DOMAIN yearAmount = K
    BY <1>4
  <2> HIDE DEF yearAmount, K
  <2> QED
    BY <1>4, <2>1, CostsLibrary DEF Costs!ScenarioProjection, SumFunction
<1>6. Costs!SumFunction([y \in K |-> Costs!ToCents(Costs!YearRows(s)[y].amount)])
        = SumFunctionOnSet(yearCents, K)
  <2>1. [y \in K |-> Costs!ToCents(Costs!YearRows(s)[y].amount)] = yearCents
        /\ DOMAIN yearCents = K
    <3>1. \A y \in K : Costs!ToCents(Costs!YearRows(s)[y].amount) = yearCents[y]
      BY <1>3, <1>4
    <3>2. yearCents = [y \in K |-> yearCents[y]] /\ DOMAIN yearCents = K
      OBVIOUS
    <3> HIDE DEF yearCents, K
    <3> QED
      BY <3>1, <3>2
  <2> HIDE DEF yearCents, K
  <2> QED
    BY <2>1, CostsLibrary DEF SumFunction
<1>7. Costs!ToCents(SumFunctionOnSet(yearAmount, K)) = SumFunctionOnSet(yearCents, K)
  <2>1. \A y \in K : yearCents[y] \in Int /\ yearAmount[y] = 10 * yearCents[y]
    BY <1>3
  <2> HIDE DEF yearAmount, yearCents, K
  <2>2. SumFunctionOnSet(yearAmount, K) = 10 * SumFunctionOnSet(yearCents, K)
    BY <1>1, <2>1, SumMultiplies
  <2>3. SumFunctionOnSet(yearCents, K) \in Int
    BY <1>1, <2>1, SumInt
  <2> QED
    BY <2>2, <2>3 DEF Costs!ToCents
<1>8. \A y \in K : y \in horizon.start .. horizon.end
  BY YearsWithin
<1> HIDE DEF K, yearAmount, yearCents
<1> QED
  BY <1>4, <1>5, <1>6, <1>7, <1>8 DEF Costs!Consistent

-----------------------------------------------------------------------------
(* The repairs in the cash path table. *)

\* The approved rows of the table are finitely many, in years of approved events.
LEMMA TableScheduledRows ==
  ASSUME Table!TypeOK
  PROVE  /\ IsFiniteSet(Table!P!Scheduled)
         /\ \A x \in Table!P!Scheduled :
              /\ x.entry.year \in TableYears \cap Table!ApprovedYears
              /\ x.entry.amount # Gap => x.entry.amount \in Int
         /\ Table!ApprovedYears \subseteq TableYears
         /\ IsFiniteSet(TableYears) /\ TableYears \subseteq Int
<1> DEFINE live == {e \in TableEventIds : tableEvents[e] # Absent
                                            /\ tableEvents[e].status = "approved"}
           rows == [e \in live |-> {[event |-> e, entry |-> r] : r \in tableEvents[e].schedule}]
<1>1. /\ IsFiniteSet(TableEventIds) /\ TableAmounts \subseteq Nat
      /\ TableEventVersions \subseteq Table!P!Event
      /\ \A v \in TableEventVersions : IsFiniteSet(v.schedule)
      /\ IsFiniteSet(TableYears) /\ TableYears \subseteq Int
  BY CalculationsAssumption, TableRepairsLibrary, TableLibrary
     DEF Table!TableAssumption, Table!P!InputsAssumption, Table!VersionsAssumption
<1>2. \A e \in live : tableEvents[e] \in TableEventVersions
  BY DEF Table!TypeOK
<1>3. IsFiniteSet(live)
  BY <1>1, FS_Subset
<1>4. \A e \in live : IsFiniteSet(rows[e])
  <2> TAKE e \in live
  <2> DEFINE schedule == tableEvents[e].schedule
             row == [r \in schedule |-> [event |-> e, entry |-> r]]
  <2>1. IsFiniteSet(schedule)
    BY <1>1, <1>2
  <2>2. IsFiniteSet({row[r] : r \in schedule})
    <3> HIDE DEF row, schedule
    <3> QED
      BY <2>1, FiniteValues
  <2>3. rows[e] = {row[r] : r \in schedule}
    OBVIOUS
  <2> HIDE DEF rows, row, schedule
  <2> QED
    BY <2>2, <2>3
<1>5. Table!P!Scheduled = UNION {rows[e] : e \in live}
  BY DEF Table!P!Scheduled
<1>6. IsFiniteSet(Table!P!Scheduled)
  <2> HIDE DEF rows, live
  <2>1. IsFiniteSet({rows[e] : e \in live})
    BY <1>3, FiniteValues
  <2> QED
    BY <1>4, <1>5, <2>1, FS_UNION
<1>7. live = Table!ApprovedEvents
  BY DEF Table!ApprovedEvents, Table!Entered, Table!TypeOK
<1>8. ASSUME NEW e \in live, NEW r \in tableEvents[e].schedule
      PROVE  /\ r.year \in TableYears \cap Table!ApprovedYears
             /\ r.amount # Gap => r.amount \in Int
  <2>1. r \in Table!P!Entry
    BY <1>1, <1>2 DEF Table!P!Event
  <2>2. r.year \in TableYears /\ r.amount \in TableAmounts \cup {Gap}
    BY <2>1 DEF Table!P!Entry
  <2>3. r.year \in Table!ApprovedYears
    BY <1>7 DEF Table!ApprovedYears
  <2>4. TableAmounts \subseteq Int
    BY <1>1
  <2> HIDE DEF live, rows
  <2> QED
    BY <2>2, <2>3, <2>4
<1>9. ASSUME NEW x \in Table!P!Scheduled
      PROVE  /\ x.entry.year \in TableYears \cap Table!ApprovedYears
             /\ x.entry.amount # Gap => x.entry.amount \in Int
  <2>1. PICK e \in live : x \in rows[e]
    BY <1>5
  <2>2. PICK r \in tableEvents[e].schedule : x = [event |-> e, entry |-> r]
    BY <2>1
  <2>3. x.entry = r
    BY <2>2
  <2> HIDE DEF live, rows
  <2> QED
    BY <1>8, <2>3
<1>10. Table!ApprovedYears \subseteq TableYears
  <2> HIDE DEF live, rows
  <2> QED
    BY <1>7, <1>8 DEF Table!ApprovedYears
<1> QED
  BY <1>1, <1>6, <1>9, <1>10

\* The repairs are projected over all the years they name and all the budgeted years.
LEMMA HorizonReaches ==
  ASSUME Table!TypeOK, NEW y \in Table!BudgetRowYears \cup Table!ApprovedYears
  PROVE  y \in Int /\ Table!KnownHorizon.start <= y /\ y <= Table!KnownHorizon.end
         /\ Table!KnownHorizon.start \in Int /\ Table!KnownHorizon.end \in Int
<1> DEFINE some == Table!BudgetRowYears \cup Table!ApprovedYears
<1>1. some \in SUBSET TableYears
  BY TableScheduledRows DEF Table!BudgetRowYears, Table!Budgeted, Table!MarginYears, Table!FigureYears
<1>2. some \in SUBSET Int /\ IsFiniteSet(some) /\ some # {}
  BY <1>1, TableScheduledRows, FS_Subset
<1>3. /\ Min(some) \in some /\ \A x \in some : Min(some) <= x
      /\ Max(some) \in some /\ \A x \in some : Max(some) >= x
  <2> HIDE DEF some
  <2> QED
    BY <1>2, FiniteExtrema
<1>4. Table!KnownHorizon = [start |-> Min(some), end |-> Max(some)]
  BY <1>2, TableLibrary DEF Table!KnownHorizon, Table!Span
<1> HIDE DEF some
<1> QED
  BY <1>2, <1>3, <1>4 DEF some

\* A year has a row in the projection when a repair names it.
LEMMA TableYearRows ==
  ASSUME Table!TypeOK, NEW s
  PROVE  /\ Table!P!YearsOf(s) \subseteq TableYears
         /\ \A x \in Table!P!Projected(s) \cup Table!P!DataGaps(s) :
              x.entry.year \in Table!P!YearsOf(s)
         /\ IsFiniteSet(Table!P!Projected(s)) /\ IsFiniteSet(Table!P!DataGaps(s))
<1>1. \A x \in Table!P!Projected(s) \cup Table!P!DataGaps(s) :
        x.entry.year \in TableYears \cap Table!ApprovedYears
  BY TableScheduledRows DEF Table!P!Projected, Table!P!DataGaps
<1>2. \A x \in Table!P!Projected(s) \cup Table!P!DataGaps(s) : Table!P!Within(x)
  BY <1>1, HorizonReaches DEF Table!P!Within, Table!P!Before, Table!P!After
<1> QED
  BY <1>1, <1>2, TableScheduledRows, FS_Subset
     DEF Table!P!YearsOf, Table!P!Projected, Table!P!DataGaps

\* What is approved is charged in the table: in its year, or counted as a gap.
LEMMA RepairsReach == ASSUME Table!TypeOK PROVE Table!ApprovedRepairsReachTheTable
<1> DEFINE priced(s, y) == {x \in Table!ApprovedRows(s, y) : x.entry.amount # Gap}
           cost(s, y) == Table!SumFunction([x \in priced(s, y) |-> x.entry.amount])
           gaps(s, y) == Table!Cardinality(Table!ApprovedRows(s, y))
                           - Table!Cardinality(priced(s, y))
<1> SUFFICES ASSUME NEW s \in Scenarios
             PROVE
    /\ \A y \in DOMAIN Table!Rows(s) \ Table!Actual :
         Table!ChargesAll(Table!Rows(s)[y], cost(s, y), gaps(s, y))
    /\ Table!Banner(s) = [total |-> Table!SumFunction([y \in TableYears |-> cost(s, y)]),
                          dataGapCount |-> Table!SumFunction([y \in TableYears |-> gaps(s, y)])]
  BY Zenon DEF Table!ApprovedRepairsReachTheTable
<1> DEFINE S == Table!P!Projected(s)
           G == Table!P!DataGaps(s)
           K == Table!P!YearsOf(s)
           ofYear(y) == {x \in S : x.entry.year = y}
           gapsOfYear(y) == {x \in G : x.entry.year = y}
           costs == [y \in TableYears |-> cost(s, y)]
           gapCounts == [y \in TableYears |-> gaps(s, y)]
<1>1. \A y : /\ priced(s, y) = ofYear(y)
             /\ Table!ApprovedRows(s, y) = ofYear(y) \cup gapsOfYear(y)
             /\ ofYear(y) \cap gapsOfYear(y) = {}
  <2> TAKE y
  <2>1. Table!ApprovedRows(s, y)
          = {x \in Table!P!Scheduled : x.entry.scenario = s /\ x.entry.year = y}
    BY DEF Table!ApprovedRows, Table!ApprovedEvents, Table!Entered, Table!P!Scheduled, Table!TypeOK
  <2> QED
    BY <2>1 DEF Table!P!Projected, Table!P!DataGaps
<1>2. /\ IsFiniteSet(S) /\ IsFiniteSet(G) /\ K \subseteq TableYears
      /\ IsFiniteSet(TableYears) /\ IsFiniteSet(K) /\ TableYears \subseteq Int
      /\ \A x \in S \cup G : x.entry.year \in K
      /\ \A x \in S : x.entry.amount \in Int
  <2>1. \A x \in S : x.entry.amount \in Int
    BY TableScheduledRows DEF Table!P!Projected
  <2> HIDE DEF K, S, G
  <2> QED
    BY <2>1, TableYearRows, TableScheduledRows, FS_Subset DEF K, S, G
<1>3. \A y : /\ IsFiniteSet(ofYear(y)) /\ IsFiniteSet(gapsOfYear(y))
             /\ gaps(s, y) = Cardinality(gapsOfYear(y)) /\ gaps(s, y) \in Int
  <2> TAKE y
  <2>1. IsFiniteSet(ofYear(y)) /\ IsFiniteSet(gapsOfYear(y))
    <3> HIDE DEF S, G
    <3> QED
      BY <1>2, FS_Subset
  <2> DEFINE A == ofYear(y)
             B == gapsOfYear(y)
  <2>2. A \cap B = {} /\ IsFiniteSet(A) /\ IsFiniteSet(B)
    BY <1>1, <2>1
  <2>3. gaps(s, y) = Cardinality(A \cup B) - Cardinality(A)
    BY <1>1, TableLibrary, Zenon
  <2> HIDE DEF A, B
  <2>4. Cardinality(A \cup B) = Cardinality(A) + Cardinality(B) - Cardinality(A \cap B)
    BY ONLY <2>2, FS_Union, Zenon
  <2>5. Cardinality(A) \in Int /\ Cardinality(B) \in Int /\ Cardinality(A \cap B) = 0
    <3>1. Cardinality(A) \in Int /\ Cardinality(B) \in Int
      BY <2>2, FS_CardinalityType
    <3>2. Cardinality(A \cap B) = 0
      BY <2>2, FS_EmptySet
    <3> QED
      BY <3>1, <3>2
  <2>6. Cardinality(A \cup B) - Cardinality(A) = Cardinality(B)
    BY <2>4, <2>5
  <2> QED
    BY <2>1, <2>3, <2>5, <2>6, Zenon DEF B
<1>4. \A y : cost(s, y) = Table!P!Amount(ofYear(y)) /\ cost(s, y) \in Int
  <2> TAKE y
  <2> DEFINE A == ofYear(y)
             amount == [x \in A |-> x.entry.amount]
  <2>1. IsFiniteSet(A) /\ \A x \in A : amount[x] \in Int
    BY <1>2, <1>3
  <2>2. cost(s, y) = SumFunctionOnSet(amount, A)
    BY <1>1, TableLibrary, Zenon DEF SumFunction
  <2>3. Table!P!Amount(A) = SumFunctionOnSet(amount, A)
    BY TableRepairsLibrary DEF Table!P!Amount, SumFunction
  <2>4. SumFunctionOnSet(amount, A) \in Int
    <3> HIDE DEF amount, A
    <3> QED
      BY <2>1, SumInt
  <2> QED
    BY <2>2, <2>3, <2>4, Zenon
<1>5. \A y : y \notin K => cost(s, y) = 0 /\ gaps(s, y) = 0 /\ gapsOfYear(y) = {}
  <2> SUFFICES ASSUME NEW y, y \notin K
               PROVE  cost(s, y) = 0 /\ gaps(s, y) = 0 /\ gapsOfYear(y) = {}
    OBVIOUS
  <2>1. ofYear(y) = {} /\ gapsOfYear(y) = {}
    <3> HIDE DEF K, S, G
    <3> QED
      BY <1>2
  <2>2. cost(s, y) = Table!P!Amount({})
    BY <1>4, <2>1, Zenon
  <2>3. Table!P!Amount({}) = 0
    <3>1. DOMAIN [x \in {} |-> x.entry.amount] = {}
      OBVIOUS
    <3> QED
      BY <3>1, TableRepairsLibrary, SumEmpty DEF Table!P!Amount, SumFunction
  <2>4. gaps(s, y) = 0
    BY <1>3, <2>1, FS_EmptySet, Zenon
  <2> QED
    BY <2>1, <2>2, <2>3, <2>4, Zenon
<1>6. /\ DOMAIN Table!P!YearRows(s) = K
      /\ \A y \in K : /\ Table!P!YearRows(s)[y].amount = cost(s, y)
                      /\ Table!P!YearRows(s)[y].gaps = gapsOfYear(y)
  <2>1. /\ DOMAIN Table!P!YearRows(s) = K
        /\ \A y \in K : /\ Table!P!YearRows(s)[y].amount = Table!P!Amount(ofYear(y))
                        /\ Table!P!YearRows(s)[y].gaps = gapsOfYear(y)
    BY DEF Table!P!YearRows
  <2> HIDE DEF cost, K, ofYear, gapsOfYear
  <2> QED
    BY <1>4, <2>1
<1> HIDE DEF cost, gaps, K, S, G
<1>7. \A y : /\ Table!ProjectedIn(Table!P!YearRows(s), y).amount = cost(s, y)
             /\ Table!ProjectedIn(Table!P!YearRows(s), y).gaps = gapsOfYear(y)
  BY <1>5, <1>6 DEF Table!ProjectedIn
<1>8. ASSUME NEW y \in DOMAIN Table!Rows(s) \ Table!Actual
      PROVE  Table!ChargesAll(Table!Rows(s)[y], cost(s, y), gaps(s, y))
  <2>1. Table!Rows(s)[y] = Table!BudgetRow(s, y)
    BY <1>8 DEF Table!Rows
  <2>2. gaps(s, y) = Cardinality(gapsOfYear(y)) /\ (gapsOfYear(y) = {} => gaps(s, y) = 0)
    BY <1>3, FS_EmptySet
  <2> DEFINE projected == Table!ProjectedIn(Table!P!YearRows(s), y)
             margin == Table!MarginOf("budget", y)
             opens == Table!B!ClosingCash(y - 1)
  <2>3. /\ projected.amount = cost(s, y) /\ Cardinality(projected.gaps) = gaps(s, y)
        /\ projected.gaps = {} => gaps(s, y) = 0
    BY <1>7, <2>2
  <2>4. Table!Rows(s)[y] = Table!PlannedRow(opens, margin, projected)
    BY <2>1 DEF Table!BudgetRow
  <2> HIDE DEF projected, margin, opens
  <2> QED
    BY <2>3, <2>4, TableLibrary DEF Table!PlannedRow, Table!ChargesAll
<1>9. /\ SumFunction(costs) = SumFunctionOnSet(costs, K)
      /\ SumFunction(gapCounts) = SumFunctionOnSet(gapCounts, K)
  <2> DEFINE rest == TableYears \ K
  <2>0. /\ DOMAIN costs = TableYears /\ DOMAIN gapCounts = TableYears
        /\ \A y \in TableYears : costs[y] = cost(s, y) /\ gapCounts[y] = gaps(s, y)
    OBVIOUS
  <2>1. \A y \in TableYears : costs[y] \in Int /\ gapCounts[y] \in Int
    BY <1>3, <1>4
  <2>2. \A y \in rest : costs[y] = 0 /\ gapCounts[y] = 0
    BY <1>5
  <2>3. K \cup rest = TableYears /\ K \cap rest = {} /\ IsFiniteSet(rest) /\ rest \subseteq TableYears
    BY <1>2, FS_Subset
  <2> HIDE DEF costs, gapCounts, rest
  <2>4. /\ SumFunctionOnSet(costs, K \cup rest)
             = SumFunctionOnSet(costs, K) + SumFunctionOnSet(costs, rest)
        /\ SumFunctionOnSet(gapCounts, K \cup rest)
             = SumFunctionOnSet(gapCounts, K) + SumFunctionOnSet(gapCounts, rest)
    BY <1>2, <2>1, <2>3, SumUnion
  <2>5. SumFunctionOnSet(costs, rest) = 0 /\ SumFunctionOnSet(gapCounts, rest) = 0
    BY <2>2, <2>3, SumZero
  <2>6. SumFunctionOnSet(costs, K) \in Int /\ SumFunctionOnSet(gapCounts, K) \in Int
    BY <1>2, <2>1, SumInt
  <2>7. /\ SumFunctionOnSet(costs, TableYears) = SumFunctionOnSet(costs, K)
        /\ SumFunctionOnSet(gapCounts, TableYears) = SumFunctionOnSet(gapCounts, K)
    BY <2>3, <2>4, <2>5, <2>6
  <2> QED
    BY <2>0, <2>7 DEF SumFunction
<1>10. /\ Table!Banner(s).total = SumFunctionOnSet(costs, K)
       /\ Table!Banner(s).dataGapCount = SumFunctionOnSet(gapCounts, K)
       /\ Table!Banner(s) = [total |-> Table!Banner(s).total,
                             dataGapCount |-> Table!Banner(s).dataGapCount]
  <2> DEFINE years == Table!P!YearRows(s)
             f == [y \in K |-> years[y].amount]
             g == [y \in K |-> Table!Cardinality(years[y].gaps)]
  <2>1. \A y \in K : /\ f[y] = costs[y] /\ g[y] = gapCounts[y]
                     /\ f[y] \in Int /\ g[y] \in Int
    <3> TAKE y \in K
    <3>1. y \in TableYears /\ years[y].amount = cost(s, y) /\ years[y].gaps = gapsOfYear(y)
      BY <1>2, <1>6
    <3>2. costs[y] = cost(s, y) /\ gapCounts[y] = gaps(s, y)
      BY <3>1
    <3>3. Table!Cardinality(years[y].gaps) = gaps(s, y)
      BY <1>3, <3>1, TableLibrary
    <3> QED
      BY <1>3, <1>4, <3>1, <3>2, <3>3
  <2>2. /\ Table!Banner(s).total = Table!SumFunction(f)
        /\ Table!Banner(s).dataGapCount = Table!SumFunction(g)
        /\ Table!Banner(s) = [total |-> Table!Banner(s).total,
                              dataGapCount |-> Table!Banner(s).dataGapCount]
    BY <1>6 DEF Table!Banner
  <2>3. DOMAIN f = K /\ DOMAIN g = K
    OBVIOUS
  <2> HIDE DEF f, g, costs, gapCounts
  <2>4. /\ SumFunctionOnSet(f, K) = SumFunctionOnSet(costs, K)
        /\ SumFunctionOnSet(g, K) = SumFunctionOnSet(gapCounts, K)
    BY <1>2, <2>1, SumSame
  <2> QED
    BY <2>2, <2>3, <2>4, TableLibrary DEF SumFunction
<1>11. Table!Banner(s) = [total |-> Table!SumFunction(costs),
                          dataGapCount |-> Table!SumFunction(gapCounts)]
  <2> HIDE DEF costs, gapCounts
  <2> QED
    BY <1>9, <1>10, TableLibrary
<1> QED
  BY <1>8, <1>11

-----------------------------------------------------------------------------
(* The figures of the account data. *)

\* What the accounts of a group state, and the figures of the groups.
Stating(kind, side, g, y) == {k \in Views!GroupAccounts(kind, g) : Views!Stated(k, y, side) # Absent}
StatedBy(side, y) == [k \in Codes |-> Views!Stated(k, y, side)]
FigureOf(kind, side, y) == [g \in Groups |-> Views!GroupFigure(kind, side, g, y)]

\* There are finitely many accounts, groups and years, and undefined is none of the data.
LEMMA BooksFinite ==
  /\ IsFiniteSet(Codes) /\ IsFiniteSet(Groups) /\ IsFiniteSet(BookYears)
  /\ BookYears \subseteq Int /\ Absent \notin Int
  /\ Absent \notin Views!Account /\ Absent \notin Views!Entry /\ Absent \notin Views!GroupRow
BY CalculationsAssumption, ViewsLibrary DEF Views!ViewsAssumption, Views!VersionsAssumption

\* What an entry states is a number, or nothing.
LEMMA StatedTypes ==
  ASSUME Views!BooksTypeOK, NEW side \in Views!Sides, NEW y \in BookYears
  PROVE  \A k \in Codes : Views!Stated(k, y, side) \in Int \cup {Absent}
<1> TAKE k \in Codes
<1>1. entries[<<k, y>>] \in Views!Entry \cup {Absent}
  BY DEF Views!BooksTypeOK
<1> QED
  BY <1>1 DEF Views!Stated, Views!Entry

\* A sum of what some accounts state.
LEMMA StatedSums ==
  ASSUME Views!BooksTypeOK, NEW side \in Views!Sides, NEW y \in BookYears,
         NEW T \in SUBSET {k \in Codes : Views!Stated(k, y, side) # Absent}
  PROVE  /\ IsFiniteSet(T)
         /\ \A k \in T : StatedBy(side, y)[k] \in Int
         /\ SumFunctionOnSet(StatedBy(side, y), T) \in Int
         /\ Views!SumFunction([k \in T |-> Views!Stated(k, y, side)])
              = SumFunctionOnSet(StatedBy(side, y), T)
<1> DEFINE f == StatedBy(side, y)
<1>1. IsFiniteSet(T) /\ \A k \in T : f[k] = Views!Stated(k, y, side) /\ f[k] \in Int
  BY StatedTypes, BooksFinite, FS_Subset DEF StatedBy
<1>2. [k \in T |-> f[k]] = [k \in T |-> Views!Stated(k, y, side)]
  BY <1>1
<1> HIDE DEF f
<1>3. SumFunction([k \in T |-> f[k]]) = SumFunctionOnSet(f, T) /\ SumFunctionOnSet(f, T) \in Int
  BY <1>1, SumOver, SumInt
<1> QED
  BY <1>1, <1>2, <1>3, ViewsLibrary DEF f

\* The sum of the accounts of a group, and when there is one.
LEMMA AccountSums ==
  ASSUME Views!BooksTypeOK, NEW side \in Views!Sides, NEW y \in BookYears, NEW kind, NEW g
  PROVE  /\ Stating(kind, side, g, y) \in SUBSET {k \in Codes : Views!Stated(k, y, side) # Absent}
         /\ Views!AccountSum(kind, side, g, y)
              = IF Stating(kind, side, g, y) = {} THEN Absent
                ELSE SumFunctionOnSet(StatedBy(side, y), Stating(kind, side, g, y))
         /\ Views!AccountSum(kind, side, g, y) \in Int \cup {Absent}
         /\ Views!AccountSum(kind, side, g, y) = Absent <=> Stating(kind, side, g, y) = {}
<1> DEFINE T == Stating(kind, side, g, y)
<1>1. T \in SUBSET {k \in Codes : Views!Stated(k, y, side) # Absent}
  BY DEF Stating, Views!GroupAccounts
<1>2. Views!AccountSum(kind, side, g, y)
        = IF T = {} THEN Absent ELSE Views!SumFunction([k \in T |-> Views!Stated(k, y, side)])
  BY DEF Views!AccountSum, Stating
<1> HIDE DEF T
<1>3. /\ SumFunctionOnSet(StatedBy(side, y), T) \in Int
      /\ Views!SumFunction([k \in T |-> Views!Stated(k, y, side)])
           = SumFunctionOnSet(StatedBy(side, y), T)
  BY <1>1, StatedSums
<1> QED
  BY <1>1, <1>2, <1>3, BooksFinite DEF T

\* What a group states itself, and when it does.
LEMMA LevelTypes ==
  ASSUME Views!BooksTypeOK, NEW side \in Views!Sides, NEW y \in BookYears,
         NEW kind \in Views!Kinds, NEW g \in Groups
  PROVE  /\ groupRows[<<side, kind, g, y>>] \in Views!GroupRow \cup {Absent}
         /\ groupRows[<<side, kind, g, y>>] # Absent =>
              /\ groupRows[<<side, kind, g, y>>].amount \in Int
              /\ groupRows[<<side, kind, g, y>>].active \in BOOLEAN
         /\ Views!GroupLevel(kind, side, g, y) \in Int \cup {Absent}
         /\ Views!GroupLevel(kind, side, g, y) # Absent
              <=> /\ groupRows[<<side, kind, g, y>>] # Absent
                  /\ groupRows[<<side, kind, g, y>>].active
<1>1. <<side, kind, g, y>> \in Views!GroupKeys
  BY DEF Views!GroupKeys
<1>2. groupRows[<<side, kind, g, y>>] \in Views!GroupRow \cup {Absent}
  BY <1>1 DEF Views!BooksTypeOK
<1> DEFINE row == groupRows[<<side, kind, g, y>>]
<1>3. row # Absent => row.amount \in Int /\ row.active \in BOOLEAN
  BY <1>2 DEF Views!GroupRow
<1>4. Views!GroupLevel(kind, side, g, y) = IF row = Absent \/ ~row.active THEN Absent ELSE row.amount
  BY DEF Views!GroupLevel
<1> HIDE DEF row
<1>5. row # Absent /\ row.active <=> Views!GroupLevel(kind, side, g, y) # Absent
  BY <1>3, <1>4, BooksFinite
<1>6. Views!GroupLevel(kind, side, g, y) \in Int \cup {Absent}
  BY <1>3, <1>4
<1> QED
  BY <1>2, <1>3, <1>5, <1>6 DEF row

\* The figure of a group is a number, or nothing.
LEMMA FigureTypes ==
  ASSUME Views!BooksTypeOK, NEW side \in Views!Sides, NEW y \in BookYears, NEW kind \in Views!Kinds
  PROVE  \A g \in Groups : /\ FigureOf(kind, side, y)[g] = Views!GroupFigure(kind, side, g, y)
                           /\ Views!GroupFigure(kind, side, g, y) \in Int \cup {Absent}
BY AccountSums, LevelTypes DEF FigureOf, Views!GroupFigure

\* A sum of the figures of some groups.
LEMMA PresentSums ==
  ASSUME Views!BooksTypeOK, NEW side \in Views!Sides, NEW y \in BookYears,
         NEW kind \in Views!Kinds, NEW groups \in SUBSET Groups
  PROVE  LET present == {g \in groups : Views!GroupFigure(kind, side, g, y) # Absent}
         IN  /\ IsFiniteSet(present)
             /\ \A g \in present : FigureOf(kind, side, y)[g] \in Int
             /\ Views!SumPresent(groups, kind, side, y)
                  = IF present = {} THEN Absent ELSE SumFunctionOnSet(FigureOf(kind, side, y), present)
             /\ SumFunctionOnSet(FigureOf(kind, side, y), present) \in Int
             /\ Views!SumPresent(groups, kind, side, y) \in Int \cup {Absent}
             /\ Views!SumPresent(groups, kind, side, y) = Absent <=> present = {}
<1> DEFINE present == {g \in groups : Views!GroupFigure(kind, side, g, y) # Absent}
           f == FigureOf(kind, side, y)
<1>1. /\ IsFiniteSet(present)
      /\ \A g \in present : f[g] = Views!GroupFigure(kind, side, g, y) /\ f[g] \in Int
  BY FigureTypes, BooksFinite, FS_Subset
<1>2. [g \in present |-> f[g]] = [g \in present |-> Views!GroupFigure(kind, side, g, y)]
  BY <1>1
<1>3. Views!SumPresent(groups, kind, side, y)
        = IF present = {} THEN Absent
          ELSE Views!SumFunction([g \in present |-> Views!GroupFigure(kind, side, g, y)])
  BY DEF Views!SumPresent
<1> HIDE DEF f, present
<1>4. /\ SumFunction([g \in present |-> f[g]]) = SumFunctionOnSet(f, present)
      /\ SumFunctionOnSet(f, present) \in Int
  BY <1>1, SumOver, SumInt
<1>5. Views!SumPresent(groups, kind, side, y)
        = IF present = {} THEN Absent ELSE SumFunctionOnSet(f, present)
  BY <1>2, <1>3, <1>4, ViewsLibrary
<1> QED
  BY <1>1, <1>4, <1>5, BooksFinite DEF f, present

-----------------------------------------------------------------------------

\* What the groups cost or earned is what the books say.
LEMMA TotalInTheBooks ==
  ASSUME Views!BooksTypeOK, NEW side \in Views!Sides, NEW y \in BookYears, NEW kind \in Views!Kinds
  PROVE  /\ Views!InTheBooks(kind, side, y) \in Int
         /\ Views!Total(kind, side, y) # Absent =>
              Views!Total(kind, side, y) = Views!InTheBooks(kind, side, y)
<1> DEFINE own == {r \in Views!Entered(groupRows) :
                     r[1] = side /\ r[2] = kind /\ r[4] = y /\ groupRows[r].active}
           loose == {k \in Views!Entered(accounts) :
                       /\ accounts[k].kind = kind
                       /\ Views!Stated(k, y, side) # Absent
                       /\ <<side, kind, accounts[k].group, y>> \notin own}
           f == FigureOf(kind, side, y)
           stated == StatedBy(side, y)
           rowAmount == [r \in own |-> groupRows[r].amount]
           key == [g \in Groups |-> <<side, kind, g, y>>]
           Own == {g \in Groups : Views!GroupLevel(kind, side, g, y) # Absent}
           Summed == {g \in Groups \ Own : Views!AccountSum(kind, side, g, y) # Absent}
           Present == {g \in Groups : Views!GroupFigure(kind, side, g, y) # Absent}
           of == [g \in Summed |-> Stating(kind, side, g, y)]
<1>1. \A g \in Groups : g \in Own <=> key[g] \in own
  <2> TAKE g \in Groups
  <2>1. <<side, kind, g, y>> \in DOMAIN groupRows
    BY DEF Views!BooksTypeOK, Views!GroupKeys
  <2> QED
    BY <2>1, LevelTypes DEF Views!Entered
<1>2. \A r \in own : \E g \in Own : key[g] = r
  <2> TAKE r \in own
  <2>1. r \in Views!GroupKeys
    BY DEF Views!Entered, Views!BooksTypeOK
  <2>2. r[3] \in Groups /\ r = <<side, kind, r[3], y>>
    BY <2>1 DEF Views!GroupKeys
  <2>3. key[r[3]] = r
    BY <2>2
  <2> QED
    BY <1>1, <2>2, <2>3
<1>3. /\ IsFiniteSet(Own) /\ IsFiniteSet(Summed)
      /\ Own \cup Summed = Present /\ Own \cap Summed = {}
  BY BooksFinite, FS_Subset DEF Views!GroupFigure
<1>4. /\ IsFiniteSet(Present) /\ \A g \in Present : f[g] \in Int
      /\ Views!Total(kind, side, y)
           = IF Present = {} THEN Absent ELSE SumFunctionOnSet(f, Present)
  BY PresentSums DEF Views!Total
<1>5. /\ SumFunctionOnSet(f, Own) = SumFunctionOnSet(rowAmount, own)
      /\ IsFiniteSet(own) /\ \A r \in own : rowAmount[r] \in Int
  <2>1. \A g \in Own : key[g] \in own /\ rowAmount[key[g]] = f[g]
    <3> TAKE g \in Own
    <3>1. key[g] \in own /\ key[g] = <<side, kind, g, y>>
      BY <1>1
    <3>2. f[g] = Views!GroupLevel(kind, side, g, y)
      BY DEF FigureOf, Views!GroupFigure
    <3>3. Views!GroupLevel(kind, side, g, y) = groupRows[<<side, kind, g, y>>].amount
      BY DEF Views!GroupLevel
    <3>4. rowAmount[key[g]] = groupRows[key[g]].amount
      BY <3>1
    <3> QED
      BY <3>1, <3>2, <3>3, <3>4
  <2>2. \A g, h \in Own : key[g] = key[h] => g = h
    OBVIOUS
  <2>3. \A g \in Own : f[g] \in Int
    BY <1>3, <1>4
  <2>4. own = {key[g] : g \in Own}
    <3> HIDE DEF own, key, Own
    <3> QED
      BY <1>2, <2>1
  <2>5. IsFiniteSet(own)
    <3> HIDE DEF own, key, Own
    <3> QED
      BY <1>3, <2>4, FiniteValues
  <2> HIDE DEF own, key, Own, f, rowAmount
  <2>6. SumFunctionOnSet(f, Own) = SumFunctionOnSet(rowAmount, own)
    BY <1>2, <1>3, <2>1, <2>2, <2>3, <2>5, SumRenamed
  <2> QED
    BY <1>2, <2>1, <2>3, <2>5, <2>6
<1>6. loose \in SUBSET {k \in Codes : Views!Stated(k, y, side) # Absent}
  BY DEF Views!Entered, Views!BooksTypeOK
<1>7. /\ \A g \in Summed : of[g] \subseteq loose
      /\ \A k \in loose : \E g \in Summed : k \in of[g]
      /\ \A g, h \in Summed : \A k \in of[g] : k \in of[h] => g = h
      /\ \A g \in Summed : f[g] = SumFunctionOnSet(stated, of[g])
  <2>0. \A g \in Groups : key[g] = <<side, kind, g, y>>
    OBVIOUS
  <2>1. ASSUME NEW g \in Summed PROVE of[g] \subseteq loose
    <3>1. key[g] \notin own
      BY <1>1
    <3> QED
      BY <3>1 DEF Stating, Views!GroupAccounts, Views!Entered, Views!BooksTypeOK
  <2>2. ASSUME NEW k \in loose PROVE \E g \in Summed : k \in of[g]
    <3> DEFINE g == accounts[k].group
    <3>1. k \in Codes /\ accounts[k] \in Views!Account /\ accounts[k].kind = kind
      BY DEF Views!Entered, Views!BooksTypeOK
    <3>2. g \in Groups
      BY <3>1 DEF Views!Account
    <3>3. g \notin Own
      BY <1>1, <2>0, <3>2
    <3>4. k \in Stating(kind, side, g, y)
      BY <3>1, BooksFinite DEF Stating, Views!GroupAccounts
    <3>5. Views!AccountSum(kind, side, g, y) # Absent
      BY <3>4, AccountSums
    <3> QED
      BY <3>2, <3>3, <3>4, <3>5
  <2>3. \A g, h \in Summed : \A k \in of[g] : k \in of[h] => g = h
    BY DEF Stating, Views!GroupAccounts
  <2>4. ASSUME NEW g \in Summed PROVE f[g] = SumFunctionOnSet(stated, of[g])
    <3>1. f[g] = Views!AccountSum(kind, side, g, y) /\ Views!AccountSum(kind, side, g, y) # Absent
      BY DEF FigureOf, Views!GroupFigure
    <3> QED
      BY <3>1, AccountSums
  <2> HIDE DEF of, loose, Summed
  <2> QED
    BY <2>1, <2>2, <2>3, <2>4
<1>8. /\ SumFunctionOnSet(f, Summed) = SumFunctionOnSet(stated, loose)
      /\ SumFunctionOnSet(stated, loose) \in Int
      /\ Views!SumFunction([k \in loose |-> Views!Stated(k, y, side)])
           = SumFunctionOnSet(stated, loose)
  <2>1. /\ IsFiniteSet(loose) /\ \A k \in loose : stated[k] \in Int
        /\ SumFunctionOnSet(stated, loose) \in Int
        /\ Views!SumFunction([k \in loose |-> Views!Stated(k, y, side)])
             = SumFunctionOnSet(stated, loose)
    <3> HIDE DEF loose
    <3> QED
      BY <1>6, StatedSums
  <2> HIDE DEF loose, Summed, of, f, stated
  <2>2. SumFunctionOnSet(stated, loose) = SumFunctionOnSet(f, Summed)
    BY <1>3, <1>7, <2>1, SumOfParts
  <2> QED
    BY <2>1, <2>2
<1>9. Views!InTheBooks(kind, side, y)
        = SumFunctionOnSet(rowAmount, own) + SumFunctionOnSet(stated, loose)
  <2>1. Views!SumFunction(rowAmount) = SumFunctionOnSet(rowAmount, own)
    BY ViewsLibrary DEF SumFunction
  <2>2. Views!InTheBooks(kind, side, y)
          = Views!SumFunction(rowAmount)
              + Views!SumFunction([k \in loose |-> Views!Stated(k, y, side)])
    BY Zenon DEF Views!InTheBooks
  <2> HIDE DEF rowAmount, own, loose, stated
  <2> QED
    BY <1>8, <2>1, <2>2
<1>10. SumFunctionOnSet(f, Present) = SumFunctionOnSet(f, Own) + SumFunctionOnSet(f, Summed)
  <2> HIDE DEF f, Own, Summed, Present
  <2> QED
    BY <1>3, <1>4, SumUnion
<1>11. SumFunctionOnSet(rowAmount, own) \in Int
  <2> HIDE DEF rowAmount, own
  <2> QED
    BY <1>5, SumInt
<1> HIDE DEF f, Own, Summed, Present, rowAmount, own, stated, loose
<1> QED
  BY <1>4, <1>5, <1>8, <1>9, <1>10, <1>11

\* A year of the series has all its parts.
LEMMA MarginParts ==
  ASSUME Views!BooksTypeOK, NEW side \in Views!Sides, NEW y \in Views!MarginYears(side)
  PROVE  /\ y \in BookYears
         /\ Views!Total("income", side, y) # Absent
         /\ Views!Total("expense", side, y) # Absent
         /\ Views!Total("income", side, y) \in Int
         /\ Views!Total("expense", side, y) \in Int
         /\ Views!Repairs(side, y) \in Int
<1>1. /\ y \in Views!FigureYears("expense", side)
      /\ Views!Repairs(side, y) # Absent /\ Views!Total("income", side, y) # Absent
  BY DEF Views!MarginYears
<1>2. y \in BookYears /\ \E g \in Groups : Views!GroupFigure("expense", side, g, y) # Absent
  BY <1>1 DEF Views!FigureYears
<1>3. "income" \in Views!Kinds /\ "expense" \in Views!Kinds
  BY DEF Views!Kinds
<1>4. Views!RepairGroups(side) \in SUBSET Groups
  BY DEF Views!RepairGroups, Views!FigureGroups
<1>5. /\ Views!Total("income", side, y) \in Int \cup {Absent}
      /\ Views!Total("expense", side, y) \in Int \cup {Absent}
      /\ Views!Total("expense", side, y) # Absent
  BY <1>2, <1>3, PresentSums DEF Views!Total
<1>6. Views!Repairs(side, y) \in Int \cup {Absent}
  BY <1>2, <1>3, <1>4, PresentSums DEF Views!Repairs
<1> QED
  BY <1>1, <1>2, <1>5, <1>6

\* Every figure in the books is in one part of its year's margin.
LEMMA FiguresCountedOnce == ASSUME Views!BooksTypeOK PROVE Views!FiguresAreCountedOnce
<1> SUFFICES ASSUME NEW side \in Views!Sides, NEW y \in Views!MarginYears(side)
             PROVE  LET row == Views!MarginOf(side, y)
                        costs == Views!InTheBooks("expense", side, y)
                        repairs == Views!Repairs(side, y)
                    IN  /\ row.income = Views!InTheBooks("income", side, y)
                        /\ row.costsExcludingRepairs = Views!Magnitude(costs - repairs)
                        /\ repairs <= 0 /\ costs <= repairs =>
                             row.costsExcludingRepairs + row.repairs = -costs
  BY DEF Views!FiguresAreCountedOnce
<1> DEFINE costs == Views!InTheBooks("expense", side, y)
           repairs == Views!Repairs(side, y)
<1>1. /\ Views!Total("income", side, y) = Views!InTheBooks("income", side, y)
      /\ Views!Total("expense", side, y) = costs
      /\ costs \in Int /\ repairs \in Int
  BY MarginParts, TotalInTheBooks DEF Views!Kinds
<1>2. /\ Views!MarginOf(side, y).income = Views!Total("income", side, y)
      /\ Views!MarginOf(side, y).costsExcludingRepairs
           = Views!Magnitude(Views!Total("expense", side, y) - repairs)
      /\ Views!MarginOf(side, y).repairs = Views!Magnitude(repairs)
  BY DEF Views!MarginOf
<1> HIDE DEF costs, repairs
<1>3. repairs <= 0 /\ costs <= repairs =>
        Views!Magnitude(costs - repairs) + Views!Magnitude(repairs) = -costs
  BY <1>1 DEF Views!Magnitude
<1> QED
  BY <1>1, <1>2, <1>3 DEF costs, repairs

\* The forecast states its margin when the series states the latest year, and the same.
LEMMA LatestYear == ASSUME Views!BooksTypeOK PROVE Views!LatestYearAsInTheSeries
<1> DEFINE years == Views!FigureYears("expense", "actual")
           latest == Max(years)
           margin == Views!MarginFigures
           costs == Views!CostFigures
           of == Views!MarginOf("actual", latest)
<1>0. Views!Max(years) = latest
  BY ViewsLibrary
<1>1. years # {} => latest \in years
  <2>1. years \in SUBSET Int /\ IsFiniteSet(years)
    BY BooksFinite, FS_Subset DEF Views!FigureYears
  <2> HIDE DEF years
  <2> QED
    BY <2>1, FiniteExtrema
<1>2. Views!RepairYears = {y \in years : Views!Repairs("actual", y) # Absent}
  BY DEF Views!RepairYears
<1>3. latest \in Views!MarginYears("actual")
        <=> latest \in Views!RepairYears /\ Views!Total("income", "actual", latest) # Absent
  BY <1>2 DEF Views!MarginYears
<1>4. /\ costs.status = "available" <=> years # {} /\ latest \in Views!RepairYears
      /\ costs.status = "available" \/ costs.status = "unavailable"
      /\ costs.status = "available" =>
           /\ costs.latestActualYear = latest
           /\ costs.costsExcludingRepairs
                = Views!Magnitude(Views!Total("expense", "actual", latest)
                                    - Views!Repairs("actual", latest))
  <2> HIDE DEF years, latest
  <2> QED
    BY <1>0, <1>2
       DEF Views!CostFigures, Views!CostFiguresFrom, Views!CostFiguresOf, Views!Unavailable,
           years
<1>5. ASSUME Views!FigureYears("income", "actual") = {}, latest \in years
      PROVE  Views!Total("income", "actual", latest) = Absent
  <2>1. latest \in BookYears
    BY <1>5 DEF Views!FigureYears
  <2>2. \A g \in Groups : Views!GroupFigure("income", "actual", g, latest) = Absent
    BY <1>5, <2>1 DEF Views!FigureYears
  <2> QED
    BY <2>2 DEF Views!Total, Views!SumPresent
<1>6. margin = Views!MarginFiguresFrom(costs,
                 Views!Total("income", "actual", costs.latestActualYear))
  BY DEF Views!MarginFigures
<1>7. /\ of.income = Views!Total("income", "actual", latest)
      /\ of.costsExcludingRepairs
           = Views!Magnitude(Views!Total("expense", "actual", latest)
                               - Views!Repairs("actual", latest))
      /\ of.operatingMargin = of.income - of.costsExcludingRepairs
  BY DEF Views!MarginOf
<1> HIDE DEF years, latest, margin, costs, of
<1>8. margin.status = "available" <=>
        costs.status = "available" /\ Views!Total("income", "actual", latest) # Absent
  BY <1>1, <1>4, <1>5, <1>6 DEF Views!MarginFiguresFrom, Views!Unavailable
<1>9. ASSUME margin.status = "available"
      PROVE  /\ margin.latestActualYear = latest
             /\ margin["income"] = of["income"]
             /\ margin["costsExcludingRepairs"] = of["costsExcludingRepairs"]
             /\ margin["operatingMargin"] = of["operatingMargin"]
  BY <1>4, <1>6, <1>7, <1>8, <1>9 DEF Views!MarginFiguresFrom, Views!Unavailable
<1> QED
  BY <1>0, <1>1, <1>3, <1>4, <1>8, <1>9
     DEF Views!LatestYearAsInTheSeries, years, latest, margin, of

-----------------------------------------------------------------------------
(* The browser's views of the figures. *)

\* A sum of what is known.
LEMMA KnownSum ==
  ASSUME NEW D, IsFiniteSet(D), NEW f \in [D -> Int \cup {Absent}]
  PROVE  LET known == {x \in D : f[x] # Absent}
         IN  /\ Views!SumOfKnown(f) = IF known = {} THEN Absent ELSE SumFunctionOnSet(f, known)
             /\ IsFiniteSet(known) /\ \A x \in known : f[x] \in Int
             /\ SumFunctionOnSet(f, known) \in Int
<1> DEFINE known == {x \in D : f[x] # Absent}
<1>1. IsFiniteSet(known) /\ \A x \in known : f[x] \in Int
  BY FS_Subset
<1>2. Views!SumOfKnown(f)
        = IF known = {} THEN Absent ELSE Views!SumFunction([x \in known |-> f[x]])
  BY DEF Views!SumOfKnown
<1> HIDE DEF known
<1>3. SumFunction([x \in known |-> f[x]]) = SumFunctionOnSet(f, known)
      /\ SumFunctionOnSet(f, known) \in Int
  BY <1>1, SumOver, SumInt
<1> QED
  BY <1>1, <1>2, <1>3, ViewsLibrary DEF known

\* The browser adds up the accounts of a group as the server does.
LEMMA SameAccountSum ==
  ASSUME NEW kind, NEW side, NEW g, NEW y, NEW D,
         Stating(kind, side, g, y) \subseteq D, D \subseteq Views!GroupAccounts(kind, g)
  PROVE  Views!SumOfKnown([k \in D |-> Views!Stated(k, y, side)])
           = Views!AccountSum(kind, side, g, y)
<1> DEFINE f == [k \in D |-> Views!Stated(k, y, side)]
           T == Stating(kind, side, g, y)
<1>1. {k \in D : f[k] # Absent} = T /\ DOMAIN f = D
  BY DEF Stating
<1>2. [k \in T |-> f[k]] = [k \in T |-> Views!Stated(k, y, side)]
  OBVIOUS
<1>3. Views!SumOfKnown(f) = IF T = {} THEN Absent ELSE Views!SumFunction([k \in T |-> f[k]])
  <2> HIDE DEF f, T
  <2> QED
    BY <1>1 DEF Views!SumOfKnown
<1>4. Views!AccountSum(kind, side, g, y)
        = IF T = {} THEN Absent ELSE Views!SumFunction([k \in T |-> Views!Stated(k, y, side)])
  BY DEF Views!AccountSum, Stating
<1> HIDE DEF T
<1>5. Views!SumOfKnown(f) = Views!AccountSum(kind, side, g, y)
  BY <1>2, <1>3, <1>4
<1> QED
  BY <1>5

\* A figure of the account views is the sum of the accounts.
LEMMA CoreIsAccountSum ==
  ASSUME NEW kind, NEW g, NEW y
  PROVE  Views!CoreActual(kind, g, y) = Views!AccountSum(kind, "actual", g, y)
<1>1. Stating(kind, "actual", g, y) \subseteq Views!GroupAccounts(kind, g)
  BY DEF Stating
<1> QED
  BY <1>1, SameAccountSum DEF Views!CoreActual

\* The row of a group in the comparison has the server's figures.
LEMMA RowFigures ==
  ASSUME Views!BooksTypeOK, NEW y \in BookYears, NEW kind \in Views!Kinds, NEW g \in Groups
  PROVE  LET row == Views!GroupRowView(kind, g, y)
         IN  /\ row.actual = Views!GroupFigure(kind, "actual", g, y)
             /\ row.budget = Views!GroupFigure(kind, "budget", g, y)
             /\ row["actual"] = row.actual /\ row["budget"] = row.budget
             /\ row.diffAmount =
                  IF row.actual = Absent \/ row.budget = Absent THEN Absent
                  ELSE row.actual - row.budget
             /\ row.unitemizedActual =
                  LET own == Views!GroupLevel(kind, "actual", g, y)
                      sum == Views!AccountSum(kind, "actual", g, y)
                  IN  IF own = Absent \/ sum = Absent \/ own = sum THEN Absent ELSE own - sum
             /\ {k \in row.detail : Views!Stated(k, y, "actual") # Absent}
                  = Stating(kind, "actual", g, y)
<1> DEFINE detail == {k \in Views!GroupAccounts(kind, g) : entries[<<k, y>>] # Absent}
           sum(side) == Views!SumOfKnown([k \in detail |-> Views!Stated(k, y, side)])
           row == Views!GroupRowView(kind, g, y)
<1>1. \A side : Stating(kind, side, g, y) \subseteq detail
  BY DEF Stating, Views!Stated
<1>2. \A side : sum(side) = Views!AccountSum(kind, side, g, y)
  <2> TAKE side
  <2>1. Stating(kind, side, g, y) \subseteq detail /\ detail \subseteq Views!GroupAccounts(kind, g)
    BY <1>1
  <2> HIDE DEF detail
  <2> QED
    BY <2>1, SameAccountSum
<1>3. {k \in detail : Views!Stated(k, y, "actual") # Absent} = Stating(kind, "actual", g, y)
  BY <1>1 DEF Stating
<1>4. row.detail = detail
  BY DEF Views!GroupRowView
<1>5. /\ row.actual = Views!GroupFigure(kind, "actual", g, y)
      /\ row.budget = Views!GroupFigure(kind, "budget", g, y)
      /\ row["actual"] = row.actual /\ row["budget"] = row.budget
  <2> HIDE DEF sum, detail
  <2>1. /\ row.actual = IF Views!GroupLevel(kind, "actual", g, y) # Absent
                        THEN Views!GroupLevel(kind, "actual", g, y) ELSE sum("actual")
        /\ row.budget = IF Views!GroupLevel(kind, "budget", g, y) # Absent
                        THEN Views!GroupLevel(kind, "budget", g, y) ELSE sum("budget")
    BY DEF Views!GroupRowView, Views!GroupLevel, sum, detail
  <2> HIDE DEF row
  <2> QED
    BY <1>2, <2>1 DEF Views!GroupFigure
<1>6. row.diffAmount = IF row.actual = Absent \/ row.budget = Absent THEN Absent
                       ELSE row.actual - row.budget
  BY DEF Views!GroupRowView
<1>7. row.unitemizedActual =
        LET own == Views!GroupLevel(kind, "actual", g, y)
            s == Views!AccountSum(kind, "actual", g, y)
        IN  IF own = Absent \/ s = Absent \/ own = s THEN Absent ELSE own - s
  <2> HIDE DEF sum, detail
  <2>1. row.unitemizedActual =
          LET own == Views!GroupLevel(kind, "actual", g, y)
          IN  IF own = Absent \/ sum("actual") = Absent \/ own = sum("actual") THEN Absent
              ELSE own - sum("actual")
    BY DEF Views!GroupRowView, Views!GroupLevel, Views!Unitemized, sum, detail
  <2> HIDE DEF row
  <2> QED
    BY <1>2, <2>1
<1> HIDE DEF row, detail
<1> QED
  BY <1>3, <1>4, <1>5, <1>6, <1>7 DEF row

\* A figure is that of a row of the group or of an account of it.
LEMMA FigureStated ==
  ASSUME Views!BooksTypeOK, NEW side \in Views!Sides, NEW y \in BookYears,
         NEW kind \in Views!Kinds, NEW g \in Groups
  PROVE  /\ Views!GroupFigure(kind, side, g, y) # Absent
              <=> \/ \E k \in Views!GroupAccounts(kind, g) : Views!Stated(k, y, side) # Absent
                  \/ LET row == groupRows[<<side, kind, g, y>>] IN row # Absent /\ row.active
         /\ Views!GroupFigure(kind, side, g, y) # Absent => <<kind, g>> \in Views!RowsShown(y)
<1>1. Stating(kind, side, g, y) # {}
        <=> \E k \in Views!GroupAccounts(kind, g) : Views!Stated(k, y, side) # Absent
  BY DEF Stating
<1>2. Views!GroupFigure(kind, side, g, y) # Absent
        <=> \/ \E k \in Views!GroupAccounts(kind, g) : Views!Stated(k, y, side) # Absent
            \/ LET row == groupRows[<<side, kind, g, y>>] IN row # Absent /\ row.active
  BY <1>1, AccountSums, LevelTypes DEF Views!GroupFigure
<1> QED
  BY <1>2 DEF Views!RowsShown

\* The chart shows the figure of every group.
LEMMA SeriesFigures ==
  ASSUME Views!BooksTypeOK, NEW kind \in Views!Kinds, NEW y \in BookYears, NEW g \in Groups
  PROVE  /\ Views!SeriesActual(kind, g, y) = Views!GroupFigure(kind, "actual", g, y)
         /\ Views!GroupFigure(kind, "actual", g, y) # Absent =>
              g \in Views!SeriesGroups(kind) /\ y \in Views!SeriesYears(kind)
<1> DEFINE row == groupRows[<<"actual", kind, g, y>>]
           T == Stating(kind, "actual", g, y)
<1>0. "actual" \in Views!Sides
  BY DEF Views!Sides
<1>1. <<g, y>> \in Views!GroupActualIndex(kind) <=> Views!GroupLevel(kind, "actual", g, y) # Absent
  BY <1>0, LevelTypes DEF Views!GroupActualIndex
<1>2. ASSUME T # {} PROVE g \in Views!CoreGroups(kind) /\ y \in Views!CoreYears(kind)
  <2>1. PICK k \in T : TRUE
    BY <1>2
  <2>2. /\ k \in Codes /\ accounts[k] # Absent /\ accounts[k].kind = kind /\ accounts[k].group = g
        /\ Views!Stated(k, y, "actual") # Absent
    BY <2>1 DEF Stating, Views!GroupAccounts
  <2>3. k \in Views!Codified(kind)
    BY <2>2 DEF Views!Codified, Views!Entered, Views!BooksTypeOK
  <2>4. Views!HasEntry(k)
    BY <2>2 DEF Views!HasEntry, Views!Stated
  <2> QED
    BY <2>2, <2>3, <2>4 DEF Views!CoreGroups, Views!CoreYears, Views!YearsStated
<1>3. Views!AccountSum(kind, "actual", g, y) = Absent <=> T = {}
  BY <1>0, AccountSums
<1>4. <<g, y>> \in Views!GroupActualIndex(kind) =>
        g \in Views!SeriesGroups(kind) /\ y \in Views!SeriesYears(kind)
  BY DEF Views!SeriesGroups, Views!SeriesYears
<1>5. g \in Views!CoreGroups(kind) /\ y \in Views!CoreYears(kind) =>
        g \in Views!SeriesGroups(kind) /\ y \in Views!SeriesYears(kind)
  BY DEF Views!SeriesGroups, Views!SeriesYears
<1>6. <<g, y>> \in Views!GroupActualIndex(kind) => Views!GroupLevel(kind, "actual", g, y) = row.amount
  BY <1>1 DEF Views!GroupLevel
<1>7. Views!SeriesActual(kind, g, y)
        = IF <<g, y>> \in Views!GroupActualIndex(kind) THEN row.amount
          ELSE IF g \in Views!CoreGroups(kind) THEN Views!AccountSum(kind, "actual", g, y)
          ELSE Absent
  BY CoreIsAccountSum DEF Views!SeriesActual
<1> HIDE DEF row, T
<1> QED
  BY <1>1, <1>2, <1>3, <1>4, <1>5, <1>6, <1>7 DEF Views!GroupFigure

\* The chart shows groups there are.
LEMMA SeriesInGroups ==
  ASSUME Views!BooksTypeOK, NEW kind \in Views!Kinds
  PROVE  Views!SeriesGroups(kind) \in SUBSET Groups
<1>1. ASSUME NEW k \in Views!Codified(kind) PROVE accounts[k].group \in Groups
  <2>1. k \in Codes /\ accounts[k] \in Views!Account
    BY <1>1 DEF Views!Codified, Views!Entered, Views!BooksTypeOK
  <2> QED
    BY <2>1 DEF Views!Account
<1>2. Views!CoreGroups(kind) \subseteq Groups
  BY <1>1 DEF Views!CoreGroups
<1> QED
  BY <1>2 DEF Views!SeriesGroups, Views!GroupActualIndex

\* Its totals are the server's.
LEMMA SeriesTotals ==
  ASSUME Views!BooksTypeOK, NEW kind \in Views!Kinds, NEW y \in BookYears
  PROVE  /\ Views!SeriesTotal(kind, y) = Views!Total(kind, "actual", y)
         /\ Views!Total(kind, "actual", y) # Absent => y \in Views!SeriesYears(kind)
<1> DEFINE D == Views!SeriesGroups(kind)
           f == [g \in D |-> Views!SeriesActual(kind, g, y)]
           of == FigureOf(kind, "actual", y)
           Known == {g \in D : f[g] # Absent}
           Present == {g \in Groups : Views!GroupFigure(kind, "actual", g, y) # Absent}
<1>0. "actual" \in Views!Sides
  BY DEF Views!Sides
<1>1. D \in SUBSET Groups /\ IsFiniteSet(D)
  BY SeriesInGroups, BooksFinite, FS_Subset
<1>2. \A g \in D : f[g] = Views!GroupFigure(kind, "actual", g, y)
  BY <1>1, SeriesFigures
<1>3. \A g \in D : f[g] = of[g] /\ f[g] \in Int \cup {Absent}
  BY <1>0, <1>1, <1>2, FigureTypes
<1>4. Present \subseteq D
  BY SeriesFigures
<1>5. Known = Present
  BY <1>1, <1>2, <1>4
<1>6. /\ Views!Total(kind, "actual", y)
           = IF Present = {} THEN Absent ELSE SumFunctionOnSet(of, Present)
      /\ Views!Total(kind, "actual", y) = Absent <=> Present = {}
  BY <1>0, PresentSums DEF Views!Total
<1>7. f \in [D -> Int \cup {Absent}]
  BY <1>3
<1>8. Views!SeriesTotal(kind, y) = Views!SumOfKnown(f)
  BY DEF Views!SeriesTotal
<1>9. Present # {} => y \in Views!SeriesYears(kind)
  BY SeriesFigures
<1> HIDE DEF D, f, of, Present
<1>10. /\ Views!SumOfKnown(f) = IF Known = {} THEN Absent ELSE SumFunctionOnSet(f, Known)
       /\ IsFiniteSet(Known) /\ \A g \in Known : f[g] \in Int
  BY <1>1, <1>7, KnownSum
<1>11. \A g \in Known : f[g] \in Int /\ f[g] = of[g]
  BY <1>3, <1>10
<1> HIDE DEF Known
<1>12. SumFunctionOnSet(f, Known) = SumFunctionOnSet(of, Known)
  BY <1>10, <1>11, SumSame
<1> QED
  BY <1>5, <1>6, <1>8, <1>9, <1>10, <1>12

\* The totals of the comparison are the server's too.
LEMMA ViewTotals ==
  ASSUME Views!BooksTypeOK, NEW kind \in Views!Kinds, NEW y \in BookYears, NEW side \in Views!Sides
  PROVE  Views!ViewTotal(kind, side, y) = Views!Total(kind, side, y)
<1> DEFINE D == {x \in Views!RowsShown(y) : x[1] = kind}
           f == [x \in D |-> Views!GroupRowView(kind, x[2], y)[side]]
           of == FigureOf(kind, side, y)
           key == [g \in Groups |-> <<kind, g>>]
           Known == {x \in D : f[x] # Absent}
           Present == {g \in Groups : Views!GroupFigure(kind, side, g, y) # Absent}
<1>1. \A x \in D : x[2] \in Groups /\ x = <<kind, x[2]>>
  BY DEF Views!RowsShown
<1>2. \A g \in Groups : Views!GroupRowView(kind, g, y)[side] = Views!GroupFigure(kind, side, g, y)
  BY RowFigures DEF Views!Sides
<1>3. \A g \in Groups : of[g] = Views!GroupFigure(kind, side, g, y) /\ of[g] \in Int \cup {Absent}
  BY FigureTypes
<1>4. \A x \in D : f[x] = of[x[2]] /\ f[x] \in Int \cup {Absent}
  BY <1>1, <1>2, <1>3
<1>5. \A g \in Present : key[g] \in D
  BY FigureStated
<1>6. \A x \in D : x[2] \in Groups /\ key[x[2]] = x
  BY <1>1
<1>7. /\ IsFiniteSet(Present)
      /\ \A g \in Present : of[g] \in Int
      /\ Views!Total(kind, side, y) = IF Present = {} THEN Absent ELSE SumFunctionOnSet(of, Present)
  BY PresentSums DEF Views!Total
<1>8. f \in [D -> Int \cup {Absent}]
  BY <1>4
<1>9. Views!ViewTotal(kind, side, y) = Views!SumOfKnown(f)
  BY DEF Views!ViewTotal
<1>10. IsFiniteSet(D)
  <2>1. D \subseteq {key[g] : g \in Groups}
    BY <1>6
  <2> HIDE DEF D, key
  <2>2. IsFiniteSet({key[g] : g \in Groups})
    BY BooksFinite, FiniteValues
  <2> QED
    BY <2>1, <2>2, FS_Subset
<1>11. \A g, h \in Present : key[g] = key[h] => g = h
  OBVIOUS
<1>12. \A g \in Present : key[g][2] = g
  OBVIOUS
<1>13. \A x \in Known : x[2] \in Present /\ key[x[2]] = x
  BY <1>3, <1>4, <1>6
<1>14. \A g \in Present : key[g] \in Known /\ f[key[g]] = of[g]
  BY <1>3, <1>4, <1>5, <1>12
<1> HIDE DEF D, f, of, key, Present
<1>15. /\ Views!SumOfKnown(f) = IF Known = {} THEN Absent ELSE SumFunctionOnSet(f, Known)
       /\ IsFiniteSet(Known)
  BY <1>8, <1>10, KnownSum
<1> HIDE DEF Known
<1>16. \A x \in Known : \E g \in Present : key[g] = x
  BY <1>13
<1>17. SumFunctionOnSet(of, Present) = SumFunctionOnSet(f, Known)
  BY <1>7, <1>11, <1>14, <1>15, <1>16, SumRenamed
<1>18. Known = {} <=> Present = {}
  BY <1>14, <1>16
<1> QED
  BY <1>7, <1>9, <1>15, <1>17, <1>18

\* The chart and the comparison show the server's figures and totals.
LEMMA ViewsOfTheServer == ASSUME Views!BooksTypeOK PROVE Views!ViewsAgreeWithTheServer
<1>0. "actual" \in Views!Sides /\ "budget" \in Views!Sides
  BY DEF Views!Sides
<1>1. ASSUME NEW kind \in Views!Kinds, NEW y \in BookYears
      PROVE  LET bars == Views!SummaryBars
                 total == Views!Total(kind, "actual", y)
             IN  IF <<kind, y>> \in DOMAIN bars THEN bars[<<kind, y>>].value = total
                 ELSE total = Absent
  <2> DEFINE years == Views!SeriesYears("income") \cup Views!SeriesYears("expense")
             values == [x \in Views!Kinds \X years |-> Views!SeriesTotal(x[1], x[2])]
             bars == Views!SummaryBars
  <2>1. bars = Views!Bars(values)
    BY DEF Views!SummaryBars
  <2>2. DOMAIN bars = Views!Kinds \X years
        /\ \A x \in Views!Kinds \X years : bars[x].value = values[x]
    <3>1. DOMAIN values = Views!Kinds \X years
      OBVIOUS
    <3> HIDE DEF values, years, bars
    <3> QED
      BY <2>1, <3>1 DEF Views!Bars
  <2>3. y \in Views!SeriesYears(kind) => y \in years
    BY DEF Views!Kinds
  <2>4. y \in years => values[<<kind, y>>] = Views!SeriesTotal(kind, y)
    OBVIOUS
  <2> HIDE DEF values, years, bars
  <2> QED
    BY <2>2, <2>3, <2>4, SeriesTotals DEF bars
<1>2. ASSUME NEW kind \in Views!Kinds, NEW y \in BookYears, NEW g \in Groups
      PROVE  LET actual == Views!GroupFigure(kind, "actual", g, y)
                 row == Views!GroupRowView(kind, g, y)
             IN  /\ g \in Views!SeriesGroups(kind) \/ actual = Absent
                 /\ Views!SeriesActual(kind, g, y) = actual
                 /\ IF <<kind, g>> \in Views!RowsShown(y)
                    THEN row.actual = actual /\ row.budget = Views!GroupFigure(kind, "budget", g, y)
                    ELSE actual = Absent
  BY <1>0, SeriesFigures, RowFigures, FigureStated
<1> QED
  BY <1>1, <1>2, ViewTotals DEF Views!ViewsAgreeWithTheServer

\* The accounts and what no account explains add up to the row.
LEMMA DetailExplains == ASSUME Views!BooksTypeOK PROVE Views!DetailExplainsTheTotal
<1> SUFFICES ASSUME NEW y \in BookYears, NEW x \in Views!RowsShown(y)
             PROVE  LET row == Views!GroupRowView(x[1], x[2], y)
                        stating == {k \in row.detail : Views!Stated(k, y, "actual") # Absent}
                        rest == IF row.unitemizedActual = Absent THEN 0 ELSE row.unitemizedActual
                    IN  stating # {} =>
                          row.actual = rest + Views!SumFunction([k \in stating |->
                                                Views!Stated(k, y, "actual")])
  BY DEF Views!DetailExplainsTheTotal
<1> DEFINE kind == x[1]
           g == x[2]
           row == Views!GroupRowView(kind, g, y)
           T == Stating(kind, "actual", g, y)
           own == Views!GroupLevel(kind, "actual", g, y)
           sum == Views!AccountSum(kind, "actual", g, y)
<1>0. "actual" \in Views!Sides /\ kind \in Views!Kinds /\ g \in Groups
  BY DEF Views!Sides, Views!RowsShown
<1>1. /\ row.actual = Views!GroupFigure(kind, "actual", g, y)
      /\ row.unitemizedActual = IF own = Absent \/ sum = Absent \/ own = sum THEN Absent ELSE own - sum
      /\ {k \in row.detail : Views!Stated(k, y, "actual") # Absent} = T
  BY <1>0, RowFigures
<1>2. /\ T \in SUBSET {k \in Codes : Views!Stated(k, y, "actual") # Absent}
      /\ sum = IF T = {} THEN Absent ELSE SumFunctionOnSet(StatedBy("actual", y), T)
      /\ sum \in Int \cup {Absent} /\ (sum = Absent <=> T = {})
  BY <1>0, AccountSums
<1>3. own \in Int \cup {Absent}
  BY <1>0, LevelTypes
<1>4. Views!GroupFigure(kind, "actual", g, y) = IF own # Absent THEN own ELSE sum
  BY DEF Views!GroupFigure
<1> HIDE DEF T, own, sum, kind, g, row
<1>5. Views!SumFunction([k \in T |-> Views!Stated(k, y, "actual")])
        = SumFunctionOnSet(StatedBy("actual", y), T)
  BY <1>0, <1>2, StatedSums
<1>6. ASSUME T # {}
      PROVE  row.actual = (IF row.unitemizedActual = Absent THEN 0 ELSE row.unitemizedActual)
                            + Views!SumFunction([k \in T |-> Views!Stated(k, y, "actual")])
  <2>1. sum \in Int /\ sum = Views!SumFunction([k \in T |-> Views!Stated(k, y, "actual")])
    BY <1>2, <1>5, <1>6
  <2>2. CASE own = Absent \/ own = sum
    BY <1>1, <1>3, <1>4, <2>1, <2>2
  <2>3. CASE own # Absent /\ own # sum
    <3>1. own \in Int /\ own - sum \in Int /\ own - sum # Absent /\ own = (own - sum) + sum
      BY <1>3, <2>1, <2>3, BooksFinite
    <3> QED
      BY <1>1, <1>4, <2>1, <2>3, <3>1, BooksFinite
  <2> QED
    BY <2>2, <2>3
<1> QED
  BY <1>1, <1>6, Zenon DEF row, kind, g

\* A year can be chosen just when a row of it compares something.
LEMMA ComparableCompare == ASSUME Views!BooksTypeOK PROVE Views!ComparableYearsCompare
<1> SUFFICES ASSUME NEW y \in BookYears
             PROVE  y \in Views!ComparableYears
                      <=> \E x \in Views!RowsShown(y) :
                            Views!GroupRowView(x[1], x[2], y).diffAmount # Absent
  BY DEF Views!ComparableYearsCompare
<1> DEFINE compares(kind, g) == /\ Views!GroupFigure(kind, "actual", g, y) # Absent
                                /\ Views!GroupFigure(kind, "budget", g, y) # Absent
<1>0. "actual" \in Views!Sides /\ "budget" \in Views!Sides
  BY DEF Views!Sides
<1>1. y \in Views!ComparableYears <=> \E kind \in Views!Kinds, g \in Groups : compares(kind, g)
  BY <1>0, FigureStated DEF Views!ComparableYears
<1>2. ASSUME NEW kind \in Views!Kinds, NEW g \in Groups
      PROVE  Views!GroupRowView(kind, g, y).diffAmount # Absent <=> compares(kind, g)
  <2>1. /\ Views!GroupFigure(kind, "actual", g, y) \in Int \cup {Absent}
        /\ Views!GroupFigure(kind, "budget", g, y) \in Int \cup {Absent}
    BY <1>0, FigureTypes
  <2>2. LET row == Views!GroupRowView(kind, g, y)
        IN  /\ row.actual = Views!GroupFigure(kind, "actual", g, y)
            /\ row.budget = Views!GroupFigure(kind, "budget", g, y)
            /\ row.diffAmount = IF row.actual = Absent \/ row.budget = Absent THEN Absent
                                ELSE row.actual - row.budget
    BY RowFigures
  <2> QED
    BY <2>1, <2>2, BooksFinite
<1>3. \A x \in Views!RowsShown(y) : x[1] \in Views!Kinds /\ x[2] \in Groups /\ x = <<x[1], x[2]>>
  BY DEF Views!RowsShown
<1>4. ASSUME NEW kind \in Views!Kinds, NEW g \in Groups, compares(kind, g)
      PROVE  <<kind, g>> \in Views!RowsShown(y)
  BY <1>0, <1>4, FigureStated
<1> HIDE DEF compares
<1>5. ASSUME NEW kind \in Views!Kinds, NEW g \in Groups, compares(kind, g)
      PROVE  \E x \in Views!RowsShown(y) : Views!GroupRowView(x[1], x[2], y).diffAmount # Absent
  <2>1. <<kind, g>>[1] = kind /\ <<kind, g>>[2] = g
    OBVIOUS
  <2> QED
    BY <1>2, <1>4, <1>5, <2>1
<1> QED
  BY <1>1, <1>2, <1>3, <1>5

\* What an account group cost or earned, as the browser adds it up for the years that
\* some account states.
LEMMA CoreFigures ==
  ASSUME Views!BooksTypeOK, NEW kind \in Views!Kinds, NEW g
  PROVE  /\ Views!CoreYears(kind) \in SUBSET BookYears
         /\ Views!CoreYears(kind) \in SUBSET Int /\ IsFiniteSet(Views!CoreYears(kind))
         /\ \A y \in Views!CoreYears(kind) :
              Views!CoreActual(kind, g, y) \in Int \cup {Absent}
         /\ Views!CoreBudget(kind, g) \in Int \cup {Absent}
<1> DEFINE years == Views!YearsStated(kind, "budget")
<1>0. "actual" \in Views!Sides /\ "budget" \in Views!Sides
  BY DEF Views!Sides
<1>1. /\ Views!CoreYears(kind) \in SUBSET BookYears
      /\ Views!CoreYears(kind) \in SUBSET Int /\ IsFiniteSet(Views!CoreYears(kind))
      /\ years \in SUBSET BookYears /\ years \in SUBSET Int /\ IsFiniteSet(years)
  BY BooksFinite, FS_Subset DEF Views!CoreYears, Views!YearsStated
<1>2. \A y \in Views!CoreYears(kind) : Views!CoreActual(kind, g, y) \in Int \cup {Absent}
  BY <1>0, <1>1, CoreIsAccountSum, AccountSums
<1>3. ASSUME years # {} PROVE Max(years) \in BookYears
  <2> HIDE DEF years
  <2> QED
    BY <1>1, <1>3, FiniteExtrema
<1>4. \A y \in BookYears :
        Views!SumOfKnown([k \in Views!GroupAccounts(kind, g) |-> Views!Stated(k, y, "budget")])
          = Views!AccountSum(kind, "budget", g, y)
  <2> TAKE y \in BookYears
  <2>1. Stating(kind, "budget", g, y) \subseteq Views!GroupAccounts(kind, g)
    BY DEF Stating
  <2> QED
    BY <2>1, SameAccountSum
<1>5. Views!CoreBudget(kind, g) \in Int \cup {Absent}
  <2>1. Views!CoreBudgetYear(kind) = IF years = {} THEN Absent ELSE Max(years)
    BY ViewsLibrary DEF Views!CoreBudgetYear
  <2>2. \/ Views!CoreBudget(kind, g) = Absent
        \/ /\ years # {}
           /\ Views!CoreBudget(kind, g) = Views!AccountSum(kind, "budget", g, Max(years))
    BY <1>3, <1>4, <2>1 DEF Views!CoreBudget
  <2> HIDE DEF years
  <2> QED
    BY <1>0, <1>3, <2>2, AccountSums
<1> QED
  BY <1>1, <1>2, <1>5

\* A bar is there when its value is known.
LEMMA BarsOfKnown ==
  ASSUME NEW D, IsFiniteSet(D), NEW values \in [D -> Int \cup {Absent}], NEW x \in D
  PROVE  /\ Views!Bars(values)[x].value = values[x]
         /\ Views!Bars(values)[x].heightPercent = Absent <=> values[x] = Absent
<1> DEFINE known == {z \in D : values[z] # Absent}
           size == [z \in known |-> Views!Magnitude(values[z])]
           heights == {0} \cup {Views!Magnitude(values[z]) : z \in known}
           highest == Max(heights)
<1>1. IsFiniteSet(known) /\ \A z \in known : values[z] \in Int
  BY FS_Subset
<1>2. {Views!Magnitude(values[z]) : z \in known} = {size[z] : z \in known}
  OBVIOUS
<1>3. heights \in SUBSET Int /\ IsFiniteSet(heights) /\ 0 \in heights
  <2>1. \A z \in known : Views!Magnitude(values[z]) \in Int
    BY <1>1 DEF Views!Magnitude
  <2>2. {Views!Magnitude(values[z]) : z \in known} \in SUBSET Int
    BY <2>1
  <2>3. IsFiniteSet({size[z] : z \in known})
    <3> HIDE DEF size, known
    <3> QED
      BY <1>1, FiniteValues
  <2>4. IsFiniteSet({0})
    BY FS_Singleton
  <2>5. IsFiniteSet({0} \cup {size[z] : z \in known})
    <3> HIDE DEF size, known
    <3> QED
      BY ONLY <2>3, <2>4, FS_Union, Zenon
  <2> HIDE DEF known, size
  <2> QED
    BY <1>2, <2>2, <2>5
<1>4. highest \in Int /\ highest >= 0
  <2> HIDE DEF heights
  <2> QED
    BY <1>3, FiniteExtrema
<1>5. Views!Bars(values)[x]
        = [value |-> values[x],
           heightPercent |-> IF x \notin known THEN Absent
                             ELSE IF highest = 0 THEN 0
                             ELSE (100 * Views!Magnitude(values[x])) \div highest]
  <2>1. DOMAIN values = D
    OBVIOUS
  <2>2. Views!Max(heights) = highest
    BY ViewsLibrary
  <2> QED
    BY <2>1, <2>2 DEF Views!Bars
<1>6. ASSUME x \in known, highest # 0
      PROVE  (100 * Views!Magnitude(values[x])) \div highest \in Int
  <2>1. 100 * Views!Magnitude(values[x]) \in Int
    BY <1>1, <1>6 DEF Views!Magnitude
  <2>2. highest > 0
    BY <1>4, <1>6
  <2> HIDE DEF highest
  <2> QED
    BY <1>4, <2>1, <2>2
<1>7. x \in known <=> values[x] # Absent
  OBVIOUS
<1> HIDE DEF known, highest
<1> QED
  BY <1>5, <1>6, <1>7, BooksFinite

\* The bars of a group, and the totals beside them.
LEMMA GroupBars ==
  ASSUME Views!BooksTypeOK, NEW g, NEW y \in Views!CoreYears("expense")
  PROVE  LET bar == Views!GroupChart("expense", g)[<<"actual", y>>]
             total == Views!CostTotal(g, <<"actual", y>>)
             core == Views!CoreActual("expense", g, y)
         IN  /\ bar.value = core
             /\ bar.heightPercent = Absent <=> core = Absent
             /\ core = Absent <=>
                  \A k \in Views!GroupAccounts("expense", g) : Views!Stated(k, y, "actual") = Absent
             /\ total = IF core = Absent THEN 0 ELSE core
<1> DEFINE years == Views!CoreYears("expense")
           budget == IF Views!CoreBudget("expense", g) = Absent THEN {}
                     ELSE {<<"budget", Views!CoreBudgetYear("expense")>>}
           D == ({"actual"} \X years) \cup budget
           values == [x \in D |-> IF x[1] = "actual" THEN Views!CoreActual("expense", g, x[2])
                                  ELSE Views!CoreBudget("expense", g)]
           T == Stating("expense", "actual", g, y)
           core == Views!CoreActual("expense", g, y)
<1>0. "actual" \in Views!Sides /\ "expense" \in Views!Kinds
  BY DEF Views!Sides, Views!Kinds
<1>1. /\ years \in SUBSET BookYears /\ IsFiniteSet(years)
      /\ \A z \in years : Views!CoreActual("expense", g, z) \in Int \cup {Absent}
      /\ Views!CoreBudget("expense", g) \in Int \cup {Absent}
  BY <1>0, CoreFigures
<1>2. IsFiniteSet(D)
  <2>1. IsFiniteSet({"actual"}) /\ IsFiniteSet(budget)
    BY FS_Singleton, FS_EmptySet
  <2>2. IsFiniteSet({"actual"} \X years)
    <3> HIDE DEF years
    <3> QED
      BY <1>1, <2>1, FS_Product
  <2> HIDE DEF budget, years
  <2> QED
    BY ONLY <2>1, <2>2, FS_Union, Zenon DEF D
<1>3. values \in [D -> Int \cup {Absent}]
  <2>1. \A x \in D : x[1] = "actual" => x[2] \in years
    OBVIOUS
  <2> HIDE DEF D, years
  <2> QED
    BY <1>1, <2>1
<1>4. <<"actual", y>> \in D /\ values[<<"actual", y>>] = core
  OBVIOUS
<1>5. Views!GroupChart("expense", g) = Views!Bars(values)
  BY DEF Views!GroupChart
<1>6. T = {} <=> \A k \in Views!GroupAccounts("expense", g) : Views!Stated(k, y, "actual") = Absent
  BY DEF Stating
<1>7. /\ T \in SUBSET {k \in Codes : Views!Stated(k, y, "actual") # Absent}
      /\ core = IF T = {} THEN Absent ELSE SumFunctionOnSet(StatedBy("actual", y), T)
      /\ core = Absent <=> T = {}
  BY <1>0, <1>1, AccountSums, CoreIsAccountSum
<1>8. Views!CostTotal(g, <<"actual", y>>)
        = Views!SumFunction([k \in T |-> Views!Stated(k, y, "actual")])
  <2>1. {k \in Views!Codified("expense") :
            accounts[k].group = g /\ Views!Stated(k, y, "actual") # Absent} = T
    BY DEF Stating, Views!GroupAccounts, Views!Codified, Views!Entered, Views!BooksTypeOK
  <2>2. <<"actual", y>>[1] = "actual" /\ <<"actual", y>>[2] = y
    OBVIOUS
  <2> HIDE DEF T
  <2> QED
    BY <2>1, <2>2 DEF Views!CostTotal
<1>9. y \in BookYears
  BY <1>1
<1> HIDE DEF T, values, D, core
<1>10. Views!SumFunction([k \in T |-> Views!Stated(k, y, "actual")])
         = SumFunctionOnSet(StatedBy("actual", y), T)
  BY <1>0, <1>7, <1>9, StatedSums
<1>11. /\ Views!Bars(values)[<<"actual", y>>].value = core
       /\ Views!Bars(values)[<<"actual", y>>].heightPercent = Absent <=> core = Absent
  BY <1>2, <1>3, <1>4, BarsOfKnown
<1>12. Views!CostTotal(g, <<"actual", y>>) = IF core = Absent THEN 0 ELSE core
  BY <1>7, <1>8, <1>10, SumEmpty
<1> QED
  BY <1>5, <1>6, <1>7, <1>11, <1>12 DEF core

\* The change is that of the totals beside the bars.
LEMMA ChangeOfTotals ==
  ASSUME Views!BooksTypeOK, NEW g, Views!CoreChange("expense", g) # Absent
  PROVE  LET years == Views!CoreYears("expense")
         IN  Views!CoreChange("expense", g)
               = Views!CostTotal(g, <<"actual", Views!Max(years)>>)
                   - Views!CostTotal(g, <<"actual", Views!Max(years \ {Views!Max(years)})>>)
<1> DEFINE years == Views!CoreYears("expense")
           last == Max(years)
           rest == years \ {last}
           before == Max(rest)
<1>0. "expense" \in Views!Kinds
  BY DEF Views!Kinds
<1>1. years \in SUBSET Int /\ IsFiniteSet(years)
  BY <1>0, CoreFigures
<1>2. /\ ~(Cardinality(years) < 2)
      /\ Views!CoreActual("expense", g, last) # Absent
      /\ Views!CoreActual("expense", g, before) # Absent
      /\ Views!CoreChange("expense", g)
           = Views!CoreActual("expense", g, last) - Views!CoreActual("expense", g, before)
  BY ViewsLibrary DEF Views!CoreChange
<1> HIDE DEF years
<1>3. years # {}
  BY <1>2, FS_EmptySet
<1>4. last \in years
  BY <1>1, <1>3, FiniteExtrema
<1>5. rest # {}
  <2>1. ASSUME rest = {} PROVE Cardinality(years) = 1
    <3>1. years = {last}
      BY <1>4, <2>1
    <3> QED
      BY <3>1, FS_Singleton
  <2> QED
    BY <1>2, <2>1
<1>6. rest \in SUBSET Int /\ IsFiniteSet(rest)
  BY <1>1, FS_Subset
<1>7. before \in years
  <2>1. rest \subseteq years
    OBVIOUS
  <2> HIDE DEF rest
  <2> QED
    BY <1>5, <1>6, <2>1, FiniteExtrema
<1> HIDE DEF last, before
<1>8. /\ Views!CostTotal(g, <<"actual", last>>) = Views!CoreActual("expense", g, last)
      /\ Views!CostTotal(g, <<"actual", before>>) = Views!CoreActual("expense", g, before)
  BY <1>2, <1>4, <1>7, GroupBars DEF years
<1> QED
  BY <1>2, <1>8, ViewsLibrary DEF years, last, rest, before

\* The shares of income add up to what they are shares of.
LEMMA SharesOfOneWhole ==
  ASSUME Views!BooksTypeOK
  PROVE  LET sharing == {g \in Views!CoreGroups("income") : Views!IncomeShare(g) # Absent}
         IN  \A g \in sharing :
               Views!IncomeShare(g).of
                 = Views!SumFunction([x \in sharing |-> Views!IncomeShare(x).part])
<1> DEFINE D == Views!CoreGroups("income")
           years == Views!CoreYears("income")
           last == Max(years)
           figure == [x \in D |-> Views!CoreActual("income", x, last)]
           total == Views!SumOfKnown(figure)
           known == {x \in D : figure[x] # Absent}
           sharing == {g \in D : Views!IncomeShare(g) # Absent}
           share == [x \in sharing |-> Views!IncomeShare(x).part]
<1>0. "income" \in Views!Kinds
  BY DEF Views!Kinds
<1>1. \A g \in D : Views!IncomeShare(g)
        = IF years = {} \/ figure[g] = Absent \/ total = 0 THEN Absent
          ELSE [part |-> figure[g], of |-> total]
  BY ViewsLibrary DEF Views!IncomeShare
<1>2. IsFiniteSet(D)
  <2>1. D \subseteq Groups
    BY <1>0, SeriesInGroups DEF Views!SeriesGroups
  <2> HIDE DEF D
  <2> QED
    BY <2>1, BooksFinite, FS_Subset
<1> SUFFICES ASSUME NEW g \in sharing
             PROVE  Views!IncomeShare(g).of = Views!SumFunction(share)
  BY Zenon
<1>3. years # {} /\ total # 0 /\ figure[g] # Absent /\ Views!IncomeShare(g).of = total
  BY <1>1
<1>4. figure \in [D -> Int \cup {Absent}]
  <2>1. last \in years
    <3>1. years \in SUBSET Int /\ IsFiniteSet(years)
      BY <1>0, CoreFigures
    <3> HIDE DEF years
    <3> QED
      BY <1>3, <3>1, FiniteExtrema
  <2>2. \A x \in D : Views!CoreActual("income", x, last) \in Int \cup {Absent}
    BY <1>0, <2>1, CoreFigures
  <2> HIDE DEF D, last
  <2> QED
    BY <2>2
<1>5. /\ total = IF known = {} THEN Absent ELSE SumFunctionOnSet(figure, known)
      /\ IsFiniteSet(known) /\ \A x \in known : figure[x] \in Int
      /\ SumFunctionOnSet(figure, known) \in Int
  <2> HIDE DEF figure, D
  <2> QED
    BY <1>2, <1>4, KnownSum
<1>6. total \in Int
  <2>1. g \in known
    BY <1>3
  <2> HIDE DEF known, total, figure
  <2> QED
    BY <1>5, <2>1
<1>7. \A x \in known : /\ Views!IncomeShare(x) = [part |-> figure[x], of |-> total]
                       /\ Views!IncomeShare(x) # Absent
  <2> TAKE x \in known
  <2>1. Views!IncomeShare(x) = [part |-> figure[x], of |-> total]
    BY <1>1, <1>3
  <2>2. [part |-> figure[x], of |-> total] \in Views!Share
    BY <1>5, <1>6 DEF Views!Share
  <2>3. Absent \notin Views!Share
    BY CalculationsAssumption DEF Views!ViewsAssumption
  <2> QED
    BY <2>1, <2>2, <2>3
<1>8. sharing = known
  BY <1>1, <1>7
<1>9. \A x \in known : figure[x] \in Int /\ share[x] = figure[x]
  BY <1>5, <1>7, <1>8
<1>10. DOMAIN share = known
  BY <1>8
<1>11. SumFunctionOnSet(share, known) = SumFunctionOnSet(figure, known)
  <2> HIDE DEF known, share, figure
  <2>1. \A x \in known : figure[x] \in Int /\ figure[x] = share[x]
    BY <1>9
  <2> QED
    BY <1>5, <2>1, SumSame
<1>12. total = SumFunctionOnSet(figure, known)
  <2> HIDE DEF total, figure, known
  <2> QED
    BY <1>5, <1>6, BooksFinite
<1> HIDE DEF share, known, total, figure
<1> QED
  BY <1>3, <1>10, <1>11, <1>12, ViewsLibrary DEF SumFunction

\* The views of the accounts agree with each other.
LEMMA AccountViews == ASSUME Views!BooksTypeOK PROVE Views!AccountViewsAgree
<1>1. ASSUME NEW g \in Views!CoreGroups("expense"), NEW y \in Views!CoreYears("expense")
      PROVE  LET bar == Views!GroupChart("expense", g)[<<"actual", y>>]
             IN  /\ bar.heightPercent = Absent
                      <=> \A k \in Views!GroupAccounts("expense", g) :
                            Views!Stated(k, y, "actual") = Absent
                 /\ Views!CostTotal(g, <<"actual", y>>)
                      = IF bar.heightPercent = Absent THEN 0 ELSE bar.value
  BY GroupBars
<1> QED
  BY <1>1, ChangeOfTotals, SharesOfOneWhole DEF Views!AccountViewsAgree

-----------------------------------------------------------------------------
(* Theorems about the parts side by side.                                    *)

\* Inputs, loops and rows keep their types, an entry always names an account there is,
\* and a sheet that was pasted is one the parser makes.
THEOREM CalculationsTypeCorrect == CalculationsSpec => []CalculationsTypeOK
BY PartsRun, TypeCorrect, CostsTypes, BooksTypes, TableTypes, SheetsTypes, PTL
   DEF CalculationsTypeOK

\* The liquidity forecast is sound beside the other parts.
THEOREM ForecastOfTheCalculations == CalculationsSpec => []ForecastIsSound
BY PartsRun, ForecastSound, PTL

\* For any events, scenarios and horizons: every approved row is counted in exactly one
\* place, the forecasts accept every projection of whole cents, and every approved
\* repair reaches the cash path's table.
THEOREM RowsCountedOnce == CalculationsSpec => []RowsAreCountedOnce
<1>1. CalculationsTypeOK => RowsAreCountedOnce
  BY CostsCountedOnce, CostsAccepted, RepairsReach DEF CalculationsTypeOK, RowsAreCountedOnce
<1> QED
  BY <1>1, CalculationsTypeCorrect, PTL

\* For any accounts, entries and rows of groups: every figure is in one part of its
\* year's margin, and the forecast's margin is that of the latest year of the series.
THEOREM AllFiguresCountedOnce == CalculationsSpec => []FiguresAreCountedOnce
<1>1. CalculationsTypeOK => FiguresAreCountedOnce
  BY FiguresCountedOnce, LatestYear DEF CalculationsTypeOK, FiguresAreCountedOnce
<1> QED
  BY <1>1, CalculationsTypeCorrect, PTL

\* For any accounts, entries and rows of groups: the browser shows the server's groups,
\* years and totals, and its views agree with each other.
THEOREM ViewsAgreeAlways == CalculationsSpec => []ViewsAgree
<1>1. CalculationsTypeOK => ViewsAgree
  BY ViewsOfTheServer, DetailExplains, ComparableCompare, AccountViews
     DEF CalculationsTypeOK, ViewsAgree
<1> QED
  BY <1>1, CalculationsTypeCorrect, PTL

\* For any sheets that can be pasted: a comparison adds up, a year with a cash line
\* states its closing cash, and a sheet is never compared with itself.
THEOREM SheetsCompareAlways == CalculationsSpec => []SheetsCompare
<1>1. CalculationsTypeOK /\ Position!TwoSheetsAreCompared => SheetsCompare
  BY ComparisonOfTypes, ClosingCashIsStated DEF CalculationsTypeOK, SheetsCompare
<1> QED
  BY <1>1, CalculationsTypeCorrect, PartsRun, SheetsCompared, PTL

\* No change of the data moves what it has no part in: an account without entries
\* reclassifies no group, a plan changes no closed year, and a reload changes only
\* the choice of a sheet that is gone.
THEOREM ChangesStay == CalculationsSpec => ChangesStayInPlace
<1> DEFINE Kept == /\ part = "figures" => Views!IdleAccountsReclassifyNothing
                   /\ part = "cash path" => Table!PlansLeaveClosedYears
                   /\ part = "balance sheets" => Position!AReloadKeepsTheChoices
<1>1. ASSUME CalculationsTypeOK, CalculationsTypeOK', Position!TwoSheetsAreCompared,
             [CalculationsNext]_CalculationsVars
      PROVE  [Kept]_CalculationsVars
  <2>1. CASE UNCHANGED CalculationsVars
    BY <2>1
  <2>2. CASE CalculationsNext
    <3>1. ASSUME part = "figures" PROVE Views!IdleAccountsReclassifyNothing
      BY <1>1, <2>2, <3>1, IdleAccounts DEF CalculationsNext, CalculationsTypeOK
    <3>2. ASSUME part = "cash path" PROVE Table!PlansLeaveClosedYears
      BY <2>2, <3>2, ClosedYears DEF CalculationsNext
    <3>3. ASSUME part = "balance sheets" PROVE Position!AReloadKeepsTheChoices
      BY <1>1, <2>2, <3>3, ReloadKeeps DEF CalculationsNext
    <3> QED
      BY <3>1, <3>2, <3>3
  <2> QED
    BY <1>1, <2>1, <2>2
<1> QED
  BY <1>1, CalculationsTypeCorrect, PartsRun, SheetsCompared, PTL
     DEF CalculationsSpec, ChangesStayInPlace
=============================================================================
