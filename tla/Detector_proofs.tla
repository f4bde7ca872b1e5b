-------------------------- MODULE Detector_proofs ---------------------------
(* Proofs about the pyramid and the cascade of the detector, for every       *)
(* image, MinFaceSize, factor and grid of the coordinates.                   *)
(*                                                                           *)
(* The pyramid: min_side, an integer that is cut in every turn, stays below  *)
(* the shorter side in the scale of the next window (MinSideBelow), so every *)
(* window holds a cell; all that is cut off is less than four (LittleCut),   *)
(* so the loop does not end a turn too soon for any face (StillToSee).       *)
(*                                                                           *)
(* The cascade, whatever the networks answer (CascadeInv): boxes are squares *)
(* when their patches are cut, and what a network has answered for was cut   *)
(* out of the image, so it has an extent and touches the image.              *)
(*                                                                           *)
(* The cascade as long as no end is moved by more than a quarter (SmallInv): *)
(* a box is followed along each side of the image on its own.  PNet finds it *)
(* with its far end over the edge by no more than a third of what lies       *)
(* before it (FoundAxis); each regression takes at most a quarter, so its    *)
(* middle is in the image when RNet looks at it (SeenAxis), a pixel and a    *)
(* quarter of it when ONet does (LookedAxis), and some of it at the end      *)
(* (LookedToFace).                                                           *)
EXTENDS Detector, TLAPS

-----------------------------------------------------------------------------
(* Integers *)

\* What a quotient that is cut says of what was divided.
LEMMA Quotient ==
    ASSUME NEW a \in Nat, NEW d \in Nat \ {0}
    PROVE  /\ a \div d \in Nat
           /\ (a \div d) * d <= a
           /\ a < (a \div d) * d + d
OBVIOUS

\* The same of any integer.
LEMMA QuotientOfInt ==
    ASSUME NEW a \in Int, NEW d \in Nat \ {0}
    PROVE  /\ a \div d \in Int
           /\ (a \div d) * d <= a
           /\ a < (a \div d) * d + d
OBVIOUS

\* And when a multiple of the divisor is not above it.
LEMMA QuotientAbove ==
    ASSUME NEW a \in Nat, NEW d \in Nat \ {0}, NEW n \in Nat, n * d <= a
    PROVE  n <= a \div d
<1> DEFINE q == a \div d
<1>1. q \in Nat /\ a < q * d + d
  BY Quotient
<1> HIDE DEF q
<1>2. q * d + d = (q + 1) * d
  BY <1>1
<1>3. CASE q + 1 <= n
  <2>1. (q + 1) * d <= n * d
    BY <1>1, <1>3
  <2>2. n * d \in Nat /\ (q + 1) * d \in Nat
    BY <1>1
  <2>3. QED
    BY <1>1, <1>2, <2>1, <2>2
<1>4. QED
  BY <1>1, <1>3 DEF q

\* Factors of a product.
LEMMA Product ==
    ASSUME NEW a \in Nat, NEW b \in Nat, NEW c \in Nat
    PROVE  /\ a * b \in Nat
           /\ a <= b => a * c <= b * c
           /\ a < b /\ c # 0 => a * c < b * c
OBVIOUS
-----------------------------------------------------------------------------
(* The pyramid *)

Shorter == SideThatEnds(height, width)

SizesTypes ==
    /\ height \in Nat \ {0} /\ width \in Nat \ {0} /\ minSize \in Nat \ {0}
    /\ Shorter \in Nat \ {0} /\ Shorter <= height /\ Shorter <= width

\* min_side does not exceed the shorter side in the scale of the next window.
MinSideBelow ==
    minSide * ScaleDen(curScale) <= Shorter * ScaleNum(curScale)

\* Scales do not grow.
Shrinking ==
    /\ curScale.num <= curScale.den
    /\ \A i \in DOMAIN list : list[i].scale.num <= list[i].scale.den

PyramidInv ==
    /\ SizesTypeOK
    /\ MinSideBelow
    /\ Shrinking
    /\ EveryWindowFits

\* The shorter side is the least of the two.
LEMMA ShorterIsMin ==
    ASSUME SizesTypeOK
    PROVE  SizesTypes /\ Min({height, width}) = Shorter
<1>1. height \in Nat \ {0} /\ width \in Nat \ {0} /\ minSize \in Nat \ {0}
  BY HeightsAssumption, WidthsAssumption, MinSizesAssumption DEF SizesTypeOK
<1>2. /\ Shorter \in {height, width}
      /\ Shorter <= height /\ Shorter <= width
  BY <1>1 DEF Shorter, SideThatEnds
<1>3. \A x \in {height, width} : Shorter <= x
  BY <1>2
<1>4. Min({height, width}) \in {height, width}
      /\ \A x \in {height, width} : Min({height, width}) <= x
  BY <1>2, <1>3 DEF Min
<1>5. Min({height, width}) = Shorter
  BY <1>1, <1>2, <1>3, <1>4
<1>6. QED
  BY <1>1, <1>2, <1>5 DEF SizesTypes

\* Numerator and denominator of a scale.
LEMMA ScaleTypes ==
    ASSUME SizesTypes, NEW s \in Quotients
    PROVE  ScaleNum(s) \in Nat \ {0} /\ ScaleDen(s) \in Nat \ {0}
<1>1. s.num \in Nat \ {0} /\ s.den \in Nat \ {0} /\ minSize \in Nat \ {0}
  BY DEF Quotients, SizesTypes
<1>2. QED
  BY <1>1 DEF ScaleNum, ScaleDen, Cell

\* The next scale is smaller by the factor.
LEMMA NextScaleIs ==
    ASSUME SizesTypes, NEW s \in Quotients
    PROVE  /\ NextScale(s) \in Quotients
           /\ NextScale(s).num = s.num * FactorNum
           /\ NextScale(s).den = s.den * FactorDen
           /\ ScaleNum(NextScale(s)) = ScaleNum(s) * FactorNum
           /\ ScaleDen(NextScale(s)) = ScaleDen(s) * FactorDen
           /\ s.num <= s.den => NextScale(s).num <= NextScale(s).den
<1>1. /\ s.num \in Nat \ {0} /\ s.den \in Nat \ {0} /\ minSize \in Nat \ {0}
      /\ FactorNum \in Nat \ {0} /\ FactorDen \in Nat \ {0}
      /\ FactorNum <= FactorDen
  BY FactorAssumption DEF Quotients, SizesTypes
<1>2. /\ NextScale(s).num = s.num * FactorNum
      /\ NextScale(s).den = s.den * FactorDen
  BY DEF NextScale
<1>3. s.num * FactorNum \in Nat \ {0} /\ s.den * FactorDen \in Nat \ {0}
  BY <1>1
<1>4. NextScale(s) \in Quotients
  BY <1>3 DEF NextScale, Quotients
<1>5. ScaleNum(NextScale(s)) = ScaleNum(s) * FactorNum
  BY <1>1, <1>2 DEF ScaleNum, Cell
<1>6. ScaleDen(NextScale(s)) = ScaleDen(s) * FactorDen
  BY <1>1, <1>2 DEF ScaleDen
<1>7. s.num <= s.den => s.num * FactorNum <= s.den * FactorDen
  <2>1. s.num <= s.den => s.num * FactorNum <= s.den * FactorNum
    BY <1>1, Product
  <2>2. FactorNum * s.den <= FactorDen * s.den
    BY <1>1, Product
  <2>3. /\ s.den * FactorNum = FactorNum * s.den
        /\ s.den * FactorDen = FactorDen * s.den
    BY <1>1
  <2>4. QED
    BY <1>1, <1>3, <2>1, <2>2, <2>3
<1>8. QED
  BY <1>2, <1>4, <1>5, <1>6, <1>7

\* min_side after a turn, for any product of it.
LEMMA MinSideTurns ==
    ASSUME SizesTypeOK, Turn
    PROVE  /\ minSide' \in Nat
           /\ minSide' <= minSide
           /\ minSide' * FactorDen <= minSide * FactorNum
           /\ minSide * FactorNum < minSide' * FactorDen + FactorDen
<1>1. /\ minSide \in Nat /\ FactorNum \in Nat
      /\ FactorDen \in Nat \ {0} /\ FactorNum < FactorDen
      /\ minSide' = (minSide * FactorNum) \div FactorDen
  BY FactorAssumption DEF SizesTypeOK, Turn
<1>2. minSide * FactorNum \in Nat
  BY <1>1
<1>3. /\ minSide' \in Nat
      /\ minSide' * FactorDen <= minSide * FactorNum
      /\ minSide * FactorNum < minSide' * FactorDen + FactorDen
  BY <1>1, <1>2, Quotient
<1>4. FactorNum * minSide <= FactorDen * minSide
  BY <1>1, Product
<1>5. minSide' * FactorDen <= minSide * FactorDen
  BY <1>1, <1>3, <1>4
<1>6. minSide' <= minSide
  <2>1. minSide < minSide' => minSide * FactorDen < minSide' * FactorDen
    BY <1>1, <1>3, Product
  <2>2. minSide * FactorDen \in Nat /\ minSide' * FactorDen \in Nat
    BY <1>1, <1>3
  <2>3. QED
    BY <1>1, <1>3, <1>5, <2>1, <2>2
<1>7. QED
  BY <1>3, <1>6

\* The window of a side is not smaller than the cell.
LEMMA WindowFits ==
    ASSUME SizesTypes, MinSideBelow, minSide \in Nat, minSide >= Cell,
           curScale \in Quotients, NEW side \in Nat, Shorter <= side
    PROVE  Scaled(side, curScale) \in Nat /\ Scaled(side, curScale) >= Cell
<1> DEFINE N == ScaleNum(curScale)
           D == ScaleDen(curScale)
           a == side * N + D - 1
<1>1. N \in Nat \ {0} /\ D \in Nat \ {0} /\ Shorter \in Nat
  BY ScaleTypes DEF SizesTypes
<1>2. minSide * D <= Shorter * N
  BY DEF MinSideBelow
<1>3. Scaled(side, curScale) = a \div D
  BY DEF Scaled
<1> HIDE DEF N, D
<1>4. Shorter * N <= side * N
  BY <1>1, Product
<1>5. Cell * D <= minSide * D
  BY <1>1, Product DEF Cell
<1>6. /\ Cell * D \in Nat /\ minSide * D \in Nat
      /\ Shorter * N \in Nat /\ side * N \in Nat
  BY <1>1 DEF Cell
<1>7. a \in Nat /\ Cell * D <= a
  BY <1>1, <1>2, <1>4, <1>5, <1>6
<1>8. Cell \in Nat
  BY DEF Cell
<1> HIDE DEF a
<1>9. Cell <= a \div D /\ a \div D \in Nat
  BY <1>1, <1>7, <1>8, Quotient, QuotientAbove
<1>10. QED
  BY <1>3, <1>8, <1>9

\* At the start the loop has all of the shorter side.
LEMMA PyramidInit == SizesInit => PyramidInv
<1> SUFFICES ASSUME SizesInit PROVE PyramidInv
  OBVIOUS
<1>1. height \in Nat \ {0} /\ width \in Nat \ {0} /\ minSize \in Nat \ {0}
  BY HeightsAssumption, WidthsAssumption, MinSizesAssumption DEF SizesInit
<1>2. Shorter \in Nat \ {0}
  BY <1>1 DEF Shorter, SideThatEnds
<1>3. Shorter * Cell \in Nat
  BY <1>2 DEF Cell
<1>4. minSide = (Shorter * Cell) \div minSize
  BY DEF SizesInit, Shorter
<1>5. minSide \in Nat /\ minSide * minSize <= Shorter * Cell
  BY <1>1, <1>3, <1>4, Quotient
<1>6. curScale = [num |-> 1, den |-> 1] /\ list = <<>>
  BY DEF SizesInit
<1>7. curScale \in Quotients /\ curScale.num = 1 /\ curScale.den = 1
  BY <1>6 DEF Quotients
<1>8. list \in Seq([h : Nat, w : Nat, scale : Quotients]) /\ DOMAIN list = {}
  BY <1>6
<1>9. SizesTypeOK
  <2>1. Min({height, width}) = Shorter
    <3>1. /\ Shorter \in {height, width}
          /\ \A x \in {height, width} : Shorter <= x
      BY <1>1 DEF Shorter, SideThatEnds
    <3>2. Min({height, width}) \in {height, width}
          /\ \A x \in {height, width} : Min({height, width}) <= x
      BY <3>1 DEF Min
    <3>3. QED
      BY <1>1, <3>1, <3>2
  <2>2. minSide * minSize <= Cell * Min({height, width})
    BY <1>2, <1>5, <2>1 DEF Cell
  <2>3. height \in Heights /\ width \in Widths /\ minSize \in MinSizes
    BY DEF SizesInit
  <2>4. QED
    BY <1>5, <1>7, <1>8, <2>2, <2>3 DEF SizesTypeOK
<1>10. MinSideBelow
  BY <1>1, <1>2, <1>5, <1>7 DEF MinSideBelow, ScaleNum, ScaleDen, Cell
<1>11. Shrinking /\ EveryWindowFits
  BY <1>7, <1>8 DEF Shrinking, EveryWindowFits
<1>12. QED
  BY <1>9, <1>10, <1>11 DEF PyramidInv

\* A turn appends a window that holds the cell.
LEMMA PyramidTurns == PyramidInv /\ Turn => PyramidInv'
<1> SUFFICES ASSUME PyramidInv, Turn PROVE PyramidInv'
  OBVIOUS
<1>0. /\ SizesTypeOK /\ MinSideBelow /\ Shrinking /\ EveryWindowFits
      /\ SizesTypes
      /\ Min({height, width}) = Shorter
  BY ShorterIsMin DEF PyramidInv
<1>1. /\ UNCHANGED <<height, width, minSize>> /\ Shorter' = Shorter
      /\ curScale' = NextScale(curScale)
      /\ minSide >= Cell
  BY DEF Turn, Shorter
<1>2. /\ minSide \in Nat /\ curScale \in Quotients /\ minSize \in Nat \ {0}
      /\ list \in Seq([h : Nat, w : Nat, scale : Quotients])
      /\ height \in Nat /\ width \in Nat
      /\ Shorter \in Nat
  BY <1>0 DEF SizesTypeOK, SizesTypes
<1> DEFINE win == [h |-> Scaled(height, curScale), w |-> Scaled(width, curScale),
                   scale |-> curScale]
<1>3. /\ win.h \in Nat /\ win.h >= Cell
      /\ win.w \in Nat /\ win.w >= Cell
  BY <1>0, <1>1, <1>2, WindowFits DEF SizesTypes
<1>4. win \in [h : Nat, w : Nat, scale : Quotients] /\ win.scale = curScale
  BY <1>2, <1>3
<1>5. list' = Append(list, win)
  BY DEF Turn, Push
<1> HIDE DEF win
<1>6. /\ list' \in Seq([h : Nat, w : Nat, scale : Quotients])
      /\ \A i \in DOMAIN list' :
                   (i \in DOMAIN list /\ list'[i] = list[i]) \/ list'[i] = win
  BY <1>2, <1>4, <1>5
<1>7. EveryWindowFits'
  BY <1>0, <1>3, <1>6 DEF EveryWindowFits
<1>8. curScale' \in Quotients
  BY <1>0, <1>1, <1>2, NextScaleIs
<1>9. Shrinking'
  <2>1. curScale'.num <= curScale'.den
    BY <1>0, <1>1, <1>2, NextScaleIs DEF Shrinking
  <2>2. \A i \in DOMAIN list' : list'[i].scale.num <= list'[i].scale.den
    BY <1>0, <1>4, <1>6 DEF Shrinking
  <2>3. QED
    BY <2>1, <2>2 DEF Shrinking
<1>10. MinSideBelow'
  <2> DEFINE N == ScaleNum(curScale)
             D == ScaleDen(curScale)
  <2>1. N \in Nat \ {0} /\ D \in Nat \ {0}
    BY <1>0, <1>2, ScaleTypes
  <2>2. /\ ScaleNum(curScale)' = N * FactorNum
        /\ ScaleDen(curScale)' = D * FactorDen
    <3>1. /\ ScaleNum(curScale)' = ScaleNum(NextScale(curScale))
          /\ ScaleDen(curScale)' = ScaleDen(NextScale(curScale))
      BY <1>1 DEF ScaleNum, ScaleDen
    <3>2. QED
      BY <1>0, <1>2, <3>1, NextScaleIs
  <2>3. minSide * D <= Shorter * N
    BY <1>0 DEF MinSideBelow
  <2>4. /\ minSide' \in Nat
        /\ minSide' * FactorDen <= minSide * FactorNum
        /\ FactorNum \in Nat /\ FactorDen \in Nat
    BY <1>0, MinSideTurns, FactorAssumption
  <2> HIDE DEF N, D
  <2>5. (minSide' * FactorDen) * D <= (minSide * FactorNum) * D
    BY <1>2, <2>1, <2>4, Product
  <2>6. (minSide * D) * FactorNum <= (Shorter * N) * FactorNum
    BY <1>2, <2>1, <2>3, <2>4, Product
  <2>7. /\ minSide' * (D * FactorDen) = (minSide' * FactorDen) * D
        /\ (minSide * FactorNum) * D = (minSide * D) * FactorNum
        /\ Shorter * (N * FactorNum) = (Shorter * N) * FactorNum
    BY <1>2, <2>1, <2>4
  <2>8. minSide' * (D * FactorDen) <= Shorter * (N * FactorNum)
    <3>1. /\ (minSide' * FactorDen) * D \in Int
          /\ (minSide * FactorNum) * D \in Int
          /\ (Shorter * N) * FactorNum \in Int
      BY <1>2, <2>1, <2>4
    <3>2. QED
      BY <2>5, <2>6, <2>7, <3>1
  <2>9. QED
    BY <1>1, <2>2, <2>8 DEF MinSideBelow
<1>11. SizesTypeOK'
  <2>1. minSide' \in Nat /\ minSide' <= minSide
    BY <1>0, MinSideTurns
  <2>2. minSide * minSize <= Cell * Shorter
    BY <1>0 DEF SizesTypeOK
  <2>3. minSide' * minSize <= minSide * minSize
    BY <1>2, <2>1, Product
  <2>4. minSide' * minSize <= Cell * Shorter
    <3>1. minSide' * minSize \in Int /\ minSide * minSize \in Int
      BY <1>2, <2>1
    <3>2. Cell * Shorter \in Int
      BY <1>2 DEF Cell
    <3>3. QED
      BY <2>2, <2>3, <3>1, <3>2
  <2>5. (minSide * minSize <= Cell * Min({height, width}))'
    BY <1>0, <1>1, <2>4
  <2>6. QED
    BY <1>0, <1>1, <1>6, <1>8, <2>1, <2>5 DEF SizesTypeOK
<1>12. QED
  BY <1>7, <1>9, <1>10, <1>11 DEF PyramidInv

\* Nothing else touches the sizes.
LEMMA PyramidKept == PyramidInv /\ UNCHANGED sizeVars => PyramidInv'
BY DEF PyramidInv, SizesTypeOK, MinSideBelow, Shrinking, EveryWindowFits,
   Shorter, sizeVars, ScaleNum, ScaleDen

\* What cal_pyramid_list keeps in every turn.
LEMMA PyramidAlways == PyramidSpec => []PyramidInv
<1>1. PyramidInv /\ [PyramidNext]_sizeVars => PyramidInv'
  BY PyramidTurns, PyramidKept DEF PyramidNext
<1>2. QED
  BY <1>1, PyramidInit, PTL DEF PyramidSpec

\* The sizes of the pyramid are well formed, and min_side, cut in every turn,
\* never exceeds the shorter side of the image in PNet's scale.
THEOREM SizesTyped == PyramidSpec => []SizesTypeOK
<1>1. PyramidInv => SizesTypeOK
  BY DEF PyramidInv
<1>2. QED
  BY <1>1, PyramidAlways, PTL

\* No window is smaller than the cell of PNet, whatever the image, MinFaceSize
\* and the factor.
THEOREM WindowsFit == PyramidSpec => []EveryWindowFits
<1>1. PyramidInv => EveryWindowFits
  BY DEF PyramidInv
<1>2. QED
  BY <1>1, PyramidAlways, PTL

\* A factor of at most three quarters (the program's is 0.7).
ThreeQuarters == 4 * FactorNum <= 3 * FactorDen

\* What all turns together cut off min_side is less than four: a turn cuts
\* less than one and leaves at most three quarters of what was cut before.
LittleCut ==
    Shorter * ScaleNum(curScale) < (minSide + 4) * ScaleDen(curScale)

\* The scale of the next window follows that of the last.
LastWindow ==
    IF list = <<>>
    THEN /\ curScale = [num |-> 1, den |-> 1]
         /\ minSide = (Shorter * Cell) \div minSize
    ELSE curScale = NextScale(list[Len(list)].scale)

\* A face no window is for yet is not too small for the next.
StillToSee ==
    \A size \in minSize..Shorter :
        \/ \E i \in DOMAIN list : SeenAt(size, list[i].scale)
        \/ size * curScale.num >= minSize * curScale.den

SeenInv == LittleCut /\ LastWindow /\ StillToSee

\* The first window is for faces of MinFaceSize.
LEMMA SeenInit == SizesInit => SeenInv
<1> SUFFICES ASSUME SizesInit PROVE SeenInv
  OBVIOUS
<1>1. height \in Nat \ {0} /\ width \in Nat \ {0} /\ minSize \in Nat \ {0}
  BY HeightsAssumption, WidthsAssumption, MinSizesAssumption DEF SizesInit
<1>2. Shorter \in Nat \ {0} /\ Shorter * Cell \in Nat
  BY <1>1 DEF Shorter, SideThatEnds, Cell
<1>3. minSide = (Shorter * Cell) \div minSize
  BY DEF SizesInit, Shorter
<1>4. minSide \in Nat /\ Shorter * Cell < minSide * minSize + minSize
  BY <1>1, <1>2, <1>3, Quotient
<1>5. curScale = [num |-> 1, den |-> 1] /\ list = <<>>
  BY DEF SizesInit
<1>6. curScale.num = 1 /\ curScale.den = 1
  BY <1>5
<1>7. LittleCut
  <2>1. minSide * minSize + minSize <= (minSide + 4) * minSize
    BY <1>1, <1>4
  <2>2. minSide * minSize \in Nat /\ (minSide + 4) * minSize \in Nat
    BY <1>1, <1>4
  <2>3. Shorter * Cell < (minSide + 4) * minSize
    BY <1>1, <1>2, <1>4, <2>1, <2>2
  <2>4. ScaleNum(curScale) = Cell /\ ScaleDen(curScale) = minSize
    BY <1>1, <1>6 DEF ScaleNum, ScaleDen, Cell
  <2>5. QED
    BY <2>3, <2>4 DEF LittleCut
<1>8. LastWindow
  BY <1>3, <1>5 DEF LastWindow
<1>9. StillToSee
  BY <1>1, <1>2, <1>6 DEF StillToSee
<1>10. QED
  BY <1>7, <1>8, <1>9 DEF SeenInv

\* Four is no more than three quarters of four and one.
LEMMA LossTurns ==
    ASSUME NEW a \in Nat, NEW b \in Nat, NEW n \in Nat, NEW d \in Nat,
           a * n < b * d + d, 4 * n <= 3 * d
    PROVE  /\ (a + 4) * n \in Nat
           /\ (b + 4) * d \in Nat
           /\ (a + 4) * n <= (b + 4) * d
<1>1. (a + 4) * n = a * n + 4 * n /\ (b + 4) * d = b * d + 4 * d
  OBVIOUS
<1>2. a * n \in Nat /\ b * d \in Nat
  OBVIOUS
<1>3. QED
  BY <1>1, <1>2

\* After a turn min_side has lost no more than before.
LEMMA LittleCutTurns ==
    ASSUME ThreeQuarters, PyramidInv, LittleCut, Turn
    PROVE  LittleCut'
<1> DEFINE N == ScaleNum(curScale)
           D == ScaleDen(curScale)
<1>1. /\ SizesTypes /\ SizesTypeOK /\ curScale \in Quotients /\ minSide \in Nat
      /\ Shorter \in Nat
  BY ShorterIsMin DEF PyramidInv, SizesTypeOK, SizesTypes
<1>2. N \in Nat \ {0} /\ D \in Nat \ {0}
  BY <1>1, ScaleTypes
<1>3. /\ Shorter' = Shorter
      /\ ScaleNum(curScale)' = N * FactorNum
      /\ ScaleDen(curScale)' = D * FactorDen
  <2>1. /\ ScaleNum(curScale)' = ScaleNum(NextScale(curScale))
        /\ ScaleDen(curScale)' = ScaleDen(NextScale(curScale))
        /\ Shorter' = Shorter
    BY DEF Turn, ScaleNum, ScaleDen, Shorter
  <2>2. QED
    BY <1>1, <2>1, NextScaleIs
<1>4. /\ minSide' \in Nat
      /\ minSide * FactorNum < minSide' * FactorDen + FactorDen
      /\ FactorNum \in Nat \ {0} /\ FactorDen \in Nat \ {0}
      /\ 4 * FactorNum <= 3 * FactorDen
  BY <1>1, MinSideTurns, FactorAssumption DEF ThreeQuarters
<1>5. Shorter * N < (minSide + 4) * D
  BY DEF LittleCut
<1> HIDE DEF N, D
<1>6. (Shorter * N) * FactorNum < ((minSide + 4) * D) * FactorNum
  BY <1>1, <1>2, <1>4, <1>5, Product
<1>7. (minSide + 4) * FactorNum <= (minSide' + 4) * FactorDen
  BY <1>1, <1>4, LossTurns
<1>8. ((minSide + 4) * FactorNum) * D <= ((minSide' + 4) * FactorDen) * D
  <2>1. (minSide + 4) * FactorNum \in Nat /\ (minSide' + 4) * FactorDen \in Nat
    BY <1>1, <1>4, LossTurns
  <2>2. QED
    BY <1>2, <1>7, <2>1, Product
<1>9. /\ ((minSide + 4) * D) * FactorNum = ((minSide + 4) * FactorNum) * D
      /\ ((minSide' + 4) * FactorDen) * D = (minSide' + 4) * (D * FactorDen)
      /\ (Shorter * N) * FactorNum = Shorter * (N * FactorNum)
  BY <1>1, <1>2, <1>4
<1>10. /\ (Shorter * N) * FactorNum \in Int
       /\ ((minSide + 4) * FactorNum) * D \in Int
       /\ ((minSide' + 4) * FactorDen) * D \in Int
  BY <1>1, <1>2, <1>4
<1>11. Shorter * (N * FactorNum) < (minSide' + 4) * (D * FactorDen)
  BY <1>6, <1>8, <1>9, <1>10
<1>12. QED
  BY <1>3, <1>11 DEF LittleCut

\* A face is seen by the window that is pushed, or not too small for the next.
LEMMA StillToSeeTurns ==
    ASSUME PyramidInv, StillToSee, Turn
    PROVE  StillToSee'
<1>1. /\ SizesTypes /\ curScale \in Quotients /\ minSize \in Nat \ {0}
      /\ Shorter \in Nat
      /\ curScale.num \in Nat \ {0} /\ curScale.den \in Nat \ {0}
      /\ FactorNum \in Nat \ {0} /\ FactorDen \in Nat \ {0}
      /\ FactorNum < FactorDen
      /\ list \in Seq([h : Nat, w : Nat, scale : Quotients])
  BY ShorterIsMin, FactorAssumption
     DEF PyramidInv, SizesTypeOK, SizesTypes, Quotients
<1>2. /\ minSize' = minSize /\ Shorter' = Shorter
      /\ curScale'.num = curScale.num * FactorNum
      /\ curScale'.den = curScale.den * FactorDen
  BY <1>1, NextScaleIs DEF Turn, Shorter
<1>3. /\ \A i \in DOMAIN list : i \in DOMAIN list' /\ list'[i] = list[i]
      /\ \E i \in DOMAIN list' : list'[i].scale = curScale
  <2> DEFINE win == [h |-> Scaled(height, curScale),
                     w |-> Scaled(width, curScale), scale |-> curScale]
  <2>1. list' = Append(list, win) /\ win.scale = curScale
    BY DEF Turn, Push
  <2> HIDE DEF win
  <2>2. /\ DOMAIN list' = 1..(Len(list) + 1)
        /\ DOMAIN list = 1..Len(list)
        /\ list'[Len(list) + 1] = win
        /\ \A i \in 1..Len(list) : list'[i] = list[i]
        /\ Len(list) \in Nat
    BY <1>1, <2>1
  <2>3. QED
    BY <2>1, <2>2
<1>4. \A size : \A i \in DOMAIN list' : \A s :
         list'[i].scale = s /\ SeenAt(size, s) => SeenAt(size, list[i].scale)'
  BY <1>2 DEF SeenAt
<1> SUFFICES ASSUME NEW size \in minSize..Shorter
             PROVE  \/ \E i \in DOMAIN list' : SeenAt(size, list[i].scale)'
                    \/ size * curScale'.num >= minSize * curScale'.den
  BY <1>2 DEF StillToSee
<1>5. CASE \E i \in DOMAIN list : SeenAt(size, list[i].scale)
  <2>1. PICK i \in DOMAIN list : SeenAt(size, list[i].scale)
    BY <1>5
  <2>2. SeenAt(size, list[i].scale)'
    BY <1>3, <1>4, <2>1
  <2>3. QED
    BY <1>3, <2>2
<1>6. CASE size * curScale.num >= minSize * curScale.den
  <2> DEFINE a == size * curScale.num
             b == minSize * curScale.den
  <2>1. a \in Nat /\ b \in Nat
    BY <1>1
  <2>2. CASE a * FactorNum * FactorNum < b * FactorDen * FactorDen
    <3>1. SeenAt(size, curScale)
      BY <1>6, <2>2 DEF SeenAt
    <3>2. PICK i \in DOMAIN list' : list'[i].scale = curScale
      BY <1>3
    <3>3. SeenAt(size, list[i].scale)'
      BY <1>4, <3>1, <3>2
    <3>4. QED
      BY <3>3
  <2>3. CASE ~ (a * FactorNum * FactorNum < b * FactorDen * FactorDen)
    <3>1. /\ size * curScale'.num = a * FactorNum
          /\ minSize * curScale'.den = b * FactorDen
      BY <1>1, <1>2
    <3> HIDE DEF a, b
    <3>2. a * FactorNum \in Nat /\ b * FactorDen \in Nat
      BY <1>1, <2>1
    <3>3. CASE a * FactorNum < b * FactorDen
      <4>1. (a * FactorNum) * FactorNum < (b * FactorDen) * FactorNum
        BY <1>1, <3>2, <3>3, Product
      <4>2. FactorNum * (b * FactorDen) <= FactorDen * (b * FactorDen)
        BY <1>1, <3>2, Product
      <4>3. /\ (b * FactorDen) * FactorNum = FactorNum * (b * FactorDen)
            /\ FactorDen * (b * FactorDen) = (b * FactorDen) * FactorDen
            /\ (a * FactorNum) * FactorNum \in Int
            /\ (b * FactorDen) * FactorNum \in Int
            /\ (b * FactorDen) * FactorDen \in Int
        BY <1>1, <3>2
      <4>4. (a * FactorNum) * FactorNum < (b * FactorDen) * FactorDen
        BY <4>1, <4>2, <4>3
      <4>5. QED
        BY <2>3, <4>4
    <3>4. QED
      BY <3>1, <3>2, <3>3
  <2>4. QED
    BY <2>2, <2>3
<1>7. QED
  BY <1>5, <1>6 DEF StillToSee

\* What cal_pyramid_list keeps in every turn besides.
LEMMA SeenTurns ==
    ASSUME ThreeQuarters, PyramidInv, SeenInv, [PyramidNext]_sizeVars
    PROVE  SeenInv'
<1>1. CASE Turn
  <2>1. LittleCut' /\ StillToSee'
    BY <1>1, LittleCutTurns, StillToSeeTurns DEF SeenInv
  <2>2. LastWindow'
    <3> DEFINE win == [h |-> Scaled(height, curScale),
                       w |-> Scaled(width, curScale), scale |-> curScale]
    <3>1. /\ list' = Append(list, win) /\ win.scale = curScale
          /\ curScale' = NextScale(curScale)
          /\ list \in Seq([h : Nat, w : Nat, scale : Quotients])
      BY <1>1 DEF Turn, Push, PyramidInv, SizesTypeOK
    <3> HIDE DEF win
    <3>2. list' # <<>> /\ list'[Len(list')] = win
      BY <3>1
    <3>3. curScale' = NextScale(list'[Len(list')].scale)
      BY <3>1, <3>2
    <3>4. QED
      BY <3>2, <3>3 DEF LastWindow, NextScale
  <2>3. QED
    BY <2>1, <2>2 DEF SeenInv
<1>2. CASE UNCHANGED sizeVars
  BY <1>2 DEF SeenInv, LittleCut, LastWindow, StillToSee, Shorter, sizeVars,
     ScaleNum, ScaleDen, NextScale, SeenAt
<1>3. QED
  BY <1>1, <1>2 DEF PyramidNext

\* When the loop ends a face that is not too small for the next window is not
\* too large for the last.
LEMMA SeenAtLast ==
    ASSUME ThreeQuarters, PyramidInv, SeenInv
    PROVE  EveryFaceSizeSeen
<1>1. /\ SizesTypes /\ curScale \in Quotients /\ minSize \in Nat \ {0}
      /\ minSide \in Nat /\ Shorter \in Nat
      /\ FactorNum \in Nat \ {0} /\ FactorDen \in Nat \ {0}
      /\ FactorNum < FactorDen /\ 4 * FactorNum <= 3 * FactorDen
      /\ list \in Seq([h : Nat, w : Nat, scale : Quotients])
      /\ Min({height, width}) = Shorter
  BY ShorterIsMin, FactorAssumption
     DEF PyramidInv, SizesTypeOK, SizesTypes, ThreeQuarters
<1> SUFFICES ASSUME minSide < Cell, NEW size \in minSize..Shorter,
                    size * curScale.num >= minSize * curScale.den
             PROVE  \E i \in DOMAIN list : SeenAt(size, list[i].scale)
  BY <1>1 DEF EveryFaceSizeSeen, SizesDone, SeenInv, StillToSee
<1>2. size \in Nat \ {0} /\ minSize <= Shorter /\ size <= Shorter
  BY <1>1
<1>3. list # <<>>
  <2> SUFFICES ASSUME list = <<>> PROVE FALSE
    OBVIOUS
  <2>1. minSide = (Shorter * Cell) \div minSize
    BY DEF SeenInv, LastWindow
  <2>2. Cell * minSize <= Shorter * Cell /\ Shorter * Cell \in Nat /\ Cell \in Nat
    BY <1>1, <1>2 DEF Cell
  <2>3. Cell <= (Shorter * Cell) \div minSize
    BY <1>1, <2>2, QuotientAbove
  <2>4. QED
    BY <1>1, <2>1, <2>2, <2>3
<1> DEFINE last == list[Len(list)].scale
<1>4. Len(list) \in DOMAIN list /\ last \in Quotients
  <2>1. Len(list) \in 1..Len(list) /\ DOMAIN list = 1..Len(list)
    BY <1>1, <1>3
  <2>2. list[Len(list)] \in [h : Nat, w : Nat, scale : Quotients]
    <3> DEFINE R == [h : Nat, w : Nat, scale : Quotients]
    <3>1. list \in Seq(R)
      BY <1>1
    <3> HIDE DEF R
    <3>2. list[Len(list)] \in R
      BY <2>1, <3>1
    <3>3. QED
      BY <3>2 DEF R
  <2>3. QED
    BY <2>1, <2>2
<1>5. curScale = NextScale(last)
  BY <1>3 DEF SeenInv, LastWindow
<1>6. LittleCut
  BY DEF SeenInv
<1> HIDE DEF last
<1> DEFINE n == last.num
           d == last.den
<1>7. n \in Nat \ {0} /\ d \in Nat \ {0}
  BY <1>4 DEF Quotients
<1>8. curScale.num = n * FactorNum /\ curScale.den = d * FactorDen
  BY <1>1, <1>4, <1>5, NextScaleIs
<1> DEFINE a == size * (n * FactorNum)
           b == minSize * (d * FactorDen)
<1>9. b <= a
  BY <1>8
<1>10. 4 * a <= 5 * b
  <2> DEFINE u == n * FactorNum
             v == d * FactorDen
  <2>1. Shorter * (Cell * u) < (minSide + 4) * (minSize * v)
    BY <1>6, <1>8 DEF LittleCut, ScaleNum, ScaleDen
  <2>2. u \in Nat \ {0} /\ v \in Nat \ {0}
    BY <1>1, <1>7
  <2> HIDE DEF u, v
  <2>3. minSide + 4 <= 15
    BY <1>1 DEF Cell
  <2>4. /\ minSize * v \in Nat
        /\ (minSide + 4) * (minSize * v) <= 15 * (minSize * v)
    BY <1>1, <2>2, <2>3, Product
  <2>5. size * (Cell * u) <= Shorter * (Cell * u)
    BY <1>1, <1>2, <2>2, Product DEF Cell
  <2>6. /\ size * (Cell * u) = 12 * (size * u)
        /\ Shorter * (Cell * u) \in Int
        /\ size * u \in Int
        /\ (minSide + 4) * (minSize * v) \in Int
    BY <1>1, <1>2, <2>2 DEF Cell
  <2>7. 12 * (size * u) <= 15 * (minSize * v)
    BY <2>1, <2>4, <2>5, <2>6
  <2>8. 4 * (size * u) <= 5 * (minSize * v)
    BY <2>4, <2>6, <2>7
  <2>9. QED
    BY <2>8 DEF u, v
<1> DEFINE p == size * n
           q == minSize * d
<1>11. p \in Nat \ {0} /\ q \in Nat \ {0} /\ a = p * FactorNum /\ b = q * FactorDen
  <2> HIDE DEF n, d
  <2>1. p \in Nat \ {0} /\ q \in Nat \ {0}
    BY <1>1, <1>2, <1>7
  <2>2. a = p * FactorNum
    BY <1>1, <1>2, <1>7
  <2>3. b = q * FactorDen
    BY <1>1, <1>2, <1>7
  <2>4. QED
    BY <2>1, <2>2, <2>3
<1> HIDE DEF a, b, n, d, p, q
<1>12. q <= p
  <2>1. p < q => p * FactorNum < q * FactorNum
    BY <1>1, <1>11, Product
  <2>2. FactorNum * q <= FactorDen * q
    BY <1>1, <1>11, Product
  <2>3. /\ p * FactorNum \in Int /\ q * FactorNum \in Int /\ q * FactorDen \in Int
        /\ FactorNum * q = q * FactorNum /\ FactorDen * q = q * FactorDen
    BY <1>1, <1>11
  <2>4. QED
    BY <1>9, <1>11, <2>1, <2>2, <2>3
<1>13. (p * FactorNum) * FactorNum < (q * FactorDen) * FactorDen
  <2>1. a \in Nat /\ b \in Nat \ {0}
    BY <1>1, <1>11
  <2>2. (4 * a) * FactorNum <= (5 * b) * FactorNum
    BY <1>1, <1>10, <2>1, Product
  <2>3. 5 * FactorNum < 4 * FactorDen
    BY <1>1
  <2>4. (5 * FactorNum) * b < (4 * FactorDen) * b
    BY <1>1, <2>1, <2>3, Product
  <2>5. /\ (4 * a) * FactorNum = 4 * (a * FactorNum)
        /\ (5 * b) * FactorNum = (5 * FactorNum) * b
        /\ (4 * FactorDen) * b = 4 * (b * FactorDen)
        /\ a * FactorNum \in Int /\ b * FactorDen \in Int
        /\ (5 * FactorNum) * b \in Int
    BY <1>1, <2>1
  <2>6. a * FactorNum < b * FactorDen
    BY <2>2, <2>4, <2>5
  <2>7. QED
    BY <1>11, <2>6
<1>14. SeenAt(size, last)
  BY <1>12, <1>13 DEF SeenAt, n, d, p, q
<1>15. QED
  BY <1>4, <1>14 DEF last

\* Every face from MinFaceSize to the whole image comes near the size of
\* PNet's cell in one of the windows, although min_side, which ends the loop,
\* is cut in every turn: with a factor of at most three quarters no window is
\* missing for that.
THEOREM FaceSizesSeen ==
    ASSUME ThreeQuarters
    PROVE  PyramidSpec => []EveryFaceSizeSeen
<1>1. PyramidInv /\ SeenInv /\ [PyramidNext]_sizeVars => SeenInv'
  BY SeenTurns
<1>2. PyramidInv /\ SeenInv => EveryFaceSizeSeen
  BY SeenAtLast
<1>3. PyramidInv /\ [PyramidNext]_sizeVars => PyramidInv'
  BY PyramidTurns, PyramidKept DEF PyramidNext
<1>4. QED
  BY <1>1, <1>2, <1>3, PyramidInit, SeenInit, PTL DEF PyramidSpec
-----------------------------------------------------------------------------
(* A box along one side of the image.  lo and hi are its ends, limit is the  *)
(* end of the image and side the length of the square it becomes.            *)

\* Where PNet finds something: it may hang over the far end, but by less the
\* smaller it is.
FoundAxis(lo, hi, limit) ==
    /\ 0 <= lo
    /\ 3 * hi + lo + 3 * Unit <= 4 * limit
    /\ hi - lo + Unit >= 12 * Unit

\* What RNet sees: the middle of it is in the image.
SeenAxis(lo, hi, limit) ==
    /\ 3 * Unit <= lo + hi
    /\ lo + hi <= 2 * limit - Unit
    /\ hi - lo + Unit >= 6 * Unit

\* What ONet sees: a pixel of it is, and a quarter of it is left on either
\* side to be taken away.
LookedAxis(lo, hi, limit) ==
    /\ lo <= limit - Unit
    /\ 2 * Unit <= limit
    /\ 2 * Unit <= hi
    /\ 4 * lo + (hi - lo + Unit) <= 4 * limit
    /\ hi - lo + Unit <= 4 * hi
    /\ hi - lo + Unit >= 3 * Unit

\* The shift of one end.
LEMMA QuarterShift ==
    ASSUME NEW length \in Nat, NEW n \in -1..1
    PROVE  /\ Quarters(length, n) \in Int
           /\ n = 0 => Quarters(length, n) = 0
           /\ n = 1 => /\ 4 * Quarters(length, n) <= length
                       /\ length < 4 * Quarters(length, n) + 4
           /\ n = -1 => /\ 4 * Quarters(length, n) <= -length
                        /\ -length < 4 * Quarters(length, n) + 4
<1>1. CASE n = 0
  <2>1. length * n = 0
    BY <1>1
  <2>2. QED
    BY <1>1, <2>1 DEF Quarters
<1>2. CASE n = 1
  <2>1. length * n = length
    BY <1>2
  <2>2. QED
    BY <1>2, <2>1 DEF Quarters
<1>3. CASE n = -1
  <2>1. length * n = -length
    BY <1>3
  <2>2. QED
    BY <1>3, <2>1 DEF Quarters
<1>4. QED
  BY <1>1, <1>2, <1>3

\* From PNet to RNet.
LEMMA FoundToSeen ==
    ASSUME NEW lo \in Int, NEW hi \in Int, NEW limit \in Int,
           NEW r0 \in -1..1, NEW r1 \in -1..1, NEW side \in Int,
           FoundAxis(lo, hi, limit),
           NEW a \in Int, a = lo + Quarters(hi - lo + Unit, r0),
           NEW b \in Int, b = hi + Quarters(hi - lo + Unit, r1),
           b - a + Unit <= side,
           NEW c \in Int, c = a + ((b - a + Unit) - side) \div 2
    PROVE  /\ b - a + Unit >= 6 * Unit
           /\ SeenAxis(c, c + side - Unit, limit)
<1>0. Unit \in Nat \ {0}
  BY UnitAssumption
<1> DEFINE l == hi - lo + Unit
<1>1. l \in Nat
  BY <1>0 DEF FoundAxis
<1> DEFINE p == Quarters(l, r0)
           q == Quarters(l, r1)
<1>2. /\ p \in Int /\ q \in Int
      /\ r0 \in {-1, 0, 1} /\ r1 \in {-1, 0, 1}
      /\ r0 = 0 => p = 0
      /\ r0 = 1 => 4 * p <= l /\ l < 4 * p + 4
      /\ r0 = -1 => 4 * p <= -l /\ -l < 4 * p + 4
      /\ r1 = 0 => q = 0
      /\ r1 = 1 => 4 * q <= l /\ l < 4 * q + 4
      /\ r1 = -1 => 4 * q <= -l /\ -l < 4 * q + 4
  BY <1>1, QuarterShift
<1>3. a = lo + p /\ b = hi + q
  OBVIOUS
<1> HIDE DEF p, q
<1>4. b - a + Unit >= 6 * Unit
  BY <1>0, <1>2, <1>3 DEF FoundAxis
<1> DEFINE h == ((b - a + Unit) - side) \div 2
<1>5. /\ h \in Int
      /\ 2 * h <= (b - a + Unit) - side
      /\ (b - a + Unit) - side <= 2 * h + 1
  BY <1>0
<1>6. c = a + h
  OBVIOUS
<1> HIDE DEF h
<1>7. 3 * Unit <= c + (c + side - Unit)
  BY <1>0, <1>2, <1>3, <1>5, <1>6 DEF FoundAxis
<1>8. c + (c + side - Unit) <= 2 * limit - Unit
  BY <1>0, <1>2, <1>3, <1>5, <1>6 DEF FoundAxis
<1>9. (c + side - Unit) - c + Unit >= 6 * Unit
  BY <1>0, <1>4
<1>10. QED
  BY <1>4, <1>7, <1>8, <1>9 DEF SeenAxis

\* From RNet to ONet.
LEMMA SeenToLooked ==
    ASSUME NEW lo \in Int, NEW hi \in Int, NEW limit \in Int,
           NEW r0 \in -1..1, NEW r1 \in -1..1, NEW side \in Int,
           SeenAxis(lo, hi, limit),
           NEW a \in Int, a = lo + Quarters(hi - lo + Unit, r0),
           NEW b \in Int, b = hi + Quarters(hi - lo + Unit, r1),
           b - a + Unit <= side,
           NEW c \in Int, c = a + ((b - a + Unit) - side) \div 2
    PROVE  /\ b - a + Unit >= 3 * Unit
           /\ LookedAxis(c, c + side - Unit, limit)
<1>0. Unit \in Nat \ {0}
  BY UnitAssumption
<1> DEFINE l == hi - lo + Unit
<1>1. l \in Nat
  BY <1>0 DEF SeenAxis
<1> DEFINE p == Quarters(l, r0)
           q == Quarters(l, r1)
<1>2. /\ p \in Int /\ q \in Int
      /\ r0 \in {-1, 0, 1} /\ r1 \in {-1, 0, 1}
      /\ r0 = 0 => p = 0
      /\ r0 = 1 => 4 * p <= l /\ l < 4 * p + 4
      /\ r0 = -1 => 4 * p <= -l /\ -l < 4 * p + 4
      /\ r1 = 0 => q = 0
      /\ r1 = 1 => 4 * q <= l /\ l < 4 * q + 4
      /\ r1 = -1 => 4 * q <= -l /\ -l < 4 * q + 4
  BY <1>1, QuarterShift
<1>3. a = lo + p /\ b = hi + q
  OBVIOUS
<1> HIDE DEF p, q
<1>4. b - a + Unit >= 3 * Unit
  BY <1>0, <1>2, <1>3 DEF SeenAxis
<1> DEFINE h == ((b - a + Unit) - side) \div 2
<1>5. /\ h \in Int
      /\ 2 * h <= (b - a + Unit) - side
      /\ (b - a + Unit) - side <= 2 * h + 1
  BY <1>0
<1>6. c = a + h
  OBVIOUS
<1> HIDE DEF h
<1> USE DEF SeenAxis
<1>7. c <= limit - Unit
  BY <1>0, <1>2, <1>3, <1>5, <1>6
<1>8. 2 * Unit <= limit
  BY <1>0
<1>9. 2 * Unit <= c + side - Unit
  BY <1>0, <1>2, <1>3, <1>5, <1>6
<1>10. 4 * c + ((c + side - Unit) - c + Unit) <= 4 * limit
  <2>1. 3 * p + q <= hi - lo + Unit
    BY <1>0, <1>2
  <2>2. 3 * a + b + Unit <= 4 * limit
    BY <1>0, <1>2, <1>3, <2>1
  <2>3. 4 * c + side <= 3 * a + b + Unit
    BY <1>0, <1>5, <1>6
  <2>4. QED
    BY <1>0, <2>2, <2>3
<1>11. (c + side - Unit) - c + Unit <= 4 * (c + side - Unit)
  <2>1. a + 3 * b + 3 * Unit - 2 <= 4 * c + 3 * side
    BY <1>0, <1>5, <1>6
  <2>2. -(hi - lo + Unit) - 3 <= p + 3 * q
    BY <1>0, <1>2
  <2>3. 4 * Unit <= 4 * c + 3 * side
    <3>1. CASE Unit > 1
      BY <1>0, <1>2, <1>3, <2>1, <2>2, <3>1
    <3>2. CASE Unit = 1
      <4>1. CASE lo + hi > 3
        BY <1>2, <1>3, <2>1, <2>2, <3>2, <4>1
      <4>2. CASE lo + hi = 3
        <5>1. -(hi - lo + Unit) - 2 <= p + 3 * q
          BY <1>2, <3>2, <4>2
        <5>2. QED
          BY <1>2, <1>3, <2>1, <3>2, <4>2, <5>1
      <4>3. QED
        BY <3>2, <4>1, <4>2
    <3>3. QED
      BY <1>0, <3>1, <3>2
  <2>4. QED
    BY <1>0, <2>3
<1>12. (c + side - Unit) - c + Unit >= 3 * Unit
  BY <1>0, <1>4
<1>13. QED
  BY <1>4, <1>7, <1>8, <1>9, <1>10, <1>11, <1>12 DEF LookedAxis

\* From ONet to the face that is reported.
LEMMA LookedToFace ==
    ASSUME NEW lo \in Int, NEW hi \in Int, NEW limit \in Int,
           NEW r0 \in -1..1, NEW r1 \in -1..1,
           LookedAxis(lo, hi, limit),
           NEW a \in Int, a = lo + Quarters(hi - lo + Unit, r0),
           NEW b \in Int, b = hi + Quarters(hi - lo + Unit, r1)
    PROVE  a <= b /\ a <= limit /\ 0 <= b
<1>0. Unit \in Nat \ {0}
  BY UnitAssumption
<1> DEFINE l == hi - lo + Unit
<1>1. l \in Nat
  BY <1>0 DEF LookedAxis
<1> DEFINE p == Quarters(l, r0)
           q == Quarters(l, r1)
<1>2. /\ p \in Int /\ q \in Int
      /\ r0 \in {-1, 0, 1} /\ r1 \in {-1, 0, 1}
      /\ r0 = 0 => p = 0
      /\ r0 = 1 => 4 * p <= l /\ l < 4 * p + 4
      /\ r0 = -1 => 4 * p <= -l /\ -l < 4 * p + 4
      /\ r1 = 0 => q = 0
      /\ r1 = 1 => 4 * q <= l /\ l < 4 * q + 4
      /\ r1 = -1 => 4 * q <= -l /\ -l < 4 * q + 4
  BY <1>1, QuarterShift
<1>3. a = lo + p /\ b = hi + q
  OBVIOUS
<1> HIDE DEF p, q
<1>4. a <= b
  BY <1>0, <1>2, <1>3 DEF LookedAxis
<1>5. a <= limit
  BY <1>0, <1>2, <1>3 DEF LookedAxis
<1>6. 0 <= b
  BY <1>0, <1>2, <1>3 DEF LookedAxis
<1>7. QED
  BY <1>4, <1>5, <1>6

\* A cell of a window, in the image: m is the side of the image, w of the
\* window, n/d the scale.
LEMMA CellAxis ==
    ASSUME NEW n \in Nat \ {0}, NEW d \in Nat \ {0}, n <= d,
           NEW m \in Nat, NEW k \in Nat,
           NEW w \in Nat, w * d <= m * n + d - 1,
           k < FeatureSize(w),
           NEW a, a = ((2 * k + 1) * d) \div n,
           NEW b, b = ((2 * k + Cell) * d) \div n
    PROVE  /\ a \in Nat /\ b \in Nat
           /\ 3 * b + a + 3 <= 4 * m
           /\ 11 <= b - a
<1> DEFINE x == (2 * k + 1) * d
           y == (2 * k + 12) * d
<1>1. x \in Nat /\ y \in Nat
  OBVIOUS
<1>2. a = x \div n /\ b = y \div n
  BY DEF Cell
<1> HIDE DEF x, y
<1>3. /\ a \in Nat /\ b \in Nat
      /\ a * n <= x /\ x < a * n + n
      /\ b * n <= y /\ y < b * n + n
  BY <1>1, <1>2, Quotient
<1>4. /\ y = x + 11 * d
      /\ 3 * y + x = 4 * y - 11 * d
      /\ 11 * d \in Nat
  BY DEF x, y
<1>5. 2 * k + 12 <= w + 1
  BY DEF FeatureSize
<1>6. y <= m * n + 2 * d - 1
  <2>1. (2 * k + 12) * d <= (w + 1) * d
    BY <1>5, Product
  <2>2. (w + 1) * d = w * d + d /\ w * d \in Nat /\ m * n \in Nat
    OBVIOUS
  <2>3. QED
    BY <1>1, <2>1, <2>2 DEF y
<1>7. 3 * b + a + 3 <= 4 * m
  <2>1. 3 * (b * n) + a * n <= 4 * (m * n) - 3 * n
    <3>1. a * n \in Nat /\ b * n \in Nat /\ m * n \in Nat
      BY <1>3
    <3>2. QED
      BY <1>1, <1>3, <1>4, <1>6, <3>1
  <2>2. (3 * b + a + 3) * n <= (4 * m) * n
    <3>1. (3 * b + a + 3) * n = 3 * (b * n) + a * n + 3 * n
      <4>1. \A x0, y0, z0 \in Nat :
               (3 * y0 + x0 + 3) * z0 = 3 * (y0 * z0) + x0 * z0 + 3 * z0
        OBVIOUS
      <4>2. QED
        BY <1>3, <4>1
    <3>2. (4 * m) * n = 4 * (m * n) /\ m * n \in Nat
      OBVIOUS
    <3>3. a * n \in Nat /\ b * n \in Nat
      BY <1>3
    <3>4. QED
      BY <2>1, <3>1, <3>2, <3>3
  <2> DEFINE u == 3 * b + a + 3
             v == 4 * m
  <2>3. u \in Nat /\ v \in Nat
    BY <1>3
  <2> HIDE DEF u, v
  <2>4. v < u => v * n < u * n
    BY <2>3, Product
  <2>5. u * n <= v * n
    BY <2>2 DEF u, v
  <2>6. u * n \in Nat /\ v * n \in Nat
    BY <2>3
  <2>7. u <= v
    BY <2>3, <2>4, <2>5, <2>6
  <2>8. QED
    BY <2>7 DEF u, v
<1>8. 11 <= b - a
  <2>1. (a + 11) * n <= y
    <3>1. (a + 11) * n = a * n + 11 * n /\ a * n \in Nat
      BY <1>3
    <3>2. QED
      BY <1>1, <1>3, <1>4, <3>1
  <2> DEFINE e == a + 11
  <2>2. e \in Nat /\ e * n <= y
    BY <1>3, <2>1
  <2> HIDE DEF e
  <2>3. e <= y \div n
    BY <1>1, <2>2, QuotientAbove
  <2>4. e <= b
    BY <1>2, <2>3
  <2>5. QED
    BY <1>3, <2>4 DEF e
<1>9. QED
  BY <1>3, <1>7, <1>8

\* A box that has a pixel in the image has pixels to cut out.
LEMMA PatchHasPixels ==
    ASSUME NEW lo \in Int, NEW hi \in Int, NEW m \in Nat,
           lo <= m * Unit - Unit, 2 * Unit <= m * Unit, 2 * Unit <= hi,
           hi - lo + Unit >= 3 * Unit,
           NEW p, p = Larger(lo, Unit),
           NEW q, q = Smaller(hi, m * Unit)
    PROVE  Pixels(p) \in Int /\ Pixels(q) \in Int /\ Pixels(p) < Pixels(q)
<1> DEFINE M == m * Unit
<1>0. Unit \in Nat \ {0} /\ M \in Nat
  BY UnitAssumption
<1>1. p \in Nat /\ q \in Nat
  BY <1>0 DEF Larger, Smaller
<1>2. p + Unit <= q
  BY <1>0 DEF Larger, Smaller
<1> DEFINE A == Pixels(q)
           B == Pixels(p)
<1>3. /\ A \in Nat /\ A * Unit <= q /\ q < A * Unit + Unit
      /\ B \in Nat /\ B * Unit <= p /\ p < B * Unit + Unit
  BY <1>0, <1>1, Quotient DEF Pixels
<1>4. (B + 1) * Unit = B * Unit + Unit /\ B * Unit \in Nat
  BY <1>0, <1>3
<1> DEFINE e == B + 1
<1>5. e \in Nat /\ e * Unit <= q
  BY <1>0, <1>1, <1>2, <1>3, <1>4
<1> HIDE DEF e
<1>6. e <= A
  BY <1>0, <1>1, <1>5, QuotientAbove DEF Pixels
<1> HIDE DEF A, B
<1>7. B < A
  BY <1>3, <1>6 DEF e
<1>8. QED
  BY <1>3, <1>7 DEF A, B

\* A box whose part in the image does not end before it begins.
LEMMA CutAxis ==
    ASSUME NEW lo \in Int, NEW hi \in Int, NEW m \in Nat,
           ~ (Pixels(Smaller(hi, m * Unit)) < Pixels(Larger(lo, Unit)))
    PROVE  hi - lo + Unit > 0 /\ lo < (m + 1) * Unit /\ 0 <= hi
<1> DEFINE M == m * Unit
           p == Larger(lo, Unit)
           q == Smaller(hi, M)
<1>0. Unit \in Nat \ {0} /\ M \in Nat /\ (m + 1) * Unit = M + Unit
  BY UnitAssumption
<1>1. p \in Nat /\ Unit <= p /\ lo <= p
  BY <1>0 DEF Larger
<1>2. q \in Int /\ q <= hi /\ q <= M
  BY <1>0 DEF Smaller
<1> DEFINE A == Pixels(q)
           B == Pixels(p)
<1> HIDE DEF p, q, M
<1>3. /\ A \in Int /\ A * Unit <= q
      /\ B \in Int /\ p < B * Unit + Unit
  <2>1. A \in Int /\ A * Unit <= q
    BY <1>0, <1>2, QuotientOfInt DEF Pixels
  <2>2. B \in Int /\ p < B * Unit + Unit
    BY <1>0, <1>1, Quotient DEF Pixels
  <2>3. QED
    BY <2>1, <2>2
<1>4. B <= A
  BY <1>3 DEF p, q, M
<1> HIDE DEF A, B
<1>5. B * Unit \in Int /\ A * Unit \in Int /\ B * Unit <= A * Unit
  <2>1. PICK n \in Nat : A = B + n
    <3>1. A - B \in Nat /\ A = B + (A - B)
      BY <1>3, <1>4
    <3>2. QED
      BY <3>1
  <2>2. A * Unit = B * Unit + n * Unit /\ n * Unit \in Nat
    BY <1>0, <1>3, <2>1
  <2>3. B * Unit \in Int
    BY <1>0, <1>3
  <2>4. QED
    BY <2>2, <2>3
<1>6. p < q + Unit
  BY <1>0, <1>1, <1>2, <1>3, <1>5
<1>7. QED
  BY <1>0, <1>1, <1>2, <1>6 DEF M

\* The part of a box that is in the image, and the border, cut to pixels.
LEMMA PatchAxis ==
    ASSUME NEW lo \in Int, NEW hi \in Int, NEW m \in Nat,
           NEW p, p = Larger(lo, Unit),
           NEW q, q = Smaller(hi, m * Unit),
           Pixels(p) < Pixels(q),
           NEW size, size = Pixels(q) - Pixels(p) + Pixels(Distance(p, lo))
                              + Pixels(Distance(q, hi))
    PROVE  /\ Pixels(p) \in Nat /\ Pixels(q) \in Nat
           /\ Pixels(q) <= m
           /\ size \in Int
           /\ hi - lo - 2 * Unit < size * Unit
           /\ size * Unit < hi - lo + Unit
<1> DEFINE M == m * Unit
<1>0. Unit \in Nat \ {0} /\ M \in Nat
  BY UnitAssumption
<1>1. p \in Nat /\ Unit <= p /\ lo <= p /\ (p = lo \/ p = Unit)
  BY <1>0 DEF Larger
<1>2. q \in Nat /\ q <= hi /\ q <= M /\ (q = hi \/ q = M)
  <2>1. q \in Int /\ q <= hi /\ q <= M /\ (q = hi \/ q = M)
    BY <1>0 DEF Smaller
  <2>2. Pixels(p) \in Nat
    BY <1>0, <1>1, Quotient DEF Pixels
  <2> DEFINE Q == Pixels(q)
  <2>3. Q \in Int /\ Q * Unit <= q
    BY <1>0, <2>1, QuotientOfInt DEF Pixels
  <2>4. 0 < Q
    BY <2>2, <2>3
  <2> HIDE DEF Q
  <2>5. 0 <= Q * Unit /\ Q * Unit \in Int
    BY <1>0, <2>3, <2>4, Product
  <2>6. QED
    BY <2>1, <2>3, <2>5
<1> DEFINE A == Pixels(q)
           B == Pixels(p)
           C == Pixels(Distance(p, lo))
           E == Pixels(Distance(q, hi))
<1>4. /\ Distance(p, lo) = p - lo /\ p - lo \in Nat
      /\ Distance(q, hi) = hi - q /\ hi - q \in Nat
  <2>1. p - lo \in Nat /\ hi - q \in Nat
    BY <1>1, <1>2
  <2>2. Distance(p, lo) = p - lo
    BY <1>1 DEF Distance
  <2>3. Distance(q, hi) = hi - q
    BY <1>2 DEF Distance
  <2>4. QED
    BY <2>1, <2>2, <2>3
<1>5. /\ A \in Nat /\ A * Unit <= q /\ q < A * Unit + Unit
      /\ B \in Nat /\ B * Unit <= p /\ p < B * Unit + Unit
      /\ C \in Nat /\ C * Unit <= p - lo /\ p - lo < C * Unit + Unit
      /\ E \in Nat /\ E * Unit <= hi - q /\ hi - q < E * Unit + Unit
  BY <1>0, <1>1, <1>2, <1>4, Quotient DEF Pixels
<1>6. A <= m
  <2>1. m < A => m * Unit < A * Unit
    BY <1>0, <1>5, Product
  <2>2. QED
    BY <1>0, <1>2, <1>5, <2>1
<1>8. p = Unit => B * Unit = p
  <2>1. p = Unit => 1 <= B
    <3>1. 1 * Unit = Unit
      BY <1>0
    <3>2. p = Unit => 1 <= p \div Unit
      BY <1>0, <1>1, <3>1, QuotientAbove
    <3>3. QED
      BY <3>2 DEF Pixels
  <2>2. 1 <= B => 1 * Unit <= B * Unit
    BY <1>0, <1>5, Product
  <2>3. 1 * Unit = Unit /\ B * Unit \in Nat
    BY <1>0, <1>5
  <2>4. QED
    BY <1>0, <1>5, <2>1, <2>2, <2>3
<1>9. q = M => A * Unit = q
  <2>1. q = M => m <= q \div Unit
    BY <1>0, <1>2, QuotientAbove
  <2>2. m <= A => m * Unit <= A * Unit
    BY <1>0, <1>5, Product
  <2>3. A * Unit \in Nat
    BY <1>0, <1>5
  <2>4. q = M => m <= A
    BY <2>1 DEF Pixels
  <2> HIDE DEF A, B
  <2>5. q = M => M <= A * Unit
    BY <2>2, <2>4
  <2> HIDE DEF M
  <2>6. A * Unit <= q /\ q \in Nat
    BY <1>2, <1>5
  <2>7. \A x, y \in Nat : x <= y /\ y <= x => x = y
    OBVIOUS
  <2>8. QED
    BY <2>3, <2>5, <2>6, <2>7
<1> HIDE DEF A, B, C, E, M
<1>10. size = A - B + C + E
  BY DEF A, B, C, E
<1>11. size * Unit = A * Unit - B * Unit + C * Unit + E * Unit
  BY <1>0, <1>5, <1>10
<1>12. A * Unit \in Nat /\ B * Unit \in Nat /\ C * Unit \in Nat /\ E * Unit \in Nat
  BY <1>0, <1>5
<1>13. hi - Unit < A * Unit + E * Unit /\ A * Unit + E * Unit <= hi
  BY <1>0, <1>2, <1>5, <1>9, <1>12
<1>14. -lo - Unit < C * Unit - B * Unit /\ C * Unit - B * Unit < Unit - lo
  BY <1>0, <1>1, <1>5, <1>8, <1>12
<1>15. /\ hi - lo - 2 * Unit < size * Unit
       /\ size * Unit < hi - lo + Unit
  BY <1>0, <1>11, <1>12, <1>13, <1>14
<1>16. size \in Int
  BY <1>5, <1>10
<1>17. QED
  BY <1>5, <1>6, <1>15, <1>16 DEF A, B

\* Two patches of one length differ by two lines at most.
LEMMA TwoLines ==
    ASSUME NEW a \in Int, NEW b \in Int, NEW l \in Int,
           l - 3 * Unit < a * Unit, a * Unit < l,
           l - 3 * Unit < b * Unit, b * Unit < l
    PROVE  Distance(a, b) <= 2
<1>0. Unit \in Nat \ {0}
  BY UnitAssumption
<1>1. \A x, y \in Int : y * Unit < x * Unit + 3 * Unit => y <= x + 2
  <2> SUFFICES ASSUME NEW x \in Int, NEW y \in Int, x + 3 <= y
               PROVE  x * Unit + 3 * Unit <= y * Unit
    <3>1. \A x, y \in Int : ~ (x + 3 <= y) => y <= x + 2
      OBVIOUS
    <3>2. \A x, y \in Int : x * Unit + 3 * Unit \in Int /\ y * Unit \in Int
      BY <1>0
    <3>3. QED
      BY <3>1, <3>2
  <2>1. (x + 3) * Unit = x * Unit + 3 * Unit
    BY <1>0
  <2>2. PICK z \in Nat : y = x + 3 + z
    <3>1. y - (x + 3) \in Nat /\ y = x + 3 + (y - (x + 3))
      OBVIOUS
    <3>2. QED
      BY <3>1
  <2>3. y * Unit = (x + 3) * Unit + z * Unit /\ z * Unit \in Nat
    BY <1>0, <2>2
  <2>4. (x + 3) * Unit \in Int
    BY <1>0
  <2>5. QED
    BY <2>1, <2>3, <2>4
<1>2. a * Unit \in Int /\ b * Unit \in Int
  BY <1>0
<1>3. a * Unit < b * Unit + 3 * Unit /\ b * Unit < a * Unit + 3 * Unit
  BY <1>0, <1>2
<1>4. a <= b + 2 /\ b <= a + 2
  BY <1>1, <1>3
<1>5. QED
  BY <1>4 DEF Distance

\* A box that lies in another is covered by it, as the last suppression sees
\* it: what they share is all of the smaller one.
LEMMA InsideIsCovered ==
    ASSUME NEW a, NEW b,
           a.x0 \in Int, a.y0 \in Int, a.x1 \in Int, a.y1 \in Int,
           b.x0 \in Int, b.y0 \in Int, b.x1 \in Int, b.y1 \in Int,
           b.x0 <= b.x1, b.y0 <= b.y1,
           a.x0 <= b.x0, b.x1 <= a.x1, a.y0 <= b.y0, b.y1 <= a.y1
    PROVE  Over(FinalRule, a, b)
<1>0. Unit \in Nat \ {0}
  BY UnitAssumption
<1>1. /\ InnerHigh(a, b) = High(b) /\ High(b) \in Nat \ {0}
      /\ InnerWide(a, b) = Wide(b) /\ Wide(b) \in Nat \ {0}
      /\ High(a) \in Nat \ {0} /\ Wide(a) \in Nat \ {0}
  BY <1>0 DEF InnerHigh, InnerWide, High, Wide, Smaller, Larger
<1>2. Inner(a, b) = Area(b)
  BY <1>1 DEF Inner, Area
<1>3. Area(a) \in Nat /\ Area(b) \in Nat \ {0}
  BY <1>1 DEF Area
<1>4. Whole(FinalRule.type, a, b) = Smaller(Area(a), Area(b))
  BY DEF Whole, FinalRule
<1>5. Inner(a, b) * FinalRule.den > FinalRule.num * Whole(FinalRule.type, a, b)
  <2>1. FinalRule.den = 10 /\ FinalRule.num = 7
    BY DEF FinalRule
  <2>2. Smaller(Area(a), Area(b)) \in Nat /\ Smaller(Area(a), Area(b)) <= Area(b)
    BY <1>3 DEF Smaller
  <2>3. QED
    BY <1>2, <1>3, <1>4, <2>1, <2>2
<1>6. QED
  BY <1>1, <1>5 DEF Over
-----------------------------------------------------------------------------
(* The cascade *)

\* Hypotheses of the theorems on the cascade.  MinFaceSize is not smaller than
\* the cell, so no window is larger than the image;
NoMagnifying == \A s \in MinSizes : s >= Cell

\* and ONet puts its marks into the box it looks at.
InnerMarks == Marks \subseteq (0..4) \X (0..4)

\* A window has the size of the image in its scale.
WindowsScaled ==
    \A i \in DOMAIN list :
        /\ list[i].h = Scaled(height, list[i].scale)
        /\ list[i].w = Scaled(width, list[i].scale)

Square(b) == High(b) = Wide(b)

Extent(b) == High(b) > 0 /\ Wide(b) > 0

\* What could be cut out of the image touches it, but for a pixel.
Cut(b) ==
    /\ b.x0 < (width + 1) * Unit /\ 0 <= b.x1
    /\ b.y0 < (height + 1) * Unit /\ 0 <= b.y1

Found(b) ==
    /\ FoundAxis(b.x0, b.x1, width * Unit)
    /\ FoundAxis(b.y0, b.y1, height * Unit)

Seen(b) ==
    /\ SeenAxis(b.x0, b.x1, width * Unit)
    /\ SeenAxis(b.y0, b.y1, height * Unit)

Looked(b) ==
    /\ LookedAxis(b.x0, b.x1, width * Unit)
    /\ LookedAxis(b.y0, b.y1, height * Unit)

\* A shift of no more than a quarter, end by end.
LEMMA ShiftsAre ==
    ASSUME NEW r, Small(r)
    PROVE  r[1] \in -1..1 /\ r[2] \in -1..1 /\ r[3] \in -1..1 /\ r[4] \in -1..1
BY DEF Small

\* Quarters of an integer.
LEMMA QuartersAreInts ==
    ASSUME NEW length \in Int, NEW n \in Int
    PROVE  Quarters(length, n) \in Int
<1>1. length * n \in Int
  OBVIOUS
<1>2. \A x \in Int : x \div 4 \in Int
  OBVIOUS
<1>3. QED
  BY <1>1, <1>2 DEF Quarters

\* A box whose ends are moved.
LEMMA RegressedIs ==
    ASSUME NEW b \in Boxes
    PROVE  /\ Regressed(b) \in Boxes
           /\ Regressed(b).regress = b.regress
           /\ Regressed(b).x0 = b.x0 + Quarters(Wide(b), b.regress[1])
           /\ Regressed(b).y0 = b.y0 + Quarters(High(b), b.regress[2])
           /\ Regressed(b).x1 = b.x1 + Quarters(Wide(b), b.regress[3])
           /\ Regressed(b).y1 = b.y1 + Quarters(High(b), b.regress[4])
<1>1. /\ b.x0 \in Int /\ b.y0 \in Int /\ b.x1 \in Int /\ b.y1 \in Int
      /\ b.regress \in Shifts
  BY DEF Boxes
<1>2. Wide(b) \in Int /\ High(b) \in Int
  BY <1>1, UnitAssumption DEF Wide, High
<1> DEFINE x0 == b.x0 + Quarters(Wide(b), b.regress[1])
           y0 == b.y0 + Quarters(High(b), b.regress[2])
           x1 == b.x1 + Quarters(Wide(b), b.regress[3])
           y1 == b.y1 + Quarters(High(b), b.regress[4])
<1>3. x0 \in Int /\ y0 \in Int /\ x1 \in Int /\ y1 \in Int
  <2>1. b.regress[1] \in Int /\ b.regress[2] \in Int
        /\ b.regress[3] \in Int /\ b.regress[4] \in Int
    BY <1>1, AnswersAssumption
  <2>2. /\ Quarters(Wide(b), b.regress[1]) \in Int
        /\ Quarters(High(b), b.regress[2]) \in Int
        /\ Quarters(Wide(b), b.regress[3]) \in Int
        /\ Quarters(High(b), b.regress[4]) \in Int
    BY <1>2, <2>1, QuartersAreInts
  <2>3. QED
    BY <1>1, <2>2
<1>4. Regressed(b) = [b EXCEPT !.x0 = x0, !.y0 = y0, !.x1 = x1, !.y1 = y1]
  BY <1>1 DEF Regressed, Boxes
<1> HIDE DEF x0, y0, x1, y1
<1>5. /\ Regressed(b) \in Boxes /\ Regressed(b).regress = b.regress
      /\ Regressed(b).x0 = x0 /\ Regressed(b).y0 = y0
      /\ Regressed(b).x1 = x1 /\ Regressed(b).y1 = y1
  BY <1>3, <1>4 DEF Boxes
<1>6. QED
  BY <1>5 DEF x0, y0, x1, y1

\* The same when it has marks.
LEMMA RegressedMarked ==
    ASSUME NEW b \in MarkedBoxes
    PROVE  /\ Regressed(b) \in MarkedBoxes
           /\ Regressed(b).regress = b.regress
           /\ Regressed(b).x0 = b.x0 + Quarters(Wide(b), b.regress[1])
           /\ Regressed(b).y0 = b.y0 + Quarters(High(b), b.regress[2])
           /\ Regressed(b).x1 = b.x1 + Quarters(Wide(b), b.regress[3])
           /\ Regressed(b).y1 = b.y1 + Quarters(High(b), b.regress[4])
<1>1. /\ b.x0 \in Int /\ b.y0 \in Int /\ b.x1 \in Int /\ b.y1 \in Int
      /\ b.regress \in Shifts
  BY DEF MarkedBoxes
<1>2. Wide(b) \in Int /\ High(b) \in Int
  BY <1>1, UnitAssumption DEF Wide, High
<1> DEFINE x0 == b.x0 + Quarters(Wide(b), b.regress[1])
           y0 == b.y0 + Quarters(High(b), b.regress[2])
           x1 == b.x1 + Quarters(Wide(b), b.regress[3])
           y1 == b.y1 + Quarters(High(b), b.regress[4])
<1>3. x0 \in Int /\ y0 \in Int /\ x1 \in Int /\ y1 \in Int
  <2>1. b.regress[1] \in Int /\ b.regress[2] \in Int
        /\ b.regress[3] \in Int /\ b.regress[4] \in Int
    BY <1>1, AnswersAssumption
  <2>2. /\ Quarters(Wide(b), b.regress[1]) \in Int
        /\ Quarters(High(b), b.regress[2]) \in Int
        /\ Quarters(Wide(b), b.regress[3]) \in Int
        /\ Quarters(High(b), b.regress[4]) \in Int
    BY <1>2, <2>1, QuartersAreInts
  <2>3. QED
    BY <1>1, <2>2
<1>4. Regressed(b) = [b EXCEPT !.x0 = x0, !.y0 = y0, !.x1 = x1, !.y1 = y1]
  BY <1>1 DEF Regressed, MarkedBoxes
<1> HIDE DEF x0, y0, x1, y1
<1>5. /\ Regressed(b) \in MarkedBoxes /\ Regressed(b).regress = b.regress
      /\ Regressed(b).x0 = x0 /\ Regressed(b).y0 = y0
      /\ Regressed(b).x1 = x1 /\ Regressed(b).y1 = y1
  BY <1>3, <1>4 DEF MarkedBoxes
<1>6. QED
  BY <1>5 DEF x0, y0, x1, y1

\* A box that is made a square: both sides become the longer one and the
\* middle stays.
LEMMA SquaredIs ==
    ASSUME NEW b \in Boxes, NEW side, side = Larger(High(b), Wide(b))
    PROVE  /\ side \in Int
           /\ b.x1 - b.x0 + Unit <= side /\ b.y1 - b.y0 + Unit <= side
           /\ Squared(b) \in Boxes /\ Squared(b).regress = b.regress
           /\ Squared(b).x0 = b.x0 + ((b.x1 - b.x0 + Unit) - side) \div 2
           /\ Squared(b).y0 = b.y0 + ((b.y1 - b.y0 + Unit) - side) \div 2
           /\ Squared(b).x1 = Squared(b).x0 + side - Unit
           /\ Squared(b).y1 = Squared(b).y0 + side - Unit
<1>0. Unit \in Nat
  BY UnitAssumption
<1>1. b.x0 \in Int /\ b.y0 \in Int /\ b.x1 \in Int /\ b.y1 \in Int
  BY DEF Boxes
<1>2. /\ High(b) = b.y1 - b.y0 + Unit /\ Wide(b) = b.x1 - b.x0 + Unit
      /\ High(b) \in Int /\ Wide(b) \in Int
  BY <1>0, <1>1 DEF High, Wide
<1>3. side \in Int /\ Wide(b) <= side /\ High(b) <= side
  BY <1>2 DEF Larger
<1> DEFINE x == b.x0 + (Wide(b) - side) \div 2
           y == b.y0 + (High(b) - side) \div 2
<1>4. Squared(b) = [b EXCEPT !.x0 = x, !.y0 = y,
                             !.x1 = x + side - Unit, !.y1 = y + side - Unit]
  BY DEF Squared
<1>5. x \in Int /\ y \in Int
  BY <1>1, <1>2, <1>3
<1> HIDE DEF x, y
<1>6. x + side - Unit \in Int /\ y + side - Unit \in Int
  BY <1>0, <1>3, <1>5
<1>7. /\ Squared(b) \in Boxes /\ Squared(b).regress = b.regress
      /\ Squared(b).x0 = x /\ Squared(b).y0 = y
      /\ Squared(b).x1 = x + side - Unit /\ Squared(b).y1 = y + side - Unit
  BY <1>4, <1>5, <1>6 DEF Boxes
<1>8. QED
  BY <1>2, <1>3, <1>7 DEF x, y

\* What process_boxes gives the next network is a square, and keeps the shift
\* of the last.
LEMMA ProcessSquares ==
    ASSUME NEW b \in Boxes
    PROVE  /\ Squared(Regressed(b)) \in Boxes
           /\ Squared(Regressed(b)).regress = b.regress
           /\ Square(Squared(Regressed(b)))
<1> DEFINE r == Regressed(b)
           side == Larger(High(r), Wide(r))
           s == Squared(r)
<1>1. r \in Boxes /\ r.regress = b.regress
  BY RegressedIs
<1> HIDE DEF r
<1>2. /\ side \in Int /\ s \in Boxes /\ s.regress = r.regress
      /\ s.x1 = s.x0 + side - Unit
      /\ s.y1 = s.y0 + side - Unit
  BY <1>1, SquaredIs
<1>3. s.x0 \in Int /\ s.y0 \in Int /\ Unit \in Int
  BY <1>2, UnitAssumption DEF Boxes
<1> HIDE DEF side, s
<1>4. Square(s)
  BY <1>2, <1>3 DEF Square, High, Wide
<1>5. QED
  BY <1>1, <1>2, <1>4 DEF s, r

\* A square whose patch can be cut: it has an extent and touches the image.
LEMMA CutIs ==
    ASSUME SizesTypes, NEW b \in Boxes, Square(b), ~Reversed(b)
    PROVE  Extent(b) /\ Cut(b)
<1>0. Unit \in Nat \ {0} /\ height \in Nat /\ width \in Nat
  BY UnitAssumption DEF SizesTypes
<1>1. b.x0 \in Int /\ b.y0 \in Int /\ b.x1 \in Int /\ b.y1 \in Int
  BY DEF Boxes
<1> DEFINE x0 == Larger(b.x0, Unit)
           y0 == Larger(b.y0, Unit)
           x1 == Smaller(b.x1, width * Unit)
           y1 == Smaller(b.y1, height * Unit)
<1>2. ~ (Pixels(x1) < Pixels(x0)) /\ ~ (Pixels(y1) < Pixels(y0))
  BY DEF Reversed, Padded
<1>3. b.x1 - b.x0 + Unit > 0 /\ b.x0 < (width + 1) * Unit /\ 0 <= b.x1
  BY <1>0, <1>1, <1>2, CutAxis
<1>4. b.y1 - b.y0 + Unit > 0 /\ b.y0 < (height + 1) * Unit /\ 0 <= b.y1
  BY <1>0, <1>1, <1>2, CutAxis
<1>5. QED
  BY <1>3, <1>4 DEF Extent, High, Wide, Cut

\* process_boxes between PNet and RNet.
LEMMA ProcessFound ==
    ASSUME SizesTypes, NEW b \in Boxes, Small(b.regress), Found(b)
    PROVE  Seen(Squared(Regressed(b)))
<1>0. /\ Unit \in Nat \ {0} /\ width * Unit \in Int /\ height * Unit \in Int
  BY UnitAssumption DEF SizesTypes
<1>1. /\ b.x0 \in Int /\ b.y0 \in Int /\ b.x1 \in Int /\ b.y1 \in Int
      /\ b.regress \in Shifts
  BY DEF Boxes
<1> DEFINE r == Regressed(b)
           side == Larger(High(r), Wide(r))
           s == Squared(r)
<1>3. /\ r \in Boxes
      /\ r.x0 = b.x0 + Quarters(b.x1 - b.x0 + Unit, b.regress[1])
      /\ r.y0 = b.y0 + Quarters(b.y1 - b.y0 + Unit, b.regress[2])
      /\ r.x1 = b.x1 + Quarters(b.x1 - b.x0 + Unit, b.regress[3])
      /\ r.y1 = b.y1 + Quarters(b.y1 - b.y0 + Unit, b.regress[4])
  BY RegressedIs DEF Wide, High
<1>4. r.x0 \in Int /\ r.y0 \in Int /\ r.x1 \in Int /\ r.y1 \in Int
  BY <1>3 DEF Boxes
<1> HIDE DEF r
<1>5. /\ side \in Int
      /\ r.x1 - r.x0 + Unit <= side /\ r.y1 - r.y0 + Unit <= side
      /\ s \in Boxes
      /\ s.x0 = r.x0 + ((r.x1 - r.x0 + Unit) - side) \div 2
      /\ s.y0 = r.y0 + ((r.y1 - r.y0 + Unit) - side) \div 2
      /\ s.x1 = s.x0 + side - Unit
      /\ s.y1 = s.y0 + side - Unit
  BY <1>3, SquaredIs
<1>6. s.x0 \in Int /\ s.y0 \in Int
  BY <1>5 DEF Boxes
<1>7. FoundAxis(b.x0, b.x1, width * Unit) /\ FoundAxis(b.y0, b.y1, height * Unit)
  BY DEF Found
<1>8. b.regress[1] \in -1..1 /\ b.regress[2] \in -1..1
      /\ b.regress[3] \in -1..1 /\ b.regress[4] \in -1..1
  BY ShiftsAre
<1> HIDE DEF side, s
<1>9. SeenAxis(s.x0, s.x0 + side - Unit, width * Unit)
  <2> DEFINE lo == b.x0
             hi == b.x1
             limit == width * Unit
             r0 == b.regress[1]
             r1 == b.regress[3]
             a == r.x0
             e == r.x1
             c == s.x0
  <2>1. /\ lo \in Int /\ hi \in Int /\ limit \in Int
        /\ r0 \in -1..1 /\ r1 \in -1..1 /\ side \in Int
        /\ FoundAxis(lo, hi, limit)
        /\ a \in Int /\ a = lo + Quarters(hi - lo + Unit, r0)
        /\ e \in Int /\ e = hi + Quarters(hi - lo + Unit, r1)
        /\ e - a + Unit <= side
        /\ c \in Int /\ c = a + ((e - a + Unit) - side) \div 2
    BY <1>0, <1>1, <1>3, <1>4, <1>5, <1>6, <1>7, <1>8
  <2> HIDE DEF lo, hi, limit, r0, r1, a, e, c
  <2>2. SeenAxis(c, c + side - Unit, limit)
    BY <2>1, FoundToSeen
  <2>3. QED
    BY <2>2 DEF c, limit
<1>10. SeenAxis(s.y0, s.y0 + side - Unit, height * Unit)
  <2> DEFINE lo == b.y0
             hi == b.y1
             limit == height * Unit
             r0 == b.regress[2]
             r1 == b.regress[4]
             a == r.y0
             e == r.y1
             c == s.y0
  <2>1. /\ lo \in Int /\ hi \in Int /\ limit \in Int
        /\ r0 \in -1..1 /\ r1 \in -1..1 /\ side \in Int
        /\ FoundAxis(lo, hi, limit)
        /\ a \in Int /\ a = lo + Quarters(hi - lo + Unit, r0)
        /\ e \in Int /\ e = hi + Quarters(hi - lo + Unit, r1)
        /\ e - a + Unit <= side
        /\ c \in Int /\ c = a + ((e - a + Unit) - side) \div 2
    BY <1>0, <1>1, <1>3, <1>4, <1>5, <1>6, <1>7, <1>8
  <2> HIDE DEF lo, hi, limit, r0, r1, a, e, c
  <2>2. SeenAxis(c, c + side - Unit, limit)
    BY <2>1, FoundToSeen
  <2>3. QED
    BY <2>2 DEF c, limit
<1>11. Seen(s)
  BY <1>5, <1>9, <1>10 DEF Seen
<1>12. QED
  BY <1>11 DEF s, r

\* process_boxes between RNet and ONet.
LEMMA ProcessSeen ==
    ASSUME SizesTypes, NEW b \in Boxes, Small(b.regress), Seen(b)
    PROVE  Looked(Squared(Regressed(b)))
<1>0. /\ Unit \in Nat \ {0} /\ width * Unit \in Int /\ height * Unit \in Int
  BY UnitAssumption DEF SizesTypes
<1>1. /\ b.x0 \in Int /\ b.y0 \in Int /\ b.x1 \in Int /\ b.y1 \in Int
      /\ b.regress \in Shifts
  BY DEF Boxes
<1> DEFINE r == Regressed(b)
           side == Larger(High(r), Wide(r))
           s == Squared(r)
<1>3. /\ r \in Boxes
      /\ r.x0 = b.x0 + Quarters(b.x1 - b.x0 + Unit, b.regress[1])
      /\ r.y0 = b.y0 + Quarters(b.y1 - b.y0 + Unit, b.regress[2])
      /\ r.x1 = b.x1 + Quarters(b.x1 - b.x0 + Unit, b.regress[3])
      /\ r.y1 = b.y1 + Quarters(b.y1 - b.y0 + Unit, b.regress[4])
  BY RegressedIs DEF Wide, High
<1>4. r.x0 \in Int /\ r.y0 \in Int /\ r.x1 \in Int /\ r.y1 \in Int
  BY <1>3 DEF Boxes
<1> HIDE DEF r
<1>5. /\ side \in Int
      /\ r.x1 - r.x0 + Unit <= side /\ r.y1 - r.y0 + Unit <= side
      /\ s \in Boxes
      /\ s.x0 = r.x0 + ((r.x1 - r.x0 + Unit) - side) \div 2
      /\ s.y0 = r.y0 + ((r.y1 - r.y0 + Unit) - side) \div 2
      /\ s.x1 = s.x0 + side - Unit
      /\ s.y1 = s.y0 + side - Unit
  BY <1>3, SquaredIs
<1>6. s.x0 \in Int /\ s.y0 \in Int
  BY <1>5 DEF Boxes
<1>7. SeenAxis(b.x0, b.x1, width * Unit) /\ SeenAxis(b.y0, b.y1, height * Unit)
  BY DEF Seen
<1>8. b.regress[1] \in -1..1 /\ b.regress[2] \in -1..1
      /\ b.regress[3] \in -1..1 /\ b.regress[4] \in -1..1
  BY ShiftsAre
<1> HIDE DEF side, s
<1>9. LookedAxis(s.x0, s.x0 + side - Unit, width * Unit)
  <2> DEFINE lo == b.x0
             hi == b.x1
             limit == width * Unit
             r0 == b.regress[1]
             r1 == b.regress[3]
             a == r.x0
             e == r.x1
             c == s.x0
  <2>1. /\ lo \in Int /\ hi \in Int /\ limit \in Int
        /\ r0 \in -1..1 /\ r1 \in -1..1 /\ side \in Int
        /\ SeenAxis(lo, hi, limit)
        /\ a \in Int /\ a = lo + Quarters(hi - lo + Unit, r0)
        /\ e \in Int /\ e = hi + Quarters(hi - lo + Unit, r1)
        /\ e - a + Unit <= side
        /\ c \in Int /\ c = a + ((e - a + Unit) - side) \div 2
    BY <1>0, <1>1, <1>3, <1>4, <1>5, <1>6, <1>7, <1>8
  <2> HIDE DEF lo, hi, limit, r0, r1, a, e, c
  <2>2. LookedAxis(c, c + side - Unit, limit)
    BY <2>1, SeenToLooked
  <2>3. QED
    BY <2>2 DEF c, limit
<1>10. LookedAxis(s.y0, s.y0 + side - Unit, height * Unit)
  <2> DEFINE lo == b.y0
             hi == b.y1
             limit == height * Unit
             r0 == b.regress[2]
             r1 == b.regress[4]
             a == r.y0
             e == r.y1
             c == s.y0
  <2>1. /\ lo \in Int /\ hi \in Int /\ limit \in Int
        /\ r0 \in -1..1 /\ r1 \in -1..1 /\ side \in Int
        /\ SeenAxis(lo, hi, limit)
        /\ a \in Int /\ a = lo + Quarters(hi - lo + Unit, r0)
        /\ e \in Int /\ e = hi + Quarters(hi - lo + Unit, r1)
        /\ e - a + Unit <= side
        /\ c \in Int /\ c = a + ((e - a + Unit) - side) \div 2
    BY <1>0, <1>1, <1>3, <1>4, <1>5, <1>6, <1>7, <1>8
  <2> HIDE DEF lo, hi, limit, r0, r1, a, e, c
  <2>2. LookedAxis(c, c + side - Unit, limit)
    BY <2>1, SeenToLooked
  <2>3. QED
    BY <2>2 DEF c, limit
<1>11. Looked(s)
  BY <1>5, <1>9, <1>10 DEF Looked
<1>12. QED
  BY <1>11 DEF s, r

\* What the last regression leaves.
LEMMA FinalLooked ==
    ASSUME SizesTypes, NEW b \in MarkedBoxes, Small(b.regress), Looked(b)
    PROVE  /\ EndsInOrder(Regressed(b))
           /\ Regressed(b).x0 <= width * Unit /\ 0 <= Regressed(b).x1
           /\ Regressed(b).y0 <= height * Unit /\ 0 <= Regressed(b).y1
<1>0. /\ Unit \in Nat \ {0} /\ width * Unit \in Int /\ height * Unit \in Int
  BY UnitAssumption DEF SizesTypes
<1>1. /\ b.x0 \in Int /\ b.y0 \in Int /\ b.x1 \in Int /\ b.y1 \in Int
      /\ b.regress \in Shifts
  BY DEF MarkedBoxes
<1> DEFINE r == Regressed(b)
<1>3. /\ r \in MarkedBoxes
      /\ r.x0 = b.x0 + Quarters(b.x1 - b.x0 + Unit, b.regress[1])
      /\ r.y0 = b.y0 + Quarters(b.y1 - b.y0 + Unit, b.regress[2])
      /\ r.x1 = b.x1 + Quarters(b.x1 - b.x0 + Unit, b.regress[3])
      /\ r.y1 = b.y1 + Quarters(b.y1 - b.y0 + Unit, b.regress[4])
  BY RegressedMarked DEF Wide, High
<1>4. r.x0 \in Int /\ r.y0 \in Int /\ r.x1 \in Int /\ r.y1 \in Int
  BY <1>3 DEF MarkedBoxes
<1> HIDE DEF r
<1>7. LookedAxis(b.x0, b.x1, width * Unit) /\ LookedAxis(b.y0, b.y1, height * Unit)
  BY DEF Looked
<1>8. b.regress[1] \in -1..1 /\ b.regress[2] \in -1..1
      /\ b.regress[3] \in -1..1 /\ b.regress[4] \in -1..1
  BY ShiftsAre
<1>9. r.x0 <= r.x1 /\ r.x0 <= width * Unit /\ 0 <= r.x1
  BY <1>0, <1>1, <1>3, <1>4, <1>7, <1>8, LookedToFace
<1>10. r.y0 <= r.y1 /\ r.y0 <= height * Unit /\ 0 <= r.y1
  BY <1>0, <1>1, <1>3, <1>4, <1>7, <1>8, LookedToFace
<1>11. QED
  BY <1>9, <1>10 DEF r, EndsInOrder

\* What the last regression leaves of a box that touches the image, however
\* far it moves: an end is out of it only where it was moved that way.
LEMMA FinalCut ==
    ASSUME SizesTypes, NEW b \in MarkedBoxes, Extent(b), Cut(b),
           NEW r, r = Regressed(b)
    PROVE  /\ r.x1 >= 0 \/ r.regress[3] < 0
           /\ r.x0 < (width + 1) * Unit \/ r.regress[1] > 0
           /\ r.y1 >= 0 \/ r.regress[4] < 0
           /\ r.y0 < (height + 1) * Unit \/ r.regress[2] > 0
<1>1. /\ b.x0 \in Int /\ b.y0 \in Int /\ b.x1 \in Int /\ b.y1 \in Int
      /\ b.regress[1] \in Int /\ b.regress[2] \in Int
      /\ b.regress[3] \in Int /\ b.regress[4] \in Int
  BY AnswersAssumption DEF MarkedBoxes
<1>2. /\ Wide(b) \in Nat /\ High(b) \in Nat
      /\ (width + 1) * Unit \in Int /\ (height + 1) * Unit \in Int
  BY <1>1, UnitAssumption DEF Wide, High, Extent, SizesTypes
<1>3. \A length \in Nat, n \in Int :
         /\ Quarters(length, n) \in Int
         /\ n >= 0 => Quarters(length, n) >= 0
         /\ n <= 0 => Quarters(length, n) <= 0
  <2> SUFFICES ASSUME NEW length \in Nat, NEW n \in Int
               PROVE  /\ Quarters(length, n) \in Int
                      /\ n >= 0 => Quarters(length, n) >= 0
                      /\ n <= 0 => Quarters(length, n) <= 0
    OBVIOUS
  <2>1. n >= 0 => length * n >= 0
    BY Product
  <2>2. n <= 0 => length * n <= 0
    <3>1. n <= 0 => /\ -n \in Nat
                    /\ length * (-n) \in Nat
                    /\ length * n = -(length * (-n))
      OBVIOUS
    <3>2. QED
      BY <3>1
  <2>3. length * n \in Int
    OBVIOUS
  <2> DEFINE x == length * n
  <2> HIDE DEF x
  <2>4. x \in Int => /\ x \div 4 \in Int
                     /\ x >= 0 => x \div 4 >= 0
                     /\ x <= 0 => x \div 4 <= 0
    OBVIOUS
  <2>5. QED
    BY <2>1, <2>2, <2>3, <2>4 DEF x, Quarters
<1>4. /\ r.regress = b.regress
      /\ r.x0 = b.x0 + Quarters(Wide(b), b.regress[1])
      /\ r.y0 = b.y0 + Quarters(High(b), b.regress[2])
      /\ r.x1 = b.x1 + Quarters(Wide(b), b.regress[3])
      /\ r.y1 = b.y1 + Quarters(High(b), b.regress[4])
  BY RegressedMarked
<1>5. /\ b.x0 < (width + 1) * Unit /\ 0 <= b.x1
      /\ b.y0 < (height + 1) * Unit /\ 0 <= b.y1
  BY DEF Cut
<1> DEFINE p1 == Quarters(Wide(b), b.regress[1])
           p2 == Quarters(High(b), b.regress[2])
           p3 == Quarters(Wide(b), b.regress[3])
           p4 == Quarters(High(b), b.regress[4])
<1>6. /\ p1 \in Int /\ (b.regress[1] <= 0 => p1 <= 0)
      /\ p2 \in Int /\ (b.regress[2] <= 0 => p2 <= 0)
      /\ p3 \in Int /\ (b.regress[3] >= 0 => p3 >= 0)
      /\ p4 \in Int /\ (b.regress[4] >= 0 => p4 >= 0)
  BY <1>1, <1>2, <1>3
<1>7. /\ r.x0 = b.x0 + p1 /\ r.y0 = b.y0 + p2
      /\ r.x1 = b.x1 + p3 /\ r.y1 = b.y1 + p4
  BY <1>4
<1> HIDE DEF p1, p2, p3, p4
<1>8. r.x1 >= 0 \/ r.regress[3] < 0
  BY <1>1, <1>4, <1>5, <1>6, <1>7
<1>9. r.x0 < (width + 1) * Unit \/ r.regress[1] > 0
  BY <1>1, <1>2, <1>4, <1>5, <1>6, <1>7
<1>10. r.y1 >= 0 \/ r.regress[4] < 0
  BY <1>1, <1>4, <1>5, <1>6, <1>7
<1>11. r.y0 < (height + 1) * Unit \/ r.regress[2] > 0
  BY <1>1, <1>2, <1>4, <1>5, <1>6, <1>7
<1>12. QED
  BY <1>8, <1>9, <1>10, <1>11

\* A cell of one axis as a box along it.
LEMMA CellIsFound ==
    ASSUME NEW a \in Nat, NEW b \in Nat, NEW m \in Nat,
           3 * b + a + 3 <= 4 * m, 11 <= b - a
    PROVE  /\ Unit * a \in Int /\ Unit * b \in Int
           /\ FoundAxis(Unit * a, Unit * b, m * Unit)
<1>0. Unit \in Nat \ {0}
  BY UnitAssumption
<1>1. /\ Unit * a \in Nat /\ Unit * b \in Nat /\ m * Unit \in Nat
      /\ Unit * a = a * Unit /\ Unit * b = b * Unit
  BY <1>0
<1>2. 3 * (b * Unit) + a * Unit + 3 * Unit <= 4 * (m * Unit)
  <2> DEFINE u == 3 * b + a + 3
             v == 4 * m
  <2>1. u \in Nat /\ v \in Nat /\ u <= v
    OBVIOUS
  <2>2. /\ u * Unit = 3 * (b * Unit) + a * Unit + 3 * Unit
        /\ v * Unit = 4 * (m * Unit)
    BY <1>0
  <2> HIDE DEF u, v
  <2>3. u * Unit <= v * Unit
    BY <1>0, <2>1, Product
  <2>4. QED
    BY <2>2, <2>3
<1>3. a * Unit + 11 * Unit <= b * Unit
  <2> DEFINE u == a + 11
  <2>1. u \in Nat /\ u <= b
    OBVIOUS
  <2>2. u * Unit = a * Unit + 11 * Unit
    BY <1>0
  <2> HIDE DEF u
  <2>3. u * Unit <= b * Unit
    BY <1>0, <2>1, Product
  <2>4. QED
    BY <2>2, <2>3
<1>4. QED
  BY <1>0, <1>1, <1>2, <1>3 DEF FoundAxis

\* What a window that has the size of the image in its scale is, as CellAxis
\* wants it.
LEMMA ScaledIs ==
    ASSUME SizesTypes, NEW s \in Quotients, NEW m \in Nat
    PROVE  /\ Scaled(m, s) \in Nat
           /\ Scaled(m, s) * ScaleDen(s) <= m * ScaleNum(s) + ScaleDen(s) - 1
<1> DEFINE n == ScaleNum(s)
           d == ScaleDen(s)
           a == m * n + d - 1
<1>1. n \in Nat \ {0} /\ d \in Nat \ {0}
  BY ScaleTypes
<1>2. Scaled(m, s) = a \div d
  BY DEF Scaled
<1> HIDE DEF n, d
<1>3. m * n \in Nat
  BY <1>1
<1>4. a \in Nat
  BY <1>1, <1>3
<1>5. a \div d \in Nat /\ (a \div d) * d <= a
  BY <1>1, <1>4, Quotient
<1>6. QED
  BY <1>2, <1>5 DEF n, d

\* No window is larger than the image.
LEMMA ScaleShrinks ==
    ASSUME NoMagnifying, SizesTypeOK, SizesTypes,
           NEW s \in Quotients, s.num <= s.den
    PROVE  ScaleNum(s) <= ScaleDen(s)
<1>1. /\ s.num \in Nat /\ s.den \in Nat /\ minSize \in Nat /\ 12 <= minSize
  BY DEF Quotients, SizesTypes, SizesTypeOK, NoMagnifying, Cell
<1>2. 12 * s.num <= 12 * s.den
  BY <1>1
<1>3. 12 * s.den <= minSize * s.den
  BY <1>1, Product
<1>4. 12 * s.num \in Nat /\ 12 * s.den \in Nat /\ minSize * s.den \in Nat
  BY <1>1
<1>5. QED
  BY <1>2, <1>3, <1>4 DEF ScaleNum, ScaleDen, Cell

\* What PNet finds.
LEMMA CellBoxFound ==
    ASSUME NoMagnifying, PyramidInv, WindowsScaled,
           NEW i \in DOMAIN list, NEW c \in CellsOf(list[i]),
           NEW score \in Scores, NEW regress \in Shifts
    PROVE  /\ CellBox(list[i], c[1], c[2], score, regress) \in Boxes
           /\ Found(CellBox(list[i], c[1], c[2], score, regress))
<1> DEFINE R == [h : Nat, w : Nat, scale : Quotients]
           s == list[i].scale
<1>1. SizesTypeOK /\ SizesTypes /\ Shrinking
  BY ShorterIsMin DEF PyramidInv
<1>2. list \in Seq(R) /\ width \in Nat /\ height \in Nat
  BY <1>1 DEF SizesTypeOK, SizesTypes
<1> HIDE DEF R
<1>3. list[i] \in R
  BY <1>2
<1>4. /\ s \in Quotients
      /\ list[i].w = Scaled(width, s)
      /\ list[i].h = Scaled(height, s)
      /\ s.num <= s.den
  BY <1>1, <1>3 DEF R, WindowsScaled, Shrinking
<1>5. /\ c[1] \in Nat /\ c[2] \in Nat
      /\ c[1] < FeatureSize(Scaled(width, s))
      /\ c[2] < FeatureSize(Scaled(height, s))
  BY <1>4, CellsAssumption DEF CellsOf
<1> DEFINE n == ScaleNum(s)
           d == ScaleDen(s)
           k == c[1]
           l == c[2]
           x0 == ((2 * k + 1) * d) \div n
           x1 == ((2 * k + Cell) * d) \div n
           y0 == ((2 * l + 1) * d) \div n
           y1 == ((2 * l + Cell) * d) \div n
           b == CellBox(list[i], c[1], c[2], score, regress)
<1>6. b = [x0 |-> Unit * x0, y0 |-> Unit * y0, x1 |-> Unit * x1, y1 |-> Unit * y1,
           score |-> score, regress |-> regress]
  BY DEF CellBox
<1>7. n \in Nat \ {0} /\ d \in Nat \ {0} /\ n <= d
  BY <1>1, <1>4, ScaleTypes, ScaleShrinks
<1>8. /\ Scaled(width, s) \in Nat /\ Scaled(width, s) * d <= width * n + d - 1
      /\ Scaled(height, s) \in Nat /\ Scaled(height, s) * d <= height * n + d - 1
  BY <1>1, <1>2, <1>4, ScaledIs
<1> HIDE DEF n, d, k, l, s
<1>9. /\ x0 \in Nat /\ x1 \in Nat
      /\ 3 * x1 + x0 + 3 <= 4 * width /\ 11 <= x1 - x0
  <2>1. k \in Nat /\ k < FeatureSize(Scaled(width, s))
    BY <1>5 DEF k
  <2>2. QED
    BY <1>2, <1>7, <1>8, <2>1, CellAxis
<1>10. /\ y0 \in Nat /\ y1 \in Nat
       /\ 3 * y1 + y0 + 3 <= 4 * height /\ 11 <= y1 - y0
  <2>1. l \in Nat /\ l < FeatureSize(Scaled(height, s))
    BY <1>5 DEF l
  <2>2. QED
    BY <1>2, <1>7, <1>8, <2>1, CellAxis
<1> HIDE DEF x0, x1, y0, y1, b
<1>11. /\ Unit * x0 \in Int /\ Unit * x1 \in Int
       /\ FoundAxis(Unit * x0, Unit * x1, width * Unit)
  BY <1>2, <1>9, CellIsFound
<1>12. /\ Unit * y0 \in Int /\ Unit * y1 \in Int
       /\ FoundAxis(Unit * y0, Unit * y1, height * Unit)
  BY <1>2, <1>10, CellIsFound
<1>13. b \in Boxes
  BY <1>6, <1>11, <1>12 DEF Boxes
<1>14. Found(b)
  BY <1>6, <1>11, <1>12 DEF Found
<1>15. QED
  BY <1>13, <1>14 DEF b
-----------------------------------------------------------------------------
(* What detect keeps, whatever the networks answer *)

\* Where it is.
StageInv ==
    /\ stage \in Stages
    /\ window \in 1..(Len(list) + 1)
    /\ lit \in 0..MaxLit
    /\ moved \in BOOLEAN
    /\ stage = "pyramid" => boxes = {}
    /\ stage # "done" => faces = {}

\* What a box is in every stage.
BoxIsRight(b) ==
    /\ stage \in {"pyramid", "pnet", "process_p"} => b \in Boxes /\ Extent(b)
    /\ stage \in {"rnet", "onet", "thrown"} => b \in Boxes /\ Square(b)
    /\ stage = "process_r" => b \in Boxes /\ Extent(b)
    /\ stage = "landmark" =>
        b \in MarkedBoxes /\ b.mark \in Marks /\ Square(b) /\ Extent(b) /\ Cut(b)
    /\ stage \in {"final", "done"} => b \in MarkedBoxes /\ Extent(b) /\ Cut(b)

BoxesInv == \A b \in boxes : BoxIsRight(b)

FacesInv ==
    /\ faces \subseteq Faces
    /\ FacesInFrame
    /\ NoneInsideAnother

CascadeInv ==
    /\ PyramidInv
    /\ WindowsScaled
    /\ StageInv
    /\ BoxesInv
    /\ FacesInv

\* What the steps of the cascade leave alone.
LEMMA SizesStay ==
    ASSUME CascadeInv, UNCHANGED sizeVars
    PROVE  /\ PyramidInv' /\ WindowsScaled'
           /\ SizesTypes /\ Len(list) \in Nat
           /\ UNCHANGED <<height, width, list>>
           /\ \A b : /\ (Cut(b)' <=> Cut(b)) /\ (Extent(b)' <=> Extent(b))
                     /\ (Square(b)' <=> Square(b))
           /\ Boxes' = Boxes /\ MarkedBoxes' = MarkedBoxes
<1>1. PyramidInv /\ WindowsScaled
  BY DEF CascadeInv
<1>2. PyramidInv'
  BY <1>1, PyramidKept
<1>3. WindowsScaled'
  BY <1>1 DEF WindowsScaled, sizeVars, Scaled, ScaleNum, ScaleDen
<1>4. SizesTypes /\ Len(list) \in Nat
  BY <1>1, ShorterIsMin DEF PyramidInv, SizesTypeOK
<1>5. height' = height /\ width' = width /\ list' = list
  BY DEF sizeVars
<1>6. \A b : /\ (Cut(b)' <=> Cut(b)) /\ (Extent(b)' <=> Extent(b))
             /\ (Square(b)' <=> Square(b))
  BY <1>5 DEF Cut, Extent, Square, High, Wide
<1>7. Boxes' = Boxes /\ MarkedBoxes' = MarkedBoxes
  BY DEF Boxes, MarkedBoxes
<1>8. QED
  BY <1>2, <1>3, <1>4, <1>5, <1>6, <1>7

\* And as long as no face is reported.
LEMMA FacesStay ==
    ASSUME FacesInv, UNCHANGED <<height, width, faces>>
    PROVE  FacesInv'
BY DEF FacesInv, FacesInFrame, NoneInsideAnother, EndsInOrder, Faces, MarkedBoxes

\* A stage whose boxes stay as they are.
LEMMA OnlyBoxesMatter ==
    ASSUME CascadeInv, UNCHANGED sizeVars, UNCHANGED faces,
           StageInv', BoxesInv'
    PROVE  CascadeInv'
<1>1. FacesInv
  BY DEF CascadeInv
<1>2. PyramidInv' /\ WindowsScaled' /\ UNCHANGED <<height, width, list>>
  BY SizesStay
<1>3. FacesInv'
  BY <1>1, <1>2, FacesStay
<1>4. QED
  BY <1>2, <1>3 DEF CascadeInv

\* Suppression only leaves boxes it was given, and none that cover each other.
LEMMA SuppressedIs ==
    ASSUME NEW some, NEW rule, NEW kept \in Suppressed(some, rule)
    PROVE  /\ kept \subseteq some
           /\ \A a, b \in kept : a # b => ~Over(rule, a, b)
BY DEF Suppressed

\* detect starts without a window, a box or a face.
LEMMA CascadeStarts == Init => CascadeInv
<1> SUFFICES ASSUME Init PROVE CascadeInv
  OBVIOUS
<1>1. PyramidInv
  BY PyramidInit DEF Init
<1>2. list = <<>>
  BY DEF Init, SizesInit
<1>3. WindowsScaled
  BY <1>2 DEF WindowsScaled
<1>4. StageInv
  <2>1. window \in 1..(Len(list) + 1) /\ lit \in 0..MaxLit
    BY <1>2, CellsAssumption DEF Init
  <2>2. stage \in Stages /\ moved \in BOOLEAN /\ boxes = {} /\ faces = {}
    BY DEF Init, Stages
  <2>3. QED
    BY <2>1, <2>2 DEF StageInv
<1>5. BoxesInv
  BY DEF BoxesInv, Init
<1>6. FacesInv
  BY DEF FacesInv, Init, FacesInFrame, NoneInsideAnother
<1>7. QED
  BY <1>1, <1>3, <1>4, <1>5, <1>6 DEF CascadeInv

\* A turn of the pyramid appends a window of the size it should have.
LEMMA PyramidTurnKeeps == CascadeInv /\ PyramidTurn => CascadeInv'
<1> SUFFICES ASSUME CascadeInv, PyramidTurn PROVE CascadeInv'
  OBVIOUS
<1>1. Turn /\ UNCHANGED <<stage, window, lit, boxes, faces, moved>> /\ stage = "pyramid"
  BY DEF PyramidTurn
<1>2. PyramidInv /\ WindowsScaled /\ StageInv /\ FacesInv
  BY DEF CascadeInv
<1>3. PyramidInv'
  BY <1>1, <1>2, PyramidTurns
<1> DEFINE R == [h : Nat, w : Nat, scale : Quotients]
           win == [h |-> Scaled(height, curScale), w |-> Scaled(width, curScale),
                   scale |-> curScale]
<1>4. /\ height' = height /\ width' = width /\ minSize' = minSize
      /\ list' = Append(list, win)
  BY <1>1 DEF Turn, Push
<1>5. list \in Seq(R) /\ list' \in Seq(R)
  BY <1>2, <1>3 DEF PyramidInv, SizesTypeOK
<1>6. win.h = Scaled(height, win.scale) /\ win.w = Scaled(width, win.scale)
  OBVIOUS
<1> HIDE DEF R, win
<1>7. /\ Len(list') = Len(list) + 1 /\ Len(list) \in Nat
      /\ \A i \in DOMAIN list' :
            (i \in DOMAIN list /\ list'[i] = list[i]) \/ list'[i] = win
  BY <1>4, <1>5
<1>8. WindowsScaled'
  <2>1. \A side, s : Scaled(side, s)' = Scaled(side, s)
    BY <1>4 DEF Scaled, ScaleNum, ScaleDen
  <2> SUFFICES ASSUME NEW i \in DOMAIN list'
               PROVE  /\ list'[i].h = Scaled(height, list'[i].scale)
                      /\ list'[i].w = Scaled(width, list'[i].scale)
    BY <1>4, <2>1 DEF WindowsScaled, Scaled, ScaleNum, ScaleDen
  <2>2. CASE i \in DOMAIN list /\ list'[i] = list[i]
    BY <1>2, <2>2 DEF WindowsScaled
  <2>3. CASE list'[i] = win
    BY <1>6, <2>3
  <2>4. QED
    BY <1>7, <2>2, <2>3
<1>9. StageInv'
  BY <1>1, <1>2, <1>7 DEF StageInv
<1>10. BoxesInv'
  BY <1>1, <1>2 DEF StageInv, BoxesInv
<1>11. FacesInv'
  BY <1>1, <1>2, <1>4, FacesStay
<1>12. QED
  BY <1>3, <1>8, <1>9, <1>10, <1>11 DEF CascadeInv

\* PNet starts with no box.
LEMMA PyramidDoneKeeps == CascadeInv /\ PyramidDone => CascadeInv'
<1> SUFFICES ASSUME CascadeInv, PyramidDone PROVE CascadeInv'
  OBVIOUS
<1>1. /\ UNCHANGED sizeVars /\ UNCHANGED <<window, lit, boxes, faces, moved>>
      /\ stage = "pyramid" /\ stage' = "pnet"
  BY DEF PyramidDone
<1>2. StageInv /\ BoxesInv
  BY DEF CascadeInv
<1>3. UNCHANGED <<height, width, list>> /\ Boxes' = Boxes
      /\ \A b : (Extent(b)' <=> Extent(b)) /\ (Square(b)' <=> Square(b))
  BY <1>1, SizesStay
<1>4. StageInv'
  BY <1>1, <1>2, <1>3 DEF StageInv, Stages
<1>5. BoxesInv'
  BY <1>1, <1>2, <1>3 DEF BoxesInv, BoxIsRight
<1>6. QED
  BY <1>1, <1>4, <1>5, OnlyBoxesMatter

\* After the last window the boxes are still as PNet found them.
LEMMA WindowsDoneKeeps == CascadeInv /\ WindowsDone => CascadeInv'
<1> SUFFICES ASSUME CascadeInv, WindowsDone PROVE CascadeInv'
  OBVIOUS
<1>1. /\ UNCHANGED sizeVars /\ UNCHANGED <<window, lit, boxes, faces, moved>>
      /\ stage = "pnet" /\ stage' = "process_p"
  BY DEF WindowsDone
<1>2. StageInv /\ BoxesInv
  BY DEF CascadeInv
<1>3. UNCHANGED <<height, width, list>> /\ Boxes' = Boxes
      /\ \A b : (Extent(b)' <=> Extent(b)) /\ (Square(b)' <=> Square(b))
  BY <1>1, SizesStay
<1>4. StageInv'
  BY <1>1, <1>2, <1>3 DEF StageInv, Stages
<1>5. BoxesInv'
  BY <1>1, <1>2, <1>3 DEF BoxesInv, BoxIsRight
<1>6. QED
  BY <1>1, <1>4, <1>5, OnlyBoxesMatter

\* When a patch cannot be cut the boxes stay as they are.
LEMMA PatchFailsKeeps == CascadeInv /\ PatchFails => CascadeInv'
<1> SUFFICES ASSUME CascadeInv, PatchFails PROVE CascadeInv'
  OBVIOUS
<1>1. /\ UNCHANGED sizeVars /\ UNCHANGED <<window, lit, boxes, faces, moved>>
      /\ stage \in {"rnet", "onet"} /\ stage' = "thrown"
  BY DEF PatchFails
<1>2. StageInv /\ BoxesInv
  BY DEF CascadeInv
<1>3. UNCHANGED <<height, width, list>> /\ Boxes' = Boxes
      /\ \A b : (Extent(b)' <=> Extent(b)) /\ (Square(b)' <=> Square(b))
  BY <1>1, SizesStay
<1>4. StageInv'
  BY <1>1, <1>2, <1>3 DEF StageInv, Stages
<1>5. BoxesInv'
  BY <1>1, <1>2, <1>3 DEF BoxesInv, BoxIsRight
<1>6. QED
  BY <1>1, <1>4, <1>5, OnlyBoxesMatter

\* A cell has an extent.
LEMMA CellHasExtent ==
    ASSUME PyramidInv, NEW i \in DOMAIN list, NEW c \in CellsOf(list[i]),
           NEW score \in Scores, NEW regress \in Shifts
    PROVE  /\ CellBox(list[i], c[1], c[2], score, regress) \in Boxes
           /\ Extent(CellBox(list[i], c[1], c[2], score, regress))
           /\ CellBox(list[i], c[1], c[2], score, regress).regress = regress
<1> DEFINE R == [h : Nat, w : Nat, scale : Quotients]
           s == list[i].scale
<1>1. SizesTypeOK /\ SizesTypes
  BY ShorterIsMin DEF PyramidInv
<1>2. list \in Seq(R)
  BY <1>1 DEF SizesTypeOK
<1> HIDE DEF R
<1>3. list[i] \in R
  BY <1>2
<1>4. s \in Quotients
  BY <1>3 DEF R
<1> DEFINE n == ScaleNum(s)
           d == ScaleDen(s)
           k == c[1]
           l == c[2]
           x0 == ((2 * k + 1) * d) \div n
           x1 == ((2 * k + Cell) * d) \div n
           y0 == ((2 * l + 1) * d) \div n
           y1 == ((2 * l + Cell) * d) \div n
           b == CellBox(list[i], c[1], c[2], score, regress)
<1>5. b = [x0 |-> Unit * x0, y0 |-> Unit * y0, x1 |-> Unit * x1, y1 |-> Unit * y1,
           score |-> score, regress |-> regress]
  BY DEF CellBox
<1>6. n \in Nat \ {0} /\ d \in Nat \ {0}
  BY <1>1, <1>4, ScaleTypes
<1>7. k \in Nat /\ l \in Nat
  BY CellsAssumption DEF CellsOf
<1> HIDE DEF n, d, k, l, s, b
<1>8. \A m \in Nat : /\ ((2 * m + 1) * d) \div n \in Nat
                     /\ ((2 * m + Cell) * d) \div n \in Nat
                     /\ ((2 * m + 1) * d) \div n <= ((2 * m + Cell) * d) \div n
  <2> SUFFICES ASSUME NEW m \in Nat
               PROVE  /\ ((2 * m + 1) * d) \div n \in Nat
                      /\ ((2 * m + Cell) * d) \div n \in Nat
                      /\ ((2 * m + 1) * d) \div n <= ((2 * m + Cell) * d) \div n
    OBVIOUS
  <2> DEFINE u == 2 * m + 1
             v == 2 * m + Cell
  <2>1. u \in Nat /\ v \in Nat /\ u <= v
    BY DEF Cell
  <2> HIDE DEF u, v
  <2>2. u * d \in Nat /\ v * d \in Nat /\ u * d <= v * d
    BY <1>6, <2>1, Product
  <2> DEFINE f == u * d
             g == v * d
  <2>3. f \in Nat /\ g \in Nat /\ f <= g
    BY <2>2
  <2> HIDE DEF f, g
  <2>4. f \div n \in Nat /\ g \div n \in Nat /\ (f \div n) * n <= f
    BY <1>6, <2>3, Quotient
  <2> DEFINE h == f \div n
  <2>5. h \in Nat /\ h * n <= g
    BY <1>6, <2>3, <2>4
  <2> HIDE DEF h
  <2>6. h <= g \div n
    BY <1>6, <2>3, <2>5, QuotientAbove
  <2>7. QED
    BY <2>4, <2>6 DEF h, f, g, u, v
<1>9. /\ x0 \in Nat /\ x1 \in Nat /\ x0 <= x1
      /\ y0 \in Nat /\ y1 \in Nat /\ y0 <= y1
  BY <1>7, <1>8
<1> HIDE DEF x0, x1, y0, y1
<1>10. /\ Unit \in Nat \ {0}
       /\ Unit * x0 \in Int /\ Unit * x1 \in Int /\ Unit * x0 <= Unit * x1
       /\ Unit * y0 \in Int /\ Unit * y1 \in Int /\ Unit * y0 <= Unit * y1
  <2>1. Unit \in Nat \ {0}
    BY UnitAssumption
  <2>2. \A z \in Nat : Unit * z = z * Unit /\ Unit * z \in Nat
    BY <2>1
  <2>3. x0 * Unit <= x1 * Unit /\ y0 * Unit <= y1 * Unit
    BY <1>9, <2>1, Product
  <2>4. QED
    BY <1>9, <2>1, <2>2, <2>3
<1>11. b \in Boxes /\ b.regress = regress
  BY <1>5, <1>10 DEF Boxes
<1>12. Extent(b)
  <2>1. /\ High(b) = Unit * y1 - Unit * y0 + Unit
        /\ Wide(b) = Unit * x1 - Unit * x0 + Unit
    BY <1>5 DEF High, Wide
  <2>2. QED
    BY <1>10, <2>1 DEF Extent
<1>13. QED
  BY <1>11, <1>12 DEF b

\* The boxes PNet adds are cells of the window, with a shift of Shifts.
LEMMA PNetAdds ==
    ASSUME CascadeInv, RunPNet, NEW b \in boxes'
    PROVE  \/ b \in boxes
           \/ \E c \in CellsOf(list[window]), score \in Scores, regress \in Shifts :
                 b = CellBox(list[window], c[1], c[2], score, regress)
<1> DEFINE Good == {s \in Scores : s >= PNetThreshold} \X Shifts
           Cells(cells, answer) ==
               {CellBox(list[window], c[1], c[2], answer[c][1], answer[c][2]) :
                   c \in cells}
<1>1. PICK n \in 0..(MaxLit - lit) :
         \E cells \in kSubset(n, CellsOf(list[window])) :
            \E answer \in [cells -> Good] :
                \E kept \in Suppressed(Cells(cells, answer), PNetRule) :
                    boxes' = boxes \cup kept
  BY DEF RunPNet
<1>2. PICK cells \in kSubset(n, CellsOf(list[window])) :
            \E answer \in [cells -> Good] :
                \E kept \in Suppressed(Cells(cells, answer), PNetRule) :
                    boxes' = boxes \cup kept
  BY <1>1
<1>3. PICK answer \in [cells -> Good] :
            \E kept \in Suppressed(Cells(cells, answer), PNetRule) :
                boxes' = boxes \cup kept
  BY <1>2
<1>4. PICK kept \in Suppressed(Cells(cells, answer), PNetRule) :
            boxes' = boxes \cup kept
  BY <1>3
<1>5. cells \subseteq CellsOf(list[window])
  BY DEF kSubset
<1>6. kept \subseteq Cells(cells, answer)
  BY SuppressedIs
<1>7. CASE b \in Cells(cells, answer)
  <2>1. PICK c \in cells :
            b = CellBox(list[window], c[1], c[2], answer[c][1], answer[c][2])
    BY <1>7
  <2>2. answer[c][1] \in Scores /\ answer[c][2] \in Shifts
    BY DEF Good
  <2>3. c \in CellsOf(list[window])
    BY <1>5
  <2>4. QED
    BY <2>1, <2>2, <2>3
<1>8. QED
  BY <1>4, <1>6, <1>7

\* The boxes of one more window have an extent.
LEMMA RunPNetKeeps == CascadeInv /\ RunPNet => CascadeInv'
<1> SUFFICES ASSUME CascadeInv, RunPNet PROVE CascadeInv'
  OBVIOUS
<1>1. /\ UNCHANGED sizeVars /\ UNCHANGED <<stage, faces>>
      /\ stage = "pnet" /\ window \in DOMAIN list /\ window' = window + 1
      /\ moved' \in BOOLEAN
      /\ \E n \in 0..(MaxLit - lit) : lit' = lit + n
  BY DEF RunPNet, NoteMoves
<1>2. PyramidInv /\ StageInv /\ BoxesInv
  BY DEF CascadeInv
<1>3. /\ UNCHANGED <<height, width, list>> /\ Len(list) \in Nat /\ Boxes' = Boxes
      /\ \A b : Extent(b)' <=> Extent(b)
  BY <1>1, SizesStay
<1>4. StageInv'
  <2>1. lit' \in 0..MaxLit
    BY <1>1, <1>2, CellsAssumption DEF StageInv
  <2>2. window' \in 1..(Len(list') + 1)
    <3>1. \A i \in DOMAIN list : i \in 1..Len(list)
      BY <1>2 DEF PyramidInv, SizesTypeOK
    <3>2. QED
      BY <1>1, <1>3, <3>1
  <2>3. QED
    BY <1>1, <1>2, <2>1, <2>2 DEF StageInv
<1>5. BoxesInv'
  <2> SUFFICES ASSUME NEW b \in boxes' PROVE BoxIsRight(b)'
    BY DEF BoxesInv
  <2>1. CASE b \in boxes
    BY <1>1, <1>2, <1>3, <2>1 DEF BoxesInv, BoxIsRight
  <2>2. CASE \E c \in CellsOf(list[window]), score \in Scores, regress \in Shifts :
                b = CellBox(list[window], c[1], c[2], score, regress)
    <3>1. b \in Boxes /\ Extent(b)
      BY <1>1, <1>2, <2>2, CellHasExtent
    <3>2. QED
      BY <1>1, <1>3, <3>1 DEF BoxIsRight
  <2>3. QED
    BY <2>1, <2>2, PNetAdds
<1>6. QED
  BY <1>1, <1>4, <1>5, OnlyBoxesMatter

\* What process_boxes makes of some boxes: squares of moved ones.
LEMMA ProcessMakes ==
    ASSUME Process, NEW b \in boxes'
    PROVE  \E c \in boxes : b = Squared(Regressed(c))
<1>1. PICK kept \in Suppressed(boxes, ProcessRule) :
          boxes' = {Squared(Regressed(c)) : c \in kept}
  BY DEF Process, Processed
<1>2. kept \subseteq boxes
  BY SuppressedIs
<1>3. QED
  BY <1>1, <1>2

\* process_boxes passes on squares.
LEMMA ProcessKeeps == CascadeInv /\ Process => CascadeInv'
<1> SUFFICES ASSUME CascadeInv, Process PROVE CascadeInv'
  OBVIOUS
<1>1. /\ UNCHANGED sizeVars /\ UNCHANGED <<window, lit, faces, moved>>
      /\ stage \in {"process_p", "process_r"}
      /\ stage' = IF boxes' = {} THEN "done"
                  ELSE IF stage = "process_p" THEN "rnet" ELSE "onet"
  BY DEF Process
<1>2. StageInv /\ BoxesInv
  BY DEF CascadeInv
<1>3. /\ UNCHANGED <<height, width, list>> /\ Boxes' = Boxes
      /\ \A b : Square(b)' <=> Square(b)
  BY <1>1, SizesStay
<1>4. StageInv'
  <2>1. stage' \in {"rnet", "onet", "done"} /\ faces = {}
    BY <1>1, <1>2 DEF StageInv
  <2>2. QED
    BY <1>1, <1>2, <1>3, <2>1 DEF StageInv, Stages
<1>5. BoxesInv'
  <2> SUFFICES ASSUME NEW b \in boxes' PROVE BoxIsRight(b)'
    BY DEF BoxesInv
  <2>1. PICK c \in boxes : b = Squared(Regressed(c))
    BY ProcessMakes
  <2>2. c \in Boxes
    BY <1>1, <1>2 DEF BoxesInv, BoxIsRight
  <2>3. b \in Boxes /\ Square(b)
    BY <2>1, <2>2, ProcessSquares
  <2>4. stage' \in {"rnet", "onet"}
    BY <1>1
  <2>5. QED
    BY <1>3, <2>3, <2>4 DEF BoxIsRight
<1>6. QED
  BY <1>1, <1>4, <1>5, OnlyBoxesMatter

\* What RNet leaves: boxes it was given, with another score and shift.
LEMMA RNetGives ==
    ASSUME RunRNet, NEW b \in boxes'
    PROVE  \E c \in boxes, answer \in Scores \X Shifts : b = Answered(c, answer)
<1>1. PICK seen \in SUBSET boxes :
          \E answer \in [seen -> {s \in Scores : s > RNetThreshold} \X Shifts] :
              boxes' = {Answered(c, answer[c]) : c \in seen}
  BY DEF RunRNet
<1>2. PICK answer \in [seen -> {s \in Scores : s > RNetThreshold} \X Shifts] :
          boxes' = {Answered(c, answer[c]) : c \in seen}
  BY <1>1
<1>3. PICK c \in seen : b = Answered(c, answer[c])
  BY <1>2
<1>4. answer[c] \in Scores \X Shifts /\ c \in boxes
  BY <1>2
<1>5. QED
  BY <1>3, <1>4

\* RNet leaves the ends of a box.
LEMMA AnsweredIs ==
    ASSUME NEW c \in Boxes, NEW answer \in Scores \X Shifts,
           NEW b, b = Answered(c, answer)
    PROVE  /\ b \in Boxes /\ b.regress = answer[2]
           /\ b.x0 = c.x0 /\ b.y0 = c.y0 /\ b.x1 = c.x1 /\ b.y1 = c.y1
BY DEF Answered, Boxes

\* What RNet has answered for could be cut out of the image.
LEMMA RunRNetKeeps == CascadeInv /\ RunRNet => CascadeInv'
<1> SUFFICES ASSUME CascadeInv, RunRNet PROVE CascadeInv'
  OBVIOUS
<1>1. /\ UNCHANGED sizeVars /\ UNCHANGED <<window, lit, faces>>
      /\ stage = "rnet" /\ stage' = "process_r"
      /\ moved' \in BOOLEAN
      /\ \A b \in boxes : ~Reversed(b)
  BY DEF RunRNet, NoteMoves
<1>2. StageInv /\ BoxesInv
  BY DEF CascadeInv
<1>3. /\ UNCHANGED <<height, width, list>> /\ Boxes' = Boxes /\ SizesTypes
      /\ \A b : Extent(b)' <=> Extent(b)
  BY <1>1, SizesStay
<1>4. StageInv'
  BY <1>1, <1>2, <1>3 DEF StageInv, Stages
<1>5. BoxesInv'
  <2> SUFFICES ASSUME NEW b \in boxes' PROVE BoxIsRight(b)'
    BY DEF BoxesInv
  <2>1. PICK c \in boxes, answer \in Scores \X Shifts : b = Answered(c, answer)
    BY RNetGives
  <2>2. c \in Boxes /\ Square(c)
    BY <1>1, <1>2 DEF BoxesInv, BoxIsRight
  <2>3. Extent(c)
    BY <1>1, <1>3, <2>2, CutIs
  <2>4. /\ b \in Boxes
        /\ b.x0 = c.x0 /\ b.y0 = c.y0 /\ b.x1 = c.x1 /\ b.y1 = c.y1
    BY <2>1, <2>2, AnsweredIs
  <2>5. Extent(b)
    BY <2>3, <2>4 DEF Extent, High, Wide
  <2>6. QED
    BY <1>1, <1>3, <2>4, <2>5 DEF BoxIsRight
<1>6. QED
  BY <1>1, <1>4, <1>5, OnlyBoxesMatter

\* What ONet leaves: boxes it was given, with marks.
LEMMA ONetGives ==
    ASSUME RunONet, NEW b \in boxes'
    PROVE  \E c \in boxes, answer \in Scores \X Shifts, mark \in Marks :
               b = Marked(c, answer, mark)
<1>1. PICK seen \in SUBSET boxes, mark \in Marks :
          \E answer \in [seen -> {s \in Scores : s > LastThreshold} \X Shifts] :
              boxes' = {Marked(c, answer[c], mark) : c \in seen}
  BY DEF RunONet
<1>2. PICK answer \in [seen -> {s \in Scores : s > LastThreshold} \X Shifts] :
          boxes' = {Marked(c, answer[c], mark) : c \in seen}
  BY <1>1
<1>3. PICK c \in seen : b = Marked(c, answer[c], mark)
  BY <1>2
<1>4. answer[c] \in Scores \X Shifts /\ c \in boxes
  BY <1>2
<1>5. QED
  BY <1>3, <1>4

\* ONet leaves the ends of a box, too.
LEMMA MarkedIs ==
    ASSUME NEW c \in Boxes, NEW answer \in Scores \X Shifts, NEW mark \in Marks,
           NEW b, b = Marked(c, answer, mark)
    PROVE  /\ b \in MarkedBoxes /\ b.regress = answer[2] /\ b.mark = mark
           /\ b.x0 = c.x0 /\ b.y0 = c.y0 /\ b.x1 = c.x1 /\ b.y1 = c.y1
<1>1. /\ c.x0 \in Int /\ c.y0 \in Int /\ c.x1 \in Int /\ c.y1 \in Int
      /\ answer[1] \in Scores /\ answer[2] \in Shifts /\ mark \in Int \X Int
  BY AnswersAssumption DEF Boxes
<1>2. QED
  BY <1>1 DEF Marked, MarkedBoxes

\* So could what ONet has answered for.
LEMMA RunONetKeeps == CascadeInv /\ RunONet => CascadeInv'
<1> SUFFICES ASSUME CascadeInv, RunONet PROVE CascadeInv'
  OBVIOUS
<1>1. /\ UNCHANGED sizeVars /\ UNCHANGED <<window, lit, faces>>
      /\ stage = "onet" /\ stage' = "landmark"
      /\ moved' \in BOOLEAN
      /\ \A b \in boxes : ~Reversed(b)
  BY DEF RunONet, NoteMoves
<1>2. StageInv /\ BoxesInv
  BY DEF CascadeInv
<1>3. /\ UNCHANGED <<height, width, list>> /\ SizesTypes
      /\ MarkedBoxes' = MarkedBoxes
      /\ \A b : /\ (Cut(b)' <=> Cut(b)) /\ (Extent(b)' <=> Extent(b))
                /\ (Square(b)' <=> Square(b))
  BY <1>1, SizesStay
<1>4. StageInv'
  BY <1>1, <1>2, <1>3 DEF StageInv, Stages
<1>5. BoxesInv'
  <2> SUFFICES ASSUME NEW b \in boxes' PROVE BoxIsRight(b)'
    BY DEF BoxesInv
  <2>1. PICK c \in boxes, answer \in Scores \X Shifts, mark \in Marks :
            b = Marked(c, answer, mark)
    BY ONetGives
  <2>2. c \in Boxes /\ Square(c)
    BY <1>1, <1>2 DEF BoxesInv, BoxIsRight
  <2>3. Extent(c) /\ Cut(c)
    BY <1>1, <1>3, <2>2, CutIs
  <2>4. /\ b \in MarkedBoxes /\ b.mark = mark
        /\ b.x0 = c.x0 /\ b.y0 = c.y0 /\ b.x1 = c.x1 /\ b.y1 = c.y1
    BY <2>1, <2>2, MarkedIs
  <2>5. Square(b) /\ Extent(b) /\ Cut(b)
    BY <2>2, <2>3, <2>4 DEF Square, Extent, High, Wide, Cut
  <2>6. QED
    BY <1>1, <1>3, <2>4, <2>5 DEF BoxIsRight
<1>6. QED
  BY <1>1, <1>4, <1>5, OnlyBoxesMatter

\* The mark of a box in the image.
InPlace(b) ==
    [b EXCEPT !.mark = <<b.x0 + Quarters(High(b), @[1]) - Unit,
                         b.y0 + Quarters(Wide(b), @[2]) - Unit>>]

\* What Landmark makes of a box.
LEMMA InPlaceIs ==
    ASSUME NEW b \in MarkedBoxes, b.mark \in Marks
    PROVE  /\ InPlace(b) \in MarkedBoxes /\ InPlace(b).regress = b.regress
           /\ InPlace(b).x0 = b.x0 /\ InPlace(b).y0 = b.y0
           /\ InPlace(b).x1 = b.x1 /\ InPlace(b).y1 = b.y1
           /\ InPlace(b).mark[1] = b.x0 + Quarters(High(b), b.mark[1]) - Unit
           /\ InPlace(b).mark[2] = b.y0 + Quarters(Wide(b), b.mark[2]) - Unit
<1> DEFINE m == <<b.x0 + Quarters(High(b), b.mark[1]) - Unit,
                  b.y0 + Quarters(Wide(b), b.mark[2]) - Unit>>
<1>1. /\ b.x0 \in Int /\ b.y0 \in Int /\ b.x1 \in Int /\ b.y1 \in Int
      /\ b.mark[1] \in Int /\ b.mark[2] \in Int
  BY AnswersAssumption DEF MarkedBoxes
<1>2. High(b) \in Int /\ Wide(b) \in Int
  BY <1>1, UnitAssumption DEF High, Wide
<1>3. Quarters(High(b), b.mark[1]) \in Int /\ Quarters(Wide(b), b.mark[2]) \in Int
  <2>1. \A x, y \in Int : (x * y) \div 4 \in Int
    OBVIOUS
  <2>2. QED
    BY <1>1, <1>2, <2>1 DEF Quarters
<1>4. m \in Int \X Int
  BY <1>1, <1>3, UnitAssumption
<1>5. InPlace(b) = [b EXCEPT !.mark = m]
  BY DEF InPlace, MarkedBoxes
<1>6. /\ m[1] = b.x0 + Quarters(High(b), b.mark[1]) - Unit
      /\ m[2] = b.y0 + Quarters(Wide(b), b.mark[2]) - Unit
  OBVIOUS
<1> HIDE DEF m
<1>7. QED
  BY <1>4, <1>5, <1>6 DEF MarkedBoxes

\* What Landmark does, with a name for it.
LEMMA LandmarkIs ==
    ASSUME Landmark
    PROVE  /\ UNCHANGED sizeVars /\ UNCHANGED <<window, lit, faces, moved>>
           /\ stage = "landmark" /\ stage' = "final"
           /\ boxes' = {InPlace(b) : b \in boxes}
BY DEF Landmark, InPlace

\* Putting the marks in place leaves the ends of a box.
LEMMA LandmarkKeeps == CascadeInv /\ Landmark => CascadeInv'
<1> SUFFICES ASSUME CascadeInv, Landmark PROVE CascadeInv'
  OBVIOUS
<1>1. /\ UNCHANGED sizeVars /\ UNCHANGED <<window, lit, faces, moved>>
      /\ stage = "landmark" /\ stage' = "final"
      /\ boxes' = {InPlace(b) : b \in boxes}
  BY LandmarkIs
<1>2. StageInv /\ BoxesInv
  BY DEF CascadeInv
<1>3. /\ UNCHANGED <<height, width, list>> /\ MarkedBoxes' = MarkedBoxes
      /\ \A b : (Cut(b)' <=> Cut(b)) /\ (Extent(b)' <=> Extent(b))
  BY <1>1, SizesStay
<1>4. StageInv'
  BY <1>1, <1>2, <1>3 DEF StageInv, Stages
<1>5. BoxesInv'
  <2> SUFFICES ASSUME NEW b \in boxes' PROVE BoxIsRight(b)'
    BY DEF BoxesInv
  <2>1. PICK c \in boxes : b = InPlace(c)
    BY <1>1
  <2>2. c \in MarkedBoxes /\ c.mark \in Marks /\ Extent(c) /\ Cut(c)
    BY <1>1, <1>2 DEF BoxesInv, BoxIsRight
  <2>3. /\ b \in MarkedBoxes
        /\ b.x0 = c.x0 /\ b.y0 = c.y0 /\ b.x1 = c.x1 /\ b.y1 = c.y1
    BY <2>1, <2>2, InPlaceIs
  <2>4. Extent(b) /\ Cut(b)
    BY <2>2, <2>3 DEF Extent, High, Wide, Cut
  <2>5. QED
    BY <1>1, <1>3, <2>3, <2>4 DEF BoxIsRight
<1>6. QED
  BY <1>1, <1>4, <1>5, OnlyBoxesMatter

\* Two boxes none of which is covered by the other do not lie in each other.
LEMMA ApartIsNotInside ==
    ASSUME NEW a \in MarkedBoxes, NEW b \in MarkedBoxes, EndsInOrder(b),
           ~Over(FinalRule, a, b)
    PROVE  ~ (/\ a.x0 <= b.x0 /\ b.x1 <= a.x1
              /\ a.y0 <= b.y0 /\ b.y1 <= a.y1)
BY InsideIsCovered DEF MarkedBoxes, EndsInOrder

\* What Final reports: moved boxes turned round, none of which covers another.
LEMMA FinalReports ==
    ASSUME Final
    PROVE  \E kept : /\ faces' = {Swapped(b) : b \in kept}
                     /\ kept \subseteq {Regressed(b) : b \in boxes}
                     /\ \A a, b \in kept : a # b => ~Over(FinalRule, a, b)
<1>1. PICK kept \in Suppressed({Regressed(b) : b \in boxes}, FinalRule) :
          faces' = {Swapped(b) : b \in kept}
  BY DEF Final
<1>2. QED
  BY <1>1, SuppressedIs

\* A box for the frame as it was given.
LEMMA SwappedIs ==
    ASSUME NEW b \in MarkedBoxes
    PROVE  /\ Swapped(b) \in Faces /\ Swapped(b).regress = b.regress
           /\ Swapped(b).x0 = b.y0 /\ Swapped(b).y0 = b.x0
           /\ Swapped(b).x1 = b.y1 /\ Swapped(b).y1 = b.x1
BY DEF Swapped, Faces, MarkedBoxes

\* The faces are the last boxes, regressed, turned round, and none in another.
LEMMA FinalKeeps == CascadeInv /\ Final => CascadeInv'
<1> SUFFICES ASSUME CascadeInv, Final PROVE CascadeInv'
  OBVIOUS
<1>1. /\ UNCHANGED sizeVars /\ UNCHANGED <<window, lit, boxes, moved>>
      /\ stage = "final" /\ stage' = "done"
  BY DEF Final
<1>2. StageInv /\ BoxesInv
  BY DEF CascadeInv
<1>3. /\ PyramidInv' /\ WindowsScaled' /\ UNCHANGED <<height, width, list>>
      /\ SizesTypes /\ MarkedBoxes' = MarkedBoxes
      /\ \A b : (Cut(b)' <=> Cut(b)) /\ (Extent(b)' <=> Extent(b))
  BY <1>1, SizesStay
<1>4. PICK kept : /\ faces' = {Swapped(b) : b \in kept}
                  /\ kept \subseteq {Regressed(b) : b \in boxes}
                  /\ \A a, b \in kept : a # b => ~Over(FinalRule, a, b)
  BY FinalReports
<1>5. \A b \in boxes : b \in MarkedBoxes /\ Extent(b) /\ Cut(b)
  BY <1>1, <1>2 DEF BoxesInv, BoxIsRight
<1>6. \A b \in kept : b \in MarkedBoxes
  BY <1>4, <1>5, RegressedMarked
<1>7. StageInv'
  BY <1>1, <1>2, <1>3 DEF StageInv, Stages
<1>8. BoxesInv'
  BY <1>1, <1>3, <1>5 DEF BoxesInv, BoxIsRight
<1>9. faces' \subseteq Faces
  BY <1>4, <1>6, SwappedIs
<1>10. FacesInFrame'
  <2> SUFFICES ASSUME NEW b \in kept
               PROVE  LET f == Swapped(b)
                      IN  /\ f.x1 >= 0 \/ f.regress[4] < 0
                          /\ f.x0 < (height + 1) * Unit \/ f.regress[2] > 0
                          /\ f.y1 >= 0 \/ f.regress[3] < 0
                          /\ f.y0 < (width + 1) * Unit \/ f.regress[1] > 0
    BY <1>3, <1>4 DEF FacesInFrame
  <2>1. PICK c \in boxes : b = Regressed(c)
    BY <1>4
  <2>2. /\ b.x1 >= 0 \/ b.regress[3] < 0
        /\ b.x0 < (width + 1) * Unit \/ b.regress[1] > 0
        /\ b.y1 >= 0 \/ b.regress[4] < 0
        /\ b.y0 < (height + 1) * Unit \/ b.regress[2] > 0
    BY <1>3, <1>5, <2>1, FinalCut
  <2>3. QED
    BY <1>6, <2>2, SwappedIs
<1>11. NoneInsideAnother'
  <2> SUFFICES ASSUME NEW a \in kept, NEW b \in kept, Swapped(a) # Swapped(b),
                      EndsInOrder(Swapped(b))
               PROVE  ~ (/\ Swapped(a).x0 <= Swapped(b).x0
                         /\ Swapped(b).x1 <= Swapped(a).x1
                         /\ Swapped(a).y0 <= Swapped(b).y0
                         /\ Swapped(b).y1 <= Swapped(a).y1)
    BY <1>4 DEF NoneInsideAnother, EndsInOrder
  <2>1. a # b /\ ~Over(FinalRule, a, b) /\ a \in MarkedBoxes /\ b \in MarkedBoxes
    BY <1>4, <1>6
  <2>2. EndsInOrder(b)
    BY <2>1, SwappedIs DEF EndsInOrder
  <2>3. ~ (/\ a.x0 <= b.x0 /\ b.x1 <= a.x1
           /\ a.y0 <= b.y0 /\ b.y1 <= a.y1)
    BY <2>1, <2>2, ApartIsNotInside
  <2>4. QED
    BY <2>1, <2>3, SwappedIs
<1>12. FacesInv'
  BY <1>9, <1>10, <1>11 DEF FacesInv, Faces, MarkedBoxes
<1>13. QED
  BY <1>3, <1>7, <1>8, <1>12 DEF CascadeInv

\* Other steps do nothing.
LEMMA StutterKeeps == CascadeInv /\ UNCHANGED vars => CascadeInv'
<1> SUFFICES ASSUME CascadeInv, UNCHANGED vars PROVE CascadeInv'
  OBVIOUS
<1>1. UNCHANGED sizeVars /\ UNCHANGED <<stage, window, lit, boxes, faces, moved>>
  BY DEF vars
<1>2. StageInv /\ BoxesInv
  BY DEF CascadeInv
<1>3. /\ UNCHANGED <<height, width, list>>
      /\ Boxes' = Boxes /\ MarkedBoxes' = MarkedBoxes
      /\ \A b : /\ (Cut(b)' <=> Cut(b)) /\ (Extent(b)' <=> Extent(b))
                /\ (Square(b)' <=> Square(b))
  BY <1>1, SizesStay
<1>4. StageInv'
  BY <1>1, <1>2, <1>3 DEF StageInv
<1>5. BoxesInv'
  BY <1>1, <1>2, <1>3 DEF BoxesInv, BoxIsRight
<1>6. QED
  BY <1>1, <1>4, <1>5, OnlyBoxesMatter

\* CascadeInv is inductive.
LEMMA CascadeStep == CascadeInv /\ [Next]_vars => CascadeInv'
BY PyramidTurnKeeps, PyramidDoneKeeps, RunPNetKeeps, WindowsDoneKeeps,
   ProcessKeeps, PatchFailsKeeps, RunRNetKeeps, RunONetKeeps, LandmarkKeeps,
   FinalKeeps, StutterKeeps DEF Next, Done

\* detect keeps it, whatever the networks answer.
LEMMA CascadeAlways == Spec => []CascadeInv
BY CascadeStarts, CascadeStep, PTL DEF Spec

-----------------------------------------------------------------------------
(* What it reports, whatever the networks answer *)

\* The invariant holds the types.
LEMMA CascadeTypes == CascadeInv => TypeOK
<1> SUFFICES ASSUME CascadeInv PROVE TypeOK
  OBVIOUS
<1>1. SizesTypeOK /\ StageInv /\ BoxesInv /\ faces \subseteq Faces
  BY DEF CascadeInv, PyramidInv, FacesInv
<1> DEFINE Last == {"landmark", "final", "done"}
<1>2. \A b \in boxes :
         /\ stage \in Last => b \in MarkedBoxes
         /\ stage \notin Last => b \in Boxes
         /\ stage \notin {"rnet", "onet", "thrown"} => Extent(b)
  BY <1>1 DEF BoxesInv, BoxIsRight, StageInv, Stages
<1>3. boxes \subseteq IF stage \in Last THEN MarkedBoxes ELSE Boxes
  BY <1>2
<1>4. stage \notin {"rnet", "onet", "thrown"} =>
         \A b \in boxes : High(b) > 0 /\ Wide(b) > 0
  BY <1>2 DEF Extent
<1>5. QED
  BY <1>1, <1>3, <1>4 DEF TypeOK, StageInv

\* Types of the detector, and what a network has answered for has an extent,
\* however far boxes are moved: a box that has none does not get past the cut
\* of its patch.
THEOREM DetectorTypes == Spec => []TypeOK
BY CascadeAlways, CascadeTypes, PTL

\* No face that is reported lies in another one: the last suppression takes
\* the smaller one for the same face.
THEOREM NoFaceTwice == Spec => []NoneInsideAnother
<1>1. CascadeInv => NoneInsideAnother
  BY DEF CascadeInv, FacesInv
<1>2. QED
  BY <1>1, CascadeAlways, PTL

\* An end of a face is out of the frame only where ONet moved it that way: a
\* box PNet or RNet moved out of the image does not get past the cut.
THEOREM FacesAreInFrame == Spec => []FacesInFrame
<1>1. CascadeInv => FacesInFrame
  BY DEF CascadeInv, FacesInv
<1>2. QED
  BY <1>1, CascadeAlways, PTL

\* The patch of a square that has pixels.
LEMMA PatchIsInside ==
    ASSUME SizesTypes, NEW b \in Boxes, Square(b), HasPixels(b)
    PROVE  /\ Patch(b).rows \subseteq 0..(height - 1)
           /\ Patch(b).columns \subseteq 0..(width - 1)
           /\ Distance(Patch(b).high, Patch(b).wide) <= 2
<1>0. Unit \in Nat \ {0} /\ height \in Nat /\ width \in Nat
  BY UnitAssumption DEF SizesTypes
<1>1. b.x0 \in Int /\ b.y0 \in Int /\ b.x1 \in Int /\ b.y1 \in Int
  BY DEF Boxes
<1> DEFINE x0 == Larger(b.x0, Unit)
           y0 == Larger(b.y0, Unit)
           x1 == Smaller(b.x1, width * Unit)
           y1 == Smaller(b.y1, height * Unit)
           high == Pixels(y1) - Pixels(y0) + Pixels(Distance(y0, b.y0))
                     + Pixels(Distance(y1, b.y1))
           wide == Pixels(x1) - Pixels(x0) + Pixels(Distance(x0, b.x0))
                     + Pixels(Distance(x1, b.x1))
<1>2. /\ Patch(b).rows = Pixels(y0)..(Pixels(y1) - 1)
      /\ Patch(b).columns = Pixels(x0)..(Pixels(x1) - 1)
      /\ Patch(b).high = high /\ Patch(b).wide = wide
  BY DEF Patch, Padded
<1>3. /\ Pixels(x0) \in Int /\ Pixels(x1) \in Int
      /\ Pixels(y0) \in Int /\ Pixels(y1) \in Int
  <2>1. x0 \in Int /\ x1 \in Int /\ y0 \in Int /\ y1 \in Int
    BY <1>0, <1>1 DEF Larger, Smaller
  <2> HIDE DEF x0, x1, y0, y1
  <2>2. QED
    BY <1>0, <2>1, QuotientOfInt DEF Pixels
<1>4. Pixels(x0) < Pixels(x1) /\ Pixels(y0) < Pixels(y1)
  <2>1. Pixels(x0)..(Pixels(x1) - 1) # {} /\ Pixels(y0)..(Pixels(y1) - 1) # {}
    BY <1>2 DEF HasPixels
  <2> HIDE DEF x0, x1, y0, y1
  <2>2. QED
    BY <1>3, <2>1
<1>5. /\ Pixels(x0) \in Nat /\ Pixels(x1) \in Nat /\ Pixels(x1) <= width
      /\ wide \in Int
      /\ b.x1 - b.x0 - 2 * Unit < wide * Unit
      /\ wide * Unit < b.x1 - b.x0 + Unit
  BY <1>0, <1>1, <1>4, PatchAxis
<1>6. /\ Pixels(y0) \in Nat /\ Pixels(y1) \in Nat /\ Pixels(y1) <= height
      /\ high \in Int
      /\ b.y1 - b.y0 - 2 * Unit < high * Unit
      /\ high * Unit < b.y1 - b.y0 + Unit
  BY <1>0, <1>1, <1>4, PatchAxis
<1> HIDE DEF x0, x1, y0, y1, high, wide
<1>7. /\ Patch(b).rows \subseteq 0..(height - 1)
      /\ Patch(b).columns \subseteq 0..(width - 1)
  <2>1. \A m, n, k \in Nat : n <= k => m..(n - 1) \subseteq 0..(k - 1)
    OBVIOUS
  <2>2. /\ Pixels(y0)..(Pixels(y1) - 1) \subseteq 0..(height - 1)
        /\ Pixels(x0)..(Pixels(x1) - 1) \subseteq 0..(width - 1)
    BY <1>0, <1>5, <1>6, <2>1
  <2>3. QED
    BY <1>2, <2>2
<1>8. Distance(high, wide) <= 2
  <2> DEFINE l == b.x1 - b.x0 + Unit
  <2>1. l \in Int /\ l = b.y1 - b.y0 + Unit
    BY <1>0, <1>1 DEF Square, High, Wide
  <2>2. high * Unit \in Int /\ wide * Unit \in Int
    BY <1>0, <1>5, <1>6
  <2>3. /\ l - 3 * Unit < high * Unit /\ high * Unit < l
        /\ l - 3 * Unit < wide * Unit /\ wide * Unit < l
    BY <1>0, <1>1, <1>5, <1>6, <2>1, <2>2
  <2> HIDE DEF l
  <2>4. QED
    BY <1>5, <1>6, <2>1, <2>3, TwoLines
<1>9. QED
  BY <1>2, <1>7, <1>8

\* Wherever the networks moved a box, only a part the image has is cut out of
\* it, and unless there is none the patch is a square but for two lines, for
\* every image and MinFaceSize.
THEOREM PatchesAreInside == Spec => []PatchesInside
<1>1. CascadeInv => PatchesInside
  <2> SUFFICES ASSUME CascadeInv, stage \in {"rnet", "onet"},
                      NEW b \in boxes, HasPixels(b)
               PROVE  /\ Patch(b).rows \subseteq 0..(height - 1)
                      /\ Patch(b).columns \subseteq 0..(width - 1)
                      /\ Distance(Patch(b).high, Patch(b).wide) <= 2
    BY DEF PatchesInside
  <2>1. b \in Boxes /\ Square(b)
    BY DEF CascadeInv, BoxesInv, BoxIsRight
  <2>2. SizesTypes
    BY ShorterIsMin DEF CascadeInv, PyramidInv
  <2>3. QED
    BY <2>1, <2>2, PatchIsInside
<1>2. QED
  BY <1>1, CascadeAlways, PTL

\* A mark along one side of its box.
LEMMA MarkIsInside ==
    ASSUME NEW length \in Nat, NEW n \in 0..4
    PROVE  Quarters(length, n) \in Int /\ 0 <= Quarters(length, n)
           /\ Quarters(length, n) <= length
<1>1. n = 0 \/ n = 1 \/ n = 2 \/ n = 3 \/ n = 4
  OBVIOUS
<1>2. length * n \in Nat /\ length * n <= 4 * length
  BY <1>1
<1>3. QED
  BY <1>2 DEF Quarters

\* The eyes, nose and mouth of a face lie in the box ONet looked at, although
\* height and width are exchanged when they are put in place.
THEOREM MarksAreInBox ==
    ASSUME InnerMarks
    PROVE  Spec => []MarksInBox
<1>1. Init => MarksInBox
  BY DEF Init, MarksInBox
<1>2. CascadeInv /\ MarksInBox /\ [Next]_vars => MarksInBox'
  <2> SUFFICES ASSUME CascadeInv, MarksInBox, [Next]_vars, stage' = "final"
               PROVE  \A b \in boxes' :
                        /\ b.x0 - Unit <= b.mark[1] /\ b.mark[1] <= b.x1
                        /\ b.y0 - Unit <= b.mark[2] /\ b.mark[2] <= b.y1
    BY DEF MarksInBox
  <2>1. CASE Landmark
    <3> SUFFICES ASSUME NEW b \in boxes
                 PROVE  LET c == InPlace(b)
                        IN  /\ c.x0 - Unit <= c.mark[1] /\ c.mark[1] <= c.x1
                            /\ c.y0 - Unit <= c.mark[2] /\ c.mark[2] <= c.y1
      BY <2>1, LandmarkIs
    <3>1. b \in MarkedBoxes /\ b.mark \in Marks /\ Square(b) /\ Extent(b)
      BY <2>1, LandmarkIs DEF CascadeInv, BoxesInv, BoxIsRight
    <3>2. /\ b.x0 \in Int /\ b.y0 \in Int /\ b.x1 \in Int /\ b.y1 \in Int
          /\ b.mark[1] \in 0..4 /\ b.mark[2] \in 0..4
          /\ Unit \in Nat
      BY <3>1, InnerMarks, UnitAssumption DEF MarkedBoxes, InnerMarks
    <3>3. /\ High(b) \in Nat /\ Wide(b) = High(b)
          /\ High(b) = b.x1 - b.x0 + Unit /\ High(b) = b.y1 - b.y0 + Unit
      BY <3>1, <3>2 DEF Extent, Square, High, Wide
    <3> DEFINE p == Quarters(High(b), b.mark[1])
               q == Quarters(Wide(b), b.mark[2])
    <3>4. p \in Int /\ 0 <= p /\ p <= High(b)
      BY <3>2, <3>3, MarkIsInside
    <3>5. q \in Int /\ 0 <= q /\ q <= High(b)
      BY <3>2, <3>3, MarkIsInside
    <3>6. /\ InPlace(b).x0 = b.x0 /\ InPlace(b).y0 = b.y0
          /\ InPlace(b).x1 = b.x1 /\ InPlace(b).y1 = b.y1
          /\ InPlace(b).mark[1] = b.x0 + p - Unit
          /\ InPlace(b).mark[2] = b.y0 + q - Unit
      BY <3>1, InPlaceIs
    <3> HIDE DEF p, q
    <3>7. QED
      BY <3>2, <3>3, <3>4, <3>5, <3>6
  <2>2. CASE UNCHANGED <<stage, boxes>>
    BY <2>2 DEF MarksInBox
  <2>3. QED
    BY <2>1, <2>2 DEF Next, vars, PyramidTurn, PyramidDone, RunPNet, WindowsDone,
       Process, PatchFails, RunRNet, RunONet, Final, Done
<1>3. QED
  BY <1>1, <1>2, CascadeAlways, PTL DEF Spec

-----------------------------------------------------------------------------
(* What detect keeps as long as the networks move no end by more than a      *)
(* quarter *)

\* How far a box may be out of the image in every stage.
BoxIsNear(b) ==
    /\ stage \in {"pyramid", "pnet", "process_p"} => Small(b.regress) /\ Found(b)
    /\ stage = "rnet" => Seen(b)
    /\ stage = "process_r" => Small(b.regress) /\ Seen(b)
    /\ stage = "onet" => Looked(b)
    /\ stage \in {"landmark", "final"} => Small(b.regress) /\ Looked(b)
    /\ stage = "done" => Looked(b)

FaceIsNear(f) ==
    /\ EndsInOrder(f)
    /\ f.x1 >= 0 /\ f.x0 <= height * Unit
    /\ f.y1 >= 0 /\ f.y0 <= width * Unit

SmallInv ==
    ~moved => /\ stage # "thrown"
              /\ \A b \in boxes : BoxIsNear(b)
              /\ \A f \in faces : FaceIsNear(f)

\* A box RNet or ONet is given, along one side of the image.
PatchableAxis(lo, hi, limit) ==
    /\ lo <= limit - Unit
    /\ 2 * Unit <= limit
    /\ 2 * Unit <= hi
    /\ hi - lo + Unit >= 3 * Unit

\* What Seen and Looked say is enough for it.
LEMMA PatchableIs ==
    ASSUME SizesTypes, NEW b \in Boxes, Seen(b) \/ Looked(b)
    PROVE  HasPixels(b) /\ ~Reversed(b)
<1>1. /\ b.x0 \in Int /\ b.y0 \in Int /\ b.x1 \in Int /\ b.y1 \in Int
      /\ Unit \in Nat \ {0} /\ width * Unit \in Int /\ height * Unit \in Int
  BY UnitAssumption DEF SizesTypes, Boxes
<1>2. Seen(b) => /\ PatchableAxis(b.x0, b.x1, width * Unit)
                 /\ PatchableAxis(b.y0, b.y1, height * Unit)
  BY <1>1 DEF Seen, SeenAxis, PatchableAxis
<1>3. Looked(b) => /\ PatchableAxis(b.x0, b.x1, width * Unit)
                   /\ PatchableAxis(b.y0, b.y1, height * Unit)
  BY <1>1 DEF Looked, LookedAxis, PatchableAxis
<1>4. /\ PatchableAxis(b.x0, b.x1, width * Unit)
      /\ PatchableAxis(b.y0, b.y1, height * Unit)
  BY <1>2, <1>3
<1> DEFINE x0 == Larger(b.x0, Unit)
           y0 == Larger(b.y0, Unit)
           x1 == Smaller(b.x1, width * Unit)
           y1 == Smaller(b.y1, height * Unit)
<1>5. width \in Nat /\ height \in Nat
  BY DEF SizesTypes
<1>6. Pixels(x0) \in Int /\ Pixels(x1) \in Int /\ Pixels(x0) < Pixels(x1)
  BY <1>1, <1>4, <1>5, PatchHasPixels DEF PatchableAxis
<1>7. Pixels(y0) \in Int /\ Pixels(y1) \in Int /\ Pixels(y0) < Pixels(y1)
  BY <1>1, <1>4, <1>5, PatchHasPixels DEF PatchableAxis
<1>8. Patch(b).rows = Pixels(y0)..(Pixels(y1) - 1)
      /\ Patch(b).columns = Pixels(x0)..(Pixels(x1) - 1)
  BY DEF Patch, Padded
<1>9. Reversed(b) <=> Pixels(y1) < Pixels(y0) \/ Pixels(x1) < Pixels(x0)
  BY DEF Reversed, Padded
<1> HIDE DEF x0, x1, y0, y1
<1>10. HasPixels(b)
  <2>1. Pixels(y0) \in Pixels(y0)..(Pixels(y1) - 1)
    BY <1>7
  <2>2. Pixels(x0) \in Pixels(x0)..(Pixels(x1) - 1)
    BY <1>6
  <2>3. QED
    BY <1>8, <2>1, <2>2 DEF HasPixels
<1>11. ~Reversed(b)
  BY <1>6, <1>7, <1>9
<1>12. QED
  BY <1>10, <1>11

\* A history that sees no far move now has seen none, and every box has a
\* small shift.
LEMMA NotMoved ==
    ASSUME NoteMoves, ~moved'
    PROVE  ~moved /\ \A b \in boxes' : Small(b.regress)
BY DEF NoteMoves

\* What is near stays near when only the stage changes.
LEMMA NearStays ==
    ASSUME UNCHANGED <<height, width>>
    PROVE  /\ \A b : /\ (Small(b.regress)' <=> Small(b.regress))
                     /\ (Found(b)' <=> Found(b)) /\ (Seen(b)' <=> Seen(b))
                     /\ (Looked(b)' <=> Looked(b))
           /\ \A f : FaceIsNear(f)' <=> FaceIsNear(f)
BY DEF Small, Found, Seen, Looked, FaceIsNear, EndsInOrder

\* PNet finds no box far out.
LEMMA RunPNetSmall == NoMagnifying /\ CascadeInv /\ SmallInv /\ RunPNet => SmallInv'
<1> SUFFICES ASSUME NoMagnifying, CascadeInv, SmallInv, RunPNet, ~moved'
             PROVE  SmallInv'
  BY DEF SmallInv
<1>1. /\ UNCHANGED sizeVars /\ UNCHANGED <<stage, faces>> /\ NoteMoves
      /\ stage = "pnet" /\ window \in DOMAIN list
  BY DEF RunPNet
<1>2. /\ ~moved /\ \A b \in boxes' : Small(b.regress)
  BY <1>1, NotMoved
<1>3. UNCHANGED <<height, width>> /\ PyramidInv /\ WindowsScaled
  BY <1>1, SizesStay DEF CascadeInv
<1>4. \A b \in boxes' : Found(b)
  <2> SUFFICES ASSUME NEW b \in boxes' PROVE Found(b)
    OBVIOUS
  <2>1. CASE b \in boxes
    BY <1>1, <1>2, <2>1 DEF SmallInv, BoxIsNear
  <2>2. CASE \E c \in CellsOf(list[window]), score \in Scores, regress \in Shifts :
                b = CellBox(list[window], c[1], c[2], score, regress)
    BY <1>1, <1>3, <2>2, CellBoxFound
  <2>3. QED
    BY <2>1, <2>2, PNetAdds
<1>5. \A b \in boxes' : BoxIsNear(b)'
  BY <1>1, <1>2, <1>3, <1>4, NearStays DEF BoxIsNear
<1>6. \A f \in faces' : FaceIsNear(f)'
  BY <1>1, <1>2, <1>3, NearStays DEF SmallInv
<1>7. QED
  BY <1>1, <1>5, <1>6 DEF SmallInv

\* process_boxes passes on what the next network may look at.
LEMMA ProcessSmall == CascadeInv /\ SmallInv /\ Process => SmallInv'
<1> SUFFICES ASSUME CascadeInv, SmallInv, Process, ~moved'
             PROVE  SmallInv'
  BY DEF SmallInv
<1>1. /\ UNCHANGED sizeVars /\ UNCHANGED <<faces, moved>>
      /\ stage \in {"process_p", "process_r"}
      /\ stage' = IF boxes' = {} THEN "done"
                  ELSE IF stage = "process_p" THEN "rnet" ELSE "onet"
  BY DEF Process
<1>2. ~moved
  BY <1>1
<1>3. UNCHANGED <<height, width>> /\ SizesTypes /\ BoxesInv
  BY <1>1, SizesStay DEF CascadeInv
<1>4. \A b \in boxes' : BoxIsNear(b)'
  <2> SUFFICES ASSUME NEW b \in boxes' PROVE BoxIsNear(b)'
    OBVIOUS
  <2>1. PICK c \in boxes : b = Squared(Regressed(c))
    BY ProcessMakes
  <2>2. c \in Boxes /\ BoxIsNear(c)
    BY <1>1, <1>2, <1>3 DEF BoxesInv, BoxIsRight, SmallInv
  <2>3. CASE stage = "process_p"
    <3>1. Small(c.regress) /\ Found(c)
      BY <2>2, <2>3 DEF BoxIsNear
    <3>2. Seen(b)
      BY <1>3, <2>1, <2>2, <3>1, ProcessFound
    <3>3. stage' = "rnet"
      BY <1>1, <2>3
    <3>4. QED
      BY <1>3, <3>2, <3>3, NearStays DEF BoxIsNear
  <2>4. CASE stage = "process_r"
    <3>1. Small(c.regress) /\ Seen(c)
      BY <2>2, <2>4 DEF BoxIsNear
    <3>2. Looked(b)
      BY <1>3, <2>1, <2>2, <3>1, ProcessSeen
    <3>3. stage' = "onet"
      BY <1>1, <2>4
    <3>4. QED
      BY <1>3, <3>2, <3>3, NearStays DEF BoxIsNear
  <2>5. QED
    BY <1>1, <2>3, <2>4
<1>5. \A f \in faces' : FaceIsNear(f)'
  BY <1>1, <1>2, <1>3, NearStays DEF SmallInv
<1>6. stage' # "thrown"
  BY <1>1
<1>7. QED
  BY <1>4, <1>5, <1>6 DEF SmallInv

\* No patch fails.
LEMMA PatchFailsSmall == CascadeInv /\ SmallInv /\ PatchFails => SmallInv'
<1> SUFFICES ASSUME CascadeInv, SmallInv, PatchFails, ~moved
             PROVE  FALSE
  BY DEF SmallInv, PatchFails
<1>1. PICK b \in boxes : Reversed(b) \/ ~HasPixels(b)
  BY DEF PatchFails
<1>2. stage \in {"rnet", "onet"}
  BY DEF PatchFails
<1>3. b \in Boxes
  BY <1>2 DEF CascadeInv, BoxesInv, BoxIsRight
<1>4. Seen(b) \/ Looked(b)
  BY <1>2 DEF SmallInv, BoxIsNear
<1>5. SizesTypes
  BY ShorterIsMin DEF CascadeInv, PyramidInv
<1>6. QED
  BY <1>1, <1>3, <1>4, <1>5, PatchableIs

\* RNet leaves the ends of a box.
LEMMA RunRNetSmall == CascadeInv /\ SmallInv /\ RunRNet => SmallInv'
<1> SUFFICES ASSUME CascadeInv, SmallInv, RunRNet, ~moved'
             PROVE  SmallInv'
  BY DEF SmallInv
<1>1. /\ UNCHANGED sizeVars /\ UNCHANGED faces /\ NoteMoves
      /\ stage = "rnet" /\ stage' = "process_r"
  BY DEF RunRNet
<1>2. /\ ~moved /\ \A b \in boxes' : Small(b.regress)
  BY <1>1, NotMoved
<1>3. UNCHANGED <<height, width>> /\ BoxesInv
  BY <1>1, SizesStay DEF CascadeInv
<1>4. \A b \in boxes' : Seen(b)
  <2> SUFFICES ASSUME NEW b \in boxes' PROVE Seen(b)
    OBVIOUS
  <2>1. PICK c \in boxes, answer \in Scores \X Shifts : b = Answered(c, answer)
    BY RNetGives
  <2>2. c \in Boxes /\ Seen(c)
    BY <1>1, <1>2, <1>3 DEF BoxesInv, BoxIsRight, SmallInv, BoxIsNear
  <2>3. b.x0 = c.x0 /\ b.y0 = c.y0 /\ b.x1 = c.x1 /\ b.y1 = c.y1
    BY <2>1, <2>2, AnsweredIs
  <2>4. QED
    BY <2>2, <2>3 DEF Seen
<1>5. \A b \in boxes' : BoxIsNear(b)'
  BY <1>1, <1>2, <1>3, <1>4, NearStays DEF BoxIsNear
<1>6. \A f \in faces' : FaceIsNear(f)'
  BY <1>1, <1>2, <1>3, NearStays DEF SmallInv
<1>7. QED
  BY <1>1, <1>5, <1>6 DEF SmallInv

\* So does ONet.
LEMMA RunONetSmall == CascadeInv /\ SmallInv /\ RunONet => SmallInv'
<1> SUFFICES ASSUME CascadeInv, SmallInv, RunONet, ~moved'
             PROVE  SmallInv'
  BY DEF SmallInv
<1>1. /\ UNCHANGED sizeVars /\ UNCHANGED faces /\ NoteMoves
      /\ stage = "onet" /\ stage' = "landmark"
  BY DEF RunONet
<1>2. /\ ~moved /\ \A b \in boxes' : Small(b.regress)
  BY <1>1, NotMoved
<1>3. UNCHANGED <<height, width>> /\ BoxesInv
  BY <1>1, SizesStay DEF CascadeInv
<1>4. \A b \in boxes' : Looked(b)
  <2> SUFFICES ASSUME NEW b \in boxes' PROVE Looked(b)
    OBVIOUS
  <2>1. PICK c \in boxes, answer \in Scores \X Shifts, mark \in Marks :
            b = Marked(c, answer, mark)
    BY ONetGives
  <2>2. c \in Boxes /\ Looked(c)
    BY <1>1, <1>2, <1>3 DEF BoxesInv, BoxIsRight, SmallInv, BoxIsNear
  <2>3. b.x0 = c.x0 /\ b.y0 = c.y0 /\ b.x1 = c.x1 /\ b.y1 = c.y1
    BY <2>1, <2>2, MarkedIs
  <2>4. QED
    BY <2>2, <2>3 DEF Looked
<1>5. \A b \in boxes' : BoxIsNear(b)'
  BY <1>1, <1>2, <1>3, <1>4, NearStays DEF BoxIsNear
<1>6. \A f \in faces' : FaceIsNear(f)'
  BY <1>1, <1>2, <1>3, NearStays DEF SmallInv
<1>7. QED
  BY <1>1, <1>5, <1>6 DEF SmallInv

\* And so do the marks.
LEMMA LandmarkSmall == CascadeInv /\ SmallInv /\ Landmark => SmallInv'
<1> SUFFICES ASSUME CascadeInv, SmallInv, Landmark, ~moved'
             PROVE  SmallInv'
  BY DEF SmallInv
<1>1. /\ UNCHANGED sizeVars /\ UNCHANGED <<faces, moved>>
      /\ stage = "landmark" /\ stage' = "final"
      /\ boxes' = {InPlace(b) : b \in boxes}
  BY LandmarkIs
<1>2. ~moved
  BY <1>1
<1>3. UNCHANGED <<height, width>> /\ BoxesInv
  BY <1>1, SizesStay DEF CascadeInv
<1>4. \A b \in boxes' : Small(b.regress) /\ Looked(b)
  <2> SUFFICES ASSUME NEW c \in boxes
               PROVE  Small(InPlace(c).regress) /\ Looked(InPlace(c))
    BY <1>1
  <2>1. c \in MarkedBoxes /\ c.mark \in Marks /\ Small(c.regress) /\ Looked(c)
    BY <1>1, <1>2, <1>3 DEF BoxesInv, BoxIsRight, SmallInv, BoxIsNear
  <2>2. QED
    BY <2>1, InPlaceIs DEF Looked
<1>5. \A b \in boxes' : BoxIsNear(b)'
  BY <1>1, <1>3, <1>4, NearStays DEF BoxIsNear
<1>6. \A f \in faces' : FaceIsNear(f)'
  BY <1>1, <1>2, <1>3, NearStays DEF SmallInv
<1>7. QED
  BY <1>1, <1>5, <1>6 DEF SmallInv

\* The faces show a part of the frame.
LEMMA FinalSmall == CascadeInv /\ SmallInv /\ Final => SmallInv'
<1> SUFFICES ASSUME CascadeInv, SmallInv, Final, ~moved'
             PROVE  SmallInv'
  BY DEF SmallInv
<1>1. /\ UNCHANGED sizeVars /\ UNCHANGED <<boxes, moved>>
      /\ stage = "final" /\ stage' = "done"
  BY DEF Final
<1>2. ~moved
  BY <1>1
<1>3. UNCHANGED <<height, width>> /\ SizesTypes /\ BoxesInv
  BY <1>1, SizesStay DEF CascadeInv
<1>4. \A b \in boxes : b \in MarkedBoxes /\ Small(b.regress) /\ Looked(b)
  BY <1>1, <1>2, <1>3 DEF BoxesInv, BoxIsRight, SmallInv, BoxIsNear
<1>5. \A b \in boxes' : BoxIsNear(b)'
  BY <1>1, <1>3, <1>4, NearStays DEF BoxIsNear
<1>6. PICK kept : /\ faces' = {Swapped(b) : b \in kept}
                  /\ kept \subseteq {Regressed(b) : b \in boxes}
  BY FinalReports
<1>7. \A f \in faces' : FaceIsNear(f)'
  <2> SUFFICES ASSUME NEW c \in boxes PROVE FaceIsNear(Swapped(Regressed(c)))
    BY <1>3, <1>6, NearStays
  <2>1. Regressed(c) \in MarkedBoxes
    BY <1>4, RegressedMarked
  <2>2. /\ EndsInOrder(Regressed(c))
        /\ Regressed(c).x0 <= width * Unit /\ 0 <= Regressed(c).x1
        /\ Regressed(c).y0 <= height * Unit /\ 0 <= Regressed(c).y1
    BY <1>3, <1>4, FinalLooked
  <2> DEFINE r == Regressed(c)
  <2> HIDE DEF r
  <2>3. /\ Swapped(r).x0 = r.y0 /\ Swapped(r).y0 = r.x0
        /\ Swapped(r).x1 = r.y1 /\ Swapped(r).y1 = r.x1
        /\ r.x1 \in Int /\ r.y1 \in Int
    BY <2>1, SwappedIs DEF r, MarkedBoxes
  <2>4. FaceIsNear(Swapped(r))
    BY <2>2, <2>3 DEF r, FaceIsNear, EndsInOrder
  <2>5. QED
    BY <2>4 DEF r
<1>8. QED
  BY <1>1, <1>5, <1>7 DEF SmallInv

\* The other steps leave the boxes and the faces.
LEMMA OthersSmall ==
    ASSUME CascadeInv, SmallInv,
           PyramidTurn \/ PyramidDone \/ WindowsDone \/ UNCHANGED vars
    PROVE  SmallInv'
<1>1. /\ UNCHANGED <<height, width>> /\ UNCHANGED <<boxes, faces, moved>>
      /\ \/ stage' = stage
         \/ stage = "pyramid" /\ stage' = "pnet"
         \/ stage = "pnet" /\ stage' = "process_p"
  BY DEF PyramidTurn, PyramidDone, WindowsDone, vars, sizeVars, Turn
<1> SUFFICES ASSUME ~moved PROVE SmallInv'
  BY <1>1 DEF SmallInv
<1>2. \A b \in boxes' : BoxIsNear(b)'
  BY <1>1, NearStays DEF SmallInv, BoxIsNear
<1>3. \A f \in faces' : FaceIsNear(f)'
  BY <1>1, NearStays DEF SmallInv
<1>4. stage' # "thrown"
  BY <1>1 DEF SmallInv
<1>5. QED
  BY <1>2, <1>3, <1>4 DEF SmallInv

\* Boxes of every kind have their ends in order.
LEMMA NearIsInOrder ==
    ASSUME NEW b, b \in Boxes \cup MarkedBoxes, Found(b) \/ Seen(b) \/ Looked(b)
    PROVE  EndsInOrder(b)
<1>1. b.x0 \in Int /\ b.y0 \in Int /\ b.x1 \in Int /\ b.y1 \in Int
  BY DEF Boxes, MarkedBoxes
<1>2. Unit \in Nat \ {0}
  BY UnitAssumption
<1>3. CASE Found(b)
  BY <1>1, <1>2, <1>3 DEF Found, FoundAxis, EndsInOrder
<1>4. CASE Seen(b)
  BY <1>1, <1>2, <1>4 DEF Seen, SeenAxis, EndsInOrder
<1>5. CASE Looked(b)
  BY <1>1, <1>2, <1>5 DEF Looked, LookedAxis, EndsInOrder
<1>6. QED
  BY <1>3, <1>4, <1>5

\* What is near is safe.
LEMMA NearIsSafe == CascadeInv /\ SmallInv => SmallMovesAreSafe
<1> SUFFICES ASSUME CascadeInv, SmallInv, ~moved PROVE SmallMovesAreSafe
  BY DEF SmallMovesAreSafe
<1>1. SizesTypes /\ BoxesInv /\ stage \in Stages
  BY ShorterIsMin DEF CascadeInv, PyramidInv, StageInv
<1>2. \A b \in boxes : /\ b \in Boxes \cup MarkedBoxes
                       /\ Found(b) \/ Seen(b) \/ Looked(b)
  <2> SUFFICES ASSUME NEW b \in boxes
               PROVE  /\ b \in Boxes \cup MarkedBoxes
                      /\ Found(b) \/ Seen(b) \/ Looked(b)
    OBVIOUS
  <2>1. BoxIsRight(b) /\ BoxIsNear(b) /\ stage # "thrown"
    BY <1>1 DEF BoxesInv, SmallInv
  <2>2. b \in Boxes \cup MarkedBoxes
    BY <1>1, <2>1 DEF BoxIsRight, Stages
  <2>3. Found(b) \/ Seen(b) \/ Looked(b)
    BY <1>1, <2>1 DEF BoxIsNear, Stages
  <2>4. QED
    BY <2>2, <2>3
<1>3. \A b \in boxes : EndsInOrder(b)
  BY <1>2, NearIsInOrder
<1>4. \A f \in faces : FaceIsNear(f)
  BY DEF SmallInv
<1>5. stage \in {"rnet", "onet"} => \A b \in boxes : HasPixels(b)
  BY <1>1, PatchableIs DEF SmallInv, BoxIsNear, BoxesInv, BoxIsRight
<1>6. QED
  BY <1>3, <1>4, <1>5 DEF SmallMovesAreSafe, SmallInv, FaceIsNear

\* As long as the networks move an end by no more than a quarter of its box,
\* detect does not throw, boxes keep their ends in order and every face shows
\* a part of the frame, for every image that no window magnifies.
THEOREM SmallMovesSafe ==
    ASSUME NoMagnifying
    PROVE  Spec => []SmallMovesAreSafe
<1>1. Init => SmallInv
  BY DEF Init, SmallInv
<1>2. CascadeInv /\ SmallInv /\ [Next]_vars => SmallInv'
  <2> SUFFICES ASSUME CascadeInv, SmallInv, [Next]_vars PROVE SmallInv'
    OBVIOUS
  <2>1. CASE PyramidTurn \/ PyramidDone \/ WindowsDone \/ UNCHANGED vars
    BY <2>1, OthersSmall
  <2>2. CASE RunPNet \/ Process \/ PatchFails \/ RunRNet \/ RunONet \/ Landmark
             \/ Final
    BY <2>2, NoMagnifying, RunPNetSmall, ProcessSmall, PatchFailsSmall,
       RunRNetSmall, RunONetSmall, LandmarkSmall, FinalSmall
  <2>3. QED
    BY <2>1, <2>2 DEF Next, Done
<1>3. QED
  BY <1>1, <1>2, CascadeStarts, CascadeStep, NearIsSafe, PTL DEF Spec

-----------------------------------------------------------------------------
(* The pyramid inside the detector *)

\* detect goes through the pyramid as cal_pyramid_list does on its own: what
\* is proved of PyramidSpec holds in the detector.
THEOREM PyramidInside == Spec => PyramidSpec
<1>1. Init => SizesInit
  BY DEF Init
<1>2. [Next]_vars => [PyramidNext]_sizeVars
  BY DEF Next, vars, PyramidNext, PyramidTurn, PyramidDone, RunPNet, WindowsDone,
     Process, PatchFails, RunRNet, RunONet, Landmark, Final, Done
<1>3. QED
  BY <1>1, <1>2, PTL DEF Spec, PyramidSpec

\* PNet is never run on a window that is smaller than its cell.
THEOREM DetectorWindowsFit == Spec => []EveryWindowFits
BY PyramidInside, WindowsFit, PTL

=============================================================================
