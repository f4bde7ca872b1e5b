------------------------------- MODULE Pyramid -------------------------------
(* cal_pyramid_list (comm_lib.cpp): the sizes in which the detector looks at *)
(* the image.  The first shrinks a face of min_size to the 12 pixels of      *)
(* PNet's cell, each following one is smaller by the factor.  The loop ends  *)
(* by min_side, an integer that is cut in every turn; the sizes follow the   *)
(* scale, a double.  Here cur_scale is an exact quotient num/den, a power of *)
(* FactorNum/FactorDen, and the scale of a window is                         *)
(*     12 * num / (min_size * den).                                          *)
EXTENDS Integers, Sequences, FiniteSetsExt

CONSTANTS
    Heights,        \* sizes of the image the detector works on
    Widths,
    MinSizes,       \* values of MinFaceSize
    FactorNum,      \* the factor between two sizes
    FactorDen

ASSUME HeightsAssumption == Heights \subseteq Nat \ {0}
ASSUME WidthsAssumption == Widths \subseteq Nat \ {0}
\* cal_pyramid_list divides by it, and with a factor of 1 it does not end.
ASSUME MinSizesAssumption == MinSizes \subseteq Nat \ {0}
ASSUME FactorAssumption ==
    FactorNum \in Nat \ {0} /\ FactorDen \in Nat /\ FactorNum < FactorDen

VARIABLES
    height, width, minSize,     \* the arguments
    minSide,                    \* min_side
    curScale,                   \* cur_scale
    list                        \* the windows so far: their size and cur_scale

sizeVars == <<height, width, minSize, minSide, curScale, list>>

Cell == 12

\* Deviation: the longer side says when to stop.
SideThatEnds_Longer(h, w) == IF h > w THEN h ELSE w

SideThatEnds(h, w) == IF h < w THEN h ELSE w

\* m * cur_scale
ScaleNum(s) == Cell * s.num
ScaleDen(s) == minSize * s.den

\* std::ceil(side * scale)
Scaled(side, s) == (side * ScaleNum(s) + ScaleDen(s) - 1) \div ScaleDen(s)

\* cur_scale * factor
NextScale(s) == [num |-> s.num * FactorNum, den |-> s.den * FactorDen]

SizesInit ==
    /\ height \in Heights
    /\ width \in Widths
    /\ minSize \in MinSizes
    /\ minSide = (SideThatEnds(height, width) * Cell) \div minSize
    /\ curScale = [num |-> 1, den |-> 1]
    /\ list = <<>>

Push(s) ==
    list' = Append(list, [h |-> Scaled(height, s), w |-> Scaled(width, s),
                          scale |-> s])

\* Deviation: one more turn, for the size below the cell.
Turn_OneMore ==
    /\ minSide * FactorDen >= Cell * FactorNum
    /\ Push(curScale)
    /\ curScale' = NextScale(curScale)
    /\ minSide' = (minSide * FactorNum) \div FactorDen
    /\ UNCHANGED <<height, width, minSize>>

\* Deviation: cur_scale is multiplied before the scale is taken from it.
Turn_ScaleFirst ==
    /\ minSide >= Cell
    /\ Push(NextScale(curScale))
    /\ curScale' = NextScale(curScale)
    /\ minSide' = (minSide * FactorNum) \div FactorDen
    /\ UNCHANGED <<height, width, minSize>>

Turn ==
    /\ minSide >= Cell
    /\ Push(curScale)
    /\ curScale' = NextScale(curScale)
    /\ minSide' = (minSide * FactorNum) \div FactorDen
    /\ UNCHANGED <<height, width, minSize>>

SizesDone == minSide < Cell

\* cal_pyramid_list on its own.
PyramidNext == Turn \/ (SizesDone /\ UNCHANGED sizeVars)

PyramidSpec == SizesInit /\ [][PyramidNext]_sizeVars

-----------------------------------------------------------------------------

Quotients == [num : Nat \ {0}, den : Nat \ {0}]

\* Types; min_side never exceeds the shorter side, scaled.
SizesTypeOK ==
    /\ height \in Heights
    /\ width \in Widths
    /\ minSize \in MinSizes
    /\ minSide \in Nat
    /\ minSide * minSize <= Cell * Min({height, width})
    /\ curScale \in Quotients
    /\ list \in Seq([h : Nat, w : Nat, scale : Quotients])

\* PNet has an answer for every window: none is smaller than its cell,
\* although the loop is ended by another number than the one it scales with.
EveryWindowFits ==
    \A i \in DOMAIN list : list[i].h >= Cell /\ list[i].w >= Cell

\* Is a face of this size between the cell and the cell divided by the
\* factor, in this window?  One turn is lost at most to the cutting of
\* min_side, so a face that fills the image may be one factor larger.
SeenAt(size, s) ==
    /\ size * s.num >= minSize * s.den
    /\ size * s.num * FactorNum * FactorNum < minSize * s.den * FactorDen * FactorDen

\* Every face from MinFaceSize to the whole image is near the size of
\* PNet's cell in one of the windows.
EveryFaceSizeSeen ==
    SizesDone =>
        \A size \in minSize..Min({height, width}) :
            \E i \in DOMAIN list : SeenAt(size, list[i].scale)

=============================================================================
