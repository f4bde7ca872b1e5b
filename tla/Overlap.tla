------------------------------ MODULE Overlap ------------------------------
(* How much two boxes cover each other, as nms_boxes (comm_lib.cpp) counts   *)
(* it.  A box has its first and its last column and row, so its width is     *)
(* x1 - x0 + 1.  Coordinates are integers in 1/Unit of a pixel: the 1 is     *)
(* Unit.  A rule is a kind (NMS_UNION or NMS_MIN) and a threshold num/den;   *)
(* the quotient is compared by multiplying with what it divides by.          *)
EXTENDS Integers

CONSTANT Unit

ASSUME UnitAssumption == Unit \in Nat \ {0}

Rules == [type : {"union", "min"}, num : Nat, den : Nat]

Corners == [x0 : Int, y0 : Int, x1 : Int, y1 : Int]

Larger(a, b) == IF a >= b THEN a ELSE b
Smaller(a, b) == IF a <= b THEN a ELSE b

High(b) == b.y1 - b.y0 + Unit
Wide(b) == b.x1 - b.x0 + Unit
Area(b) == High(b) * Wide(b)

\* The part two boxes share.
InnerHigh(a, b) == Smaller(a.y1, b.y1) - Larger(a.y0, b.y0) + Unit
InnerWide(a, b) == Smaller(a.x1, b.x1) - Larger(a.x0, b.x0) + Unit
Inner(a, b) == InnerHigh(a, b) * InnerWide(a, b)

\* What the shared part is divided by.
Whole(type, a, b) ==
    IF type = "union"
    THEN Area(a) + Area(b) - Inner(a, b)
    ELSE Smaller(Area(a), Area(b))

\* The two are taken for the same face.
Over(rule, a, b) ==
    /\ InnerHigh(a, b) > 0
    /\ InnerWide(a, b) > 0
    /\ Inner(a, b) * rule.den > rule.num * Whole(rule.type, a, b)

\* What nms_boxes leaves of some boxes, for any order of equal scores: boxes
\* that do not cover each other, with one of them for each that is dropped
\* (Suppress.tla has the loop; Suppress_proofs, that its result is such a set).
Suppressed(some, rule) ==
    {kept \in SUBSET some :
        /\ \A a, b \in kept : a # b => ~Over(rule, a, b)
        /\ \A b \in some \ kept :
            \E a \in kept : Over(rule, a, b) /\ a.score >= b.score}

=============================================================================
