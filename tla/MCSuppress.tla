----------------------------- MODULE MCSuppress -----------------------------
(* Boxes of 8, 4 and 1 pixels that cover each other by more than, exactly    *)
(* and less than half of their union, inside one another and apart.          *)
EXTENDS Suppress

HalfOfUnion == [type |-> "union", num |-> 1, den |-> 2]

Square(x, size, score) ==
    [x0 |-> x, y0 |-> 0, x1 |-> x + size - 1, y1 |-> size - 1,
     score |-> score]

SomeBoxes ==
    {Square(x, 8, s) : x \in {0, 2, 3, 8}, s \in {1, 2}}
        \cup {Square(0, 4, 2), Square(0, 1, 1), Square(2, 8, 3)}

=============================================================================
