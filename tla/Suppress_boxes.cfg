\* nms_boxes on every list of up to four boxes.
SPECIFICATION Spec
CONSTANTS
    Unit = 1
    Boxes <- SomeBoxes
    MaxBoxes = 4
    Rule <- HalfOfUnion
INVARIANTS
    TypeOK
    KeptApart
    DroppedCovered
