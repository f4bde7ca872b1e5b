------------------------------ MODULE Detector ------------------------------
(* caffe_mtcnn::detect: the windows of the pyramid, PNet on each of them,    *)
(* RNet on what it found, ONet on what is left of that, and between them the *)
(* suppression, regression, squaring and padding of comm_lib.cpp.  What the  *)
(* networks answer is arbitrary: a box, a score of Scores, a shift of its    *)
(* edges of Shifts and a mark of Marks (for the five of a face).  Nothing in *)
(* the code bounds a shift: a box may leave the image or turn round, and     *)
(* OpenCV then throws when its patch is cut.                                 *)
(*                                                                           *)
(* The image detect works on is the frame transposed: height is the number   *)
(* of the frame's columns.  Coordinates are in 1/Unit pixel, shifts and      *)
(* marks in quarters of a box; with Unit = 64 every quotient below is exact. *)
(* A list of boxes is the set of them: two that are equal have equal answers *)
(* and one of them is suppressed.                                            *)
EXTENDS Pyramid, Overlap

CONSTANTS
    AlgType,            \* "TENGINE" or "CAFFE_HRT"
    Scores,             \* confidences the networks give
    PNetThreshold,
    RNetThreshold,
    ONetThreshold,
    Shifts,             \* regress of a box: x0, y0, x1, y1
    Marks,              \* positions in a box: x, y
    CellColumns,        \* cells of PNet that may light up
    CellLines,
    MaxLit              \* bound on the cells that light up in one image

ASSUME AnswersAssumption ==
    Shifts \subseteq [1..4 -> Int] /\ Marks \subseteq Int \X Int
ASSUME CellsAssumption ==
    CellColumns \subseteq Nat /\ CellLines \subseteq Nat /\ MaxLit \in Nat

VARIABLES
    stage,      \* where detect is
    window,     \* the window PNet looks at next
    lit,        \* number of cells that lit up so far
    boxes,      \* total_pnet_boxes, pnet_boxes, total_rnet_boxes, ...
    faces,      \* face_list, as the caller gets it
    moved       \* history: a network moved an end by more than a quarter

vars == <<sizeVars, stage, window, lit, boxes, faces, moved>>

Stages == {"pyramid", "pnet", "process_p", "rnet", "process_r", "onet",
           "landmark", "final", "done", "thrown"}

PNetRule == [type |-> "union", num |-> 1, den |-> 2]
ProcessRule == [type |-> "union", num |-> 7, den |-> 10]
FinalRule == [type |-> "min", num |-> 7, den |-> 10]

\* Deviation: the shift is not relative to the box.
Quarters_Whole(length, n) == length * n

Quarters(length, n) == (length * n) \div 4

Regressed(b) ==
    [b EXCEPT !.x0 = @ + Quarters(Wide(b), b.regress[1]),
              !.y0 = @ + Quarters(High(b), b.regress[2]),
              !.x1 = @ + Quarters(Wide(b), b.regress[3]),
              !.y1 = @ + Quarters(High(b), b.regress[4])]

\* Deviation: only the lower end is moved.
Squared_EndsOnly(b) ==
    LET length == Larger(High(b), Wide(b))
    IN  [b EXCEPT !.y1 = b.y0 + length - Unit]

Squared(b) ==
    LET length == Larger(High(b), Wide(b))
        x == b.x0 + (Wide(b) - length) \div 2
        y == b.y0 + (High(b) - length) \div 2
    IN  [b EXCEPT !.x0 = x, !.y0 = y,
                  !.x1 = x + length - Unit, !.y1 = y + length - Unit]

\* Deviation: boxes go to the network as they lie.
Padded_Not(b) ==
    [px0 |-> b.x0, py0 |-> b.y0, px1 |-> b.x1, py1 |-> b.y1]

\* The part of a box that padding leaves: x from 1 to the image's width.
Padded(b) ==
    [px0 |-> Larger(b.x0, Unit), py0 |-> Larger(b.y0, Unit),
     px1 |-> Smaller(b.x1, width * Unit), py1 |-> Smaller(b.y1, height * Unit)]

\* process_boxes, one of its results.
Processed(some) ==
    {{Squared(Regressed(b)) : b \in kept} : kept \in Suppressed(some, ProcessRule)}

Pixels(n) == n \div Unit
Distance(a, b) == IF a >= b THEN a - b ELSE b - a

\* What copy_one_patch cuts out of the image, and the size of the patch with
\* the border it adds.
Patch(b) ==
    LET p == Padded(b)
    IN  [rows |-> Pixels(p.py0)..(Pixels(p.py1) - 1),
         columns |-> Pixels(p.px0)..(Pixels(p.px1) - 1),
         high |-> Pixels(p.py1) - Pixels(p.py0)
                    + Pixels(Distance(p.py0, b.y0))
                    + Pixels(Distance(p.py1, b.y1)),
         wide |-> Pixels(p.px1) - Pixels(p.px0)
                    + Pixels(Distance(p.px0, b.x0))
                    + Pixels(Distance(p.px1, b.x1))]

\* Deviation: the patch is cut whatever its range.
Reversed_Never(b) == FALSE

\* A range that ends before it begins: OpenCV throws.
Reversed(b) ==
    LET p == Padded(b)
    IN  Pixels(p.py1) < Pixels(p.py0) \/ Pixels(p.px1) < Pixels(p.px0)

\* Some of the image is in the patch.
HasPixels(b) == Patch(b).rows # {} /\ Patch(b).columns # {}

\* PNet: two convolutions of 3 after a pooling of 2, and one before it.
FeatureSize(n) == (n + 1) \div 2 - 5

\* The part of the image one cell of PNet's answer stands for.
CellBox(win, column, line, score, regress) ==
    LET InImage(n) == Unit * ((n * ScaleDen(win.scale)) \div ScaleNum(win.scale))
    IN  [x0 |-> InImage(2 * column + 1), y0 |-> InImage(2 * line + 1),
         x1 |-> InImage(2 * column + Cell), y1 |-> InImage(2 * line + Cell),
         score |-> score, regress |-> regress]

CellsOf(win) ==
    {c \in CellColumns \X CellLines :
        c[1] < FeatureSize(win.w) /\ c[2] < FeatureSize(win.h)}

-----------------------------------------------------------------------------

Init ==
    /\ SizesInit
    /\ stage = "pyramid"
    /\ window = 1
    /\ lit = 0
    /\ boxes = {}
    /\ faces = {}
    /\ moved = FALSE

\* A shift of no more than a quarter of the box.
Small(regress) == \A k \in 1..4 : regress[k] \in -1..1

\* What a network answers, as the history sees it.
NoteMoves == moved' = (moved \/ \E b \in boxes' : ~Small(b.regress))

PyramidTurn ==
    /\ stage = "pyramid"
    /\ Turn
    /\ UNCHANGED <<stage, window, lit, boxes, faces, moved>>

PyramidDone ==
    /\ stage = "pyramid"
    /\ SizesDone
    /\ stage' = "pnet"
    /\ UNCHANGED <<sizeVars, window, lit, boxes, faces, moved>>

\* One window: the cells above the threshold, less those that cover each
\* other.
RunPNet ==
    /\ stage = "pnet"
    /\ window \in DOMAIN list
    /\ \E n \in 0..(MaxLit - lit) : \E cells \in kSubset(n, CellsOf(list[window])) :
        /\ lit' = lit + n
        /\ \E answer \in [cells -> {s \in Scores : s >= PNetThreshold} \X Shifts] :
            \E kept \in Suppressed(
                    {CellBox(list[window], c[1], c[2], answer[c][1], answer[c][2]) :
                        c \in cells},
                    PNetRule) :
                boxes' = boxes \cup kept
    /\ window' = window + 1
    /\ NoteMoves
    /\ UNCHANGED <<sizeVars, stage, faces>>

WindowsDone ==
    /\ stage = "pnet"
    /\ window > Len(list)
    /\ stage' = "process_p"
    /\ UNCHANGED <<sizeVars, window, lit, boxes, faces, moved>>

\* process_boxes before the next network; with no box left detect returns.
Process ==
    /\ stage \in {"process_p", "process_r"}
    /\ boxes' \in Processed(boxes)
    /\ stage' = IF boxes' = {} THEN "done"
                ELSE IF stage = "process_p" THEN "rnet" ELSE "onet"
    /\ UNCHANGED <<sizeVars, window, lit, faces, moved>>

\* copy_one_patch is called for every box before the network runs, and nobody
\* catches what it throws.  A part of the image without a pixel is refused by
\* some versions of OpenCV and taken by others.
PatchFails ==
    /\ stage \in {"rnet", "onet"}
    /\ \E b \in boxes : Reversed(b) \/ ~HasPixels(b)
    /\ stage' = "thrown"
    /\ UNCHANGED <<sizeVars, window, lit, boxes, faces, moved>>

\* A box a network accepts, with its new score and shift.
Answered(b, answer) == [b EXCEPT !.score = answer[1], !.regress = answer[2]]

RunRNet ==
    /\ stage = "rnet"
    /\ \A b \in boxes : ~Reversed(b)
    /\ \E seen \in SUBSET boxes :
        \E answer \in [seen -> {s \in Scores : s > RNetThreshold} \X Shifts] :
            boxes' = {Answered(b, answer[b]) : b \in seen}
    /\ stage' = "process_r"
    /\ NoteMoves
    /\ UNCHANGED <<sizeVars, window, lit, faces>>

\* ONet gives marks as well.
Marked(b, answer, mark) ==
    [x0 |-> b.x0, y0 |-> b.y0, x1 |-> b.x1, y1 |-> b.y1,
     score |-> answer[1], regress |-> answer[2], mark |-> mark]

\* The Tengine path compares with the threshold of RNet, the other one with
\* that of ONet.
LastThreshold ==
    IF AlgType = "TENGINE" THEN RNetThreshold ELSE ONetThreshold

RunONet ==
    /\ stage = "onet"
    /\ \A b \in boxes : ~Reversed(b)
    /\ \E seen \in SUBSET boxes, mark \in Marks :
        \E answer \in [seen -> {s \in Scores : s > LastThreshold} \X Shifts] :
            boxes' = {Marked(b, answer[b], mark) : b \in seen}
    /\ stage' = "landmark"
    /\ NoteMoves
    /\ UNCHANGED <<sizeVars, window, lit, faces>>

\* The marks in the image.  The names of height and width are exchanged: w is
\* what the y coordinates give.
Landmark ==
    /\ stage = "landmark"
    /\ boxes' = {[b EXCEPT
                    !.mark = <<b.x0 + Quarters(High(b), @[1]) - Unit,
                               b.y0 + Quarters(Wide(b), @[2]) - Unit>>] : b \in boxes}
    /\ stage' = "final"
    /\ UNCHANGED <<sizeVars, window, lit, faces, moved>>

\* x and y of a box, for the frame as it was given; the shift stays as it is.
Swapped(b) ==
    [x0 |-> b.y0, y0 |-> b.x0, x1 |-> b.y1, y1 |-> b.x1,
     score |-> b.score, regress |-> b.regress,
     mark |-> <<b.mark[2], b.mark[1]>>]

\* Deviation: the result is left as the transposed image has it.
Final_Transposed ==
    /\ stage = "final"
    /\ \E kept \in Suppressed({Regressed(b) : b \in boxes}, FinalRule) :
        faces' = kept
    /\ stage' = "done"
    /\ UNCHANGED <<sizeVars, window, lit, boxes, moved>>

\* Deviation: the boxes are suppressed before they are regressed.
Final_RegressLast ==
    /\ stage = "final"
    /\ \E kept \in Suppressed(boxes, FinalRule) :
        faces' = {Swapped(Regressed(b)) : b \in kept}
    /\ stage' = "done"
    /\ UNCHANGED <<sizeVars, window, lit, boxes, moved>>

Final ==
    /\ stage = "final"
    /\ \E kept \in Suppressed({Regressed(b) : b \in boxes}, FinalRule) :
        faces' = {Swapped(b) : b \in kept}
    /\ stage' = "done"
    /\ UNCHANGED <<sizeVars, window, lit, boxes, moved>>

Done == stage \in {"done", "thrown"} /\ UNCHANGED vars

Next ==
    \/ PyramidTurn
    \/ PyramidDone
    \/ RunPNet
    \/ WindowsDone
    \/ Process
    \/ PatchFails
    \/ RunRNet
    \/ RunONet
    \/ Landmark
    \/ Final
    \/ Done

Spec == Init /\ [][Next]_vars

-----------------------------------------------------------------------------

Boxes ==
    [x0 : Int, y0 : Int, x1 : Int, y1 : Int, score : Scores, regress : Shifts]
MarkedBoxes ==
    [x0 : Int, y0 : Int, x1 : Int, y1 : Int, score : Scores, regress : Shifts,
     mark : Int \X Int]
Faces == MarkedBoxes

EndsInOrder(b) == b.x0 <= b.x1 /\ b.y0 <= b.y1

\* Types; a box a network has answered for is longer and wider than nothing,
\* as its patch could be cut.
TypeOK ==
    /\ SizesTypeOK
    /\ stage \in Stages
    /\ window \in 1..(Len(list) + 1)
    /\ lit \in 0..MaxLit
    /\ moved \in BOOLEAN
    /\ boxes \subseteq IF stage \in {"landmark", "final", "done"} THEN MarkedBoxes
                       ELSE Boxes
    /\ faces \subseteq Faces
    /\ stage \notin {"rnet", "onet", "thrown"} =>
        \A b \in boxes : High(b) > 0 /\ Wide(b) > 0

\* Of every box given to RNet or ONet, wherever the networks moved it, only a
\* part the image has is cut out, and unless there is none the patch with its
\* border is a square but for two lines: no face is distorted.  (Two, because
\* the ends of the part and the border are cut to pixels one by one.)
PatchesInside ==
    stage \in {"rnet", "onet"} =>
        \A b \in boxes : HasPixels(b) =>
            /\ Patch(b).rows \subseteq 0..(height - 1)
            /\ Patch(b).columns \subseteq 0..(width - 1)
            /\ Distance(Patch(b).high, Patch(b).wide) <= 2

\* As long as the networks move an end by no more than a quarter of its box
\* detect does not throw: every box has pixels when its patch is cut, boxes
\* keep their ends in order, and every face shows a part of the frame, which
\* has height columns and width rows.
SmallMovesAreSafe ==
    ~moved =>
        /\ stage # "thrown"
        /\ stage \in {"rnet", "onet"} => \A b \in boxes : HasPixels(b)
        /\ \A b \in boxes \cup faces : EndsInOrder(b)
        /\ \A f \in faces : /\ f.x1 >= 0 /\ f.x0 <= height * Unit
                            /\ f.y1 >= 0 /\ f.y0 <= width * Unit

\* The eyes, nose and mouth ONet gives lie in the box it looked at, although
\* height and width are exchanged: the boxes are squares by then.
MarksInBox ==
    stage = "final" =>
        \A b \in boxes :
            /\ b.x0 - Unit <= b.mark[1] /\ b.mark[1] <= b.x1
            /\ b.y0 - Unit <= b.mark[2] /\ b.mark[2] <= b.y1

\* No face is reported twice: of the boxes reported none lies in another.  (A
\* box that was turned round has no part to lie in one.)
NoneInsideAnother ==
    \A a, b \in faces :
        (a # b /\ EndsInOrder(b) /\ a.x0 <= b.x0 /\ b.x1 <= a.x1) =>
            ~(a.y0 <= b.y0 /\ b.y1 <= a.y1)

\* However far the networks moved a box, an end of a face is out of the frame,
\* by a pixel or more, only where ONet itself moved it that way: what PNet and
\* RNet moved out has thrown.  The shift is that of the transposed image.
FacesInFrame ==
    \A f \in faces :
        /\ f.x1 >= 0 \/ f.regress[4] < 0
        /\ f.x0 < (height + 1) * Unit \/ f.regress[2] > 0
        /\ f.y1 >= 0 \/ f.regress[3] < 0
        /\ f.y0 < (width + 1) * Unit \/ f.regress[1] > 0

=============================================================================
