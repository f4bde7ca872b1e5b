----------------------------- MODULE MCFaceDemo -----------------------------
(***************************************************************************)
(* Instances of FaceDemo for TLC: two people, and what a camera that sees  *)
(* both may show.  Positions are on a line, one unit for the pixels inside *)
(* of which two boxes are taken for one face when TracePixels is 2.        *)
(***************************************************************************)
EXTENDS FaceDemo

MCFeature == {"ann", "bob", "ann6", "bob6"}

\* At 6 digits a feature is another vector, and one that still matches.
MCPrinted == [f \in MCFeature |-> CASE f \in {"ann", "ann6"} -> "ann6"
                                    [] f \in {"bob", "bob6"} -> "bob6"]

MCScore == [f \in MCFeature |-> [g \in MCFeature |->
              IF f = g THEN 10 ELSE IF MCPrinted[f] = MCPrinted[g] THEN 9 ELSE 1]]

\* A face at x; bigger faces have the bigger area; at 9 it crosses the edge.
Face(who, x, area) == [x |-> x, y |-> 0, area |-> area, inside |-> x # 9,
                       feature |-> who]

\* Frames for the tables: one of the two, or both, in two places.
FewFrames == { << Face("ann", 0, 1) >>,
               << Face("ann", 0, 1), Face("bob", 4, 1) >> }

\* Frames for the windows: nobody, somebody who moves a little or to the edge,
\* two who come close enough to be taken for one, and more faces than are
\* handled.
ManyFrames == { << >>,
                << Face("ann", 0, 1) >>,
                << Face("ann", 1, 1) >>,
                << Face("ann", 9, 1) >>,
                << Face("ann", 0, 1), Face("bob", 1, 1) >>,
                << Face("bob", 2, 1), Face("ann", 9, 1) >>,
                << Face("ann", 2, 1), Face("bob", 0, 2), Face("bob", 4, 1) >> }
=============================================================================
