----------------------------- MODULE MCDetector -----------------------------
(* A frame of 24 columns and 18 rows with faces of 12 pixels: two windows.   *)
(* The cells at its edges and next to one another may light up.  Turned is a *)
(* shift that exchanges the ends of a box.                                   *)
EXTENDS Detector

Down == <<0, 1, 0, 1>>
Narrower == <<1, 0, -1, 0>>
Higher == <<0, -1, 0, 1>>
Turned == <<3, 3, -3, -3>>

SomeShifts == {Down, Narrower, Higher, Turned}

EyeAndMouth == {<<1, 4>>, <<3, 0>>}

=============================================================================
