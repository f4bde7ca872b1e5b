------------------------------ MODULE MCPyramid ------------------------------
(* The frames of demo.conf and smaller ones, transposed as detect has them.  *)
EXTENDS Pyramid

Sides == {12 * n : n \in 1..60} \cup 90..130

Long == {640, 1280}

=============================================================================
