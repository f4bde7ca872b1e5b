----------------------------- MODULE MCDisplay -----------------------------
(* The instance of Display that TLC checks. *)
EXTENDS Display

\* Two pictures of an earlier process that was started without run.sh.
TwoOld == {1, 4}
=============================================================================
