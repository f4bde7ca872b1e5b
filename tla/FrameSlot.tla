----------------------------- MODULE FrameSlot -----------------------------
(***************************************************************************)
(* What the mailbox for frames promises: a place for one frame, put and    *)
(* taken in one step.  A frame is its number; 0 is no frame.  A frame that *)
(* is not taken before the next one is lost, and the last one can be taken *)
(* any number of times.                                                    *)
(***************************************************************************)
EXTENDS Naturals

VARIABLES
    sent,     \* the frame in the place
    taken     \* the frame being worked on

svars == <<sent, taken>>

Init == sent = 0 /\ taken = 0

\* The frames get there in the order of the camera.
Send ==
    /\ sent' \in Nat
    /\ sent' > sent
    /\ UNCHANGED taken

Take ==
    /\ taken = 0
    /\ taken' = sent
    /\ UNCHANGED sent

Release ==
    /\ taken' = 0
    /\ UNCHANGED sent

Next == Send \/ Take \/ Release

Spec == Init /\ [][Next]_svars
=============================================================================
