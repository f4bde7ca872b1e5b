------------------------------ MODULE Display ------------------------------
(***************************************************************************)
(* The main thread beside the recognition thread, and what they share:     *)
(*                                                                         *)
(*   the mailbox     m_Mat and m_srcMat, one frame in two sizes, written   *)
(*                   by sendFrame and read by run, both under mt           *)
(*   the gallery     the pictures of the last people registered.  The      *)
(*                   recognition thread counts face_id up, registers,      *)
(*                   writes the picture and raises flushRegistMat, which   *)
(*                   the main thread looks at once in its loop; no lock.   *)
(*                                                                         *)
(* Every access to a shared variable is a step.  People are counted from 1 *)
(* here (face_id starts at 10000 in the code), frames from 1 as well, and  *)
(* 0 stands for an empty Mat.                                              *)
(*                                                                         *)
(* main: "read" -> "send" -> "mat" -> "src" -> "unlock" -> "flush"         *)
(*       -> "id" -> "pictures" -> "copy" -> "clear" -> "read"              *)
(* rec:  "fetch" -> "mat" -> "src" -> "unlock" -> "frame"                  *)
(*       -> "register" -> "open" -> "write" -> "raise" -> "frame"          *)
(***************************************************************************)
EXTENDS Integers, SequencesExt

CONSTANTS
    GallerySize,   \* 6
    Leftover,      \* pictures of an earlier process, if run.sh removed none
    MaxFrame,      \* bound: on the frames the camera gives
    MaxNames       \* bound: on face_id

ASSUME DisplayAssumption ==
    /\ GallerySize \in Nat \ {0}
    /\ {MaxFrame, MaxNames} \subseteq Nat
    /\ Leftover \subseteq Nat \ {0}

VARIABLES
    main, rec,        \* where the two threads are
    mt,               \* who holds the mutex, or "none"
    m_Mat, m_srcMat,
    frame,            \* main's frame, the last one the camera gave
    mat, src,         \* run's copies
    face_id,
    pictures,         \* ./faces: what imread gives for a number
    flushRegistMat,
    first, m, step,   \* main's face_id, and the loop that reads the pictures
    show_registed,    \* the cells of the gallery ...
    shown,            \* ... and what of it is on the screen
    missed            \* history: the flag was raised between "id" and "clear"

threads == <<main, rec>>
mailbox == <<mt, m_Mat, m_srcMat, frame, mat, src>>
people  == <<face_id, pictures>>
gallery == <<first, m, step, show_registed, shown>>
vars    == <<threads, mailbox, people, flushRegistMat, gallery, missed>>

Thread == {"main", "rec"}

\* A picture: of whom, and whether this process wrote it.
Picture == [of : Nat, mine : BOOLEAN]
NoPicture == [of |-> 0, mine |-> FALSE]
Cells == 1..GallerySize

\* Types; the loop that reads the pictures stays within the cells of the
\* gallery, whatever pictures there are.
TypeOK ==
    /\ main \in {"read", "send", "mat", "src", "unlock", "flush", "id",
                 "pictures", "copy", "clear"}
    /\ rec \in {"fetch", "mat", "src", "unlock", "frame", "register", "open",
                "write", "raise"}
    /\ mt \in Thread \cup {"none"}
    /\ {m_Mat, m_srcMat, frame, mat, src} \subseteq 0..MaxFrame
    /\ face_id \in 0..MaxNames
    /\ DOMAIN pictures \subseteq Nat
    /\ \A p \in DOMAIN pictures : pictures[p] \in Picture
    /\ flushRegistMat \in {0, 1}
    /\ first \in 0..MaxNames
    /\ m \in Int
    /\ step \in 0..GallerySize
    /\ show_registed \in [Cells -> Picture]
    /\ shown \in [Cells -> Picture]
    /\ missed \in BOOLEAN

Init ==
    /\ main = "read" /\ rec = "fetch"
    /\ mt = "none"
    /\ m_Mat = 0 /\ m_srcMat = 0 /\ frame = 0 /\ mat = 0 /\ src = 0
    /\ face_id = 0
    /\ pictures = [p \in Leftover |-> [of |-> p, mine |-> FALSE]]
    /\ flushRegistMat = 0
    /\ first = 0 /\ m = 0 /\ step = 0
    /\ show_registed = [c \in Cells |-> NoPicture]
    /\ shown = [c \in Cells |-> NoPicture]
    /\ missed = FALSE

Main(from, to) == main = from /\ main' = to /\ UNCHANGED rec
Rec(from, to)  == rec = from /\ rec' = to /\ UNCHANGED main

Lock(t)   == mt = "none" /\ mt' = t
Unlock(t) == mt = t /\ mt' = "none"

-----------------------------------------------------------------------------
(* The main thread: a frame and sendFrame *)

\* The camera gives a frame, or an empty one, and then nothing is sent.
ReadFrame ==
    /\ \/ /\ Main("read", "send")
          /\ frame < MaxFrame
          /\ frame' = frame + 1
       \/ /\ Main("read", "flush")
          /\ UNCHANGED frame
    /\ UNCHANGED <<mt, m_Mat, m_srcMat, mat, src, people, flushRegistMat,
                   gallery, missed>>

\* Deviation: the mutex is not taken.
SendLock_None ==
    /\ Main("send", "mat")
    /\ UNCHANGED <<mailbox, people, flushRegistMat, gallery, missed>>

SendLock ==
    /\ Main("send", "mat")
    /\ Lock("main")
    /\ UNCHANGED <<m_Mat, m_srcMat, frame, mat, src, people, flushRegistMat,
                   gallery, missed>>

SendMat ==
    /\ Main("mat", "src")
    /\ m_Mat' = frame
    /\ UNCHANGED <<mt, m_srcMat, frame, mat, src, people, flushRegistMat,
                   gallery, missed>>

SendSrc ==
    /\ Main("src", "unlock")
    /\ m_srcMat' = frame
    /\ UNCHANGED <<mt, m_Mat, frame, mat, src, people, flushRegistMat,
                   gallery, missed>>

SendUnlock ==
    /\ Main("unlock", "flush")
    /\ Unlock("main")
    /\ UNCHANGED <<m_Mat, m_srcMat, frame, mat, src, people, flushRegistMat,
                   gallery, missed>>

-----------------------------------------------------------------------------
(* The main thread: the gallery *)

LookAtFlag ==
    /\ \/ Main("flush", "id") /\ flushRegistMat = 1
       \/ Main("flush", "read") /\ flushRegistMat = 0
    /\ UNCHANGED <<mailbox, people, flushRegistMat, gallery, missed>>

\* Deviation: the gallery begins with the person before the last.
GetFaceID_OneBehind ==
    /\ Main("id", "pictures")
    /\ first' = face_id - 1
    /\ m' = face_id - 1
    /\ step' = 0
    /\ missed' = FALSE
    /\ UNCHANGED <<mailbox, people, flushRegistMat, show_registed, shown>>

GetFaceID ==
    /\ Main("id", "pictures")
    /\ first' = face_id
    /\ m' = face_id
    /\ step' = 0
    /\ missed' = FALSE
    /\ UNCHANGED <<mailbox, people, flushRegistMat, show_registed, shown>>

\* Deviation: the pictures are read from the oldest on.
ReadPicture_OldestFirst ==
    /\ main = "pictures"
    /\ m > first - GallerySize
    /\ LET p == 2 * first - GallerySize + 1 - m
       IN IF p \in DOMAIN pictures
          THEN /\ show_registed' = [show_registed EXCEPT ![step + 1] = pictures[p]]
               /\ step' = step + 1
          ELSE UNCHANGED <<show_registed, step>>
    /\ m' = m - 1
    /\ UNCHANGED <<threads, mailbox, people, flushRegistMat, first, shown, missed>>

\* Deviation: the loop takes one picture more than there are cells.
ReadPicture_OneMore ==
    /\ main = "pictures"
    /\ m >= first - GallerySize
    /\ IF m \in DOMAIN pictures
       THEN /\ show_registed' = [show_registed EXCEPT ![step + 1] = pictures[m]]
            /\ step' = step + 1
       ELSE UNCHANGED <<show_registed, step>>
    /\ m' = m - 1
    /\ UNCHANGED <<threads, mailbox, people, flushRegistMat, first, shown, missed>>

\* One turn of the loop: the picture goes to the next cell, and when there is
\* none, or not all of it yet, the cell is kept for the one before it.  Cells
\* that are not reached keep what they had.
ReadPicture ==
    /\ main = "pictures"
    /\ m > first - GallerySize
    /\ IF m \in DOMAIN pictures
       THEN /\ show_registed' = [show_registed EXCEPT ![step + 1] = pictures[m]]
            /\ step' = step + 1
       ELSE UNCHANGED <<show_registed, step>>
    /\ m' = m - 1
    /\ UNCHANGED <<threads, mailbox, people, flushRegistMat, first, shown, missed>>

PicturesRead ==
    /\ Main("pictures", "copy")
    /\ m <= first - GallerySize
    /\ UNCHANGED <<mailbox, people, flushRegistMat, gallery, missed>>

ShowGallery ==
    /\ Main("copy", "clear")
    /\ shown' = show_registed
    /\ UNCHANGED <<mailbox, people, flushRegistMat, first, m, step,
                   show_registed, missed>>

ClearFlag ==
    /\ Main("clear", "read")
    /\ flushRegistMat' = 0
    /\ UNCHANGED <<mailbox, people, gallery, missed>>

-----------------------------------------------------------------------------
(* The recognition thread *)

FetchLock ==
    /\ Rec("fetch", "mat")
    /\ Lock("rec")
    /\ UNCHANGED <<m_Mat, m_srcMat, frame, mat, src, people, flushRegistMat,
                   gallery, missed>>

FetchMat ==
    /\ Rec("mat", "src")
    /\ mat' = m_Mat
    /\ UNCHANGED <<mt, m_Mat, m_srcMat, frame, src, people, flushRegistMat,
                   gallery, missed>>

FetchSrc ==
    /\ Rec("src", "unlock")
    /\ src' = m_srcMat
    /\ UNCHANGED <<mt, m_Mat, m_srcMat, frame, mat, people, flushRegistMat,
                   gallery, missed>>

FetchUnlock ==
    /\ Rec("unlock", "frame")
    /\ Unlock("rec")
    /\ UNCHANGED <<m_Mat, m_srcMat, frame, mat, src, people, flushRegistMat,
                   gallery, missed>>

\* Somebody in the frame has waited long enough, which takes a frame.
CountUp ==
    /\ Rec("frame", "register")
    /\ mat > 0
    /\ face_id < MaxNames
    /\ face_id' = face_id + 1
    /\ UNCHANGED <<mailbox, pictures, flushRegistMat, gallery, missed>>

\* Register and LocalSave, which touch nothing that is shared.
RegisterSave ==
    /\ Rec("register", "open")
    /\ UNCHANGED <<mailbox, people, flushRegistMat, gallery, missed>>

\* imwrite empties the file; until it is written imread gives nothing.
OpenPicture ==
    /\ Rec("open", "write")
    /\ pictures' = [p \in DOMAIN pictures \ {face_id} |-> pictures[p]]
    /\ UNCHANGED <<mailbox, face_id, flushRegistMat, gallery, missed>>

\* Deviation: the flag is raised before the picture is written.
WritePicture_FlagFirst ==
    /\ Rec("write", "raise")
    /\ flushRegistMat' = 1
    /\ missed' = (main \in {"pictures", "copy", "clear"})
    /\ UNCHANGED <<mailbox, people, gallery>>

WritePicture ==
    /\ Rec("write", "raise")
    /\ pictures' = [p \in DOMAIN pictures \cup {face_id} |->
                      IF p = face_id THEN [of |-> p, mine |-> TRUE] ELSE pictures[p]]
    /\ UNCHANGED <<mailbox, face_id, flushRegistMat, gallery, missed>>

RaiseFlag ==
    /\ Rec("raise", "frame")
    /\ flushRegistMat' = 1
    /\ missed' = (missed \/ main \in {"pictures", "copy", "clear"})
    /\ UNCHANGED <<mailbox, people, gallery>>

\* The end of the frame; there was nobody to register, or nobody else.
ReleaseFrame ==
    /\ Rec("frame", "fetch")
    /\ mat' = 0 /\ src' = 0
    /\ UNCHANGED <<mt, m_Mat, m_srcMat, frame, people, flushRegistMat,
                   gallery, missed>>

-----------------------------------------------------------------------------

MainStep ==
    \/ ReadFrame \/ SendLock \/ SendMat \/ SendSrc \/ SendUnlock
    \/ LookAtFlag \/ GetFaceID \/ ReadPicture \/ PicturesRead
    \/ ShowGallery \/ ClearFlag

RecStep ==
    \/ FetchLock \/ FetchMat \/ FetchSrc \/ FetchUnlock
    \/ CountUp \/ RegisterSave \/ OpenPicture \/ WritePicture \/ RaiseFlag
    \/ ReleaseFrame

Next == MainStep \/ RecStep

\* Both threads go on running, each on cores of its own.  The mutex promises
\* no order, but who tries again and again gets it at last.
Fairness ==
    /\ WF_vars(MainStep) /\ WF_vars(RecStep)
    /\ SF_vars(SendLock) /\ SF_vars(FetchLock)

Spec == Init /\ [][Next]_vars /\ Fairness
-----------------------------------------------------------------------------
(* What must hold *)

\* The frame in the place, when the second of its two sizes is written; and
\* the frame run works on, once it has both; -1 if they are of two frames.
Slot == INSTANCE FrameSlot WITH
    sent  <- m_srcMat,
    taken <- IF rec \in {"fetch", "mat", "src"} THEN 0 ELSE
             IF mat = src THEN mat ELSE -1

\* The mailbox is a place for one frame: what run recognises in the small
\* frame it crops from the large one of the same moment, whatever main does.
IsFrameSlot == Slot!Spec

\* The gallery shows the last person registered, in the picture this process
\* wrote, once the flag is down and nobody is being registered; unless the
\* flag was raised while main was between reading face_id and clearing it.
\* (Then the newcomer is not shown before the next one is registered.)
GalleryCurrent ==
    /\ flushRegistMat = 0
    /\ rec \in {"fetch", "mat", "src", "unlock", "frame"}
    /\ ~ missed
    /\ face_id > 0
    => shown[1] = [of |-> face_id, mine |-> TRUE]

\* When the flag is up and main has not yet gone to the pictures, the person
\* last registered is shown in the end; though others may be registered while
\* main reads the pictures, and the window of the gallery moves with them.
NewcomerShown ==
    \A p \in 1..MaxNames :
        /\ flushRegistMat = 1
        /\ main \notin {"id", "pictures", "copy", "clear"}
        /\ p = face_id
        /\ rec \in {"fetch", "mat", "src", "unlock", "frame"}
        ~> \/ \E c \in Cells : shown[c] = [of |-> p, mine |-> TRUE]
           \/ face_id >= p + GallerySize

\* The gallery lists people from the newest on and nobody twice, although
\* cells are reused and pictures come and go while it is built.
GalleryOrdered ==
    \A c \in Cells, d \in Cells :
        c < d /\ shown[d] # NoPicture => shown[c].of > shown[d].of
=============================================================================
