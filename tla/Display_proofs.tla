--------------------------- MODULE Display_proofs ---------------------------
(* For every gallery and any number of frames and people: the mailbox is a   *)
(* place for one frame, the gallery is in order, and its first picture is    *)
(* the one of the last person registered.                                    *)
EXTENDS Display, TLAPS

MainInside == main \in {"mat", "src", "unlock"}
RecInside  == rec \in {"mat", "src", "unlock"}
RecHasBoth == rec \in {"unlock", "frame", "register", "open", "write", "raise"}

MailboxTypes ==
    /\ frame \in Nat
    /\ m_srcMat \in Nat
    /\ rec \in {"fetch", "mat", "src"} \/ RecHasBoth

\* Who is between lock and unlock holds the mutex.
HoldersInside ==
    /\ MainInside => mt = "main"
    /\ RecInside => mt = "rec"

\* The two sizes are of one frame, but while main has replaced the first only.
OneFrame ==
    /\ main # "src" => m_Mat = m_srcMat
    /\ main = "src" => m_Mat = frame

\* The frame main holds is a newer one until it is all there.
Newer ==
    /\ m_srcMat <= frame
    /\ main \in {"send", "mat", "src"} => m_srcMat < frame

\* What run has is the frame that was there when it took the mutex.
RecCopies ==
    /\ rec = "src" => mat = m_Mat
    /\ RecHasBoth => mat = src

IInv == MailboxTypes /\ HoldersInside /\ OneFrame /\ Newer /\ RecCopies

\* Both threads start outside, with no frame anywhere.
LEMMA InitIInv == Init => IInv
BY DEF Init, IInv, MailboxTypes, HoldersInside, OneFrame, Newer, RecCopies,
       MainInside, RecInside, RecHasBoth

\* The steps that do not touch the mailbox.
Elsewhere ==
    \/ LookAtFlag \/ GetFaceID \/ ReadPicture \/ PicturesRead
    \/ ShowGallery \/ ClearFlag
    \/ CountUp \/ RegisterSave \/ OpenPicture \/ WritePicture \/ RaiseFlag

\* They keep every frame, and neither thread comes near the mutex.
LEMMA ElsewhereKeeps ==
    ASSUME IInv, Elsewhere \/ UNCHANGED vars
    PROVE  /\ UNCHANGED mailbox
           /\ main' = main \/ ({main, main'} \cap {"send", "mat", "src", "unlock"} = {})
           /\ rec' = rec \/ {rec, rec'} \subseteq {"frame", "register", "open", "write", "raise"}
<1>1. CASE LookAtFlag
    BY <1>1 DEF LookAtFlag, Main
<1>2. CASE GetFaceID
    BY <1>2 DEF GetFaceID, Main
<1>3. CASE ReadPicture
    BY <1>3 DEF ReadPicture, threads
<1>4. CASE PicturesRead
    BY <1>4 DEF PicturesRead, Main
<1>5. CASE ShowGallery
    BY <1>5 DEF ShowGallery, Main
<1>6. CASE ClearFlag
    BY <1>6 DEF ClearFlag, Main
<1>7. CASE CountUp
    BY <1>7 DEF CountUp, Rec
<1>8. CASE RegisterSave
    BY <1>8 DEF RegisterSave, Rec
<1>9. CASE OpenPicture
    BY <1>9 DEF OpenPicture, Rec
<1>10. CASE WritePicture
    BY <1>10 DEF WritePicture, Rec
<1>11. CASE RaiseFlag
    BY <1>11 DEF RaiseFlag, Rec
<1>12. CASE UNCHANGED vars
    BY <1>12 DEF vars, threads
<1> QED
    BY <1>1, <1>2, <1>3, <1>4, <1>5, <1>6, <1>7, <1>8, <1>9, <1>10, <1>11, <1>12
       DEF Elsewhere

\* So they keep what holds of the mailbox.
LEMMA ElsewhereIInv ==
    ASSUME IInv, Elsewhere \/ UNCHANGED vars
    PROVE  IInv'
BY ElsewhereKeeps DEF mailbox, IInv, MailboxTypes, HoldersInside, OneFrame,
   Newer, RecCopies, MainInside, RecInside, RecHasBoth

\* One step per action: what each of them can disturb.
LEMMA MailboxIInv ==
    ASSUME IInv,
           \/ ReadFrame \/ SendLock \/ SendMat \/ SendSrc \/ SendUnlock
           \/ FetchLock \/ FetchMat \/ FetchSrc \/ FetchUnlock \/ ReleaseFrame
    PROVE  IInv'
<1> USE DEF IInv, MailboxTypes, HoldersInside, OneFrame, Newer, RecCopies,
            MainInside, RecInside, RecHasBoth, Main, Rec, Lock, Unlock
<1>1. CASE ReadFrame
    BY <1>1 DEF ReadFrame
<1>2. CASE SendLock
    BY <1>2 DEF SendLock
<1>3. CASE SendMat
    BY <1>3 DEF SendMat
<1>4. CASE SendSrc
    BY <1>4 DEF SendSrc
<1>5. CASE SendUnlock
    BY <1>5 DEF SendUnlock
<1>6. CASE FetchLock
    BY <1>6 DEF FetchLock
<1>7. CASE FetchMat
    BY <1>7 DEF FetchMat
<1>8. CASE FetchSrc
    BY <1>8 DEF FetchSrc
<1>9. CASE FetchUnlock
    BY <1>9 DEF FetchUnlock
<1>10. CASE ReleaseFrame
    BY <1>10 DEF ReleaseFrame
<1> QED
    BY <1>1, <1>2, <1>3, <1>4, <1>5, <1>6, <1>7, <1>8, <1>9, <1>10

\* What no step of the two threads undoes.
LEMMA NextIInv == IInv /\ [Next]_vars => IInv'
BY ElsewhereIInv, MailboxIInv DEF Next, MainStep, RecStep, Elsewhere

\* Each step puts a frame, takes it, releases it, or is none of the mailbox.
LEMMA StepIsSlotStep ==
    ASSUME IInv, [Next]_vars
    PROVE  [Slot!Next]_(Slot!svars)
<1> USE DEF IInv, MailboxTypes, RecHasBoth, Slot!svars
<1>1. CASE Elsewhere \/ UNCHANGED vars
    BY <1>1, ElsewhereKeeps DEF mailbox
<1>2. CASE ReadFrame \/ SendLock \/ SendMat \/ SendUnlock
    BY <1>2 DEF ReadFrame, SendLock, SendMat, SendUnlock, Main
<1>3. CASE SendSrc
    BY <1>3 DEF SendSrc, Main, Newer, Slot!Next, Slot!Send
<1>4. CASE FetchLock \/ FetchMat
    BY <1>4 DEF FetchLock, FetchMat, Rec
<1>5. CASE FetchSrc
  <2>1. mat' = src' /\ mat' = m_srcMat /\ m_srcMat' = m_srcMat
    BY <1>5 DEF FetchSrc, Rec, RecCopies, OneFrame, HoldersInside, MainInside, RecInside
  <2> QED
    BY <1>5, <2>1 DEF FetchSrc, Rec, Slot!Next, Slot!Take
<1>6. CASE FetchUnlock
    BY <1>6 DEF FetchUnlock, Rec
<1>7. CASE ReleaseFrame
    BY <1>7 DEF ReleaseFrame, Rec, Slot!Next, Slot!Release
<1> QED
    BY <1>1, <1>2, <1>3, <1>4, <1>5, <1>6, <1>7
       DEF Next, MainStep, RecStep, Elsewhere

\* sendFrame and the fetch of run are together a place for one frame: run has
\* both sizes of the same frame, never an older one than before, whatever the
\* two threads do between their accesses.
THEOREM MailboxIsFrameSlot == Spec => IsFrameSlot
<1>1. Init => Slot!Init
    BY DEF Init, Slot!Init
<1> QED
    BY <1>1, InitIInv, NextIInv, StepIsSlotStep, PTL DEF Spec, IsFrameSlot, Slot!Spec
-----------------------------------------------------------------------------
(* The gallery *)

\* The loop that reads the pictures has used no more cells than turns, and
\* makes no more turns than there are cells.
LoopBounded ==
    main = "pictures" => /\ m <= first
                         /\ first - GallerySize <= m
                         /\ step <= first - m

TypeInv == TypeOK /\ LoopBounded

\* The steps that only move threads and frames keep the types.
LEMMA TypeMailbox ==
    ASSUME TypeInv,
           \/ ReadFrame \/ SendLock \/ SendMat \/ SendSrc \/ SendUnlock
           \/ FetchLock \/ FetchMat \/ FetchSrc \/ FetchUnlock \/ ReleaseFrame
    PROVE  TypeInv'
<1>0. MaxFrame \in Nat
  BY DisplayAssumption
<1>1. /\ UNCHANGED <<people, flushRegistMat, gallery, missed>>
      /\ main' = "pictures" <=> main = "pictures"
  BY DEF ReadFrame, SendLock, SendMat, SendSrc, SendUnlock, FetchLock,
     FetchMat, FetchSrc, FetchUnlock, ReleaseFrame, Main, Rec
<1>2. /\ main' \in {"read", "send", "mat", "src", "unlock", "flush", "id",
                    "pictures", "copy", "clear"}
      /\ rec' \in {"fetch", "mat", "src", "unlock", "frame", "register",
                   "open", "write", "raise"}
      /\ mt' \in Thread \cup {"none"}
  BY DEF TypeInv, TypeOK, ReadFrame, SendLock, SendMat, SendSrc, SendUnlock,
     FetchLock, FetchMat, FetchSrc, FetchUnlock, ReleaseFrame, Main, Rec,
     Lock, Unlock, Thread
<1>3. /\ frame' \in 0..MaxFrame /\ m_Mat' \in 0..MaxFrame
      /\ m_srcMat' \in 0..MaxFrame /\ mat' \in 0..MaxFrame
      /\ src' \in 0..MaxFrame
  BY <1>0 DEF TypeInv, TypeOK, ReadFrame, SendLock, SendMat, SendSrc,
     SendUnlock, FetchLock, FetchMat, FetchSrc, FetchUnlock, ReleaseFrame
<1>4. LoopBounded'
  BY <1>1 DEF TypeInv, LoopBounded, gallery
<1>5. QED
  BY <1>1, <1>2, <1>3, <1>4 DEF TypeInv, TypeOK, people, gallery

\* So do those of main around the gallery; the loop takes a cell only while
\* there is one.
LEMMA TypeGallery ==
    ASSUME TypeInv,
           \/ LookAtFlag \/ GetFaceID \/ ReadPicture \/ PicturesRead
           \/ ShowGallery \/ ClearFlag
    PROVE  TypeInv'
<1>0. GallerySize \in Nat \ {0} /\ MaxNames \in Nat
  BY DisplayAssumption
<1>1. CASE LookAtFlag
  BY <1>1 DEF TypeInv, TypeOK, LoopBounded, LookAtFlag, Main, mailbox, people,
     gallery
<1>2. CASE GetFaceID
  <2>1. step' = 0 /\ m' = face_id /\ first' = face_id /\ face_id \in Int
    BY <1>2 DEF GetFaceID, TypeInv, TypeOK
  <2>2. LoopBounded'
    BY <1>0, <2>1 DEF LoopBounded
  <2>3. first' \in 0..MaxNames /\ m' \in Int /\ step' \in 0..GallerySize
    BY <1>0, <2>1 DEF TypeInv, TypeOK
  <2>4. QED
    BY <1>2, <2>2, <2>3 DEF TypeInv, TypeOK, GetFaceID, Main, mailbox, people
<1>3. CASE ReadPicture
  <2>1. /\ main = "pictures" /\ m > first - GallerySize
        /\ UNCHANGED <<threads, mailbox, people, flushRegistMat, first, shown,
                       missed>>
        /\ m' = m - 1
    BY <1>3 DEF ReadPicture
  <2>2. m \in Int /\ first \in Int /\ step \in Nat /\ step <= first - m
    BY <2>1 DEF TypeInv, TypeOK, LoopBounded
  <2>3. step + 1 \in Cells /\ step + 1 \in 0..GallerySize
    BY <1>0, <2>1, <2>2 DEF Cells
  <2>4. /\ step' \in 0..GallerySize
        /\ step' <= step + 1
        /\ show_registed' \in [Cells -> Picture]
    BY <1>3, <2>2, <2>3 DEF ReadPicture, TypeInv, TypeOK
  <2>5. LoopBounded'
    BY <1>0, <2>1, <2>2, <2>4 DEF LoopBounded, TypeInv
  <2>6. QED
    BY <2>1, <2>2, <2>4, <2>5 DEF TypeInv, TypeOK, threads, mailbox, people
<1>4. CASE PicturesRead
  BY <1>4 DEF TypeInv, TypeOK, LoopBounded, PicturesRead, Main, mailbox,
     people, gallery
<1>5. CASE ShowGallery
  BY <1>5 DEF TypeInv, TypeOK, LoopBounded, ShowGallery, Main, mailbox, people
<1>6. CASE ClearFlag
  BY <1>6 DEF TypeInv, TypeOK, LoopBounded, ClearFlag, Main, mailbox, people,
     gallery
<1>7. QED
  BY <1>1, <1>2, <1>3, <1>4, <1>5, <1>6

\* And those that register somebody.
LEMMA TypePeople ==
    ASSUME TypeInv,
           CountUp \/ RegisterSave \/ OpenPicture \/ WritePicture \/ RaiseFlag
    PROVE  TypeInv'
<1>0. MaxNames \in Nat /\ face_id \in 0..MaxNames
  BY DisplayAssumption DEF TypeInv, TypeOK
<1>1. UNCHANGED <<mailbox, gallery, main>>
  BY DEF CountUp, RegisterSave, OpenPicture, WritePicture, RaiseFlag, Rec
<1>2. LoopBounded'
  BY <1>1 DEF TypeInv, LoopBounded, gallery
<1>3. CASE CountUp
  BY <1>0, <1>1, <1>2, <1>3 DEF TypeInv, TypeOK, CountUp, Rec, mailbox, gallery
<1>4. CASE RegisterSave
  BY <1>1, <1>2, <1>4 DEF TypeInv, TypeOK, RegisterSave, Rec, mailbox, gallery,
     people
<1>5. CASE OpenPicture
  <2>1. /\ DOMAIN pictures' \subseteq DOMAIN pictures
        /\ \A p \in DOMAIN pictures' : pictures'[p] = pictures[p]
    BY <1>5 DEF OpenPicture
  <2>2. /\ DOMAIN pictures' \subseteq Nat
        /\ \A p \in DOMAIN pictures' : pictures'[p] \in Picture
    BY <2>1 DEF TypeInv, TypeOK
  <2>3. QED
    BY <1>1, <1>2, <1>5, <2>2 DEF TypeInv, TypeOK, OpenPicture, Rec, mailbox,
       gallery
<1>6. CASE WritePicture
  <2>1. /\ DOMAIN pictures' = DOMAIN pictures \cup {face_id}
        /\ \A p \in DOMAIN pictures' :
             pictures'[p] = IF p = face_id THEN [of |-> p, mine |-> TRUE]
                                           ELSE pictures[p]
    BY <1>6 DEF WritePicture
  <2>2. [of |-> face_id, mine |-> TRUE] \in Picture
    BY <1>0 DEF Picture
  <2>3. DOMAIN pictures' \subseteq Nat
    BY <1>0, <2>1 DEF TypeInv, TypeOK
  <2>4. \A p \in DOMAIN pictures' : pictures'[p] \in Picture
    BY <2>1, <2>2 DEF TypeInv, TypeOK
  <2>5. QED
    BY <1>1, <1>2, <1>6, <2>3, <2>4 DEF TypeInv, TypeOK, WritePicture, Rec,
       mailbox, gallery
<1>7. CASE RaiseFlag
  <2>1. missed' \in BOOLEAN
    BY <1>7 DEF RaiseFlag
  <2>2. QED
    BY <1>1, <1>2, <1>7, <2>1 DEF TypeInv, TypeOK, RaiseFlag, Rec, mailbox,
       gallery, people
<1>8. QED
  BY <1>3, <1>4, <1>5, <1>6, <1>7

\* At the start the mailbox and the gallery are empty.
LEMMA TypeInit == Init => TypeInv
<1> SUFFICES ASSUME Init PROVE TypeInv
  OBVIOUS
<1>0. GallerySize \in Nat /\ MaxFrame \in Nat /\ MaxNames \in Nat
      /\ Leftover \subseteq Nat
  BY DisplayAssumption
<1>1. NoPicture \in Picture
  BY DEF NoPicture, Picture
<1>2. DOMAIN pictures = Leftover /\ \A p \in Leftover : pictures[p] \in Picture
  BY <1>0 DEF Init, Picture
<1>3. 0 \in 0..MaxFrame /\ 0 \in 0..MaxNames /\ 0 \in 0..GallerySize
  BY <1>0
<1>4. /\ show_registed \in [Cells -> Picture]
      /\ shown \in [Cells -> Picture]
  BY <1>1 DEF Init
<1>5. LoopBounded
  BY DEF Init, LoopBounded
<1>6. mt \in Thread \cup {"none"} /\ missed \in BOOLEAN
  BY DEF Init
<1>7. QED
  BY <1>0, <1>2, <1>3, <1>4, <1>5, <1>6 DEF Init, TypeInv, TypeOK

\* No step of either thread breaks the types or the bounds of the loop.
LEMMA DisplayTypeNext == TypeInv /\ [Next]_vars => TypeInv'
<1> SUFFICES ASSUME TypeInv, [Next]_vars PROVE TypeInv'
  OBVIOUS
<1>1. CASE UNCHANGED vars
  BY <1>1 DEF vars, threads, mailbox, people, gallery, TypeInv, TypeOK,
     LoopBounded
<1>2. QED
  BY <1>1, TypeMailbox, TypeGallery, TypePeople DEF Next, MainStep, RecStep

\* Everything the two threads share keeps its type, and the loop of main.cpp
\* never writes behind the last cell, whoever is registered while it reads.
THEOREM DisplayTypes == Spec => []TypeOK
<1>1. TypeInv => TypeOK
  BY DEF TypeInv
<1>2. QED
  BY <1>1, TypeInit, DisplayTypeNext, PTL DEF Spec

-----------------------------------------------------------------------------
(* The order of the gallery *)

\* The cells list people from the newest on and nobody twice.
Ordered(cells) ==
    \A c \in Cells, d \in Cells :
        c < d /\ cells[d] # NoPicture => cells[c].of > cells[d].of

\* A file is named after whom it shows, and people are counted from 1.
Pictures ==
    /\ \A p \in DOMAIN pictures : p > 0 /\ pictures[p].of = p
    /\ rec \in {"register", "open", "write", "raise"} => face_id > 0

\* Nobody is in a cell who has not been counted yet; an empty cell is empty.
CellsCounted ==
    /\ \A c \in Cells : show_registed[c] = NoPicture \/ show_registed[c].of > 0
    /\ \A c \in Cells : show_registed[c].of <= face_id
    /\ main = "pictures" => first <= face_id

\* Main goes to the pictures only with the flag up, and nobody but main
\* takes it down.
FlagStaysUp ==
    main \in {"id", "pictures", "copy", "clear"} => flushRegistMat = 1

\* A picture that was shown is still there, but while it is written again.
CellsHavePictures ==
    \A c \in Cells :
        show_registed[c] # NoPicture =>
            \/ show_registed[c].of \in DOMAIN pictures
            \/ show_registed[c].of = face_id /\ rec = "write"

\* The picture of a cell is there to stay: it is not the one being written.
Stays(c) ==
    show_registed[c] # NoPicture =>
        /\ show_registed[c].of \in DOMAIN pictures
        /\ rec \in {"register", "open", "write"} => show_registed[c].of < face_id

\* So it is in every cell while the flag is up and main is elsewhere, and in
\* the cells main has not come to while it reads.  (A picture left by an
\* earlier process may be shown before it is written again, but the flag is
\* then down until it is.)
OldCellsStay ==
    /\ flushRegistMat = 1 /\ main \notin {"pictures", "copy", "clear"} =>
           \A c \in Cells : Stays(c)
    /\ main = "pictures" => \A c \in Cells : c > step => Stays(c)

\* The cells main has filled are of people after those it still looks for,
\* the others of people it still looks for or does not come to.
Parted ==
    main = "pictures" =>
        \A c \in Cells :
            IF c <= step THEN show_registed[c].of > m
            ELSE show_registed[c] = NoPicture \/ show_registed[c].of <= m

OrderInv ==
    /\ Pictures
    /\ CellsCounted
    /\ FlagStaysUp
    /\ CellsHavePictures
    /\ OldCellsStay
    /\ Parted
    /\ Ordered(show_registed)
    /\ Ordered(shown)

\* Steps of main before the gallery and of rec outside a registration.
LEMMA OrderKept ==
    ASSUME OrderInv, UNCHANGED <<people, flushRegistMat, gallery>>,
           \/ main' = main
           \/ {main, main'} \cap {"id", "pictures", "copy", "clear"} = {}
           \/ main = "flush" /\ main' = "id" /\ flushRegistMat = 1,
           rec' = rec \/ {rec, rec'} \cap {"register", "open", "write", "raise"} = {}
    PROVE  OrderInv'
<1> USE DEF people, gallery
<1>1. Pictures' /\ CellsCounted'
  BY DEF OrderInv, Pictures, CellsCounted
<1>2. FlagStaysUp'
  BY DEF OrderInv, FlagStaysUp
<1>3. CellsHavePictures'
  BY DEF OrderInv, CellsHavePictures
<1>4. OldCellsStay'
  BY DEF OrderInv, OldCellsStay, Stays
<1>5. Parted'
  BY DEF OrderInv, Parted
<1>6. Ordered(show_registed)' /\ Ordered(shown)'
  BY DEF OrderInv, Ordered
<1>7. QED
  BY <1>1, <1>2, <1>3, <1>4, <1>5, <1>6 DEF OrderInv

\* Those of the mailbox are such steps, whatever they hand over.
LEMMA MailboxKept ==
    ASSUME \/ ReadFrame \/ SendLock \/ SendMat \/ SendSrc \/ SendUnlock
           \/ FetchLock \/ FetchMat \/ FetchSrc \/ FetchUnlock \/ ReleaseFrame
           \/ LookAtFlag \/ UNCHANGED vars
    PROVE  /\ UNCHANGED <<people, flushRegistMat, gallery, missed>>
           /\ \/ main' = main
              \/ {main, main'} \cap {"id", "pictures", "copy", "clear"} = {}
              \/ main = "flush" /\ main' = "id" /\ flushRegistMat = 1
           /\ rec' = rec \/ {rec, rec'} \subseteq
                              {"fetch", "mat", "src", "unlock", "frame"}
<1>1. CASE \/ ReadFrame \/ SendLock \/ SendMat \/ SendSrc \/ SendUnlock
           \/ LookAtFlag
  BY <1>1 DEF ReadFrame, SendLock, SendMat, SendSrc, SendUnlock, LookAtFlag, Main
<1>2. CASE \/ FetchLock \/ FetchMat \/ FetchSrc \/ FetchUnlock \/ ReleaseFrame
  BY <1>2 DEF FetchLock, FetchMat, FetchSrc, FetchUnlock, ReleaseFrame, Rec
<1>3. CASE UNCHANGED vars
  BY <1>3 DEF vars, threads
<1>4. QED
  BY <1>1, <1>2, <1>3

\* A turn of the loop.  When the picture is there its cell was one of an older
\* person, so was every cell behind it; when it is not, nobody in the cells
\* behind is the one looked for, because their pictures are there.
LEMMA OrderReadPicture ==
    ASSUME TypeInv, OrderInv, ReadPicture
    PROVE  OrderInv'
<1>1. /\ main = "pictures" /\ main' = main /\ rec' = rec
      /\ UNCHANGED <<people, flushRegistMat, first, shown>>
      /\ m' = m - 1
  BY DEF ReadPicture, threads
<1>2. /\ m \in Int /\ first \in Int /\ face_id \in Int /\ step \in Int
      /\ m <= first /\ first <= face_id
      /\ \A c \in Cells : show_registed[c] \in Picture
      /\ show_registed \in [Cells -> Picture]
      /\ GallerySize \in Nat
      /\ 0 <= step
  BY <1>1, DisplayAssumption
     DEF TypeInv, TypeOK, LoopBounded, OrderInv, CellsCounted
<1>3. \A c \in Cells : c \in Int /\ show_registed[c].of \in Int
  BY <1>2 DEF Cells, Picture
<1>4. CASE m \notin DOMAIN pictures
  <2>1. show_registed' = show_registed /\ step' = step
    BY <1>4 DEF ReadPicture
  <2>2. Parted'
    <3>1. \A c \in Cells : c > step =>
             show_registed[c] = NoPicture \/ show_registed[c].of # m
      BY <1>1, <1>4 DEF OrderInv, OldCellsStay, Stays
    <3>2. \A c \in Cells : c > step =>
             show_registed[c] = NoPicture \/ show_registed[c].of <= m - 1
      BY <1>1, <1>2, <1>3, <3>1 DEF OrderInv, Parted
    <3>3. \A c \in Cells : c <= step => show_registed[c].of > m - 1
      BY <1>1, <1>2, <1>3 DEF OrderInv, Parted
    <3>4. QED
      BY <1>1, <1>2, <1>3, <2>1, <3>2, <3>3 DEF Parted
  <2>3. Pictures' /\ CellsCounted' /\ FlagStaysUp' /\ CellsHavePictures'
    BY <1>1, <2>1 DEF OrderInv, Pictures, CellsCounted, FlagStaysUp,
       CellsHavePictures, people
  <2>4. OldCellsStay'
    BY <1>1, <2>1 DEF OrderInv, OldCellsStay, Stays, people
  <2>5. Ordered(show_registed)' /\ Ordered(shown)'
    BY <1>1, <2>1 DEF OrderInv, Ordered
  <2>6. QED
    BY <2>2, <2>3, <2>4, <2>5 DEF OrderInv
<1>5. CASE m \in DOMAIN pictures
  <2>1. /\ show_registed' = [show_registed EXCEPT ![step + 1] = pictures[m]]
        /\ step' = step + 1
    BY <1>5 DEF ReadPicture
  <2>2. m > 0 /\ pictures[m].of = m
    BY <1>5 DEF OrderInv, Pictures
  <2>3. step + 1 \in Cells
    BY <1>1, <1>2 DEF TypeInv, TypeOK, LoopBounded, Cells, ReadPicture
  <2>4. /\ show_registed'[step + 1] = pictures[m]
        /\ \A c \in Cells : c # step + 1 => show_registed'[c] = show_registed[c]
    BY <1>2, <2>1, <2>3
  <2>5. pictures[m] # NoPicture
    BY <2>2 DEF NoPicture
  <2>6. \A c \in Cells : c > step + 1 =>
           show_registed[c] = NoPicture \/ show_registed[c].of <= m - 1
    <3> SUFFICES ASSUME NEW c \in Cells, c > step + 1,
                        show_registed[c] # NoPicture
                 PROVE  show_registed[c].of <= m - 1
      OBVIOUS
    <3>1. show_registed[step + 1].of > show_registed[c].of
      BY <1>2, <1>3, <2>3 DEF OrderInv, Ordered
    <3>2. step + 1 > step
      BY <1>2
    <3>3. show_registed[step + 1] # NoPicture
      <4>1. show_registed[c].of > 0
        BY DEF OrderInv, CellsCounted
      <4>2. QED
        BY <1>3, <2>3, <3>1, <4>1 DEF NoPicture
    <3>4. ~ (step + 1 <= step)
      BY <1>2
    <3>5. show_registed[step + 1].of <= m
      BY <1>1, <2>3, <3>3, <3>4 DEF OrderInv, Parted
    <3>6. QED
      BY <1>2, <1>3, <2>3, <3>1, <3>5
  <2>7. \A c \in Cells : c <= step => show_registed[c].of > m
    BY <1>1 DEF OrderInv, Parted
  <2>8. Parted'
    <3>1. \A c \in Cells : c <= step + 1 => show_registed'[c].of > m - 1
      BY <1>2, <1>3, <2>2, <2>4, <2>7
    <3>2. \A c \in Cells : ~ (c <= step + 1) =>
             show_registed'[c] = NoPicture \/ show_registed'[c].of <= m - 1
      BY <1>2, <1>3, <2>4, <2>6
    <3>3. QED
      BY <1>1, <2>1, <3>1, <3>2 DEF Parted
  <2>9. Pictures' /\ FlagStaysUp'
    BY <1>1 DEF OrderInv, Pictures, FlagStaysUp, people
  <2>10. CellsCounted'
    BY <1>1, <1>2, <2>2, <2>4 DEF OrderInv, CellsCounted, people
  <2>11. CellsHavePictures'
    BY <1>1, <1>5, <2>2, <2>4 DEF OrderInv, CellsHavePictures, people
  <2>12. OldCellsStay'
    <3>1. \A c \in Cells : c > step + 1 => c > step /\ c # step + 1
      BY <1>2, <1>3
    <3>2. \A c \in Cells : c > step => Stays(c)
      BY <1>1 DEF OrderInv, OldCellsStay
    <3>3. \A c \in Cells : c > step' => Stays(c)'
      BY <1>1, <2>1, <2>4, <3>1, <3>2 DEF Stays, people
    <3>4. QED
      BY <1>1, <3>3 DEF OldCellsStay
  <2>13. Ordered(show_registed)'
    <3> SUFFICES ASSUME NEW c \in Cells, NEW d \in Cells, c < d,
                        show_registed'[d] # NoPicture
                 PROVE  show_registed'[c].of > show_registed'[d].of
      BY DEF Ordered
    <3>1. CASE d <= step
      BY <1>2, <1>3, <2>4, <3>1 DEF OrderInv, Ordered
    <3>2. CASE d = step + 1
      <4>1. c <= step /\ c # step + 1
        BY <1>2, <1>3, <3>2
      <4>2. QED
        BY <2>2, <2>4, <2>7, <3>2, <4>1
    <3>3. CASE d > step + 1 /\ c = step + 1
      BY <1>2, <1>3, <2>2, <2>4, <2>6, <3>3
    <3>4. CASE d > step + 1 /\ c # step + 1
      BY <1>2, <1>3, <2>4, <3>4 DEF OrderInv, Ordered
    <3>5. QED
      BY <1>2, <1>3, <3>1, <3>2, <3>3, <3>4
  <2>14. Ordered(shown)'
    BY <1>1 DEF OrderInv, Ordered
  <2>15. QED
    BY <2>8, <2>9, <2>10, <2>11, <2>12, <2>13, <2>14 DEF OrderInv
<1>6. QED
  BY <1>4, <1>5

\* The other steps of main at the gallery.
LEMMA OrderGallery ==
    ASSUME TypeInv, OrderInv,
           GetFaceID \/ PicturesRead \/ ShowGallery \/ ClearFlag
    PROVE  OrderInv'
<1>0. /\ face_id \in Int
      /\ GallerySize \in Nat
      /\ \A c \in Cells : c \in Int /\ c > 0 /\ show_registed[c].of \in Int
  BY DisplayAssumption DEF TypeInv, TypeOK, Cells, Picture
<1>1. /\ rec' = rec
      /\ UNCHANGED <<people, show_registed>>
  BY DEF GetFaceID, PicturesRead, ShowGallery, ClearFlag, Main, people, gallery
<1>2. /\ Pictures' /\ CellsHavePictures' /\ Ordered(show_registed)'
      /\ \A c \in Cells : Stays(c)' <=> Stays(c)
  BY <1>1 DEF OrderInv, Pictures, CellsHavePictures, Ordered, Stays, people
<1>3. CASE GetFaceID
  <2>1. /\ main = "id" /\ main' = "pictures"
        /\ first' = face_id /\ m' = face_id /\ step' = 0
        /\ UNCHANGED <<face_id, flushRegistMat, shown>>
    BY <1>3 DEF GetFaceID, Main, people
  <2>2. CellsCounted' /\ Parted'
    BY <1>0, <1>1, <2>1 DEF OrderInv, CellsCounted, Parted
  <2>3. FlagStaysUp' /\ Ordered(shown)'
    BY <2>1 DEF OrderInv, FlagStaysUp, Ordered
  <2>4. flushRegistMat = 1
    BY <2>1 DEF OrderInv, FlagStaysUp
  <2>5. \A c \in Cells : Stays(c)
    BY <2>1, <2>4 DEF OrderInv, OldCellsStay
  <2>6. OldCellsStay'
    BY <1>2, <2>1, <2>5 DEF OldCellsStay
  <2>7. QED
    BY <1>2, <2>2, <2>3, <2>6 DEF OrderInv
<1>4. CASE PicturesRead \/ ShowGallery
  <2>1. /\ main' \in {"copy", "clear"}
        /\ main \in {"pictures", "copy"}
        /\ UNCHANGED <<face_id, flushRegistMat>>
        /\ shown' = shown \/ shown' = show_registed
    BY <1>4 DEF PicturesRead, ShowGallery, Main, people, gallery
  <2>2. CellsCounted' /\ Parted' /\ FlagStaysUp' /\ OldCellsStay'
    BY <1>1, <2>1
       DEF OrderInv, CellsCounted, Parted, FlagStaysUp, OldCellsStay
  <2>3. Ordered(shown)'
    BY <2>1 DEF OrderInv, Ordered
  <2>4. QED
    BY <1>2, <2>2, <2>3 DEF OrderInv
<1>5. CASE ClearFlag
  <2>1. /\ main' = "read" /\ flushRegistMat' = 0
        /\ UNCHANGED <<face_id, shown>>
    BY <1>5 DEF ClearFlag, Main, people, gallery
  <2>2. CellsCounted' /\ Parted' /\ FlagStaysUp' /\ OldCellsStay'
    BY <1>1, <2>1
       DEF OrderInv, CellsCounted, Parted, FlagStaysUp, OldCellsStay
  <2>3. Ordered(shown)'
    BY <2>1 DEF OrderInv, Ordered
  <2>4. QED
    BY <1>2, <2>2, <2>3 DEF OrderInv
<1>6. QED
  BY <1>3, <1>4, <1>5

\* A registration: nobody in a cell is the newcomer until the flag is raised,
\* or the flag is down.
LEMMA OrderPeople ==
    ASSUME TypeInv, OrderInv,
           CountUp \/ RegisterSave \/ OpenPicture \/ WritePicture \/ RaiseFlag
    PROVE  OrderInv'
<1>0. /\ face_id \in Int /\ face_id >= 0 /\ first \in Int
      /\ \A c \in Cells : show_registed[c].of \in Int
  BY DEF TypeInv, TypeOK, Picture
<1>1. UNCHANGED <<gallery, main>>
  BY DEF CountUp, RegisterSave, OpenPicture, WritePicture, RaiseFlag, Rec
<1>2. Parted' /\ Ordered(show_registed)' /\ Ordered(shown)'
  BY <1>1 DEF OrderInv, Parted, Ordered, gallery
<1>3. flushRegistMat' = flushRegistMat \/ flushRegistMat' = 1
  BY DEF CountUp, RegisterSave, OpenPicture, WritePicture, RaiseFlag
<1>4. FlagStaysUp'
  BY <1>1, <1>3 DEF OrderInv, FlagStaysUp
<1>5. CASE CountUp
  <2>1. /\ rec = "frame" /\ rec' = "register"
        /\ face_id' = face_id + 1
        /\ UNCHANGED <<pictures, flushRegistMat>>
    BY <1>5 DEF CountUp, Rec
  <2>2. Pictures'
    BY <1>0, <2>1 DEF OrderInv, Pictures
  <2>3. CellsCounted'
    BY <1>0, <1>1, <2>1 DEF OrderInv, CellsCounted, gallery
  <2>4. CellsHavePictures'
    BY <1>1, <2>1 DEF OrderInv, CellsHavePictures, gallery
  <2>5. \A c \in Cells : Stays(c) => Stays(c)'
    BY <1>0, <1>1, <2>1 DEF OrderInv, CellsCounted, Stays, gallery
  <2>6. OldCellsStay'
    BY <1>1, <2>1, <2>5 DEF OrderInv, OldCellsStay, gallery
  <2>7. QED
    BY <1>2, <1>4, <2>2, <2>3, <2>4, <2>6 DEF OrderInv
<1>6. CASE RegisterSave
  <2>1. /\ rec = "register" /\ rec' = "open"
        /\ UNCHANGED <<people, flushRegistMat>>
    BY <1>6 DEF RegisterSave, Rec
  <2>2. Pictures' /\ CellsCounted' /\ CellsHavePictures' /\ OldCellsStay'
    BY <1>1, <2>1 DEF OrderInv, Pictures, CellsCounted, CellsHavePictures,
       OldCellsStay, Stays, gallery, people
  <2>3. QED
    BY <1>2, <1>4, <2>2 DEF OrderInv
<1>7. CASE OpenPicture
  <2>1. /\ rec = "open" /\ rec' = "write"
        /\ UNCHANGED <<face_id, flushRegistMat>>
        /\ DOMAIN pictures' = DOMAIN pictures \ {face_id}
        /\ \A p \in DOMAIN pictures' : pictures'[p] = pictures[p]
    BY <1>7 DEF OpenPicture, Rec
  <2>2. Pictures' /\ CellsCounted'
    BY <1>1, <2>1 DEF OrderInv, Pictures, CellsCounted, gallery
  <2>3. CellsHavePictures'
    BY <1>1, <2>1 DEF OrderInv, CellsHavePictures, gallery
  <2>4. \A c \in Cells : Stays(c) => Stays(c)'
    BY <1>0, <1>1, <2>1 DEF Stays, gallery
  <2>5. OldCellsStay'
    BY <1>1, <2>1, <2>4 DEF OrderInv, OldCellsStay, gallery
  <2>6. QED
    BY <1>2, <1>4, <2>2, <2>3, <2>5 DEF OrderInv
<1>8. CASE WritePicture
  <2>1. /\ rec = "write" /\ rec' = "raise"
        /\ UNCHANGED <<face_id, flushRegistMat>>
        /\ DOMAIN pictures' = DOMAIN pictures \cup {face_id}
        /\ \A p \in DOMAIN pictures' :
             pictures'[p] = IF p = face_id THEN [of |-> p, mine |-> TRUE]
                                           ELSE pictures[p]
    BY <1>8 DEF WritePicture, Rec
  <2>2. Pictures' /\ CellsCounted'
    <3>1. face_id > 0 /\ \A p \in DOMAIN pictures : p > 0 /\ pictures[p].of = p
      BY <2>1 DEF OrderInv, Pictures
    <3>2. \A p \in DOMAIN pictures' : p > 0 /\ pictures'[p].of = p
      <4> SUFFICES ASSUME NEW p \in DOMAIN pictures'
                   PROVE  p > 0 /\ pictures'[p].of = p
        OBVIOUS
      <4>1. CASE p = face_id
        <5>1. pictures'[p] = [of |-> p, mine |-> TRUE]
          BY <2>1, <4>1
        <5>2. [of |-> p, mine |-> TRUE].of = p
          OBVIOUS
        <5>3. QED
          BY <3>1, <4>1, <5>1, <5>2
      <4>2. CASE p # face_id
        <5>1. p \in DOMAIN pictures /\ pictures'[p] = pictures[p]
          BY <2>1, <4>2
        <5>2. QED
          BY <3>1, <5>1
      <4>3. QED
        BY <4>1, <4>2
    <3>3. Pictures'
      BY <2>1, <3>1, <3>2 DEF Pictures
    <3>4. CellsCounted'
      BY <1>1, <2>1 DEF OrderInv, CellsCounted, gallery
    <3>5. QED
      BY <3>3, <3>4
  <2>3. CellsHavePictures'
    BY <1>1, <2>1 DEF OrderInv, CellsHavePictures, gallery
  <2>4. \A c \in Cells : Stays(c) => Stays(c)'
    BY <1>1, <2>1 DEF Stays, gallery
  <2>5. OldCellsStay'
    BY <1>1, <2>1, <2>4 DEF OrderInv, OldCellsStay, gallery
  <2>6. QED
    BY <1>2, <1>4, <2>2, <2>3, <2>5 DEF OrderInv
<1>9. CASE RaiseFlag
  <2>1. rec = "raise" /\ rec' = "frame" /\ UNCHANGED people
    BY <1>9 DEF RaiseFlag, Rec
  <2>2. Pictures' /\ CellsCounted' /\ CellsHavePictures'
    BY <1>1, <2>1 DEF OrderInv, Pictures, CellsCounted, CellsHavePictures,
       gallery, people
  <2>3. \A c \in Cells : Stays(c)'
    BY <1>1, <2>1 DEF OrderInv, CellsHavePictures, Stays, gallery, people
  <2>4. OldCellsStay'
    BY <2>3 DEF OldCellsStay
  <2>5. QED
    BY <1>2, <1>4, <2>2, <2>4 DEF OrderInv
<1>10. QED
  BY <1>5, <1>6, <1>7, <1>8, <1>9

\* At the start the gallery is empty and so are its cells.
LEMMA OrderInit == Init => OrderInv
<1> SUFFICES ASSUME Init PROVE OrderInv
  OBVIOUS
<1>1. \A c \in Cells : show_registed[c] = NoPicture /\ shown[c] = NoPicture
  BY DEF Init
<1>2. Leftover \subseteq Nat \ {0}
  BY DisplayAssumption
<1>3. Pictures
  BY <1>2 DEF Init, Pictures
<1>4. CellsCounted
  BY <1>1 DEF Init, CellsCounted, NoPicture
<1>5. FlagStaysUp /\ CellsHavePictures /\ OldCellsStay /\ Parted
  BY <1>1 DEF Init, FlagStaysUp, CellsHavePictures, OldCellsStay, Parted
<1>6. Ordered(show_registed) /\ Ordered(shown)
  BY <1>1 DEF Ordered
<1>7. QED
  BY <1>3, <1>4, <1>5, <1>6 DEF OrderInv

\* What no step of the two threads undoes.
LEMMA OrderNext == TypeInv /\ OrderInv /\ [Next]_vars => OrderInv'
<1> SUFFICES ASSUME TypeInv, OrderInv, [Next]_vars PROVE OrderInv'
  OBVIOUS
<1>1. CASE \/ ReadFrame \/ SendLock \/ SendMat \/ SendSrc \/ SendUnlock
           \/ FetchLock \/ FetchMat \/ FetchSrc \/ FetchUnlock \/ ReleaseFrame
           \/ LookAtFlag \/ UNCHANGED vars
  BY <1>1, MailboxKept, OrderKept
<1>2. QED
  BY <1>1, OrderReadPicture, OrderGallery, OrderPeople DEF Next, MainStep, RecStep

\* The gallery on the screen lists people from the newest on and nobody twice,
\* although main reads it picture by picture without a lock while run writes
\* the next one over what an earlier process left.
THEOREM GalleryInOrder == Spec => []GalleryOrdered
<1>1. OrderInv => GalleryOrdered
  BY DEF OrderInv, Ordered, GalleryOrdered
<1>2. QED
  BY <1>1, TypeInit, DisplayTypeNext, OrderInit, OrderNext, PTL DEF Spec

-----------------------------------------------------------------------------
(* The first of the gallery *)

\* Nobody is being registered.
Quiet == rec \in {"fetch", "mat", "src", "unlock", "frame"}

Current == [of |-> face_id, mine |-> TRUE]

\* The picture of the last person registered is written.
LastWritten ==
    (Quiet \/ rec = "raise") /\ face_id > 0 =>
        face_id \in DOMAIN pictures /\ pictures[face_id] = Current

\* It is on its way to the first cell of the screen while main is at it, and
\* there when the flag is down; unless main has missed the flag.
CurrentOnItsWay ==
    Quiet /\ face_id > 0 /\ ~ missed =>
        /\ flushRegistMat = 0 => shown[1] = Current
        /\ main = "pictures" =>
              \/ m = face_id /\ first = face_id /\ step = 0
              \/ step > 0 /\ m < first /\ show_registed[1] = Current
        /\ main = "copy" => show_registed[1] = Current
        /\ main = "clear" => shown[1] = Current

CurrentInv == LastWritten /\ CurrentOnItsWay

\* Nothing of this is touched elsewhere.
LEMMA CurrentKept ==
    ASSUME CurrentInv, OrderInv, TypeInv,
           UNCHANGED <<people, flushRegistMat, gallery, missed>>,
           \/ main' = main
           \/ {main, main'} \cap {"id", "pictures", "copy", "clear"} = {}
           \/ main = "flush" /\ main' = "id" /\ flushRegistMat = 1,
           rec' = rec \/ {rec, rec'} \subseteq
                           {"fetch", "mat", "src", "unlock", "frame"}
    PROVE  CurrentInv'
<1>1. (Quiet' <=> Quiet) /\ (rec' = "raise" <=> rec = "raise")
  BY DEF Quiet
<1>2. Current' = Current
  BY DEF Current, people
<1>3. LastWritten'
  BY <1>1, <1>2 DEF CurrentInv, LastWritten, people
<1>4. CurrentOnItsWay'
  BY <1>1, <1>2 DEF CurrentInv, CurrentOnItsWay, people, gallery
<1>5. QED
  BY <1>3, <1>4 DEF CurrentInv

\* Main brings the picture to the screen before it takes the flag down.
LEMMA CurrentGallery ==
    ASSUME CurrentInv, OrderInv, TypeInv,
           \/ GetFaceID \/ ReadPicture \/ PicturesRead \/ ShowGallery \/ ClearFlag
    PROVE  CurrentInv'
<1>0. /\ GallerySize \in Nat \ {0} /\ first \in Int /\ m \in Int
      /\ face_id \in Int /\ step \in Int
      /\ show_registed \in [Cells -> Picture]
      /\ 1 \in Cells
  BY DisplayAssumption DEF TypeInv, TypeOK, Cells
<1>1. rec' = rec /\ UNCHANGED people
  BY DEF GetFaceID, ReadPicture, PicturesRead, ShowGallery, ClearFlag, Main, threads
<1>2. (Quiet' <=> Quiet) /\ Current' = Current
  BY <1>1 DEF Quiet, Current, people
<1>3. LastWritten'
  BY <1>1, <1>2 DEF CurrentInv, LastWritten, people
<1>4. CASE GetFaceID
  <2>1. /\ main = "id" /\ main' = "pictures"
        /\ m' = face_id /\ first' = face_id /\ step' = 0
        /\ flushRegistMat' = 1 /\ face_id' = face_id
    BY <1>4 DEF GetFaceID, Main, OrderInv, FlagStaysUp, people
  <2>2. CurrentOnItsWay'
    BY <2>1 DEF CurrentOnItsWay
  <2>3. QED
    BY <1>3, <2>2 DEF CurrentInv
<1>5. CASE ReadPicture
  <2>1. /\ main = "pictures" /\ main' = main
        /\ m' = m - 1 /\ first' = first
        /\ flushRegistMat' = flushRegistMat /\ flushRegistMat = 1
        /\ face_id' = face_id /\ missed' = missed
    BY <1>5 DEF ReadPicture, threads, OrderInv, FlagStaysUp, people
  <2> SUFFICES ASSUME Quiet, face_id > 0, ~ missed
               PROVE  step' > 0 /\ m' < first' /\ show_registed'[1] = Current
    BY <1>2, <1>3, <2>1 DEF CurrentInv, CurrentOnItsWay
  <2>2. \/ m = face_id /\ first = face_id /\ step = 0
        \/ step > 0 /\ m < first /\ show_registed[1] = Current
    BY <2>1 DEF CurrentInv, CurrentOnItsWay
  <2>3. CASE m = face_id /\ first = face_id /\ step = 0
    <3>1. face_id \in DOMAIN pictures /\ pictures[face_id] = Current
      BY DEF CurrentInv, LastWritten
    <3>2. /\ show_registed' = [show_registed EXCEPT ![step + 1] = pictures[m]]
          /\ step' = step + 1
      BY <1>5, <2>3, <3>1 DEF ReadPicture
    <3>3. step + 1 = 1
      BY <2>3
    <3>4. show_registed'[1] = Current
      BY <1>0, <2>3, <3>1, <3>2, <3>3
    <3>5. QED
      BY <1>0, <2>1, <2>3, <3>2, <3>4
  <2>4. CASE step > 0 /\ m < first /\ show_registed[1] = Current
    <3>1. step + 1 # 1
      BY <1>0, <2>4
    <3>2. /\ step' = step \/ step' = step + 1
          /\ show_registed'[1] = show_registed[1]
      BY <1>0, <1>5, <3>1 DEF ReadPicture
    <3>3. QED
      BY <1>0, <2>1, <2>4, <3>2
  <2>5. QED
    BY <2>2, <2>3, <2>4
<1>6. CASE PicturesRead
  <2>1. /\ main = "pictures" /\ main' = "copy"
        /\ m <= first - GallerySize
        /\ UNCHANGED <<flushRegistMat, show_registed, missed, face_id>>
        /\ flushRegistMat = 1
    BY <1>6 DEF PicturesRead, Main, gallery, OrderInv, FlagStaysUp, people
  <2>2. m # first
    BY <1>0, <2>1
  <2>3. CurrentOnItsWay'
    BY <1>2, <2>1, <2>2 DEF CurrentInv, CurrentOnItsWay
  <2>4. QED
    BY <1>3, <2>3 DEF CurrentInv
<1>7. CASE ShowGallery
  <2>1. /\ main = "copy" /\ main' = "clear"
        /\ shown' = show_registed
        /\ UNCHANGED <<flushRegistMat, missed, face_id>>
        /\ flushRegistMat = 1
    BY <1>7 DEF ShowGallery, Main, OrderInv, FlagStaysUp, people
  <2>2. CurrentOnItsWay'
    BY <1>2, <2>1 DEF CurrentInv, CurrentOnItsWay
  <2>3. QED
    BY <1>3, <2>2 DEF CurrentInv
<1>8. CASE ClearFlag
  <2>1. /\ main = "clear" /\ main' = "read"
        /\ UNCHANGED <<shown, missed, face_id>>
    BY <1>8 DEF ClearFlag, Main, gallery, people
  <2>2. CurrentOnItsWay'
    BY <1>2, <2>1 DEF CurrentInv, CurrentOnItsWay
  <2>3. QED
    BY <1>3, <2>2 DEF CurrentInv
<1>9. QED
  BY <1>4, <1>5, <1>6, <1>7, <1>8

\* While somebody is registered nothing is said; and when the flag is raised
\* main has missed it, or it is up.
LEMMA CurrentPeople ==
    ASSUME CurrentInv, OrderInv, TypeInv,
           CountUp \/ RegisterSave \/ OpenPicture \/ WritePicture \/ RaiseFlag
    PROVE  CurrentInv'
<1>1. CASE CountUp \/ RegisterSave \/ OpenPicture
  <2>1. rec' \in {"register", "open", "write"}
    BY <1>1 DEF CountUp, RegisterSave, OpenPicture, Rec
  <2>2. QED
    BY <2>1 DEF CurrentInv, LastWritten, CurrentOnItsWay, Quiet
<1>2. CASE WritePicture
  <2>1. /\ rec' = "raise" /\ face_id' = face_id
        /\ face_id \in DOMAIN pictures'
        /\ pictures'[face_id] = [of |-> face_id, mine |-> TRUE]
    BY <1>2 DEF WritePicture, Rec
  <2>2. LastWritten' /\ CurrentOnItsWay'
    BY <2>1 DEF LastWritten, CurrentOnItsWay, Current, Quiet
  <2>3. QED
    BY <2>2 DEF CurrentInv
<1>3. CASE RaiseFlag
  <2>1. /\ rec = "raise" /\ rec' = "frame" /\ main' = main
        /\ UNCHANGED people
        /\ flushRegistMat' = 1
        /\ ~ missed' => main \notin {"pictures", "copy", "clear"}
    BY <1>3 DEF RaiseFlag, Rec
  <2>2. LastWritten'
    BY <2>1 DEF CurrentInv, LastWritten, Current, people
  <2>3. CurrentOnItsWay'
    BY <2>1 DEF CurrentOnItsWay
  <2>4. QED
    BY <2>2, <2>3 DEF CurrentInv
<1>4. QED
  BY <1>1, <1>2, <1>3

\* At the start nobody has been registered.
LEMMA CurrentInit == Init => CurrentInv
BY DEF Init, CurrentInv, LastWritten, CurrentOnItsWay

\* What no step of the two threads undoes.
LEMMA CurrentNext == TypeInv /\ OrderInv /\ CurrentInv /\ [Next]_vars => CurrentInv'
<1> SUFFICES ASSUME TypeInv, OrderInv, CurrentInv, [Next]_vars PROVE CurrentInv'
  OBVIOUS
<1>1. CASE \/ ReadFrame \/ SendLock \/ SendMat \/ SendSrc \/ SendUnlock
           \/ FetchLock \/ FetchMat \/ FetchSrc \/ FetchUnlock \/ ReleaseFrame
           \/ LookAtFlag \/ UNCHANGED vars
  BY <1>1, MailboxKept, CurrentKept
<1>2. QED
  BY <1>1, CurrentGallery, CurrentPeople DEF Next, MainStep, RecStep

\* The last person registered is the first of the gallery, in the picture this
\* process wrote, once the flag is down and nobody is being registered; unless
\* the flag was raised between the look at face_id and the clearing of it.
THEOREM GalleryIsCurrent == Spec => []GalleryCurrent
<1>1. CurrentInv => GalleryCurrent
  BY DEF CurrentInv, CurrentOnItsWay, GalleryCurrent, Quiet, Current
<1>2. QED
  BY <1>1, TypeInit, DisplayTypeNext, OrderInit, OrderNext, CurrentInit,
     CurrentNext, PTL DEF Spec
=============================================================================
