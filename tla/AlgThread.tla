----------------------------- MODULE AlgThread -----------------------------
(***************************************************************************)
(* The recognition thread, AlgThread::run.  For ever: take a copy of the   *)
(* last frame, have FaceDemo recognise it, read the text it returns into   *)
(* m_face, and run the waiting room: an unknown face gets one of the       *)
(* slots (faces[]) and, when it has been seen in every frame for Wait and  *)
(* looks at the camera, is registered under the next number, saved, and    *)
(* its picture written.                                                    *)
(*                                                                         *)
(* FaceDemo appears here as what it promises (FaceDemo.tla): an id below   *)
(* IdBound is an unknown face's and any other a registered person's, a     *)
(* face that was reported under an id can be registered under it, and the  *)
(* store has one record for an id.  Its people may come from the file of   *)
(* an earlier process, and its store may be full.                          *)
(*                                                                         *)
(* pc is the place in the body of the loop:                                *)
(*   "fetch"   lines 88-169      "save"     the call of LocalSave          *)
(*   "slots"   170-226           "picture"  imwrite                        *)
(*   "assign"  227-248           "flush"    flushRegistMat = 1             *)
(*   "register"  the call of Register                                      *)
(***************************************************************************)
EXTENDS Integers, FiniteSets, SequencesExt

CONSTANTS
    FaceNum,      \* faces Recognize reports at most, the size of m_face (3)
    NSlots,       \* the size of faces (9)
    Wait,         \* 5000 ms
    IdBound,      \* 10000: ids from here on are registered people's
    RegistryLimit, \* 20000: where they start again at IdBound
    MaxRecords,   \* how many people the store holds
    OldPeople,    \* the people an earlier process may have saved
    NameBase,     \* 10000: face_id starts here
    UnknownId,    \* the ids FaceDemo gives to unknown faces
    EyeX,         \* where the first eye may be: a number from 0 to the width
    IntHalf,      \* 2^31: an int holds -IntHalf .. IntHalf - 1
    StartTime,    \* the clock when the process starts, in milliseconds
    Step,         \* bound: by how much the clock may change between frames
    MinTime,      \* bounds: on the clock
    MaxTime,
    MaxNames      \* bound: on face_id

ASSUME SizesAssumption ==
    /\ FaceNum \in 1..3
    /\ {NSlots, Wait} \subseteq Nat \ {0}
    /\ {IdBound, NameBase, MinTime, MaxTime, MaxNames} \subseteq Nat
    /\ IntHalf \in Nat \ {0}
    /\ StartTime \in MinTime..MaxTime
    /\ UnknownId \cup EyeX \subseteq 0..(IdBound - 1)
    /\ Step \subseteq Int

\* The limit is far below what an int holds, and a face can hold two slots.
ASSUME SlotsAssumption ==
    /\ Wait < IntHalf
    /\ NSlots > 2 * (FaceNum - 1)

RegistryId == IdBound..(RegistryLimit - 1)

ASSUME RegistryAssumption ==
    /\ RegistryLimit \in Nat /\ IdBound < RegistryLimit
    /\ MaxRecords \in Nat \ {0}

\* The file holds what a store has held, and names are numbers.
ASSUME OldPeopleAssumption ==
    \A old \in OldPeople :
        /\ DOMAIN old \subseteq RegistryId
        /\ Cardinality(DOMAIN old) <= MaxRecords
        /\ old \in [DOMAIN old -> Nat]

VARIABLES
    pc,
    i, j,            \* the slot the first loop is at, the face a loop is at
    m_face,          \* the faces in the result, as run has parsed them
    reported,        \* the ids the windows of this frame have in FaceDemo
    clock,           \* the milliseconds since 1970
    curtime,         \* the same as run has it, in an int
    faces,           \* the slots: id, capTime, lasttime
    face_id,         \* the last number given as a name
    people,          \* FaceDemo's records: the name of each id in the store
    known,           \* the ids FaceDemo's verifier may recognise a face as
    register_id,     \* the last registry id given
    saved,           \* the file: the name of each id in it
    pictures,        \* the ./faces/<name>.png this process has written
    flushRegistMat,
    since,           \* history: when an id began to be in every result
    newcomers,       \* history: the ids whose record this process has stored
    fileFailed       \* history: the file could not be opened the last time

loop   == <<pc, i, j>>
frame  == <<m_face, reported, clock, curtime, since>>
tables == <<people, known, register_id, newcomers>>
file   == <<saved, fileFailed>>
person == <<face_id, tables, file, pictures, flushRegistMat>>
vars   == <<loop, frame, faces, person>>

Free == -10          \* the lasttime of a slot nobody waits in

Slot == 1..NSlots

Int32 == -IntHalf..(IntHalf - 1)

\* What an int holds of a number: the rest modulo 2^32.  The milliseconds
\* since 1970 left its range long ago, and go round every 49 days.
ToInt(n) == ((n + IntHalf) % (2 * IntHalf)) - IntHalf

\* A face in the result: the id of its title, whether it looks at the camera
\* (the eyes are far enough apart, FaceAngle), and whether it has a title.
Reported == [id : Nat, frontal : BOOLEAN, titled : BOOLEAN]
Parsed   == [id : UnknownId \cup EyeX \cup {0} \cup known, frontal : BOOLEAN]

TypeOK ==
    /\ pc \in {"fetch", "slots", "register", "save", "picture",
               "flush", "assign"}
    /\ i \in 0..NSlots
    /\ j \in 0..FaceNum
    /\ m_face \in Seq(Parsed) /\ Len(m_face) <= FaceNum
    /\ reported \subseteq Nat
    /\ clock \in MinTime..MaxTime
    /\ curtime \in Int32
    /\ faces \in [Slot -> [id : Nat \cup {-1}, capTime : Int32,
                           lasttime : {Free} \cup Nat]]
    /\ face_id \in Nat
    /\ register_id \in RegistryId
    /\ known \subseteq RegistryId
    /\ DOMAIN people \subseteq known /\ people \in [DOMAIN people -> Nat]
    /\ Cardinality(DOMAIN people) <= MaxRecords
    /\ DOMAIN saved \subseteq RegistryId /\ saved \in [DOMAIN saved -> Nat]
    /\ pictures \subseteq Nat
    /\ flushRegistMat \in {0, 1}
    /\ DOMAIN since \subseteq Nat
    /\ newcomers \subseteq DOMAIN people
    /\ fileFailed \in BOOLEAN

\* The people of the file have been loaded, if it could be opened; run.sh may
\* have removed it before.  The counts of names and of ids start again.
Init ==
    /\ pc = "fetch"
    /\ i = 0 /\ j = 0
    /\ m_face = << >>
    /\ reported = {}
    /\ clock = StartTime
    /\ curtime = ToInt(StartTime)
    /\ faces = [s \in Slot |-> [id |-> -1, capTime |-> 0, lasttime |-> 0]]
    /\ face_id = NameBase
    /\ saved \in OldPeople \cup {<< >>}
    /\ fileFailed \in BOOLEAN
    /\ people = IF fileFailed THEN << >> ELSE saved
    /\ known = DOMAIN people
    /\ register_id = IdBound
    /\ pictures = {}
    /\ flushRegistMat = 0
    /\ since = << >>
    /\ newcomers = {}
-----------------------------------------------------------------------------
(* A frame *)

Ids(seq) == { seq[k].id : k \in DOMAIN seq }

\* The text is read by counting its words, two of which are the title's.  A
\* face without a title is two words short, and everything from there on is
\* read two words too late.
Shift(shown, k) == Cardinality({ m \in 1..k : ~ shown[m].titled })

\* What face k of the text may be read as.  Two words late the id is a comma,
\* which makes 0, and four words late the coordinate of an eye; the eyes are
\* 0 and so not wide apart; six words late they are other landmarks.
Readings(shown, k) ==
    CASE Shift(shown, k) = 0 -> {[id |-> shown[k].id, frontal |-> shown[k].frontal]}
      [] Shift(shown, k) = 1 -> {[id |-> 0, frontal |-> FALSE]}
      [] Shift(shown, k) = 2 -> [id : EyeX, frontal : {FALSE}]
      [] Shift(shown, k) = 3 -> [id : {0}, frontal : BOOLEAN]

\* A frame with whoever is in it, and the clock once it has been read.  With
\* no new frame from the camera the last one is taken again.  (Bound: once
\* the names have run out the frames are empty.)
Recognize(shown) ==
    /\ pc = "fetch"
    /\ face_id < NameBase + MaxNames \/ shown = << >>
    /\ m_face' \in { read \in [DOMAIN shown -> Parsed] :
                      \A k \in DOMAIN shown : read[k] \in Readings(shown, k) }
    /\ reported' = Ids(shown)
    /\ \E d \in Step :
         /\ clock + d \in MinTime..MaxTime
         /\ clock' = clock + d
         /\ curtime' = ToInt(clock + d)
         /\ since' = [id \in Ids(m_face') |->
                        IF id \in DOMAIN since THEN since[id] ELSE clock + d]
    /\ pc' = "slots" /\ i' = 0 /\ j' = 0
    /\ UNCHANGED <<faces, person>>

RecognizeSome ==
    \E n \in 0..FaceNum :
      \E shown \in [1..n -> [id : UnknownId \cup known,
                             frontal : BOOLEAN, titled : BOOLEAN]] :
        Recognize(shown)

-----------------------------------------------------------------------------
(* The loop on the slots, and in it the loop on the faces of the frame.    *)
(* Turns of them that do nothing are not steps: i and j go straight to the *)
(* next slot somebody waits in and to the next face that is its.           *)

SetLasttime(s, left) == faces' = [faces EXCEPT ![s].lasttime = left]

Waiting(s) == faces[s].lasttime >= 0

LaterSlots == { s \in Slot : s > i /\ Waiting(s) }

LaterFaces == { k \in DOMAIN m_face : k > j /\ i \in Slot /\ faces[i].id = m_face[k].id }

\* Deviation: a frame without faces leaves the slots as they are.
EnterSlot_NotWhenEmpty ==
    /\ pc = "slots"
    /\ LaterFaces = {}
    /\ LaterSlots # {}
    /\ i' = Min(LaterSlots)
    /\ j' = 0
    /\ IF m_face = << >> THEN UNCHANGED faces ELSE SetLasttime(Min(LaterSlots), Free)
    /\ UNCHANGED <<pc, frame, person>>

\* The next slot is given up, unless its face is then found in the frame.
EnterSlot ==
    /\ pc = "slots"
    /\ LaterFaces = {}
    /\ LaterSlots # {}
    /\ i' = Min(LaterSlots)
    /\ j' = 0
    /\ SetLasttime(Min(LaterSlots), Free)
    /\ UNCHANGED <<pc, frame, person>>

AtItsFace ==
    /\ pc = "slots"
    /\ LaterFaces # {}
    /\ j' = Min(LaterFaces)

\* Deviation: the limit is doubled.
Left_Doubled == ToInt(faces[i].capTime + 2 * Wait - curtime)

\* How much longer the face of slot i has to wait, in the arithmetic of an
\* int that goes round (which the language leaves open and the machine does).
Left == ToInt(faces[i].capTime + Wait - curtime)

LooksAway ==
    /\ AtItsFace
    /\ ~ m_face[j'].frontal
    /\ SetLasttime(i, Wait)
    /\ UNCHANGED <<pc, i, frame, person>>

StillWaits ==
    /\ AtItsFace
    /\ m_face[j'].frontal
    /\ Left >= 0
    /\ SetLasttime(i, Left)
    /\ UNCHANGED <<pc, i, frame, person>>

\* Deviation: the slot is not emptied after the registration.
HasWaited_SlotStays ==
    /\ AtItsFace
    /\ m_face[j'].frontal
    /\ Left < 0
    /\ face_id' = face_id + 1
    /\ SetLasttime(i, Left)
    /\ pc' = "register"
    /\ UNCHANGED <<i, frame, tables, file, pictures, flushRegistMat>>

\* Deviation: the next person gets the name of the last.
HasWaited_SameName ==
    /\ AtItsFace
    /\ m_face[j'].frontal
    /\ Left < 0
    /\ face_id' = IF newcomers = {} THEN face_id + 1 ELSE face_id
    /\ SetLasttime(i, Free)
    /\ pc' = "register"
    /\ UNCHANGED <<i, frame, tables, file, pictures, flushRegistMat>>

\* The number is counted up before Register is called, and stays so whatever
\* it returns.  (The slot is emptied here; the code does it a few lines down,
\* and nobody looks at it before.)
HasWaited ==
    /\ AtItsFace
    /\ m_face[j'].frontal
    /\ Left < 0
    /\ face_id' = face_id + 1
    /\ SetLasttime(i, Free)
    /\ pc' = "register"
    /\ UNCHANGED <<i, frame, tables, file, pictures, flushRegistMat>>

-----------------------------------------------------------------------------
(* Registering the face of slot i *)

\* get_new_registry_id
NewId ==
    IF register_id + 1 = RegistryLimit THEN IdBound ELSE register_id + 1

\* insert_new_record: a full store takes nobody, not even in the place of the
\* person who had the id.
StorePerson(id, name) ==
    IF Cardinality(DOMAIN people) = MaxRecords
    THEN UNCHANGED <<people, newcomers>>
    ELSE /\ people' = [p \in DOMAIN people \cup {id} |->
                         IF p = id THEN name ELSE people[p]]
         /\ newcomers' = newcomers \cup {id}

\* What insert_new_record returns is not looked at: Register returns 0 and
\* the verifier has the face, whether or not the store took the person.
RegisterSucceeds ==
    /\ pc = "register"
    /\ faces[i].id \in reported
    /\ register_id' = NewId
    /\ StorePerson(NewId, face_id)
    /\ known' = known \cup {NewId}
    /\ pc' = "save"
    /\ UNCHANGED <<i, j, frame, faces, face_id, file, pictures, flushRegistMat>>

\* No window has the id (-3), or there is no feature (-1).
RegisterFails ==
    /\ pc = "register"
    /\ pc' = "picture"
    /\ UNCHANGED <<i, j, frame, faces, person>>

\* LocalSave writes everyone in the store, or the file cannot be opened; what
\* it returns is not looked at.
SaveAll ==
    /\ pc = "save"
    /\ fileFailed' \in BOOLEAN
    /\ saved' = IF fileFailed' THEN saved ELSE people
    /\ pc' = "picture"
    /\ UNCHANGED <<i, j, frame, faces, face_id, tables, pictures, flushRegistMat>>

\* The picture is written whether or not Register succeeded.
WritePicture ==
    /\ pc = "picture"
    /\ pictures' = pictures \cup {face_id}
    /\ pc' = "flush"
    /\ UNCHANGED <<i, j, frame, faces, face_id, tables, file, flushRegistMat>>

RaiseFlush ==
    /\ pc = "flush"
    /\ flushRegistMat' = 1
    /\ pc' = "slots"
    /\ UNCHANGED <<i, j, frame, faces, face_id, tables, file, pictures>>

EndSlots ==
    /\ pc = "slots"
    /\ LaterFaces = {}
    /\ LaterSlots = {}
    /\ pc' = "assign" /\ i' = 0 /\ j' = 0
    /\ UNCHANGED <<frame, faces, person>>

-----------------------------------------------------------------------------
(* The loop that gives slots to the faces that have none *)

\* Deviation: a slot that was given up still counts as the face's.
HasSlot_EvenFree(id) == \E s \in Slot : faces[s].id = id

\* A slot counts as the face's while it has time left.
HasSlot(id) == \E s \in Slot : faces[s].lasttime > 0 /\ faces[s].id = id

FreeSlots == { s \in Slot : faces[s].lasttime = Free }

\* Deviation: whether the face has a slot already is not looked at.
Slotless_All == { k \in DOMAIN m_face : k > j /\ m_face[k].id < IdBound }

\* The faces still to come that get a slot if there is a free one.
Slotless == { k \in DOMAIN m_face : /\ k > j
                                    /\ m_face[k].id < IdBound
                                    /\ ~ HasSlot(m_face[k].id) }

\* Deviation: the slot keeps the time of whoever had it before.
GiveSlot_OldTime ==
    /\ pc = "assign"
    /\ Slotless # {}
    /\ FreeSlots # {}
    /\ j' = Min(Slotless)
    /\ faces' = [faces EXCEPT ![Min(FreeSlots)].id = m_face[j'].id,
                              ![Min(FreeSlots)].lasttime = Wait]
    /\ UNCHANGED <<pc, i, frame, person>>

GiveSlot ==
    /\ pc = "assign"
    /\ Slotless # {}
    /\ FreeSlots # {}
    /\ j' = Min(Slotless)
    /\ faces' = [faces EXCEPT ![Min(FreeSlots)] =
                   [id |-> m_face[j'].id, capTime |-> curtime, lasttime |-> Wait]]
    /\ UNCHANGED <<pc, i, frame, person>>

EndFrame ==
    /\ pc = "assign"
    /\ Slotless = {} \/ FreeSlots = {}
    /\ pc' = "fetch" /\ i' = 0 /\ j' = 0
    /\ UNCHANGED <<frame, faces, person>>

-----------------------------------------------------------------------------

Next ==
    \/ RecognizeSome
    \/ EnterSlot \/ LooksAway \/ StillWaits \/ HasWaited \/ EndSlots
    \/ RegisterSucceeds \/ RegisterFails \/ SaveAll \/ WritePicture \/ RaiseFlush
    \/ GiveSlot \/ EndFrame

Spec == Init /\ [][Next]_vars

-----------------------------------------------------------------------------
(* What must hold *)

\* No slot is kept for a face that has gone: after a frame whoever waits was
\* in it.  Otherwise the slots would leak away, and a new face that was given
\* an old unknown id would inherit the time another has waited.  (-1 is the id
\* the slots have before the first frame.)
NoSlotLeaked ==
    pc = "fetch" =>
        \A s \in Slot : Waiting(s) => faces[s].id \in Ids(m_face) \cup {-1}

\* After a frame every unknown face in it has a slot, so nobody waits in vain
\* because all the slots are taken.
EveryUnknownFaceWaits ==
    pc = "fetch" =>
        \A k \in DOMAIN m_face :
            m_face[k].id < IdBound =>
                \E s \in Slot : Waiting(s) /\ faces[s].id = m_face[k].id

\* A slot is at most the second of its face: one that comes to exactly 0 no
\* longer counts, and a second one is given beside it.
AtMostTwoSlots ==
    \A id \in UnknownId :
        Cardinality({ s \in Slot : Waiting(s) /\ faces[s].id = id }) <= 2

\* Nobody is registered in passing: when Register is called the face has been
\* in every frame for longer than Wait.
RegisteredAfterWaiting ==
    pc = "register" =>
        /\ faces[i].id \in DOMAIN since
        /\ since[faces[i].id] + Wait < clock

\* Nobody waits too long either: after a frame in which all faces look here,
\* no slot is left whose time is up, so its face has been through Register.
NobodyWaitsTooLong ==
    pc = "fetch" /\ (\A k \in DOMAIN m_face : m_face[k].frontal) =>
        \A s \in Slot : Waiting(s) /\ faces[s].id # -1 =>
            \E t \in (clock - Wait)..MaxTime : faces[s].capTime = ToInt(t)

\* Whom this process has registered and stored has a name of his own among
\* them, also when the registry ids go round and a newcomer replaces one of
\* them, and before the next frame his picture is there.  And what the file
\* holds before the next frame is the store, with the people loaded from it,
\* unless it could not be opened the last time.  (A newcomer may have the name
\* of somebody the process has loaded.)
PeopleComplete ==
    /\ \A p, q \in newcomers : people[p] = people[q] => p = q
    /\ pc = "fetch" => /\ fileFailed \/ saved = people
                       /\ \A p \in newcomers : people[p] \in pictures
=============================================================================
